------------------------------ MODULE GradeViews ------------------------------
(***************************************************************************)
(* What callers are shown: get and list of assessments, grades and         *)
(* enrollments, and the gradebook of a class.  Each view is what it        *)
(* answers in one committed state; Refused is a 403 or a 404.              *)
(***************************************************************************)
EXTENDS Grades

\* Whoever get_current_user lets through, with the record linked to them.
Callers == [role: {"admin"}, mine: {{}}] \cup [role: {"teacher"}, mine: {{}} \cup {{t} : t \in Teachers}]
             \cup [role: {"student"}, mine: {{}} \cup {{s} : s \in Students}]

\* A teacher's account without a record owns no class.
OwnsAs(u, c) == u.role = "teacher" => u.mine = {taught[c]}

Refused == [refused |-> TRUE]
Shown(rows) == [rows |-> rows]

\* ClassRepository.list_by_teacher_id
OwnedIds(u) == {c \in Classes : taught[c] \in u.mine}

\* The class_id filter: none, or one class.
Filters == {{}} \cup {{c} : c \in Classes}
Kept(filter, c) == filter = {} \/ c \in filter

\* What a teacher lists of the rows of each class: their own classes', and
\* only a filter of theirs.
OfTeacher(u, filter, rows) ==
    IF u.mine # {} /\ ~filter \subseteq OwnedIds(u) THEN Refused
    ELSE Shown(UNION {rows[c] : c \in {k \in OwnedIds(u) : Kept(filter, k)}})

-----------------------------------------------------------------------------

GetAssessment(u, a) == a \in DOMAIN assessment /\ OwnsAs(u, assessment[a].class)

ListAssessments(u, filter) ==
    IF u.role = "teacher"
      THEN OfTeacher(u, filter, [c \in Classes |-> {a \in DOMAIN assessment : assessment[a].class = c}])
      ELSE Shown({a \in DOMAIN assessment : Kept(filter, assessment[a].class)})

-----------------------------------------------------------------------------

ClassOf(g) == assessment[grade[g].assessment].class

GetGrade(u, g) ==
    /\ g \in DOMAIN grade
    /\ u.role = "student" => u.mine = {grade[g].student}
    /\ OwnsAs(u, ClassOf(g))

ListGrades(u, filter) ==
    IF u.role = "teacher"
      THEN OfTeacher(u, filter, [c \in Classes |-> {g \in DOMAIN grade : ClassOf(g) = c}])
      ELSE Shown({g \in DOMAIN grade : /\ Kept(filter, ClassOf(g))
                                       /\ u.role = "student" => grade[g].student \in u.mine})

-----------------------------------------------------------------------------

\* Enrollments go by their unique key <<student, class>>.
GetEnrollment(u, e) ==
    /\ e \in DOMAIN enrolled
    /\ u.role = "student" => u.mine = {e[1]}
    /\ OwnsAs(u, e[2])

ListEnrollments(u, filter) ==
    IF u.role = "teacher"
      THEN OfTeacher(u, filter, [c \in Classes |-> {e \in DOMAIN enrolled : e[2] = c}])
      ELSE Shown({e \in DOMAIN enrolled : /\ Kept(filter, e[2])
                                          /\ u.role = "student" => e[1] \in u.mine})

-----------------------------------------------------------------------------

\* Mutant: whoever has ever been on the list.
EverActive(c) == {s \in Students : <<s, c>> \in DOMAIN enrolled}

Active(c) == {s \in Students : <<s, c>> \in DOMAIN enrolled /\ enrolled[<<s, c>>] = "active"}

\* A cell is the grade, if there is one, of a student active in the class.
Gradebook(u, c) ==
    LET columns == {a \in DOMAIN assessment : assessment[a].class = c}
        students == Active(c)
        grades == {g \in DOMAIN grade : grade[g].assessment \in columns}
        cell(s, a) == {g \in grades : grade[g].student = s /\ grade[g].assessment = a}
    IN  IF u.role = "student" \/ ~OwnsAs(u, c) THEN Refused
        ELSE Shown([s \in students |-> [a \in columns |-> cell(s, a)]])

-----------------------------------------------------------------------------
(* What must hold.                                                         *)

\* A list with a class filter, or without, is what get would show one by one;
\* a list that is refused hides nothing get shows.
Agrees(shown, gettable, class(_), filter) ==
    LET wanted == {x \in gettable : Kept(filter, class(x))}
    IN  shown = (IF shown = Refused THEN Refused ELSE Shown(wanted)) /\ (shown = Refused => wanted = {})

\* list and get of the three kinds decide in different ways (by a set of
\* owned classes, a join or the caller's own id; row by row) and agree for
\* every caller, linked to a record or not.  A student without a record
\* lists nothing and gets nothing.
ListsAgreeWithGet ==
    \A u \in Callers, f \in Filters :
        /\ Agrees(ListAssessments(u, f), {a \in Assessments : GetAssessment(u, a)},
                  LAMBDA a : assessment[a].class, f)
        /\ Agrees(ListGrades(u, f), {g \in GradeIds : GetGrade(u, g)}, ClassOf, f)
        /\ Agrees(ListEnrollments(u, f), {e \in Students \X Classes : GetEnrollment(u, e)},
                  LAMBDA e : e[2], f)

\* A gradebook shows grades its reader can get, one at most in a cell, and
\* every grade of the class's list whose student is still active.
GradebookIsTheList ==
    \A u \in Callers, c \in Classes :
        LET book == Gradebook(u, c)
            cells == UNION {{book.rows[s][a] : a \in DOMAIN book.rows[s]} : s \in DOMAIN book.rows}
        IN  book # Refused =>
              /\ \A x \in cells : \A g, h \in x : g = h
              /\ UNION cells = {g \in ListGrades(u, {c}).rows :
                                     \E e \in DOMAIN enrolled : e = <<grade[g].student, c>> /\ enrolled[e] = "active"}

\* The three ways to look at grades agree.
ViewsAgree == ListsAgreeWithGet /\ GradebookIsTheList
=============================================================================
