-------------------------------- MODULE Grades --------------------------------
(***************************************************************************)
(* AssessmentService's and GradeService's writes, against the changes of a *)
(* class's teacher, of enrollments and of the assessments themselves.      *)
(*                                                                         *)
(* Nothing is locked between a check and the write it allows.  A refusal,  *)
(* like a crash, is Abort.  Grades are never deleted.                      *)
(***************************************************************************)
EXTENDS Naturals

CONSTANTS
    Students, Classes, Teachers,
    Assessments,    \* ids of assessments
    GradeIds,       \* ids of grades
    Scores,         \* the scores and maxima that bodies hold
    Requests        \* HTTP requests that can be under way at once

VARIABLES
    taught,         \* classes: teacher_id
    enrolled,       \* enrollments: the status of each row, by its unique key
    assessment,     \* assessments: the row of each id there is
    grade,          \* grades: the row of each id there is
    past,           \* history, below
    work            \* what each request has read

vars == <<taught, enrolled, assessment, grade, past, work>>

-----------------------------------------------------------------------------

Assessment == [class: Classes, max: Scores \ {0}]
Grade == [assessment: Assessments, student: Students, score: Scores]

\* Who may write: an admin, for whom this is empty, or the teacher linked to
\* the caller's account.  A teacher's account without a record is refused.
Writers == {{}} \cup {{t} : t \in Teachers}

\* The columns an edit sets, where they differ from the row it read.
Edit == [class: Classes] \cup [max: Scores \ {0}] \cup Assessment

\* given: ids used, never given twice.  lowered, moved: assessments whose
\* maximum or class was edited.  held: who has taught which class.
Past == [given: SUBSET Assessments, lowered: SUBSET Assessments,
         moved: SUBSET Assessments, held: SUBSET (Teachers \X Classes)]

Idle == [pc |-> "idle"]
Work ==
    {Idle}
      \cup [pc: {"grade_read"}, by: Writers, class: Classes, max: Scores, row: Grade]
      \cup [pc: {"grade_owned", "grade_checked"}, by: Writers, class: Classes, row: Grade]
      \cup [pc: {"regrade_read"}, by: Writers, class: Classes, max: Scores, id: GradeIds, score: Scores]
      \cup [pc: {"regrade_checked"}, by: Writers, class: Classes, id: GradeIds, score: Scores]
      \cup [pc: {"create_checked"}, by: Writers, class: Classes, row: Assessment]
      \cup [pc: {"edit_read", "edit_checked"}, by: Writers, class: Classes, id: Assessments, set: Edit]
      \cup [pc: {"delete_read"}, by: Writers, class: Classes, id: Assessments]

TypeOK ==
    /\ taught \in [Classes -> Teachers]
    /\ DOMAIN enrolled \subseteq Students \X Classes
    /\ \A e \in DOMAIN enrolled : enrolled[e] \in {"active", "dropped"}
    /\ DOMAIN assessment \subseteq Assessments
    /\ \A a \in DOMAIN assessment : assessment[a] \in Assessment
    /\ DOMAIN grade \subseteq GradeIds
    /\ \A g \in DOMAIN grade : grade[g] \in Grade /\ grade[g].assessment \in DOMAIN assessment
    /\ past \in Past
    /\ work \in [Requests -> Work]

Become(r, w) == work' = [work EXCEPT ![r] = w]
Insert(f, i, row) == [j \in DOMAIN f \cup {i} |-> IF j = i THEN row ELSE f[j]]

\* _check_owns_class: an admin need not.
Owns(by, c) == by \subseteq {taught[c]}

Graded(a, s) == \E g \in DOMAIN grade : grade[g].assessment = a /\ grade[g].student = s

-----------------------------------------------------------------------------
(* GradeService.create                                                     *)

GradeRead(r, by, row) ==
    /\ work[r] = Idle
    /\ row.assessment \in DOMAIN assessment
    /\ LET a == assessment[row.assessment]
       IN  Become(r, [pc |-> "grade_read", by |-> by, class |-> a.class, max |-> a.max, row |-> row])
    /\ UNCHANGED <<taught, enrolled, assessment, grade, past>>

\* The class's teacher is read now, its id and the maximum were read before.
GradeOwned(r) ==
    LET w == work[r]
    IN  /\ w.pc = "grade_read"
        /\ Owns(w.by, w.class)
        /\ w.row.score <= w.max
        /\ Become(r, [pc |-> "grade_owned", by |-> w.by, class |-> w.class, row |-> w.row])
        /\ UNCHANGED <<taught, enrolled, assessment, grade, past>>

\* Mutant: any grade of an assessment there is.
GradeAnyone(r) ==
    LET w == work[r]
    IN  /\ w.pc = "grade_owned"
        /\ ~Graded(w.row.assessment, w.row.student)
        /\ Become(r, [w EXCEPT !.pc = "grade_checked"])
        /\ UNCHANGED <<taught, enrolled, assessment, grade, past>>

\* Active in the class the assessment was read with, and not graded yet.
GradeCheck(r) ==
    LET w == work[r]
        e == <<w.row.student, w.class>>
    IN  /\ w.pc = "grade_owned"
        /\ e \in DOMAIN enrolled /\ enrolled[e] = "active"
        /\ ~Graded(w.row.assessment, w.row.student)
        /\ Become(r, [w EXCEPT !.pc = "grade_checked"])
        /\ UNCHANGED <<taught, enrolled, assessment, grade, past>>

\* The foreign key and the unique constraint.
GradeCommit(r, g) ==
    LET w == work[r]
    IN  /\ w.pc = "grade_checked"
        /\ g \in GradeIds \ DOMAIN grade
        /\ w.row.assessment \in DOMAIN assessment
        /\ ~Graded(w.row.assessment, w.row.student)
        /\ grade' = Insert(grade, g, w.row)
        /\ Become(r, Idle)
        /\ UNCHANGED <<taught, enrolled, assessment, past>>

-----------------------------------------------------------------------------
(* GradeService.update                                                     *)

RegradeRead(r, by, g, x) ==
    /\ work[r] = Idle
    /\ g \in DOMAIN grade
    /\ LET a == assessment[grade[g].assessment]
       IN  Become(r, [pc |-> "regrade_read", by |-> by, class |-> a.class, max |-> a.max, id |-> g, score |-> x])
    /\ UNCHANGED <<taught, enrolled, assessment, grade, past>>

RegradeCheck(r) ==
    LET w == work[r]
    IN  /\ w.pc = "regrade_read"
        /\ Owns(w.by, w.class)
        /\ w.score <= w.max
        /\ Become(r, [pc |-> "regrade_checked", by |-> w.by, class |-> w.class, id |-> w.id, score |-> w.score])
        /\ UNCHANGED <<taught, enrolled, assessment, grade, past>>

RegradeCommit(r) ==
    LET w == work[r]
    IN  /\ w.pc = "regrade_checked"
        /\ grade' = [grade EXCEPT ![w.id].score = w.score]
        /\ Become(r, Idle)
        /\ UNCHANGED <<taught, enrolled, assessment, past>>

-----------------------------------------------------------------------------
(* AssessmentService.create, update and delete                             *)

CreateCheck(r, by, row) ==
    /\ work[r] = Idle
    /\ Owns(by, row.class)
    /\ Become(r, [pc |-> "create_checked", by |-> by, class |-> row.class, row |-> row])
    /\ UNCHANGED <<taught, enrolled, assessment, grade, past>>

CreateCommit(r, a) ==
    LET w == work[r]
    IN  /\ w.pc = "create_checked"
        /\ a \in Assessments \ past.given
        /\ assessment' = Insert(assessment, a, w.row)
        /\ past' = [past EXCEPT !.given = @ \cup {a}]
        /\ Become(r, Idle)
        /\ UNCHANGED <<taught, enrolled, grade>>

\* The row, and whether the caller teaches the class it is in now.
EditRead(r, by, a, set) ==
    /\ work[r] = Idle
    /\ a \in DOMAIN assessment
    /\ Owns(by, assessment[a].class)
    /\ \A f \in DOMAIN set : set[f] # assessment[a][f]
    /\ Become(r, [pc |-> "edit_read", by |-> by, class |-> assessment[a].class, id |-> a, set |-> set])
    /\ UNCHANGED <<taught, enrolled, assessment, grade, past>>

\* Mutant: the class it moves to may be anyone's.
EditAnywhere(r) ==
    LET w == work[r]
    IN  /\ w.pc = "edit_read"
        /\ Become(r, [w EXCEPT !.pc = "edit_checked"])
        /\ UNCHANGED <<taught, enrolled, assessment, grade, past>>

\* Whether the caller teaches the class it is moved to.
EditCheck(r) ==
    LET w == work[r]
    IN  /\ w.pc = "edit_read"
        /\ "class" \in DOMAIN w.set => Owns(w.by, w.set.class)
        /\ Become(r, [w EXCEPT !.pc = "edit_checked"])
        /\ UNCHANGED <<taught, enrolled, assessment, grade, past>>

\* Neither the grades there are nor the students' enrollments are looked at.
EditCommit(r) ==
    LET w == work[r]
        old == assessment[w.id]
        row == [f \in DOMAIN old |-> IF f \in DOMAIN w.set THEN w.set[f] ELSE old[f]]
    IN  /\ w.pc = "edit_checked"
        /\ w.id \in DOMAIN assessment
        /\ assessment' = [assessment EXCEPT ![w.id] = row]
        /\ past' = [past EXCEPT !.lowered = IF row.max < old.max THEN @ \cup {w.id} ELSE @,
                                !.moved = IF row.class # old.class THEN @ \cup {w.id} ELSE @]
        /\ Become(r, Idle)
        /\ UNCHANGED <<taught, enrolled, grade>>

DeleteRead(r, by, a) ==
    /\ work[r] = Idle
    /\ a \in DOMAIN assessment
    /\ Owns(by, assessment[a].class)
    /\ Become(r, [pc |-> "delete_read", by |-> by, class |-> assessment[a].class, id |-> a])
    /\ UNCHANGED <<taught, enrolled, assessment, grade, past>>

\* Mutant: the grades' foreign key is not there.
DeleteUnrestricted(r) ==
    LET w == work[r]
    IN  /\ w.pc = "delete_read"
        /\ w.id \in DOMAIN assessment
        /\ assessment' = [a \in DOMAIN assessment \ {w.id} |-> assessment[a]]
        /\ Become(r, Idle)
        /\ UNCHANGED <<taught, enrolled, grade, past>>

\* The grades' foreign key is RESTRICT.
DeleteCommit(r) ==
    LET w == work[r]
    IN  /\ w.pc = "delete_read"
        /\ w.id \in DOMAIN assessment
        /\ \A g \in DOMAIN grade : grade[g].assessment # w.id
        /\ assessment' = [a \in DOMAIN assessment \ {w.id} |-> assessment[a]]
        /\ Become(r, Idle)
        /\ UNCHANGED <<taught, enrolled, grade, past>>

-----------------------------------------------------------------------------
(* What other services change meanwhile.                                   *)

\* ClassService.update
Reassign(c, t) ==
    /\ taught[c] # t
    /\ taught' = [taught EXCEPT ![c] = t]
    /\ past' = [past EXCEPT !.held = @ \cup {<<t, c>>}]
    /\ UNCHANGED <<enrolled, assessment, grade, work>>

\* EnrollmentService.enroll; Roster has its conditions.
Enroll(s, c) ==
    /\ <<s, c>> \notin DOMAIN enrolled
    /\ enrolled' = Insert(enrolled, <<s, c>>, "active")
    /\ UNCHANGED <<taught, assessment, grade, past, work>>

\* EnrollmentService.drop
Drop(s, c) ==
    /\ <<s, c>> \in DOMAIN enrolled
    /\ enrolled[<<s, c>>] = "active"
    /\ enrolled' = [enrolled EXCEPT ![<<s, c>>] = "dropped"]
    /\ UNCHANGED <<taught, assessment, grade, past, work>>

Abort(r) ==
    /\ work[r] # Idle
    /\ Become(r, Idle)
    /\ UNCHANGED <<taught, enrolled, assessment, grade, past>>

Init ==
    /\ taught \in [Classes -> Teachers]
    /\ enrolled = [e \in {} |-> e]
    /\ assessment = [a \in {} |-> a]
    /\ grade = [g \in {} |-> g]
    /\ past = [given |-> {}, lowered |-> {}, moved |-> {}, held |-> {<<taught[c], c>> : c \in Classes}]
    /\ work = [r \in Requests |-> Idle]

Next ==
    \/ \E r \in Requests, by \in Writers :
          \/ \E row \in Grade : GradeRead(r, by, row)
          \/ \E g \in GradeIds, x \in Scores : RegradeRead(r, by, g, x)
          \/ \E row \in Assessment : CreateCheck(r, by, row)
          \/ \E a \in Assessments : DeleteRead(r, by, a) \/ \E set \in Edit : EditRead(r, by, a, set)
    \/ \E r \in Requests :
          \/ GradeOwned(r) \/ GradeCheck(r) \/ \E g \in GradeIds : GradeCommit(r, g)
          \/ RegradeCheck(r) \/ RegradeCommit(r)
          \/ EditCheck(r) \/ EditCommit(r) \/ DeleteCommit(r) \/ Abort(r)
          \/ \E a \in Assessments : CreateCommit(r, a)
    \/ \E c \in Classes : \/ \E t \in Teachers : Reassign(c, t)
                          \/ \E s \in Students : Enroll(s, c) \/ Drop(s, c)

Spec == Init /\ [][Next]_vars

-----------------------------------------------------------------------------
(* What must hold.                                                         *)

\* The grades, by their unique key, are a KeyTable: one grade for a student
\* and an assessment, and it stays with them.
GradeTable == INSTANCE KeyTable WITH
    Rows <- GradeIds, Keys <- Assessments \X Students,
    key <- [g \in DOMAIN grade |-> {<<grade[g].assessment, grade[g].student>>}]

OneGradePerStudent == GradeTable!Spec

\* Only an edit that lowers the maximum leaves a score above it, be it the
\* score of a request that had read the old maximum.
ScoreWithinMaximum ==
    \A g \in DOMAIN grade :
        LET a == grade[g].assessment
        IN  a \in past.lowered \/ (a \in DOMAIN assessment /\ grade[g].score <= assessment[a].max)

\* A graded student has been on the class's list, though they may have
\* dropped since: only moving the assessment to another class undoes it.
GradedWereEnrolled ==
    \A g \in DOMAIN grade :
        LET a == grade[g].assessment
        IN  a \in past.moved \/ (a \in DOMAIN assessment /\ <<grade[g].student, assessment[a].class>> \in DOMAIN enrolled)

\* The step writes the row of a, or a grade of a.
Touched(a) ==
    \/ (a \in DOMAIN assessment) # (a \in DOMAIN assessment')
    \/ a \in DOMAIN assessment \cap DOMAIN assessment' /\ assessment'[a] # assessment[a]
    \/ \E g \in DOMAIN grade' :
          grade'[g].assessment = a /\ (g \in DOMAIN grade => grade'[g] # grade[g])

\* a is in another class than the one r read it in: somebody has moved it.
MovedSince(r, a) == a \in past.moved /\ assessment[a].class # work[r].class

\* What a teacher's request writes is, when it is written, in a class that
\* teacher has had, and goes to such a class.  But for an assessment that was
\* moved after the request read it, the ownership checked is that of the class
\* the write lands in.
TeachersWriteAtHome ==
    \A r \in Requests, a \in Assessments :
        work[r] # Idle /\ work'[r] = Idle /\ Touched(a) =>
            LET HasHad(c) == work[r].by \X {c} \subseteq past.held
                stays == a \in DOMAIN assessment /\ assessment'[a].class = assessment[a].class
            IN  /\ a \in DOMAIN assessment => MovedSince(r, a) \/ HasHad(assessment[a].class)
                /\ a \in DOMAIN assessment' => stays \/ HasHad(assessment'[a].class)

\* The rules a grade is entered under outlive the check, but for edits of
\* the assessment.
GradesAreJust == ScoreWithinMaximum /\ GradedWereEnrolled
=============================================================================
