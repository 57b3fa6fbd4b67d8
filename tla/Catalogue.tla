------------------------------ MODULE Catalogue ------------------------------
(***************************************************************************)
(* The rows the rest hangs on: academic years, terms, grade levels,        *)
(* sections, subjects and classes, with the unique constraints and foreign *)
(* keys between them.  Every service looks first (the parents a body names *)
(* are there, the key is free) and writes later; nothing is locked, and    *)
(* the constraints decide.                                                 *)
(*                                                                         *)
(* Dates are AcademicCalendar's.  Capacities, attachment and the rows of   *)
(* students are Roster's.  A refusal, like a crash, is Abort.              *)
(***************************************************************************)
CONSTANTS
    Years, Terms, Levels, Sections, Subjects, Classes, Teachers, \* ids, never given twice
    Values,     \* names, codes and ranks
    Requests    \* HTTP requests that can be under way at once

VARIABLES
    row,        \* the columns of each row there is
    past,       \* ids used
    work        \* what each request has read

vars == <<row, past, work>>

-----------------------------------------------------------------------------

Ids == UNION {Years, Terms, Levels, Sections, Subjects, Classes, Teachers}

\* An id is one table's.
IdsApart ==
    /\ Years \cap UNION {Terms, Levels, Sections, Subjects, Classes, Teachers} = {}
    /\ Terms \cap UNION {Levels, Sections, Subjects, Classes, Teachers} = {}
    /\ Levels \cap UNION {Sections, Subjects, Classes, Teachers} = {}
    /\ Sections \cap UNION {Subjects, Classes, Teachers} = {}
    /\ Subjects \cap UNION {Classes, Teachers} = {}
    /\ Classes \cap Teachers = {}

Optional(S) == {{}} \cup {{x} : x \in S}

\* The columns of each table that a constraint is about.
AcademicYear == [name: Values]
Term         == [name: Values, year: Years]
GradeLevel   == [name: Values, rank: Values]
Section      == [name: Values, level: Levels, year: Years, homeroom: Optional(Teachers)]
Subject      == [code: Values]
Class        == [subject: Subjects, term: Terms, teacher: Teachers]

Columns(i) ==
    CASE i \in Years    -> AcademicYear
      [] i \in Terms    -> Term
      [] i \in Levels   -> GradeLevel
      [] i \in Sections -> Section
      [] i \in Subjects -> Subject
      [] i \in Classes  -> Class
      [] i \in Teachers -> {<<>>}

\* Any of the columns of a class, but not none.
ClassUpdate ==
    Class \cup [subject: Subjects] \cup [term: Terms] \cup [teacher: Teachers]
      \cup [subject: Subjects, term: Terms] \cup [subject: Subjects, teacher: Teachers]
      \cup [term: Terms, teacher: Teachers]

\* What an update may set.  The year of a term and the level and year of a
\* section stay.
Settable(i) ==
    CASE i \in Terms    -> [name: Values]
      [] i \in Levels   -> [name: Values] \cup [rank: Values] \cup GradeLevel
      [] i \in Sections -> [name: Values] \cup [homeroom: Optional(Teachers)]
                             \cup [name: Values, homeroom: Optional(Teachers)]
      [] i \in Classes  -> ClassUpdate
      [] OTHER          -> Columns(i)

\* The unique constraints of a row's table, as the columns they are on.
Unique(i) ==
    CASE i \in Years    -> {{"name"}}
      [] i \in Terms    -> {{"year", "name"}}
      [] i \in Levels   -> {{"name"}, {"rank"}}
      [] i \in Sections -> {{"level", "year", "name"}}
      [] i \in Subjects -> {{"code"}}
      [] OTHER          -> {}

KeysOf(i, r) == {[f \in c |-> r[f]] : c \in Unique(i)}

\* The foreign keys that are NOT NULL: RESTRICT, but for a term's year.
Parents(r) == {r[f] : f \in DOMAIN r \cap {"year", "level", "subject", "term", "teacher"}}
Homeroom(r) == IF "homeroom" \in DOMAIN r THEN r.homeroom ELSE {}

\* Rows of i's table are told from the others' by the columns of their keys.
Taken(i, r) == \E j \in DOMAIN row \ {i} : KeysOf(j, row[j]) \cap KeysOf(i, r) # {} /\ Unique(j) = Unique(i)

Idle == [pc |-> "idle"]
TypeOK ==
    /\ past \subseteq Ids
    /\ DOMAIN row \subseteq past
    /\ \A i \in DOMAIN row : row[i] \in Columns(i)
    /\ DOMAIN work = Requests
    /\ \A r \in Requests :
          \/ work[r] = Idle
          \/ \E i \in Ids : \/ work[r] \in [pc: {"create"}, id: {i}, set: Columns(i)]
                           \/ work[r] \in [pc: {"update"}, id: {i}, set: Settable(i)]

Become(r, w) == work' = [work EXCEPT ![r] = w]

-----------------------------------------------------------------------------
(* What create and update of every service do.                             *)

Create(r, i, new) ==
    /\ work[r] = Idle
    /\ i \notin past
    /\ Parents(new) \cup Homeroom(new) \subseteq DOMAIN row
    /\ ~Taken(i, new)
    /\ Become(r, [pc |-> "create", id |-> i, set |-> new])
    /\ UNCHANGED <<row, past>>

\* A row over which some columns are set.
Write(old, set) == [f \in DOMAIN old |-> IF f \in DOMAIN set THEN set[f] ELSE old[f]]

\* set: the columns that differ from the row as read, which are what the
\* UPDATE writes.
Update(r, i, set) ==
    /\ work[r] = Idle
    /\ i \in DOMAIN row
    /\ \A f \in DOMAIN set : set[f] # row[i][f]
    /\ Parents(set) \cup Homeroom(set) \subseteq DOMAIN row
    /\ ~Taken(i, Write(row[i], set))
    /\ Become(r, [pc |-> "update", id |-> i, set |-> set])
    /\ UNCHANGED <<row, past>>

Wanted(w) == IF w.pc = "create" THEN w.set ELSE Write(row[w.id], w.set)

Put(r, new) ==
    LET i == work[r].id
    IN  /\ row' = [j \in DOMAIN row \cup {i} |-> IF j = i THEN new ELSE row[j]]
        /\ past' = past \cup {i}
        /\ Become(r, Idle)

\* The INSERT or UPDATE, under the constraints and the foreign keys.
Commit(r) ==
    LET w == work[r]
        new == Wanted(w)
    IN  /\ w # Idle
        /\ w.pc = "create" => w.id \notin past
        /\ w.pc = "update" => w.id \in DOMAIN row
        /\ ~Taken(w.id, new)
        /\ Parents(new) \cup Homeroom(new) \subseteq DOMAIN row
        /\ Put(r, new)

\* Mutant: every foreign key cascades, once.
DeleteCascades(i) ==
    LET gone == {i} \cup {j \in DOMAIN row : i \in Parents(row[j])}
    IN  /\ i \in DOMAIN row
        /\ \A j \in DOMAIN row \ gone : Parents(row[j]) \cap gone = {}
        /\ row' = [j \in DOMAIN row \ gone |->
                      IF j \in Sections THEN [row[j] EXCEPT !.homeroom = @ \ gone] ELSE row[j]]
        /\ UNCHANGED <<past, work>>

\* A year takes its terms along (CASCADE), a teacher leaves sections without
\* a homeroom teacher (SET NULL), any other reference stops it (RESTRICT),
\* be it to a term of the year.
Delete(i) ==
    LET gone == {i} \cup {m \in DOMAIN row \cap Terms : row[m].year = i}
    IN  /\ i \in DOMAIN row
        /\ \A j \in DOMAIN row \ gone : Parents(row[j]) \cap gone = {}
        /\ row' = [j \in DOMAIN row \ gone |->
                      IF j \in Sections THEN [row[j] EXCEPT !.homeroom = @ \ gone] ELSE row[j]]
        /\ UNCHANGED <<past, work>>

-----------------------------------------------------------------------------
(* The services, by what their bodies may name.                            *)

CreateYear(r, i)    == i \in Years    /\ \E new \in Columns(i) : Create(r, i, new)
CreateTerm(r, i)    == i \in Terms    /\ \E new \in Columns(i) : Create(r, i, new)
CreateLevel(r, i)   == i \in Levels   /\ \E new \in Columns(i) : Create(r, i, new)
CreateSection(r, i) == i \in Sections /\ \E new \in Columns(i) : Create(r, i, new)
CreateSubject(r, i) == i \in Subjects /\ \E new \in Columns(i) : Create(r, i, new)
CreateClass(r, i)   == i \in Classes  /\ \E new \in Columns(i) : Create(r, i, new)
CreateTeacher(r, i) == i \in Teachers /\ Create(r, i, <<>>)

UpdateYear(r, i)    == i \in Years    /\ \E set \in Settable(i) : Update(r, i, set)
UpdateTerm(r, i)    == i \in Terms    /\ \E set \in Settable(i) : Update(r, i, set)
UpdateLevel(r, i)   == i \in Levels   /\ \E set \in Settable(i) : Update(r, i, set)
UpdateSection(r, i) == i \in Sections /\ \E set \in Settable(i) : Update(r, i, set)
UpdateSubject(r, i) == i \in Subjects /\ \E set \in Settable(i) : Update(r, i, set)

\* Roster has the refusal of a new term for an attached class.
UpdateClass(r, i)   == i \in Classes  /\ \E set \in Settable(i) : Update(r, i, set)

DeleteYear(i)    == i \in Years    /\ Delete(i)
DeleteTerm(i)    == i \in Terms    /\ Delete(i)
DeleteLevel(i)   == i \in Levels   /\ Delete(i)
DeleteSection(i) == i \in Sections /\ Delete(i)
DeleteSubject(i) == i \in Subjects /\ Delete(i)
DeleteClass(i)   == i \in Classes  /\ Delete(i)
DeleteTeacher(i) == i \in Teachers /\ Delete(i)

Abort(r) == work[r] # Idle /\ Become(r, Idle) /\ UNCHANGED <<row, past>>

\* No rows, though there may have been some.
Init ==
    /\ row = [i \in {} |-> i]
    /\ past \in SUBSET Ids
    /\ work = [r \in Requests |-> Idle]

Next ==
    \/ \E r \in Requests, i \in Ids :
          \/ CreateYear(r, i) \/ CreateTerm(r, i) \/ CreateLevel(r, i) \/ CreateSection(r, i)
          \/ CreateSubject(r, i) \/ CreateClass(r, i) \/ CreateTeacher(r, i)
          \/ UpdateYear(r, i) \/ UpdateTerm(r, i) \/ UpdateLevel(r, i) \/ UpdateSection(r, i)
          \/ UpdateSubject(r, i) \/ UpdateClass(r, i)
    \/ \E r \in Requests : Commit(r) \/ Abort(r)
    \/ \E i \in Ids :
          \/ DeleteYear(i) \/ DeleteTerm(i) \/ DeleteLevel(i) \/ DeleteSection(i)
          \/ DeleteSubject(i) \/ DeleteClass(i) \/ DeleteTeacher(i)

Spec == Init /\ [][Next]_vars

-----------------------------------------------------------------------------
(* What must hold.                                                         *)

\* Every id a row names is there: a parent deleted between the look and the
\* write is stopped by its foreign key, and a year that cascades to a term
\* with classes is not deleted at all.
ReferencesHold ==
    \A i \in DOMAIN row : Parents(row[i]) \cup Homeroom(row[i]) \subseteq DOMAIN row

\* Each table's unique columns are a KeyTable; a row's keys are those of its
\* own table.
KeyedBy(i, r) == {<<Unique(i), k>> : k \in KeysOf(i, r)}

UniqueColumns == INSTANCE KeyTable WITH
    Rows <- Ids,
    Keys <- UNION {UNION {KeyedBy(i, r) : r \in Columns(i)} : i \in Ids},
    key <- [i \in DOMAIN row |-> KeyedBy(i, row[i])]

KeysAreUnique == UniqueColumns!Spec

\* A step takes away one row, or a year and its terms; no section and no
\* class goes with anything else, and a section whose homeroom teacher goes
\* keeps the rest of its columns.
DeletesOnlyItsOwn ==
    LET lost == DOMAIN row \ DOMAIN row'
    IN  lost # {} =>
          /\ \E i \in lost : \A j \in lost \ {i} : j \in Terms /\ row[j].year = i
          /\ \A x \in DOMAIN row' \cap Sections : row'[x] = [row[x] EXCEPT !.homeroom = @ \ lost]
          /\ \A j \in DOMAIN row' \ Sections : row'[j] = row[j]
=============================================================================
