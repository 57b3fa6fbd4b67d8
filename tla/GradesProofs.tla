---------------------------- MODULE GradesProofs ----------------------------
(* Theorems about Grades, written and read, for every set of students, teachers, classes,     *)
(* assessments, grades, requests, and numbers that stand for scores.       *)
EXTENDS GradeViews, TLAPS

\* x is within a's maximum, unless that was lowered or a is gone.
Upto(x, a) == a \in DOMAIN assessment \ past.lowered => x <= assessment[a].max

Held(by, c) == \A t \in by : <<t, c>> \in past.held

\* a has been used, and is in class c, unless it was moved or is gone.
StillIn(c, a) == a \in past.given /\ (a \in DOMAIN assessment \ past.moved => c = assessment[a].class)

\* What a request has read or checked, and still is so.
Sound(w) ==
    /\ w.pc \in {"grade_owned", "grade_checked", "regrade_checked", "create_checked",
                 "edit_read", "edit_checked", "delete_read"} => Held(w.by, w.class)
    /\ w.pc \in {"grade_read", "grade_owned", "grade_checked"} => StillIn(w.class, w.row.assessment)
    /\ w.pc \in {"edit_read", "edit_checked", "delete_read"} => StillIn(w.class, w.id)
    /\ w.pc = "grade_read" => Upto(w.max, w.row.assessment)
    /\ w.pc \in {"grade_owned", "grade_checked"} => Upto(w.row.score, w.row.assessment)
    /\ w.pc = "grade_checked" => <<w.row.student, w.class>> \in DOMAIN enrolled
    /\ w.pc \in {"regrade_read", "regrade_checked"} =>
         w.id \in DOMAIN grade /\ StillIn(w.class, grade[w.id].assessment)
    /\ w.pc = "regrade_read" => Upto(w.max, grade[w.id].assessment)
    /\ w.pc = "regrade_checked" => Upto(w.score, grade[w.id].assessment)
    /\ w.pc = "create_checked" => w.class = w.row.class
    /\ w.pc = "edit_checked" /\ "class" \in DOMAIN w.set => Held(w.by, w.set.class)

Inductive ==
    /\ TypeOK
    /\ \A r \in Requests : Sound(work[r])
    /\ \A c \in Classes : <<taught[c], c>> \in past.held
    /\ DOMAIN assessment \subseteq past.given
    /\ GradesAreJust

LEMMA WorkKinds ==
    ASSUME NEW w \in Work
    PROVE  /\ w.pc # "idle" => w.by \in Writers /\ w.class \in Classes
           /\ w.pc \in {"grade_read", "grade_owned", "grade_checked"} => w.row \in Grade
           /\ w.pc \in {"grade_read", "regrade_read"} => w.max \in Scores
           /\ w.pc \in {"regrade_read", "regrade_checked"} => w.id \in GradeIds /\ w.score \in Scores
           /\ w.pc = "create_checked" => w.row \in Assessment
           /\ w.pc \in {"edit_read", "edit_checked"} => w.id \in Assessments /\ w.set \in Edit
           /\ w.pc = "delete_read" => w.id \in Assessments
  BY DEF Work, Idle

LEMMA IdleWork == Idle \in Work /\ Idle.pc = "idle"
  BY DEF Work, Idle

LEMMA OwnersHeld ==
    ASSUME Inductive, NEW c \in Classes, NEW by, Owns(by, c)
    PROVE  Held(by, c)
  BY DEF Inductive, Owns, Held

-----------------------------------------------------------------------------
(* Steps that leave the tables alone.                                      *)

LEMMA ReadsInv ==
    ASSUME Inductive, NEW r \in Requests, NEW w \in Work, Become(r, w), Sound(w),
           UNCHANGED <<taught, enrolled, assessment, grade, past>>
    PROVE  Inductive'
  <1>1. \A q \in Requests : work'[q] = IF q = r THEN w ELSE work[q]
    BY DEF Become, Inductive, TypeOK
  <1>2. TypeOK'
    BY <1>1 DEF Become, Inductive, TypeOK
  <1>3. \A q \in Requests : Sound(work[q])'
    BY <1>1 DEF Inductive, Sound, Upto, Held, StillIn
  <1>4. GradesAreJust'
    BY DEF Inductive, GradesAreJust, ScoreWithinMaximum, GradedWereEnrolled
  <1> QED BY <1>2, <1>3, <1>4 DEF Inductive

LEMMA GradeReadInv ==
    ASSUME Scores \subseteq Nat, Inductive, NEW r \in Requests, NEW by \in Writers, NEW row \in Grade,
           GradeRead(r, by, row)
    PROVE  Inductive'
  <1> DEFINE a == assessment[row.assessment]
             w == [pc |-> "grade_read", by |-> by, class |-> a.class, max |-> a.max, row |-> row]
  <1>1. /\ row.assessment \in DOMAIN assessment /\ a \in Assessment /\ Become(r, w)
        /\ UNCHANGED <<taught, enrolled, assessment, grade, past>>
    BY DEF GradeRead, Inductive, TypeOK
  <1>2. a.class \in Classes /\ a.max \in Scores
    BY <1>1 DEF Assessment
  <1>3. w \in Work
    BY <1>2 DEF Work
  <1>4. Upto(a.max, row.assessment)
    <2>1. PICK n \in Nat : n = a.max
      BY <1>2
    <2>2. n <= n
      OBVIOUS
    <2> QED BY <2>1, <2>2 DEF Upto
  <1>5. Sound(w)
    BY <1>1, <1>4 DEF Sound, StillIn, Inductive
  <1> HIDE DEF w
  <1> QED BY <1>1, <1>3, <1>5, ReadsInv

LEMMA GradeOwnedInv ==
    ASSUME Scores \subseteq Nat, Inductive, NEW r \in Requests, GradeOwned(r)
    PROVE  Inductive'
  <1> DEFINE o == work[r]
             w == [pc |-> "grade_owned", by |-> o.by, class |-> o.class, row |-> o.row]
  <1>1. /\ o \in Work /\ Sound(o) /\ o.pc = "grade_read" /\ Owns(o.by, o.class) /\ o.row.score <= o.max
        /\ Become(r, w) /\ UNCHANGED <<taught, enrolled, assessment, grade, past>>
    BY DEF GradeOwned, Inductive, TypeOK
  <1>2. o.by \in Writers /\ o.class \in Classes /\ o.row \in Grade /\ o.max \in Scores
    BY <1>1, WorkKinds
  <1>3. w \in Work
    BY <1>2 DEF Work
  <1>4. Held(o.by, o.class)
    BY <1>1, <1>2, OwnersHeld
  <1>5. Upto(o.row.score, o.row.assessment)
    <2> SUFFICES ASSUME o.row.assessment \in DOMAIN assessment \ past.lowered
                 PROVE  o.row.score <= assessment[o.row.assessment].max
      BY DEF Upto
    <2>1. o.max <= assessment[o.row.assessment].max
      BY <1>1 DEF Sound, Upto
    <2>2. o.row.score \in Nat /\ o.max \in Nat /\ assessment[o.row.assessment].max \in Nat
      BY <1>2 DEF Grade, Assessment, Inductive, TypeOK
    <2> QED BY <1>1, <2>1, <2>2
  <1>6. Sound(w)
    BY <1>1, <1>4, <1>5 DEF Sound
  <1> HIDE DEF w
  <1> QED BY <1>1, <1>3, <1>6, ReadsInv

LEMMA GradeCheckInv ==
    ASSUME Inductive, NEW r \in Requests, GradeCheck(r)
    PROVE  Inductive'
  <1> DEFINE o == work[r]
             w == [o EXCEPT !.pc = "grade_checked"]
  <1>1. /\ o \in Work /\ Sound(o) /\ o.pc = "grade_owned" /\ <<o.row.student, o.class>> \in DOMAIN enrolled
        /\ Become(r, w) /\ UNCHANGED <<taught, enrolled, assessment, grade, past>>
    BY DEF GradeCheck, Inductive, TypeOK
  <1>2. w \in Work /\ w.pc = "grade_checked" /\ w.by = o.by /\ w.class = o.class /\ w.row = o.row
    BY <1>1 DEF Work, Idle
  <1> HIDE DEF w
  <1>3. Sound(w)
    BY <1>1, <1>2 DEF Sound
  <1> QED BY <1>1, <1>2, <1>3, ReadsInv

LEMMA RegradeReadInv ==
    ASSUME Scores \subseteq Nat, Inductive, NEW r \in Requests, NEW by \in Writers, NEW g \in GradeIds,
           NEW x \in Scores, RegradeRead(r, by, g, x)
    PROVE  Inductive'
  <1> DEFINE a == assessment[grade[g].assessment]
             w == [pc |-> "regrade_read", by |-> by, class |-> a.class, max |-> a.max, id |-> g, score |-> x]
  <1>1. /\ g \in DOMAIN grade /\ grade[g].assessment \in DOMAIN assessment /\ a \in Assessment /\ Become(r, w)
        /\ UNCHANGED <<taught, enrolled, assessment, grade, past>>
    BY DEF RegradeRead, Inductive, TypeOK
  <1>2. a.class \in Classes /\ a.max \in Scores
    BY <1>1 DEF Assessment
  <1>3. w \in Work
    BY <1>2 DEF Work
  <1>4. Upto(a.max, grade[g].assessment)
    <2>1. PICK n \in Nat : n = a.max
      BY <1>2
    <2>2. n <= n
      OBVIOUS
    <2> QED BY <2>1, <2>2 DEF Upto
  <1>5. Sound(w)
    BY <1>1, <1>4 DEF Sound, StillIn, Inductive
  <1> HIDE DEF w
  <1> QED BY <1>1, <1>3, <1>5, ReadsInv

LEMMA RegradeCheckInv ==
    ASSUME Scores \subseteq Nat, Inductive, NEW r \in Requests, RegradeCheck(r)
    PROVE  Inductive'
  <1> DEFINE o == work[r]
             w == [pc |-> "regrade_checked", by |-> o.by, class |-> o.class, id |-> o.id, score |-> o.score]
             a == grade[o.id].assessment
  <1>1. /\ o \in Work /\ Sound(o) /\ o.pc = "regrade_read" /\ Owns(o.by, o.class) /\ o.score <= o.max
        /\ Become(r, w) /\ UNCHANGED <<taught, enrolled, assessment, grade, past>>
    BY DEF RegradeCheck, Inductive, TypeOK
  <1>2. /\ o.by \in Writers /\ o.class \in Classes /\ o.id \in GradeIds
        /\ o.score \in Scores /\ o.max \in Scores
    BY <1>1, WorkKinds
  <1>3. w \in Work
    BY <1>2 DEF Work
  <1>4. Held(o.by, o.class)
    BY <1>1, <1>2, OwnersHeld
  <1>5. Upto(o.score, a)
    <2> SUFFICES ASSUME a \in DOMAIN assessment \ past.lowered PROVE o.score <= assessment[a].max
      BY DEF Upto
    <2>1. o.max <= assessment[a].max
      BY <1>1 DEF Sound, Upto
    <2>2. o.score \in Nat /\ o.max \in Nat /\ assessment[a].max \in Nat
      BY <1>2 DEF Assessment, Inductive, TypeOK
    <2> QED BY <1>1, <2>1, <2>2
  <1>6. Sound(w)
    BY <1>1, <1>4, <1>5 DEF Sound
  <1> HIDE DEF w
  <1> QED BY <1>1, <1>3, <1>6, ReadsInv

LEMMA CreateCheckInv ==
    ASSUME Inductive, NEW r \in Requests, NEW by \in Writers, NEW row \in Assessment, CreateCheck(r, by, row)
    PROVE  Inductive'
  <1> DEFINE w == [pc |-> "create_checked", by |-> by, class |-> row.class, row |-> row]
  <1>1. row.class \in Classes
    BY DEF Assessment
  <1>2. w \in Work
    BY <1>1 DEF Work
  <1>3. /\ Held(by, row.class) /\ Become(r, w)
        /\ UNCHANGED <<taught, enrolled, assessment, grade, past>>
    BY <1>1, OwnersHeld DEF CreateCheck
  <1>4. Sound(w)
    BY <1>3 DEF Sound
  <1> HIDE DEF w
  <1> QED BY <1>2, <1>3, <1>4, ReadsInv

LEMMA EditReadInv ==
    ASSUME Inductive, NEW r \in Requests, NEW by \in Writers, NEW a \in Assessments, NEW set \in Edit,
           EditRead(r, by, a, set)
    PROVE  Inductive'
  <1> DEFINE c == assessment[a].class
             w == [pc |-> "edit_read", by |-> by, class |-> c, id |-> a, set |-> set]
  <1>1. c \in Classes
    BY DEF EditRead, Inductive, TypeOK, Assessment
  <1>2. w \in Work
    BY <1>1 DEF Work
  <1>3. /\ Held(by, c) /\ StillIn(c, a) /\ Become(r, w)
        /\ UNCHANGED <<taught, enrolled, assessment, grade, past>>
    BY <1>1, OwnersHeld DEF EditRead, StillIn, Inductive
  <1> HIDE DEF c
  <1>4. Sound(w)
    BY <1>3 DEF Sound
  <1> HIDE DEF w
  <1> QED BY <1>2, <1>3, <1>4, ReadsInv

LEMMA EditCheckInv ==
    ASSUME Inductive, NEW r \in Requests, EditCheck(r)
    PROVE  Inductive'
  <1> DEFINE o == work[r]
             w == [o EXCEPT !.pc = "edit_checked"]
  <1>1. /\ o \in Work /\ Sound(o) /\ o.pc = "edit_read"
        /\ "class" \in DOMAIN o.set => Owns(o.by, o.set.class)
        /\ Become(r, w) /\ UNCHANGED <<taught, enrolled, assessment, grade, past>>
    BY DEF EditCheck, Inductive, TypeOK
  <1>2. /\ w \in Work /\ w.pc = "edit_checked" /\ w.by = o.by /\ w.class = o.class
        /\ w.id = o.id /\ w.set = o.set
    BY <1>1 DEF Work, Idle
  <1>3. "class" \in DOMAIN o.set => o.set.class \in Classes
    BY <1>1, WorkKinds DEF Edit, Assessment
  <1> HIDE DEF w
  <1>4. Sound(w)
    BY <1>1, <1>2, <1>3, OwnersHeld DEF Sound
  <1> QED BY <1>1, <1>2, <1>4, ReadsInv

LEMMA DeleteReadInv ==
    ASSUME Inductive, NEW r \in Requests, NEW by \in Writers, NEW a \in Assessments, DeleteRead(r, by, a)
    PROVE  Inductive'
  <1> DEFINE c == assessment[a].class
             w == [pc |-> "delete_read", by |-> by, class |-> c, id |-> a]
  <1>1. c \in Classes
    BY DEF DeleteRead, Inductive, TypeOK, Assessment
  <1>2. w \in Work
    BY <1>1 DEF Work
  <1>3. /\ Held(by, c) /\ StillIn(c, a) /\ Become(r, w)
        /\ UNCHANGED <<taught, enrolled, assessment, grade, past>>
    BY <1>1, OwnersHeld DEF DeleteRead, StillIn, Inductive
  <1> HIDE DEF c
  <1>4. Sound(w)
    BY <1>3 DEF Sound
  <1> HIDE DEF w
  <1> QED BY <1>2, <1>3, <1>4, ReadsInv

LEMMA AbortInv ==
    ASSUME Inductive, NEW r \in Requests, Abort(r)
    PROVE  Inductive'
  BY IdleWork, ReadsInv DEF Abort, Sound

-----------------------------------------------------------------------------
(* Steps that write.                                                       *)

\* What any of them leaves of the tables that were checked: more held, more
\* enrolled, and rows that are fixed unless past says so.
Grows ==
    /\ past.held \subseteq past'.held /\ past.given \subseteq past'.given
    /\ DOMAIN enrolled \subseteq DOMAIN enrolled'
    /\ DOMAIN grade \subseteq DOMAIN grade'
    /\ \A g \in DOMAIN grade : grade'[g].assessment = grade[g].assessment
    /\ \A a \in past.given \cap (DOMAIN assessment' \ past'.lowered) :
         a \in DOMAIN assessment \ past.lowered /\ assessment[a].max <= assessment'[a].max
    /\ \A a \in past.given \cap (DOMAIN assessment' \ past'.moved) :
         a \in DOMAIN assessment \ past.moved /\ assessment[a].class = assessment'[a].class

LEMMA UptoGrows ==
    ASSUME Scores \subseteq Nat, Inductive, TypeOK', Grows, NEW x \in Scores, NEW a \in past.given, Upto(x, a)
    PROVE  Upto(x, a)'
  <1> SUFFICES ASSUME a \in DOMAIN assessment' \ past'.lowered PROVE x <= assessment'[a].max
    BY DEF Upto
  <1>1. x <= assessment[a].max /\ assessment[a].max <= assessment'[a].max
    BY DEF Upto, Grows
  <1>2. assessment[a].max \in Nat /\ assessment'[a].max \in Nat
    BY DEF Grows, Inductive, TypeOK, Assessment
  <1> QED BY <1>1, <1>2

LEMMA StillGrows ==
    ASSUME Grows, NEW c, NEW a, StillIn(c, a)
    PROVE  StillIn(c, a)'
  BY DEF StillIn, Grows

LEMMA SoundGrows ==
    ASSUME Scores \subseteq Nat, Inductive, TypeOK', Grows, NEW w \in Work, Sound(w)
    PROVE  Sound(w)'
  <1>1. \A by, c : Held(by, c) => Held(by, c)'
    BY DEF Held, Grows
  <1>2. ASSUME w.pc \in {"grade_read", "grade_owned", "grade_checked"}
        PROVE  w.row.assessment \in past.given /\ StillIn(w.class, w.row.assessment)'
    BY <1>2, StillGrows DEF Sound, StillIn
  <1>3. ASSUME w.pc = "grade_read" PROVE Upto(w.max, w.row.assessment)'
    BY <1>2, <1>3, WorkKinds, UptoGrows DEF Sound
  <1>4. ASSUME w.pc \in {"grade_owned", "grade_checked"} PROVE Upto(w.row.score, w.row.assessment)'
    <2>1. w.row.score \in Scores
      BY <1>4, WorkKinds DEF Grade
    <2> QED BY <1>2, <1>4, <2>1, UptoGrows DEF Sound
  <1>5. ASSUME w.pc \in {"regrade_read", "regrade_checked"}
        PROVE  w.id \in DOMAIN grade' /\ grade'[w.id].assessment = grade[w.id].assessment
    BY <1>5 DEF Sound, Grows
  <1>6. ASSUME NEW x \in Scores, w.pc \in {"regrade_read", "regrade_checked"}, Upto(x, grade[w.id].assessment)
        PROVE  Upto(x, grade[w.id].assessment)'
    <2>1. PICK a \in past.given : a = grade[w.id].assessment
      BY <1>6 DEF Sound, Inductive, TypeOK
    <2>2. Upto(x, a)'
      BY <1>6, <2>1, UptoGrows
    <2> QED BY <1>5, <1>6, <2>1, <2>2 DEF Upto
  <1>7. w.pc = "regrade_read" => Upto(w.max, grade[w.id].assessment)'
    BY <1>6, WorkKinds DEF Sound
  <1>8. w.pc = "regrade_checked" => Upto(w.score, grade[w.id].assessment)'
    BY <1>6, WorkKinds DEF Sound
  <1>9. w.pc = "grade_checked" => <<w.row.student, w.class>> \in DOMAIN enrolled'
    BY DEF Sound, Grows
  <1>10. w.pc \in {"grade_owned", "grade_checked", "regrade_checked", "create_checked",
                   "edit_read", "edit_checked", "delete_read"} => Held(w.by, w.class)'
    BY <1>1 DEF Sound
  <1>11. w.pc = "edit_checked" /\ "class" \in DOMAIN w.set => Held(w.by, w.set.class)'
    BY <1>1 DEF Sound
  <1>12. w.pc = "create_checked" => w.class = w.row.class
    BY DEF Sound
  <1>13. ASSUME w.pc \in {"regrade_read", "regrade_checked"}
         PROVE  StillIn(w.class, grade[w.id].assessment)'
    <2>1. StillIn(w.class, grade[w.id].assessment)
      BY <1>13 DEF Sound
    <2>2. PICK a : a = grade[w.id].assessment
      OBVIOUS
    <2>3. StillIn(w.class, a)'
      BY <2>1, <2>2, StillGrows
    <2> QED BY <1>5, <1>13, <2>2, <2>3 DEF StillIn
  <1>14. ASSUME w.pc \in {"edit_read", "edit_checked", "delete_read"} PROVE StillIn(w.class, w.id)'
    BY <1>14, StillGrows DEF Sound
  <1> QED BY <1>2, <1>3, <1>4, <1>5, <1>7, <1>8, <1>9, <1>10, <1>11, <1>12, <1>13, <1>14 DEF Sound

\* What is left to show of a step that ends the request r, or none.
LEMMA WritesInv ==
    ASSUME Scores \subseteq Nat, Inductive, TypeOK', Grows,
           \A q \in Requests : work'[q] \in {work[q], Idle},
           \A c \in Classes : <<taught'[c], c>> \in past'.held,
           DOMAIN assessment' \subseteq past'.given,
           GradesAreJust'
    PROVE  Inductive'
  <1>1. ASSUME NEW q \in Requests PROVE Sound(work[q])'
    <2>1. PICK w \in Work : w = work'[q] /\ (w = Idle \/ w = work[q])
      BY DEF TypeOK
    <2>2. Sound(w)
      BY <2>1, IdleWork DEF Inductive, Sound
    <2>3. Sound(w)'
      BY <2>2, SoundGrows
    <2> QED BY <2>1, <2>3 DEF Sound, Upto, Held, StillIn
  <1> QED BY <1>1 DEF Inductive

LEMMA GradeCommitInv ==
    ASSUME Scores \subseteq Nat, Inductive, NEW r \in Requests, NEW g \in GradeIds, GradeCommit(r, g)
    PROVE  Inductive'
  <1> DEFINE row == work[r].row
  <1>1. /\ work[r] \in Work /\ Sound(work[r]) /\ work[r].pc = "grade_checked"
        /\ g \notin DOMAIN grade /\ row.assessment \in DOMAIN assessment
        /\ grade' = Insert(grade, g, row) /\ Become(r, Idle)
        /\ UNCHANGED <<taught, enrolled, assessment, past>>
    BY DEF GradeCommit, Inductive, TypeOK
  <1>2. row \in Grade
    BY <1>1, WorkKinds
  <1>3. /\ Upto(row.score, row.assessment) /\ <<row.student, work[r].class>> \in DOMAIN enrolled
        /\ row.assessment \notin past.moved => work[r].class = assessment[row.assessment].class
    BY <1>1 DEF Sound, StillIn
  <1> HIDE DEF row
  <1>4. /\ DOMAIN grade' = DOMAIN grade \cup {g} /\ grade'[g] = row
        /\ \A h \in DOMAIN grade : grade'[h] = grade[h]
    BY <1>1 DEF Insert
  <1>5. work' \in [Requests -> Work] /\ \A q \in Requests : work'[q] \in {work[q], Idle}
    BY <1>1, IdleWork DEF Become, Inductive, TypeOK
  <1>6. TypeOK'
    BY <1>1, <1>2, <1>4, <1>5 DEF Inductive, TypeOK
  <1>7. Grows
    <2>1. \A a \in DOMAIN assessment : assessment[a].max \in Nat
      BY DEF Inductive, TypeOK, Assessment
    <2> QED BY <1>1, <1>4, <2>1 DEF Grows
  <1>8. ScoreWithinMaximum'
    <2>1. row.assessment \in past.lowered \/ row.score <= assessment[row.assessment].max
      BY <1>1, <1>3 DEF Upto
    <2> QED BY <1>1, <1>4, <2>1 DEF Inductive, GradesAreJust, ScoreWithinMaximum
  <1>9. GradedWereEnrolled'
    <2>1. \/ row.assessment \in past.moved
          \/ <<row.student, assessment[row.assessment].class>> \in DOMAIN enrolled
      BY <1>3
    <2> QED BY <1>1, <1>4, <2>1 DEF Inductive, GradesAreJust, GradedWereEnrolled
  <1>10. GradesAreJust'
    BY <1>8, <1>9 DEF GradesAreJust
  <1>11. \A c \in Classes : <<taught'[c], c>> \in past'.held
    BY <1>1 DEF Inductive
  <1>12. DOMAIN assessment' \subseteq past'.given
    BY <1>1 DEF Inductive
  <1> QED BY <1>5, <1>6, <1>7, <1>10, <1>11, <1>12, WritesInv

LEMMA RegradeCommitInv ==
    ASSUME Scores \subseteq Nat, Inductive, NEW r \in Requests, RegradeCommit(r)
    PROVE  Inductive'
  <1> DEFINE g == work[r].id
             x == work[r].score
  <1>1. /\ work[r] \in Work /\ Sound(work[r]) /\ work[r].pc = "regrade_checked"
        /\ grade' = [grade EXCEPT ![g].score = x] /\ Become(r, Idle)
        /\ UNCHANGED <<taught, enrolled, assessment, past>>
    BY DEF RegradeCommit, Inductive, TypeOK
  <1>2. g \in DOMAIN grade /\ x \in Scores /\ Upto(x, grade[g].assessment) /\ grade[g] \in Grade
    BY <1>1, WorkKinds DEF Sound, Inductive, TypeOK
  <1> HIDE DEF g, x
  <1>3. /\ DOMAIN grade' = DOMAIN grade /\ grade'[g] \in Grade /\ grade'[g].score = x
        /\ grade'[g].assessment = grade[g].assessment /\ grade'[g].student = grade[g].student
        /\ \A h \in DOMAIN grade : h # g => grade'[h] = grade[h]
    BY <1>1, <1>2 DEF Grade
  <1>4. work' \in [Requests -> Work] /\ \A q \in Requests : work'[q] \in {work[q], Idle}
    BY <1>1, IdleWork DEF Become, Inductive, TypeOK
  <1>5. TypeOK'
    <2>1. \A h \in DOMAIN grade' : grade'[h] \in Grade /\ grade'[h].assessment \in DOMAIN assessment
      BY <1>2, <1>3 DEF Inductive, TypeOK
    <2> QED BY <1>1, <1>3, <1>4, <2>1 DEF Inductive, TypeOK
  <1>6. Grows
    <2>1. \A a \in DOMAIN assessment : assessment[a].max \in Nat
      BY DEF Inductive, TypeOK, Assessment
    <2> QED BY <1>1, <1>3, <2>1 DEF Grows
  <1>7. ScoreWithinMaximum'
    <2>1. \/ grade[g].assessment \in past.lowered
          \/ grade[g].assessment \in DOMAIN assessment /\ x <= assessment[grade[g].assessment].max
      BY <1>2 DEF Upto, Inductive, TypeOK
    <2> QED BY <1>1, <1>3, <2>1 DEF Inductive, GradesAreJust, ScoreWithinMaximum
  <1>8. GradedWereEnrolled'
    BY <1>1, <1>3 DEF Inductive, GradesAreJust, GradedWereEnrolled
  <1>9. GradesAreJust'
    BY <1>7, <1>8 DEF GradesAreJust
  <1>10. \A c \in Classes : <<taught'[c], c>> \in past'.held
    BY <1>1 DEF Inductive
  <1>11. DOMAIN assessment' \subseteq past'.given
    BY <1>1 DEF Inductive
  <1> QED BY <1>4, <1>5, <1>6, <1>9, <1>10, <1>11, WritesInv

LEMMA CreateCommitInv ==
    ASSUME Scores \subseteq Nat, Inductive, NEW r \in Requests, NEW a \in Assessments, CreateCommit(r, a)
    PROVE  Inductive'
  <1>1. /\ work[r] \in Work /\ work[r].pc = "create_checked" /\ a \notin past.given
        /\ assessment' = Insert(assessment, a, work[r].row) /\ Become(r, Idle)
        /\ past' = [past EXCEPT !.given = @ \cup {a}] /\ UNCHANGED <<taught, enrolled, grade>>
    BY DEF CreateCommit, Inductive, TypeOK
  <1>2. work[r].row \in Assessment
    BY <1>1, WorkKinds
  <1>3. /\ DOMAIN assessment' = DOMAIN assessment \cup {a} /\ assessment'[a] = work[r].row
        /\ \A b \in DOMAIN assessment : b # a /\ assessment'[b] = assessment[b]
    BY <1>1 DEF Insert, Inductive
  <1>4. /\ past' \in Past /\ past'.given = past.given \cup {a} /\ past'.lowered = past.lowered
        /\ past'.moved = past.moved /\ past'.held = past.held
    BY <1>1 DEF Past, Inductive, TypeOK
  <1>5. work' \in [Requests -> Work] /\ \A q \in Requests : work'[q] \in {work[q], Idle}
    BY <1>1, IdleWork DEF Become, Inductive, TypeOK
  <1>6. TypeOK'
    BY <1>1, <1>2, <1>3, <1>4, <1>5 DEF Inductive, TypeOK
  <1>7. Grows
    <2>1. \A b \in DOMAIN assessment : assessment[b].max \in Nat
      BY DEF Inductive, TypeOK, Assessment
    <2> QED BY <1>1, <1>3, <1>4, <2>1 DEF Grows
  <1>8. GradesAreJust'
    BY <1>1, <1>3, <1>4 DEF Inductive, TypeOK, GradesAreJust, ScoreWithinMaximum, GradedWereEnrolled
  <1>9. \A c \in Classes : <<taught'[c], c>> \in past'.held
    BY <1>1, <1>4 DEF Inductive
  <1>10. DOMAIN assessment' \subseteq past'.given
    BY <1>3, <1>4 DEF Inductive
  <1> QED BY <1>5, <1>6, <1>7, <1>8, <1>9, <1>10, WritesInv

Edited(old, set) == [f \in DOMAIN old |-> IF f \in DOMAIN set THEN set[f] ELSE old[f]]

LEMMA EditedRow ==
    ASSUME NEW old \in Assessment, NEW set \in Edit
    PROVE  Edited(old, set) \in Assessment
  <1>1. DOMAIN old = {"class", "max"} /\ old["class"] \in Classes /\ old["max"] \in Scores \ {0}
    BY DEF Assessment
  <1>2. /\ "class" \in DOMAIN set => set["class"] \in Classes
        /\ "max" \in DOMAIN set => set["max"] \in Scores \ {0}
    BY DEF Edit, Assessment
  <1> QED BY <1>1, <1>2 DEF Edited, Assessment

\* An edit says so when it lowers a maximum or moves an assessment.
LEMMA EditCommitInv ==
    ASSUME Scores \subseteq Nat, Inductive, NEW r \in Requests, EditCommit(r)
    PROVE  Inductive'
  <1> DEFINE a == work[r].id
             old == assessment[a]
             row == Edited(old, work[r].set)
  <1>1. /\ work[r] \in Work /\ work[r].pc = "edit_checked" /\ a \in DOMAIN assessment
        /\ assessment' = [assessment EXCEPT ![a] = row] /\ Become(r, Idle)
        /\ past' = [past EXCEPT !.lowered = IF row.max < old.max THEN @ \cup {a} ELSE @,
                                !.moved = IF row.class # old.class THEN @ \cup {a} ELSE @]
        /\ UNCHANGED <<taught, enrolled, grade>> /\ old \in Assessment
    BY DEF EditCommit, Edited, Inductive, TypeOK
  <1>2. row \in Assessment
    BY <1>1, WorkKinds, EditedRow
  <1>3. row.max \in Nat /\ old.max \in Nat /\ a \in Assessments
    BY <1>1, <1>2 DEF Assessment, Inductive, TypeOK
  <1> HIDE DEF row
  <1>4. /\ past' \in Past /\ past'.given = past.given /\ past'.held = past.held
        /\ past.lowered \subseteq past'.lowered /\ past.moved \subseteq past'.moved
        /\ a \notin past'.lowered => old.max <= row.max
        /\ a \notin past'.moved => row.class = old.class
    <2> DEFINE L == IF row.max < old.max THEN past.lowered \cup {a} ELSE past.lowered
               M == IF row.class # old.class THEN past.moved \cup {a} ELSE past.moved
    <2>1. past \in Past
      BY DEF Inductive, TypeOK
    <2>2. L \in SUBSET Assessments /\ M \in SUBSET Assessments
      BY <1>3, <2>1 DEF Past
    <2>3. /\ past.lowered \subseteq L /\ past.moved \subseteq M
          /\ a \notin L => ~(row.max < old.max)
          /\ a \notin M => row.class = old.class
      OBVIOUS
    <2>4. past' = [past EXCEPT !.lowered = L, !.moved = M]
      BY <1>1
    <2> HIDE DEF L, M
    <2>5. /\ past' \in Past /\ past'.given = past.given /\ past'.held = past.held
          /\ past'.lowered = L /\ past'.moved = M
      BY <2>1, <2>2, <2>4 DEF Past
    <2> QED BY <1>3, <2>3, <2>5
  <1>5. /\ DOMAIN assessment' = DOMAIN assessment /\ assessment'[a] = row
        /\ \A b \in DOMAIN assessment : b # a => assessment'[b] = assessment[b]
    BY <1>1
  <1> HIDE DEF a
  <1>6. work' \in [Requests -> Work] /\ \A q \in Requests : work'[q] \in {work[q], Idle}
    BY <1>1, IdleWork DEF Become, Inductive, TypeOK
  <1>7. TypeOK'
    <2>1. \A b \in DOMAIN assessment' : assessment'[b] \in Assessment
      BY <1>2, <1>5 DEF Inductive, TypeOK
    <2> QED BY <1>1, <1>4, <1>5, <1>6, <2>1 DEF Inductive, TypeOK
  <1>8. \A b \in DOMAIN assessment : assessment[b].max \in Nat
    BY DEF Inductive, TypeOK, Assessment
  <1>9. Grows
    <2>1. \A b \in past.given \cap (DOMAIN assessment' \ past'.lowered) :
             b \in DOMAIN assessment \ past.lowered /\ assessment[b].max <= assessment'[b].max
      <3> TAKE b \in past.given \cap (DOMAIN assessment' \ past'.lowered)
      <3>1. CASE b = a
        BY <1>4, <1>5, <3>1
      <3>2. CASE b # a
        BY <1>4, <1>5, <1>8, <3>2
      <3> QED BY <3>1, <3>2
    <2>2. \A b \in past.given \cap (DOMAIN assessment' \ past'.moved) :
             b \in DOMAIN assessment \ past.moved /\ assessment[b].class = assessment'[b].class
      BY <1>4, <1>5
    <2> QED BY <1>1, <1>4, <2>1, <2>2 DEF Grows
  <1>10. ScoreWithinMaximum'
    <2> SUFFICES ASSUME NEW g \in DOMAIN grade, grade[g].assessment \notin past'.lowered
                 PROVE  /\ grade[g].assessment \in DOMAIN assessment'
                        /\ grade[g].score <= assessment'[grade[g].assessment].max
      BY <1>1 DEF ScoreWithinMaximum
    <2> DEFINE b == grade[g].assessment
    <2>1. b \in DOMAIN assessment /\ b \in past.given /\ grade[g].score \in Nat
      BY DEF Inductive, TypeOK, Grade
    <2>2. grade[g].score <= assessment[b].max
      BY <1>4 DEF Inductive, GradesAreJust, ScoreWithinMaximum
    <2>3. assessment[b].max <= assessment'[b].max /\ assessment'[b].max \in Nat
      BY <1>3, <1>5, <1>8, <1>9, <2>1 DEF Grows
    <2> QED BY <1>5, <1>8, <2>1, <2>2, <2>3
  <1>11. GradedWereEnrolled'
    <2> SUFFICES ASSUME NEW g \in DOMAIN grade, grade[g].assessment \notin past'.moved
                 PROVE  /\ grade[g].assessment \in DOMAIN assessment'
                        /\ <<grade[g].student, assessment'[grade[g].assessment].class>> \in DOMAIN enrolled
      BY <1>1 DEF GradedWereEnrolled
    <2> DEFINE b == grade[g].assessment
    <2>1. b \in DOMAIN assessment /\ b \in past.given
      BY DEF Inductive, TypeOK
    <2>2. assessment[b].class = assessment'[b].class
      BY <1>5, <1>9, <2>1 DEF Grows
    <2> QED BY <1>4, <1>5, <2>1, <2>2 DEF Inductive, GradesAreJust, GradedWereEnrolled
  <1>12. GradesAreJust'
    BY <1>10, <1>11 DEF GradesAreJust
  <1>13. \A c \in Classes : <<taught'[c], c>> \in past'.held
    BY <1>1, <1>4 DEF Inductive
  <1>14. DOMAIN assessment' \subseteq past'.given
    BY <1>4, <1>5 DEF Inductive
  <1> QED BY <1>6, <1>7, <1>9, <1>12, <1>13, <1>14, WritesInv

LEMMA DeleteCommitInv ==
    ASSUME Scores \subseteq Nat, Inductive, NEW r \in Requests, DeleteCommit(r)
    PROVE  Inductive'
  <1>1. /\ \A g \in DOMAIN grade : grade[g].assessment # work[r].id
        /\ DOMAIN assessment' = DOMAIN assessment \ {work[r].id}
        /\ \A a \in DOMAIN assessment' : assessment'[a] = assessment[a]
        /\ Become(r, Idle) /\ UNCHANGED <<taught, enrolled, grade, past>>
    BY DEF DeleteCommit
  <1>2. work' \in [Requests -> Work] /\ \A q \in Requests : work'[q] \in {work[q], Idle}
    BY <1>1, IdleWork DEF Become, Inductive, TypeOK
  <1>3. TypeOK'
    BY <1>1, <1>2 DEF Inductive, TypeOK
  <1>4. Grows
    <2>1. \A b \in DOMAIN assessment : assessment[b].max \in Nat
      BY DEF Inductive, TypeOK, Assessment
    <2> QED BY <1>1, <2>1 DEF Grows
  <1>5. GradesAreJust'
    BY <1>1 DEF Inductive, TypeOK, GradesAreJust, ScoreWithinMaximum, GradedWereEnrolled
  <1>6. \A c \in Classes : <<taught'[c], c>> \in past'.held
    BY <1>1 DEF Inductive
  <1>7. DOMAIN assessment' \subseteq past'.given
    BY <1>1 DEF Inductive
  <1> QED BY <1>2, <1>3, <1>4, <1>5, <1>6, <1>7, WritesInv

\* ClassService.update and the enrollments.
LEMMA OthersInv ==
    ASSUME Scores \subseteq Nat, Inductive, NEW c \in Classes,
           \/ \E t \in Teachers : Reassign(c, t)
           \/ \E s \in Students : Enroll(s, c) \/ Drop(s, c)
    PROVE  Inductive'
  <1>1. /\ UNCHANGED <<assessment, grade, work>>
        /\ DOMAIN enrolled \subseteq DOMAIN enrolled' /\ DOMAIN enrolled' \subseteq Students \X Classes
        /\ \A e \in DOMAIN enrolled' : enrolled'[e] \in {"active", "dropped"}
        /\ past' \in Past /\ past.held \subseteq past'.held /\ past'.given = past.given
        /\ past'.lowered = past.lowered /\ past'.moved = past.moved
        /\ taught' \in [Classes -> Teachers]
        /\ \A k \in Classes : <<taught'[k], k>> \in past'.held
    <2>1. ASSUME NEW t \in Teachers, Reassign(c, t)
          PROVE  /\ past' \in Past /\ past'.held = past.held \cup {<<t, c>>} /\ past'.given = past.given
                 /\ past'.lowered = past.lowered /\ past'.moved = past.moved
                 /\ taught' \in [Classes -> Teachers]
                 /\ \A k \in Classes : taught'[k] = IF k = c THEN t ELSE taught[k]
                 /\ UNCHANGED <<enrolled, assessment, grade, work>>
      BY <2>1 DEF Reassign, Past, Inductive, TypeOK
    <2>2. ASSUME NEW s \in Students, Enroll(s, c) \/ Drop(s, c)
          PROVE  /\ UNCHANGED <<taught, assessment, grade, past, work>>
                 /\ DOMAIN enrolled \subseteq DOMAIN enrolled' /\ DOMAIN enrolled' \subseteq Students \X Classes
                 /\ \A e \in DOMAIN enrolled' : enrolled'[e] \in {"active", "dropped"}
      BY <2>2 DEF Enroll, Drop, Insert, Inductive, TypeOK
    <2>3. CASE \E t \in Teachers : Reassign(c, t)
      BY <2>1, <2>3 DEF Inductive, TypeOK
    <2>4. CASE \E s \in Students : Enroll(s, c) \/ Drop(s, c)
      BY <2>2, <2>4 DEF Inductive, TypeOK
    <2> QED BY <2>3, <2>4
  <1>2. TypeOK'
    BY <1>1 DEF Inductive, TypeOK
  <1>3. Grows
    <2>1. \A b \in DOMAIN assessment : assessment[b].max \in Nat
      BY DEF Inductive, TypeOK, Assessment
    <2> QED BY <1>1, <2>1 DEF Grows
  <1>4. GradesAreJust'
    BY <1>1 DEF Inductive, GradesAreJust, ScoreWithinMaximum, GradedWereEnrolled
  <1>5. DOMAIN assessment' \subseteq past'.given /\ \A q \in Requests : work'[q] \in {work[q], Idle}
    BY <1>1 DEF Inductive
  <1> QED BY <1>1, <1>2, <1>3, <1>4, <1>5, WritesInv

-----------------------------------------------------------------------------

LEMMA InitInv == Init => Inductive
  <1> SUFFICES ASSUME Init PROVE Inductive
    OBVIOUS
  <1>1. DOMAIN enrolled = {} /\ DOMAIN assessment = {} /\ DOMAIN grade = {} /\ taught \in [Classes -> Teachers]
    BY DEF Init
  <1>2. past \in Past /\ \A c \in Classes : <<taught[c], c>> \in past.held
    BY <1>1 DEF Init, Past
  <1>3. work \in [Requests -> Work]
    BY IdleWork DEF Init
  <1>4. \A r \in Requests : Sound(work[r])
    BY IdleWork DEF Init, Sound
  <1>5. GradesAreJust
    BY <1>1 DEF GradesAreJust, ScoreWithinMaximum, GradedWereEnrolled
  <1> QED BY <1>1, <1>2, <1>3, <1>4, <1>5 DEF Inductive, TypeOK

LEMMA StepInv ==
    ASSUME Scores \subseteq Nat, Inductive, [Next]_vars
    PROVE  Inductive'
  <1>1. ASSUME NEW r \in Requests, NEW by \in Writers,
               \/ \E row \in Grade : GradeRead(r, by, row)
               \/ \E g \in GradeIds, x \in Scores : RegradeRead(r, by, g, x)
               \/ \E row \in Assessment : CreateCheck(r, by, row)
               \/ \E a \in Assessments : DeleteRead(r, by, a) \/ \E set \in Edit : EditRead(r, by, a, set)
        PROVE  Inductive'
    BY <1>1, GradeReadInv, RegradeReadInv, CreateCheckInv, DeleteReadInv, EditReadInv
  <1>2. ASSUME NEW r \in Requests,
               \/ GradeOwned(r) \/ GradeCheck(r) \/ \E g \in GradeIds : GradeCommit(r, g)
               \/ RegradeCheck(r) \/ RegradeCommit(r)
        PROVE  Inductive'
    BY <1>2, GradeOwnedInv, GradeCheckInv, GradeCommitInv, RegradeCheckInv, RegradeCommitInv
  <1>3. ASSUME NEW r \in Requests,
               \/ EditCheck(r) \/ EditCommit(r) \/ DeleteCommit(r) \/ Abort(r)
               \/ \E a \in Assessments : CreateCommit(r, a)
        PROVE  Inductive'
    BY <1>3, EditCheckInv, EditCommitInv, DeleteCommitInv, AbortInv, CreateCommitInv
  <1>4. ASSUME NEW c \in Classes,
               \/ \E t \in Teachers : Reassign(c, t)
               \/ \E s \in Students : Enroll(s, c) \/ Drop(s, c)
        PROVE  Inductive'
    BY <1>4, OthersInv
  <1>5. CASE UNCHANGED vars
    BY <1>5 DEF vars, Inductive, TypeOK, Sound, Upto, Held, StillIn, GradesAreJust, ScoreWithinMaximum,
                GradedWereEnrolled
  <1> QED BY <1>1, <1>2, <1>3, <1>4, <1>5 DEF Next

\* The inductive invariant: what a request has read of an assessment is
\* still so, or past says which edit undid it; and who was seen to own a
\* class has owned it.
THEOREM InductiveInvariant ==
    ASSUME Scores \subseteq Nat
    PROVE  Spec => []Inductive
  <1>1. Inductive /\ [Next]_vars => Inductive'
    BY StepInv
  <1> QED BY <1>1, InitInv, PTL DEF Spec

\* Rows, history and requests keep their types, and a grade has its
\* assessment, deletes notwithstanding.
THEOREM TypeCorrect ==
    ASSUME Scores \subseteq Nat
    PROVE  Spec => []TypeOK
  <1>1. Inductive => TypeOK
    BY DEF Inductive
  <1> QED BY <1>1, InductiveInvariant, PTL

\* A score exceeds its maximum only after that was lowered, and a graded
\* student was never in the class only after the assessment was moved:
\* however the four writes and the drops interleave.
THEOREM GradesAlwaysJust ==
    ASSUME Scores \subseteq Nat
    PROVE  Spec => []GradesAreJust
  <1>1. Inductive => GradesAreJust
    BY DEF Inductive
  <1> QED BY <1>1, InductiveInvariant, PTL

-----------------------------------------------------------------------------

\* Only the request that ends in a step writes in it.
LEMMA OneWriter ==
    ASSUME Inductive, [Next]_vars, NEW r \in Requests, work[r] # Idle, work'[r] = Idle,
           NEW a \in Assessments, Touched(a)
    PROVE  \/ \E g \in GradeIds : GradeCommit(r, g)
           \/ RegradeCommit(r) \/ EditCommit(r) \/ DeleteCommit(r)
           \/ \E b \in Assessments : CreateCommit(r, b)
  <1>1. work \in [Requests -> Work]
    BY DEF Inductive, TypeOK
  <1>2. <<assessment, grade>>' # <<assessment, grade>>
    BY DEF Touched
  <1>3. PICK q \in Requests :
          \/ \E g \in GradeIds : GradeCommit(q, g)
          \/ RegradeCommit(q) \/ EditCommit(q) \/ DeleteCommit(q)
          \/ \E b \in Assessments : CreateCommit(q, b)
    BY <1>2 DEF vars, Next, GradeRead, RegradeRead, CreateCheck, DeleteRead, EditRead, GradeOwned, GradeCheck,
                RegradeCheck, EditCheck, Abort, Reassign, Enroll, Drop
  <1>4. Become(q, Idle)
    BY <1>3 DEF GradeCommit, RegradeCommit, EditCommit, DeleteCommit, CreateCommit
  <1>5. q = r
    BY <1>1, <1>4 DEF Become
  <1> QED BY <1>3, <1>5

\* Where the ownership was checked is where the write lands, unless the
\* assessment was moved.
LEMMA CheckedWhereItLands ==
    ASSUME NEW r \in Requests, Held(work[r].by, work[r].class),
           NEW a \in DOMAIN assessment, StillIn(work[r].class, a)
    PROVE  MovedSince(r, a) \/ work[r].by \X {assessment[a].class} \subseteq past.held
  BY DEF MovedSince, Held, StillIn

\* What is touched: the assessment that the grade is of, or the request's.
LEMMA GradesTouch ==
    ASSUME Inductive, NEW r \in Requests, NEW a \in Assessments, Touched(a),
           (\E g \in GradeIds : GradeCommit(r, g)) \/ RegradeCommit(r)
    PROVE  /\ assessment' = assessment /\ a \in DOMAIN assessment
           /\ Held(work[r].by, work[r].class) /\ StillIn(work[r].class, a)
  <1>1. work[r] \in Work /\ Sound(work[r])
    BY DEF Inductive, TypeOK
  <1>2. ASSUME NEW g \in GradeIds, GradeCommit(r, g) PROVE a = work[r].row.assessment
    BY <1>2 DEF GradeCommit, Touched, Insert
  <1>3. ASSUME RegradeCommit(r) PROVE a = grade[work[r].id].assessment /\ work[r].id \in DOMAIN grade
    <2>1. /\ work[r].id \in DOMAIN grade /\ grade[work[r].id] \in Grade /\ assessment' = assessment
          /\ grade' = [grade EXCEPT ![work[r].id].score = work[r].score]
      BY <1>1, <1>3 DEF Sound, RegradeCommit, Inductive, TypeOK
    <2>2. /\ DOMAIN grade' = DOMAIN grade /\ grade'[work[r].id].assessment = grade[work[r].id].assessment
          /\ \A g \in DOMAIN grade : g # work[r].id => grade'[g] = grade[g]
      BY <2>1 DEF Grade
    <2>3. PICK g \in DOMAIN grade' : grade'[g].assessment = a /\ (g \in DOMAIN grade => grade'[g] # grade[g])
      BY <2>1 DEF Touched
    <2> QED BY <2>1, <2>2, <2>3
  <1>4. CASE \E g \in GradeIds : GradeCommit(r, g)
    BY <1>1, <1>2, <1>4 DEF GradeCommit, Sound
  <1>5. CASE RegradeCommit(r)
    BY <1>1, <1>3, <1>5 DEF RegradeCommit, Sound, Inductive, TypeOK
  <1> QED BY <1>4, <1>5

LEMMA EditsTouch ==
    ASSUME Inductive, NEW r \in Requests, NEW a \in Assessments, Touched(a), EditCommit(r) \/ DeleteCommit(r)
    PROVE  /\ a \in DOMAIN assessment /\ Held(work[r].by, work[r].class) /\ StillIn(work[r].class, a)
           /\ a \in DOMAIN assessment' => \/ assessment'[a].class = assessment[a].class
                                          \/ Held(work[r].by, assessment'[a].class)
  <1>1. work[r] \in Work /\ Sound(work[r])
    BY DEF Inductive, TypeOK
  <1>2. CASE DeleteCommit(r)
    <2>1. grade' = grade /\ assessment' = [b \in DOMAIN assessment \ {work[r].id} |-> assessment[b]]
      BY <1>2 DEF DeleteCommit
    <2>2. a = work[r].id
      BY <2>1 DEF Touched
    <2> QED BY <1>1, <1>2, <2>1, <2>2 DEF DeleteCommit, Sound
  <1>3. CASE EditCommit(r)
    <2> DEFINE row == Edited(assessment[work[r].id], work[r].set)
    <2>1. /\ grade' = grade /\ work[r].pc = "edit_checked" /\ work[r].id \in DOMAIN assessment
          /\ assessment' = [assessment EXCEPT ![work[r].id] = row]
      BY <1>3 DEF EditCommit, Edited
    <2>2. a = work[r].id
      <3> HIDE DEF row
      <3> QED BY <2>1 DEF Touched
    <2>3. assessment[a] \in Assessment
      BY <2>1, <2>2 DEF Inductive, TypeOK
    <2>4. row.class = IF "class" \in DOMAIN work[r].set THEN work[r].set.class ELSE assessment[a].class
      BY <2>2, <2>3 DEF Edited, Assessment
    <2> HIDE DEF row
    <2>5. assessment'[a] = row
      BY <2>1, <2>2
    <2>6. "class" \in DOMAIN work[r].set => Held(work[r].by, work[r].set.class)
      BY <1>1, <2>1 DEF Sound
    <2>7. assessment'[a].class = assessment[a].class \/ Held(work[r].by, assessment'[a].class)
      BY <2>4, <2>5, <2>6
    <2> QED BY <1>1, <2>1, <2>2, <2>7 DEF Sound
  <1> QED BY <1>2, <1>3

LEMMA CreatesTouch ==
    ASSUME Inductive, NEW r \in Requests, NEW a \in Assessments, Touched(a),
           NEW b \in Assessments, CreateCommit(r, b)
    PROVE  a \notin DOMAIN assessment /\ Held(work[r].by, assessment'[a].class)
  <1>1. /\ work[r].pc = "create_checked" /\ Sound(work[r]) /\ b \notin DOMAIN assessment
        /\ assessment' = Insert(assessment, b, work[r].row) /\ grade' = grade
    BY DEF CreateCommit, Inductive
  <1>2. a = b
    BY <1>1 DEF Touched, Insert
  <1> QED BY <1>1, <1>2 DEF Insert, Sound

LEMMA StepAtHome ==
    ASSUME Inductive, [Next]_vars
    PROVE  TeachersWriteAtHome
  <1> SUFFICES ASSUME NEW r \in Requests, NEW a \in Assessments, work[r] # Idle, work'[r] = Idle, Touched(a)
               PROVE  LET HasHad(c) == work[r].by \X {c} \subseteq past.held
                          stays == a \in DOMAIN assessment /\ assessment'[a].class = assessment[a].class
                      IN  /\ a \in DOMAIN assessment => MovedSince(r, a) \/ HasHad(assessment[a].class)
                          /\ a \in DOMAIN assessment' => stays \/ HasHad(assessment'[a].class)
    BY DEF TeachersWriteAtHome
  <1>1. \A c : Held(work[r].by, c) => work[r].by \X {c} \subseteq past.held
    BY DEF Held
  <1>2. CASE (\E g \in GradeIds : GradeCommit(r, g)) \/ RegradeCommit(r)
    BY <1>2, GradesTouch, CheckedWhereItLands
  <1>3. CASE EditCommit(r) \/ DeleteCommit(r)
    BY <1>1, <1>3, EditsTouch, CheckedWhereItLands
  <1>4. CASE \E b \in Assessments : CreateCommit(r, b)
    BY <1>1, <1>4, CreatesTouch
  <1> QED BY <1>2, <1>3, <1>4, OneWriter

\* What a teacher's request writes lands in a class that teacher has had,
\* whenever classes change hands; and if not, the assessment was moved after
\* the request read it.
THEOREM TeachersAlwaysAtHome ==
    ASSUME Scores \subseteq Nat
    PROVE  Spec => [][TeachersWriteAtHome]_vars
  <1>1. Inductive /\ [Next]_vars => [TeachersWriteAtHome]_vars
    BY StepAtHome
  <1> QED BY <1>1, InductiveInvariant, PTL DEF Spec

-----------------------------------------------------------------------------
(* Grades implements KeyTable.                                             *)

keys == [g \in DOMAIN grade |-> {<<grade[g].assessment, grade[g].student>>}]

LEMMA KeysInit == Init => GradeTable!Init
  BY DEF Init, GradeTable!Init

\* A new grade is an Insert, and a regrade leaves the key alone.
LEMMA KeysStep ==
    ASSUME Inductive, [Next]_vars
    PROVE  [GradeTable!Next]_keys
  <1>1. CASE UNCHANGED grade
    BY <1>1 DEF keys
  <1>2. ASSUME NEW r \in Requests, NEW g \in GradeIds, GradeCommit(r, g)
        PROVE  GradeTable!Next
    <2>1. PICK row \in Grade :
             /\ ~Graded(row.assessment, row.student) /\ g \notin DOMAIN grade
             /\ grade' = Insert(grade, g, row)
      BY <1>2, WorkKinds DEF GradeCommit, Inductive, TypeOK
    <2>2. /\ DOMAIN grade' = DOMAIN grade \cup {g} /\ grade'[g] = row
          /\ \A h \in DOMAIN grade : grade'[h] = grade[h]
      BY <2>1 DEF Insert
    <2> DEFINE k == <<row.assessment, row.student>>
    <2>3. k \in Assessments \X Students
      BY DEF Grade
    <2>4. /\ DOMAIN keys' = DOMAIN keys \cup {g} /\ keys'[g] = {k} /\ g \notin DOMAIN keys
          /\ \A h \in DOMAIN keys : keys'[h] = keys[h]
      BY <2>1, <2>2 DEF keys
    <2>5. k \notin GradeTable!InUse(DOMAIN keys)
      BY <2>1 DEF GradeTable!InUse, keys, Graded
    <2> HIDE DEF k
    <2>6. GradeTable!Insert(g)
      BY <2>3, <2>4, <2>5 DEF GradeTable!Insert, GradeTable!Keep, keys
    <2> QED BY <2>6 DEF GradeTable!Next
  <1>3. ASSUME NEW r \in Requests, RegradeCommit(r)
        PROVE  UNCHANGED keys
    <2>1. /\ work[r].id \in DOMAIN grade /\ grade[work[r].id] \in Grade
          /\ grade' = [grade EXCEPT ![work[r].id].score = work[r].score]
      BY <1>3 DEF RegradeCommit, Inductive, TypeOK, Sound
    <2>2. /\ DOMAIN grade' = DOMAIN grade
          /\ \A g \in DOMAIN grade :
               grade'[g].assessment = grade[g].assessment /\ grade'[g].student = grade[g].student
      BY <2>1 DEF Grade
    <2> QED BY <2>2 DEF keys
  <1>4. CASE Next
    <2>1. \/ UNCHANGED grade
          \/ \E r \in Requests : RegradeCommit(r) \/ \E g \in GradeIds : GradeCommit(r, g)
      BY <1>4 DEF Next, GradeRead, RegradeRead, CreateCheck, DeleteRead, EditRead, GradeOwned, GradeCheck,
                  RegradeCheck, EditCheck, EditCommit, DeleteCommit, CreateCommit, Abort, Reassign, Enroll, Drop
    <2> QED BY <1>1, <1>2, <1>3, <2>1
  <1> QED BY <1>1, <1>4 DEF vars

\* The grades are a KeyTable: one for a student and an assessment, and
\* theirs for good, whatever two requests checked at once.
THEOREM GradesAreAKeyTable ==
    ASSUME Scores \subseteq Nat
    PROVE  Spec => OneGradePerStudent
  <1>1. Inductive /\ [Next]_vars => [GradeTable!Next]_keys
    BY KeysStep
  <1> QED BY <1>1, KeysInit, InductiveInvariant, PTL
        DEF Spec, OneGradePerStudent, GradeTable!Spec, keys
-----------------------------------------------------------------------------
(* The views.                                                              *)

OneGradeEach ==
    \A g, h \in DOMAIN grade :
        grade[g].assessment = grade[h].assessment /\ grade[g].student = grade[h].student => g = h

LEMMA OneGradeInit == Init => OneGradeEach
  BY DEF Init, OneGradeEach

LEMMA OneGradeStep ==
    ASSUME Inductive, OneGradeEach, [Next]_vars
    PROVE  OneGradeEach'
  <1>1. CASE UNCHANGED grade
    BY <1>1 DEF OneGradeEach
  <1>2. ASSUME NEW r \in Requests, NEW g \in GradeIds, GradeCommit(r, g)
        PROVE  OneGradeEach'
    <2>1. PICK new \in Grade : ~Graded(new.assessment, new.student) /\ grade' = Insert(grade, g, new)
      BY <1>2, WorkKinds DEF GradeCommit, Inductive, TypeOK
    <2> QED BY <2>1 DEF Insert, Graded, OneGradeEach
  <1>3. ASSUME NEW r \in Requests, RegradeCommit(r)
        PROVE  OneGradeEach'
    <2>1. /\ work[r].id \in DOMAIN grade /\ grade[work[r].id] \in Grade
          /\ grade' = [grade EXCEPT ![work[r].id].score = work[r].score]
      BY <1>3 DEF RegradeCommit, Inductive, TypeOK, Sound
    <2>2. /\ DOMAIN grade' = DOMAIN grade
          /\ \A g \in DOMAIN grade :
               grade'[g].assessment = grade[g].assessment /\ grade'[g].student = grade[g].student
      BY <2>1 DEF Grade
    <2> QED BY <2>2 DEF OneGradeEach
  <1>4. CASE Next
    <2>1. \/ UNCHANGED grade
          \/ \E r \in Requests : RegradeCommit(r) \/ \E g \in GradeIds : GradeCommit(r, g)
      BY <1>4 DEF Next, GradeRead, RegradeRead, CreateCheck, DeleteRead, EditRead, GradeOwned, GradeCheck,
                  RegradeCheck, EditCheck, EditCommit, DeleteCommit, CreateCommit, Abort, Reassign, Enroll, Drop
    <2> QED BY <1>1, <1>2, <1>3, <2>1
  <1> QED BY <1>1, <1>4 DEF vars

LEMMA ShownOrRefused == \A S : Shown(S) # Refused /\ Shown(S).rows = S
  <1> SUFFICES ASSUME NEW S PROVE Shown(S) # Refused
    BY DEF Shown
  <1>1. DOMAIN Shown(S) = {"rows"} /\ DOMAIN Refused = {"refused"}
    BY DEF Shown, Refused
  <1> QED BY <1>1

LEMMA CallerKinds ==
    ASSUME NEW u \in Callers
    PROVE  /\ u.role \in {"admin", "teacher", "student"}
           /\ u.role = "teacher" => u.mine = {} \/ \E t \in Teachers : u.mine = {t}
           /\ u.role = "student" => u.mine = {} \/ \E s \in Students : u.mine = {s}
  BY DEF Callers

\* What a teacher lists of rows that have a class each: those of their own
\* classes that pass the filter, or a refusal where there are none.
LEMMA TeachersLists ==
    ASSUME TypeOK, NEW u \in Callers, u.role = "teacher", NEW filter \in Filters, NEW X, NEW class \in [X -> Classes]
    PROVE  LET shown == OfTeacher(u, filter, [c \in Classes |-> {x \in X : class[x] = c}])
               wanted == {x \in X : OwnsAs(u, class[x]) /\ Kept(filter, class[x])}
           IN  shown = Shown(wanted) \/ (shown = Refused /\ wanted = {})
  <1> DEFINE rows == [c \in Classes |-> {x \in X : class[x] = c}]
             wanted == {x \in X : OwnsAs(u, class[x]) /\ Kept(filter, class[x])}
  <1>1. \A c \in Classes : c \in OwnedIds(u) <=> OwnsAs(u, c)
    BY CallerKinds DEF OwnedIds, OwnsAs
  <1>2. CASE u.mine # {} /\ ~filter \subseteq OwnedIds(u)
    <2>1. PICK c \in Classes : filter = {c} /\ ~OwnsAs(u, c)
      BY <1>1, <1>2 DEF Filters
    <2>2. wanted = {}
      BY <2>1 DEF Kept
    <2> QED BY <1>2, <2>2 DEF OfTeacher
  <1>3. CASE ~(u.mine # {} /\ ~filter \subseteq OwnedIds(u))
    <2>1. OfTeacher(u, filter, rows) = Shown(UNION {rows[c] : c \in {k \in OwnedIds(u) : Kept(filter, k)}})
      BY <1>3 DEF OfTeacher
    <2>2. OwnedIds(u) \subseteq Classes
      BY DEF OwnedIds
    <2>3. \A c \in {k \in OwnedIds(u) : Kept(filter, k)} : rows[c] = {x \in X : class[x] = c}
      BY <2>2
    <2>4. ASSUME NEW x \in wanted
          PROVE  x \in UNION {rows[c] : c \in {k \in OwnedIds(u) : Kept(filter, k)}}
      <3>1. class[x] \in {k \in OwnedIds(u) : Kept(filter, k)} /\ x \in rows[class[x]]
        BY <1>1
      <3> QED BY <3>1
    <2>5. UNION {rows[c] : c \in {k \in OwnedIds(u) : Kept(filter, k)}} \subseteq wanted
      BY <1>1, <2>2, <2>3
    <2>6. UNION {rows[c] : c \in {k \in OwnedIds(u) : Kept(filter, k)}} = wanted
      BY <2>4, <2>5
    <2> QED BY <2>1, <2>6
  <1> QED BY <1>2, <1>3

LEMMA GradesClass ==
    ASSUME TypeOK, NEW g \in DOMAIN grade
    PROVE  /\ ClassOf(g) \in Classes /\ grade[g].assessment \in DOMAIN assessment
           /\ grade[g].student \in Students /\ g \in GradeIds
  BY DEF TypeOK, ClassOf, Assessment, Grade

LEMMA AssessmentsAgree ==
    ASSUME TypeOK, NEW u \in Callers, NEW f \in Filters
    PROVE  LET shown == ListAssessments(u, f)
               wanted == {x \in {a \in Assessments : GetAssessment(u, a)} : Kept(f, assessment[x].class)}
           IN  shown = Shown(wanted) \/ (shown = Refused /\ wanted = {})
  <1> DEFINE X == DOMAIN assessment
             class == [a \in X |-> assessment[a].class]
             wanted == {x \in {a \in Assessments : GetAssessment(u, a)} : Kept(f, assessment[x].class)}
  <1>1. class \in [X -> Classes] /\ X \subseteq Assessments
    BY DEF TypeOK, Assessment
  <1>2. CASE u.role = "teacher"
    <2>1. [c \in Classes |-> {a \in X : assessment[a].class = c}] = [c \in Classes |-> {x \in X : class[x] = c}]
      OBVIOUS
    <2>2. wanted = {x \in X : OwnsAs(u, class[x]) /\ Kept(f, class[x])}
      BY <1>1 DEF GetAssessment
    <2>3. ListAssessments(u, f) = OfTeacher(u, f, [c \in Classes |-> {x \in X : class[x] = c}])
      BY <1>2, <2>1 DEF ListAssessments
    <2> HIDE DEF X, class, wanted
    <2> QED BY <1>1, <1>2, <2>2, <2>3, TeachersLists DEF wanted
  <1>3. CASE u.role # "teacher"
    <2>1. wanted = {a \in X : Kept(f, assessment[a].class)}
      BY <1>1, <1>3 DEF GetAssessment, OwnsAs
    <2> QED BY <1>3, <2>1 DEF ListAssessments
  <1> QED BY <1>2, <1>3

LEMMA GradesAgree ==
    ASSUME TypeOK, NEW u \in Callers, NEW f \in Filters
    PROVE  LET shown == ListGrades(u, f)
               wanted == {x \in {g \in GradeIds : GetGrade(u, g)} : Kept(f, ClassOf(x))}
           IN  shown = Shown(wanted) \/ (shown = Refused /\ wanted = {})
  <1> DEFINE X == DOMAIN grade
             class == [g \in X |-> ClassOf(g)]
             wanted == {x \in {g \in GradeIds : GetGrade(u, g)} : Kept(f, ClassOf(x))}
  <1>1. class \in [X -> Classes] /\ X \subseteq GradeIds
    BY GradesClass
  <1>2. CASE u.role = "teacher"
    <2>1. [c \in Classes |-> {g \in X : ClassOf(g) = c}] = [c \in Classes |-> {x \in X : class[x] = c}]
      OBVIOUS
    <2>2. wanted = {x \in X : OwnsAs(u, class[x]) /\ Kept(f, class[x])}
      BY <1>1, <1>2 DEF GetGrade
    <2>3. ListGrades(u, f) = OfTeacher(u, f, [c \in Classes |-> {x \in X : class[x] = c}])
      BY <1>2, <2>1 DEF ListGrades
    <2> HIDE DEF X, class, wanted
    <2> QED BY <1>1, <1>2, <2>2, <2>3, TeachersLists DEF wanted
  <1>3. CASE u.role # "teacher"
    <2>1. \A g \in X : (u.role = "student" => u.mine = {grade[g].student}) <=> (u.role = "student" => grade[g].student \in u.mine)
      BY CallerKinds
    <2>2. wanted = {g \in X : Kept(f, ClassOf(g)) /\ (u.role = "student" => grade[g].student \in u.mine)}
      BY <1>1, <1>3, <2>1 DEF GetGrade, OwnsAs
    <2> QED BY <1>3, <2>2 DEF ListGrades
  <1> QED BY <1>2, <1>3

LEMMA EnrollmentsAgree ==
    ASSUME TypeOK, NEW u \in Callers, NEW f \in Filters
    PROVE  LET shown == ListEnrollments(u, f)
               wanted == {x \in {e \in Students \X Classes : GetEnrollment(u, e)} : Kept(f, x[2])}
           IN  shown = Shown(wanted) \/ (shown = Refused /\ wanted = {})
  <1> DEFINE X == DOMAIN enrolled
             class == [e \in X |-> e[2]]
             wanted == {x \in {e \in Students \X Classes : GetEnrollment(u, e)} : Kept(f, x[2])}
  <1>1. class \in [X -> Classes] /\ X \subseteq Students \X Classes
    BY DEF TypeOK
  <1>2. CASE u.role = "teacher"
    <2>1. [c \in Classes |-> {e \in X : e[2] = c}] = [c \in Classes |-> {x \in X : class[x] = c}]
      OBVIOUS
    <2>2. wanted = {x \in X : OwnsAs(u, class[x]) /\ Kept(f, class[x])}
      BY <1>1, <1>2 DEF GetEnrollment
    <2>3. ListEnrollments(u, f) = OfTeacher(u, f, [c \in Classes |-> {x \in X : class[x] = c}])
      BY <1>2, <2>1 DEF ListEnrollments
    <2> HIDE DEF X, class, wanted
    <2> QED BY <1>1, <1>2, <2>2, <2>3, TeachersLists DEF wanted
  <1>3. CASE u.role # "teacher"
    <2>1. \A e \in X : (u.role = "student" => u.mine = {e[1]}) <=> (u.role = "student" => e[1] \in u.mine)
      BY CallerKinds
    <2>2. wanted = {e \in X : Kept(f, e[2]) /\ (u.role = "student" => e[1] \in u.mine)}
      BY <1>1, <1>3, <2>1 DEF GetEnrollment, OwnsAs
    <2> QED BY <1>3, <2>2 DEF ListEnrollments
  <1> QED BY <1>2, <1>3

LEMMA ListsAlwaysAgree == TypeOK => ListsAgreeWithGet
  <1> SUFFICES ASSUME TypeOK, NEW u \in Callers, NEW f \in Filters
               PROVE  /\ Agrees(ListAssessments(u, f), {a \in Assessments : GetAssessment(u, a)},
                                LAMBDA x : assessment[x].class, f)
                      /\ Agrees(ListGrades(u, f), {g \in GradeIds : GetGrade(u, g)}, ClassOf, f)
                      /\ Agrees(ListEnrollments(u, f), {e \in Students \X Classes : GetEnrollment(u, e)},
                                LAMBDA x : x[2], f)
    BY DEF ListsAgreeWithGet
  <1>1. Agrees(ListAssessments(u, f), {a \in Assessments : GetAssessment(u, a)}, LAMBDA x : assessment[x].class, f)
    BY AssessmentsAgree, ShownOrRefused DEF Agrees
  <1>2. Agrees(ListGrades(u, f), {g \in GradeIds : GetGrade(u, g)}, ClassOf, f)
    BY GradesAgree, ShownOrRefused DEF Agrees
  <1>3. Agrees(ListEnrollments(u, f), {e \in Students \X Classes : GetEnrollment(u, e)}, LAMBDA x : x[2], f)
    BY EnrollmentsAgree, ShownOrRefused DEF Agrees
  <1> QED BY <1>1, <1>2, <1>3

LEMMA GradebooksAgree == TypeOK /\ OneGradeEach => GradebookIsTheList
  <1> SUFFICES ASSUME TypeOK, OneGradeEach, NEW u \in Callers, NEW c \in Classes, Gradebook(u, c) # Refused
               PROVE  LET book == Gradebook(u, c)
                          cells == UNION {{book.rows[s][a] : a \in DOMAIN book.rows[s]} : s \in DOMAIN book.rows}
                      IN  /\ \A x \in cells : \A g, h \in x : g = h
                          /\ UNION cells = {g \in ListGrades(u, {c}).rows :
                                \E e \in DOMAIN enrolled : e = <<grade[g].student, c>> /\ enrolled[e] = "active"}
    BY DEF GradebookIsTheList
  <1> DEFINE columns == {a \in DOMAIN assessment : assessment[a].class = c}
             cell(s, a) == {g \in {h \in DOMAIN grade : grade[h].assessment \in columns} :
                               grade[g].student = s /\ grade[g].assessment = a}
             rows == [s \in Active(c) |-> [a \in columns |-> cell(s, a)]]
             cells == UNION {{rows[s][a] : a \in DOMAIN rows[s]} : s \in DOMAIN rows}
             listed == {g \in DOMAIN grade : ClassOf(g) = c}
  <1>1. Gradebook(u, c).rows = rows /\ u.role # "student" /\ OwnsAs(u, c)
    BY ShownOrRefused DEF Gradebook
  <1>2. /\ \A x \in cells : \E s \in Active(c), a \in columns : x = cell(s, a)
        /\ \A s \in Active(c), a \in columns : cell(s, a) \in cells
    <2>1. /\ DOMAIN rows = Active(c)
          /\ \A s \in Active(c) : DOMAIN rows[s] = columns /\ \A a \in columns : rows[s][a] = cell(s, a)
      OBVIOUS
    <2> HIDE DEF rows, cell, columns
    <2>2. \A x : x \in cells <=> \E s \in DOMAIN rows : \E a \in DOMAIN rows[s] : x = rows[s][a]
      OBVIOUS
    <2> HIDE DEF cells
    <2>3. ASSUME NEW x \in cells PROVE \E s \in Active(c), a \in columns : x = cell(s, a)
      BY <2>1, <2>2
    <2>4. ASSUME NEW s \in Active(c), NEW a \in columns PROVE cell(s, a) \in cells
      BY <2>1, <2>2
    <2> QED BY <2>3, <2>4
  <1>3. ASSUME NEW x \in cells, NEW g \in x, NEW h \in x PROVE g = h
    <2>1. PICK s \in Active(c), a \in columns : x = cell(s, a)
      BY <1>2
    <2> QED BY <2>1 DEF OneGradeEach
  <1>4. UNION cells = {g \in listed : grade[g].student \in Active(c)}
    <2>1. \A g \in DOMAIN grade : g \in listed <=> grade[g].assessment \in columns
      BY GradesClass DEF ClassOf
    <2>2. ASSUME NEW g \in UNION cells PROVE g \in listed /\ grade[g].student \in Active(c)
      <3>1. PICK x \in cells : g \in x
        OBVIOUS
      <3>2. PICK s \in Active(c), a \in columns : x = cell(s, a)
        BY <1>2
      <3>3. g \in DOMAIN grade /\ grade[g].student = s /\ grade[g].assessment = a
        BY <3>1, <3>2
      <3> HIDE DEF cells, cell, listed, columns
      <3> QED BY <2>1, <3>2, <3>3
    <2>3. ASSUME NEW g \in listed, grade[g].student \in Active(c) PROVE g \in UNION cells
      <3>1. g \in DOMAIN grade
        OBVIOUS
      <3>2. grade[g].assessment \in columns
        <4> HIDE DEF listed, columns, cells
        <4> QED BY <2>1, <2>3, <3>1
      <3>3. g \in cell(grade[g].student, grade[g].assessment)
        <4> HIDE DEF columns, cells
        <4> QED BY <3>1, <3>2
      <3> HIDE DEF cell, cells, columns, listed
      <3> QED BY <1>2, <2>3, <3>2, <3>3
    <2> QED BY <2>2, <2>3
  <1>5. ListGrades(u, {c}).rows = listed
    <2>1. \A g \in DOMAIN grade : Kept({c}, ClassOf(g)) <=> ClassOf(g) = c
      BY DEF Kept
    <2>2. CASE u.role # "teacher"
      BY <1>1, <2>1, <2>2, ShownOrRefused DEF ListGrades
    <2>3. CASE u.role = "teacher"
      <3>1. OwnedIds(u) \subseteq Classes /\ c \in OwnedIds(u)
        BY <1>1, <2>3 DEF OwnsAs, OwnedIds
      <3>2. {k \in OwnedIds(u) : Kept({c}, k)} = {c}
        BY <3>1 DEF Kept
      <3>3. ListGrades(u, {c}) = Shown(UNION {[j \in Classes |-> {g \in DOMAIN grade : ClassOf(g) = j}][k] : k \in {c}})
        BY <2>3, <3>1, <3>2 DEF ListGrades, OfTeacher
      <3>4. UNION {[j \in Classes |-> {g \in DOMAIN grade : ClassOf(g) = j}][k] : k \in {c}} = listed
        OBVIOUS
      <3> QED BY <3>3, <3>4, ShownOrRefused
    <2> QED BY <2>2, <2>3
  <1>6. \A g \in listed : grade[g].student \in Active(c) <=>
          \E e \in DOMAIN enrolled : e = <<grade[g].student, c>> /\ enrolled[e] = "active"
    BY GradesClass DEF Active
  <1> HIDE DEF rows, listed
  <1> QED BY <1>1, <1>3, <1>4, <1>5, <1>6

\* Lists show what get shows one by one, and a gradebook what the lists do.
THEOREM ViewsAlwaysAgree ==
    ASSUME Scores \subseteq Nat
    PROVE  Spec => []ViewsAgree
  <1>1. Inductive /\ OneGradeEach /\ [Next]_vars => OneGradeEach'
    BY OneGradeStep
  <1>2. Inductive /\ OneGradeEach => ViewsAgree
    BY ListsAlwaysAgree, GradebooksAgree DEF Inductive, ViewsAgree
  <1> QED BY <1>1, <1>2, OneGradeInit, InductiveInvariant, PTL DEF Spec
=============================================================================
