------------------------ MODULE ChangeRequestsProofs ------------------------
(* Theorems about ChangeRequests for every set of teachers, e-mails, change *)
(* requests and HTTP requests.                                             *)
EXTENDS ChangeRequests, TLAPS

\* What an HTTP request has read of a change request, and still is so.
Sound(w) ==
    /\ w.pc \in {"approve_read", "applied", "reject_read"} => w.change \in DOMAIN change
    /\ w.pc = "applied" => "applied" \in past[w.change]
    /\ w.pc \in {"update_read", "update_checked"} =>
         w.for = {} \/ \E c \in DOMAIN change : w.for = {c}

Inductive ==
    /\ TypeOK
    /\ \A r \in Requests : Sound(work[r])
    /\ \A c \in Changes \ DOMAIN change : past[c] = {}
    /\ ReviewsAreSound

LEMMA WorkKinds ==
    ASSUME NEW w \in Work
    PROVE  /\ w.pc = "create_checked" => w.teacher \in Teachers /\ w.proposal \in Proposal
           /\ w.pc \in {"approve_read", "applied", "reject_read"} => w.change \in Changes
           /\ w.pc \in {"update_read", "update_checked"} =>
                /\ w.teacher \in Teachers /\ w.proposal \in Proposal
                /\ w.loaded \in Row /\ w.for \subseteq Changes
                /\ w = [pc |-> w.pc, teacher |-> w.teacher, proposal |-> w.proposal,
                        loaded |-> w.loaded, for |-> w.for]
           /\ w.pc = "update_read" =>
                /\ [w EXCEPT !.pc = "update_checked"] \in Work
                /\ [w EXCEPT !.pc = "update_checked"].pc = "update_checked"
                /\ [w EXCEPT !.pc = "update_checked"].for = w.for
  BY DEF Work, Idle

LEMMA IdleWork == Idle \in Work /\ Idle.pc = "idle"
  BY DEF Work, Idle

LEMMA IdleSound == Sound(Idle)
  BY IdleWork DEF Sound

\* What the columns of a row are once a body has been written over them.
LEMMA UpdatedRow ==
    ASSUME NEW w \in Work, w.pc = "update_checked", w.teacher \in DOMAIN teacher,
           teacher[w.teacher] \in Row
    PROVE  Updated(w) \in Row
  <1>1. w.proposal \in Proposal
    BY WorkKinds
  <1>2. /\ "email" \in DOMAIN w.proposal => w.proposal["email"] \in Emails
        /\ "name" \in DOMAIN w.proposal => w.proposal["name"] \in Names
    BY <1>1 DEF Proposal, Row
  <1>3. /\ DOMAIN teacher[w.teacher] = {"email", "name"}
        /\ teacher[w.teacher]["email"] \in Emails /\ teacher[w.teacher]["name"] \in Names
    BY DEF Row
  <1> QED BY <1>2, <1>3 DEF Updated, Changed, Row

-----------------------------------------------------------------------------
(* Steps that read.                                                        *)

LEMMA ReadsInv ==
    ASSUME Inductive, NEW r \in Requests, NEW w \in Work, Become(r, w), Sound(w),
           work[r].pc # "applied", UNCHANGED <<teacher, change, past>>
    PROVE  Inductive'
  <1>1. \A q \in Requests : work'[q] = IF q = r THEN w ELSE work[q]
    BY DEF Become, Inductive, TypeOK
  <1>2. TypeOK'
    BY <1>1 DEF Become, Inductive, TypeOK
  <1>3. \A q \in Requests : Sound(work[q])'
    BY <1>1 DEF Inductive, Sound
  <1>4. AppliedIsApproved'
    BY <1>1 DEF Inductive, ReviewsAreSound, AppliedIsApproved, Rows
  <1>5. OnePendingPerTeacher' /\ ApprovedWasApplied'
    BY DEF Inductive, ReviewsAreSound, OnePendingPerTeacher, ApprovedWasApplied, Rows
  <1> QED BY <1>2, <1>3, <1>4, <1>5 DEF Inductive, ReviewsAreSound

LEMMA UpdateReadInv ==
    ASSUME Inductive, NEW r \in Requests, NEW t \in Teachers, NEW p \in Proposal,
           NEW for \in SUBSET Changes, for = {} \/ \E c \in DOMAIN change : for = {c},
           work[r].pc # "applied", UpdateRead(r, t, p, for)
    PROVE  Inductive'
  <1> DEFINE w == [pc |-> "update_read", teacher |-> t, proposal |-> p,
                   loaded |-> teacher[t], for |-> for]
  <1>1. w \in Work
    BY DEF UpdateRead, Inductive, TypeOK, Work
  <1>2. Sound(w)
    BY DEF Sound
  <1>3. Become(r, w) /\ UNCHANGED <<teacher, change, past>>
    BY DEF UpdateRead
  <1> HIDE DEF w
  <1> QED BY <1>1, <1>2, <1>3, ReadsInv

LEMMA CreateCheckInv ==
    ASSUME Inductive, NEW r \in Requests, NEW t \in Teachers, NEW p \in Proposal, CreateCheck(r, t, p)
    PROVE  Inductive'
  <1> DEFINE w == [pc |-> "create_checked", teacher |-> t, proposal |-> p]
  <1>1. w \in Work /\ Sound(w)
    BY DEF Work, Sound
  <1>2. Become(r, w) /\ UNCHANGED <<teacher, change, past>> /\ work[r].pc # "applied"
    BY IdleWork DEF CreateCheck
  <1> HIDE DEF w
  <1> QED BY <1>1, <1>2, ReadsInv

LEMMA ReviewReadInv ==
    ASSUME Inductive, NEW r \in Requests, NEW c \in Changes, ApproveRead(r, c) \/ RejectRead(r, c)
    PROVE  Inductive'
  <1>1. PICK pc \in {"approve_read", "reject_read"} : ReviewRead(r, c, pc)
    BY DEF ApproveRead, RejectRead
  <1> DEFINE w == [pc |-> pc, change |-> c]
  <1>2. w \in Work
    BY DEF Work
  <1>3. Sound(w)
    BY <1>1 DEF Sound, ReviewRead, Rows
  <1>4. Become(r, w) /\ UNCHANGED <<teacher, change, past>> /\ work[r].pc # "applied"
    BY <1>1, IdleWork DEF ReviewRead
  <1> HIDE DEF w
  <1> QED BY <1>2, <1>3, <1>4, ReadsInv

LEMMA ApproveUpdateInv ==
    ASSUME Inductive, NEW r \in Requests, ApproveUpdate(r)
    PROVE  Inductive'
  <1> DEFINE c == work[r].change
  <1>1. work[r] \in Work /\ work[r].pc = "approve_read" /\ Sound(work[r])
    BY DEF Inductive, TypeOK, ApproveUpdate
  <1>2. c \in DOMAIN change /\ change[c] \in Change /\ c \in Changes
    BY <1>1 DEF Sound, Inductive, TypeOK
  <1>3. change[c].teacher \in Teachers /\ change[c].proposal \in Proposal
    BY <1>2 DEF Change
  <1>4. UpdateRead(r, change[c].teacher, change[c].proposal, {c})
    BY DEF ApproveUpdate
  <1> HIDE DEF c
  <1> QED BY <1>1, <1>2, <1>3, <1>4, UpdateReadInv

LEMMA UpdateCheckInv ==
    ASSUME Inductive, NEW r \in Requests, UpdateCheck(r)
    PROVE  Inductive'
  <1> DEFINE w == [work[r] EXCEPT !.pc = "update_checked"]
  <1>1. work[r] \in Work /\ work[r].pc = "update_read" /\ Sound(work[r])
    BY DEF Inductive, TypeOK, UpdateCheck
  <1>2. w \in Work /\ w.pc = "update_checked" /\ w.for = work[r].for
    BY <1>1, WorkKinds
  <1>3. Become(r, w) /\ UNCHANGED <<teacher, change, past>>
    BY DEF UpdateCheck
  <1> HIDE DEF w
  <1>4. Sound(w)
    BY <1>1, <1>2 DEF Sound
  <1> QED BY <1>1, <1>2, <1>3, <1>4, ReadsInv

-----------------------------------------------------------------------------
(* Steps that write.                                                       *)

LEMMA CreateCommitInv ==
    ASSUME Inductive, NEW r \in Requests, NEW c \in Changes, CreateCommit(r, c)
    PROVE  Inductive'
  <1> DEFINE row == [teacher |-> work[r].teacher, proposal |-> work[r].proposal, status |-> "pending"]
  <1>1. /\ work[r].pc = "create_checked" /\ c \notin DOMAIN change
        /\ work[r].teacher \in DOMAIN teacher /\ Pending(work[r].teacher) = {}
        /\ change' = [d \in DOMAIN change \cup {c} |-> IF d = c THEN row ELSE change[d]]
        /\ UNCHANGED <<teacher, past>> /\ Become(r, Idle)
    BY DEF CreateCommit, AddRow
  <1>2. work[r] \in Work /\ past[c] = {}
    BY <1>1 DEF Inductive, TypeOK
  <1>3. row \in Change /\ row.status = "pending" /\ row.teacher = work[r].teacher
    BY <1>1, <1>2, WorkKinds DEF Change, Statuses
  <1> HIDE DEF row
  <1>4. /\ DOMAIN change' = DOMAIN change \cup {c} /\ change'[c] = row
        /\ \A d \in DOMAIN change : change'[d] = change[d]
    BY <1>1
  <1>5. \A q \in Requests : work'[q] = IF q = r THEN Idle ELSE work[q]
    BY <1>1 DEF Become, Inductive, TypeOK
  <1>6. TypeOK'
    <2>1. work' \in [Requests -> Work]
      BY <1>1, IdleWork DEF Become, Inductive, TypeOK
    <2> QED BY <1>1, <1>3, <1>4, <2>1 DEF Inductive, TypeOK
  <1>7. \A q \in Requests : Sound(work[q])'
    BY <1>1, <1>4, <1>5, IdleWork DEF Inductive, Sound
  <1>8. \A d \in Changes \ DOMAIN change' : past'[d] = {}
    BY <1>1, <1>4 DEF Inductive
  <1>9. Rows' \ {c} = Rows
    BY <1>1, <1>4 DEF Rows
  <1>10. OnePendingPerTeacher'
    <2>1. \A d \in Rows : change[d].status = "pending" => change[d].teacher # work[r].teacher
      BY <1>1 DEF Pending
    <2> QED BY <1>1, <1>3, <1>4, <1>9, <2>1 DEF Inductive, ReviewsAreSound, OnePendingPerTeacher, Rows
  <1>11. ApprovedWasApplied'
    BY <1>1, <1>3, <1>4 DEF Inductive, ReviewsAreSound, ApprovedWasApplied
  <1>12. AppliedIsApproved'
    BY <1>1, <1>2, <1>4, <1>5, <1>9 DEF Inductive, ReviewsAreSound, AppliedIsApproved, Rows
  <1> QED BY <1>6, <1>7, <1>8, <1>10, <1>11, <1>12 DEF Inductive, ReviewsAreSound

\* The update of an approve is recorded as applied, and its request goes on
\* to write the status.
LEMMA UpdateCommitInv ==
    ASSUME Inductive, NEW r \in Requests, UpdateCommit(r)
    PROVE  Inductive'
  <1>1. /\ work[r].pc = "update_checked" /\ work[r].teacher \in DOMAIN teacher
        /\ teacher' = [teacher EXCEPT ![work[r].teacher] = Updated(work[r])]
        /\ Record(work[r].for, "applied") /\ change' = change
        /\ \/ work[r].for = {} /\ Become(r, Idle)
           \/ \E c \in work[r].for : Become(r, [pc |-> "applied", change |-> c])
    BY DEF UpdateCommit
  <1>2. work[r] \in Work /\ Sound(work[r]) /\ work[r].for \subseteq Changes
    BY <1>1, WorkKinds DEF Inductive, TypeOK
  <1>3. /\ DOMAIN teacher' = DOMAIN teacher
        /\ \A t \in DOMAIN teacher' : teacher'[t] \in Row
    BY <1>1, <1>2, UpdatedRow DEF Inductive, TypeOK
  <1>4. PICK w \in Work :
          /\ Become(r, w) /\ w.pc \in {"idle", "applied"}
          /\ w.pc = "idle" => work[r].for = {}
          /\ w.pc = "applied" => w.change \in DOMAIN change /\ work[r].for = {w.change}
    <2>1. CASE work[r].for = {} /\ Become(r, Idle)
      BY <2>1, IdleWork
    <2>2. ASSUME NEW c \in work[r].for, Become(r, [pc |-> "applied", change |-> c])
          PROVE  \E v \in Work : /\ Become(r, v) /\ v.pc = "applied"
                                 /\ v.change \in DOMAIN change /\ work[r].for = {v.change}
      <3> DEFINE v == [pc |-> "applied", change |-> c]
      <3>1. v \in Work /\ v.pc = "applied" /\ v.change = c /\ Become(r, v)
        BY <1>2, <2>2 DEF Work
      <3>2. c \in DOMAIN change /\ work[r].for = {c}
        BY <1>1, <1>2, <2>2 DEF Sound
      <3> HIDE DEF v
      <3> QED BY <3>1, <3>2
    <2>3. CASE \E c \in work[r].for : Become(r, [pc |-> "applied", change |-> c])
      BY <2>2, <2>3
    <2> QED BY <1>1, <2>1, <2>3
  <1>5. \A q \in Requests : work'[q] = IF q = r THEN w ELSE work[q]
    BY <1>4 DEF Become, Inductive, TypeOK
  <1>6. /\ past' \in [Changes -> SUBSET Events]
        /\ \A c \in Changes : past'[c] = IF c \in work[r].for THEN past[c] \cup {"applied"} ELSE past[c]
    BY <1>1 DEF Record, Inductive, TypeOK, Events
  <1>7. TypeOK'
    BY <1>1, <1>3, <1>4, <1>6 DEF Become, Inductive, TypeOK
  <1>8. work[r].for \subseteq DOMAIN change
    BY <1>4
  <1>9. \A q \in Requests : Sound(work[q])'
    <2> TAKE q \in Requests
    <2>1. work[q] \in Work /\ Sound(work[q]) /\ DOMAIN change \subseteq Changes
      BY DEF Inductive, TypeOK
    <2>2. CASE q = r
      BY <1>1, <1>4, <1>5, <1>6, <2>1, <2>2 DEF Sound
    <2>3. CASE q # r
      BY <1>1, <1>5, <1>6, <2>1, <2>3 DEF Sound
    <2> QED BY <2>2, <2>3
  <1>10. \A c \in Changes \ DOMAIN change' : past'[c] = {}
    BY <1>1, <1>6, <1>8 DEF Inductive
  <1>11. Rows' = Rows
    BY <1>1, <1>3 DEF Rows
  <1>12. OnePendingPerTeacher'
    BY <1>1, <1>11 DEF Inductive, ReviewsAreSound, OnePendingPerTeacher
  <1>13. ApprovedWasApplied'
    BY <1>1, <1>6 DEF Inductive, TypeOK, ReviewsAreSound, ApprovedWasApplied
  <1>14. AppliedIsApproved'
    <2> SUFFICES ASSUME NEW c \in Rows, "applied" \in past'[c], change[c].status # "approved",
                        {"cut", "overruled"} \cap past'[c] = {}
                 PROVE  \E q \in Requests : work'[q].pc = "applied" /\ work'[q].change = c
      BY <1>1, <1>11 DEF AppliedIsApproved
    <2>1. c \in Changes
      BY DEF Rows, Inductive, TypeOK
    <2>2. CASE c \in work[r].for
      BY <1>4, <1>5, <2>2
    <2>3. CASE c \notin work[r].for
      <3>1. PICK q \in Requests : work[q].pc = "applied" /\ work[q].change = c
        BY <1>6, <2>1, <2>3 DEF Inductive, ReviewsAreSound, AppliedIsApproved
      <3> QED BY <1>1, <1>5, <3>1
    <2> QED BY <2>2, <2>3
  <1> QED BY <1>7, <1>9, <1>10, <1>12, <1>13, <1>14 DEF Inductive, ReviewsAreSound

\* The two reviews end alike: the status is written, whatever it has become.
LEMMA ReviewCommitInv ==
    ASSUME Inductive, NEW r \in Requests, ApproveCommit(r) \/ RejectCommit(r)
    PROVE  Inductive'
  <1> DEFINE c == work[r].change
  <1>1. PICK status \in {"approved", "rejected"} :
          /\ SetStatus(r, status)
          /\ status = "approved" => work[r].pc = "applied" /\ past' = past
          /\ status = "rejected" =>
               /\ work[r].pc = "reject_read"
               /\ Record({d \in {c} : change[d].status # "pending"}, "overruled")
    BY DEF ApproveCommit, RejectCommit
  <1>2. /\ c \in Rows /\ Become(r, Idle) /\ UNCHANGED teacher
        /\ change' = [change EXCEPT ![c].status = status]
    BY <1>1 DEF SetStatus
  <1>3. work[r] \in Work /\ Sound(work[r]) /\ c \in Changes /\ c \in DOMAIN change /\ change[c] \in Change
    BY <1>2 DEF Inductive, TypeOK, Rows
  <1>4. /\ DOMAIN change' = DOMAIN change
        /\ change'[c] \in Change /\ change'[c].status = status /\ change'[c].teacher = change[c].teacher
        /\ \A d \in DOMAIN change : d # c => change'[d] = change[d]
    BY <1>2, <1>3 DEF Change, Statuses
  <1>5. \A q \in Requests : work'[q] = IF q = r THEN Idle ELSE work[q]
    BY <1>2 DEF Become, Inductive, TypeOK
  <1>6. /\ past' \in [Changes -> SUBSET Events]
        /\ \A d \in Changes : d # c => past'[d] = past[d]
        /\ past[c] \subseteq past'[c] /\ ("applied" \in past'[c] => "applied" \in past[c])
        /\ status = "rejected" /\ change[c].status # "pending" => "overruled" \in past'[c]
    BY <1>1, <1>3 DEF Record, Inductive, TypeOK, Events
  <1> HIDE DEF c
  <1>7. TypeOK'
    <2>1. work' \in [Requests -> Work]
      BY <1>2, IdleWork DEF Become, Inductive, TypeOK
    <2>2. \A d \in DOMAIN change' : change'[d] \in Change
      BY <1>4 DEF Inductive, TypeOK
    <2> QED BY <1>2, <1>4, <1>6, <2>1, <2>2 DEF Inductive, TypeOK
  <1>8. \A q \in Requests : Sound(work[q])'
    <2> TAKE q \in Requests
    <2>1. work[q] \in Work /\ Sound(work[q]) /\ DOMAIN change \subseteq Changes
      BY DEF Inductive, TypeOK
    <2>2. \A d \in Changes : past[d] \subseteq past'[d]
      BY <1>6
    <2> QED BY <1>4, <1>5, <2>1, <2>2, IdleWork DEF Sound
  <1>9. \A d \in Changes \ DOMAIN change' : past'[d] = {}
    BY <1>3, <1>4, <1>6 DEF Inductive
  <1>10. Rows' = Rows
    BY <1>2, <1>4 DEF Rows
  <1>11. OnePendingPerTeacher'
    BY <1>4, <1>10 DEF Inductive, ReviewsAreSound, OnePendingPerTeacher, Rows
  <1>12. ApprovedWasApplied'
    <2>1. status = "approved" => "applied" \in past[c]
      BY <1>1, <1>3 DEF Sound, c
    <2>2. \A d \in DOMAIN change : d # c => change'[d].status = change[d].status /\ past'[d] = past[d]
      BY <1>4, <1>6 DEF Inductive, TypeOK
    <2> QED BY <1>4, <1>6, <2>1, <2>2 DEF Inductive, ReviewsAreSound, ApprovedWasApplied
  <1>13. AppliedIsApproved'
    <2> SUFFICES ASSUME NEW d \in Rows, "applied" \in past'[d], change'[d].status # "approved",
                        {"cut", "overruled"} \cap past'[d] = {}
                 PROVE  \E q \in Requests : work'[q].pc = "applied" /\ work'[q].change = d
      BY <1>10 DEF AppliedIsApproved
    <2>1. d \in Changes /\ d \in DOMAIN change
      BY DEF Rows, Inductive, TypeOK
    <2>2. d = c => status = "rejected" /\ change[d].status = "pending"
      BY <1>1, <1>4, <1>6
    <2>3. "applied" \in past[d] /\ {"cut", "overruled"} \cap past[d] = {}
      BY <1>6, <2>1
    <2>4. change[d].status # "approved"
      BY <1>4, <2>1, <2>2
    <2>5. PICK q \in Requests : work[q].pc = "applied" /\ work[q].change = d
      BY <2>3, <2>4 DEF Inductive, ReviewsAreSound, AppliedIsApproved
    <2>6. q # r
      BY <1>1, <2>2, <2>5 DEF c
    <2> QED BY <1>5, <2>5, <2>6
  <1> QED BY <1>7, <1>8, <1>9, <1>11, <1>12, <1>13 DEF Inductive, ReviewsAreSound

LEMMA DeleteTeacherInv ==
    ASSUME Inductive, NEW t \in Teachers, DeleteTeacher(t)
    PROVE  Inductive'
  <1>1. TypeOK' /\ UNCHANGED <<change, past, work>> /\ Rows' \subseteq Rows
    BY DEF DeleteTeacher, Inductive, TypeOK, Rows
  <1>2. \A q \in Requests : Sound(work[q])'
    BY <1>1 DEF Inductive, Sound
  <1>3. ReviewsAreSound'
    BY <1>1 DEF Inductive, ReviewsAreSound, OnePendingPerTeacher, ApprovedWasApplied, AppliedIsApproved
  <1> QED BY <1>1, <1>2, <1>3 DEF Inductive

LEMMA AbortInv ==
    ASSUME Inductive, NEW r \in Requests, Abort(r)
    PROVE  Inductive'
  <1> DEFINE cut == {c \in Changes : work[r].pc = "applied" /\ work[r].change = c}
  <1>1. Become(r, Idle) /\ Record(cut, "cut") /\ UNCHANGED <<teacher, change>>
    BY DEF Abort
  <1>2. work[r] \in Work /\ Sound(work[r])
    BY DEF Inductive, TypeOK
  <1>3. cut \subseteq DOMAIN change
    BY <1>2 DEF Sound
  <1>4. \A q \in Requests : work'[q] = IF q = r THEN Idle ELSE work[q]
    BY <1>1 DEF Become, Inductive, TypeOK
  <1>5. /\ past' \in [Changes -> SUBSET Events]
        /\ \A c \in Changes : past'[c] = IF c \in cut THEN past[c] \cup {"cut"} ELSE past[c]
    BY <1>1 DEF Record, Inductive, TypeOK, Events
  <1>6. TypeOK'
    BY <1>1, <1>5, IdleWork DEF Become, Inductive, TypeOK
  <1>7. \A c \in Changes : past[c] \subseteq past'[c] /\ ("applied" \in past'[c] => "applied" \in past[c])
    BY <1>5
  <1>8. \A q \in Requests : Sound(work[q])'
    <2> TAKE q \in Requests
    <2>1. work[q] \in Work /\ Sound(work[q]) /\ DOMAIN change \subseteq Changes
      BY DEF Inductive, TypeOK
    <2> QED BY <1>1, <1>4, <1>7, <2>1, IdleWork DEF Sound
  <1>9. \A c \in Changes \ DOMAIN change' : past'[c] = {}
    BY <1>1, <1>3, <1>5 DEF Inductive
  <1>10. Rows' = Rows
    BY <1>1 DEF Rows
  <1>11. OnePendingPerTeacher' /\ ApprovedWasApplied'
    BY <1>1, <1>7, <1>10 DEF Inductive, TypeOK, ReviewsAreSound, OnePendingPerTeacher, ApprovedWasApplied
  <1>12. AppliedIsApproved'
    <2> SUFFICES ASSUME NEW c \in Rows, "applied" \in past'[c], change[c].status # "approved",
                        {"cut", "overruled"} \cap past'[c] = {}
                 PROVE  \E q \in Requests : work'[q].pc = "applied" /\ work'[q].change = c
      BY <1>1, <1>10 DEF AppliedIsApproved
    <2>1. c \in Changes
      BY DEF Rows, Inductive, TypeOK
    <2>2. c \notin cut
      BY <1>5, <2>1
    <2>3. PICK q \in Requests : work[q].pc = "applied" /\ work[q].change = c
      BY <1>7, <2>1 DEF Inductive, ReviewsAreSound, AppliedIsApproved
    <2>4. q # r
      BY <2>1, <2>2, <2>3
    <2> QED BY <1>4, <2>3, <2>4
  <1> QED BY <1>6, <1>8, <1>9, <1>11, <1>12 DEF Inductive, ReviewsAreSound

-----------------------------------------------------------------------------

LEMMA InitInv == Init => Inductive
  <1> SUFFICES ASSUME Init PROVE Inductive
    OBVIOUS
  <1>1. DOMAIN change = {} /\ Rows = {}
    BY DEF Init, Rows
  <1>2. TypeOK
    BY <1>1, IdleWork DEF Init, TypeOK
  <1>3. \A r \in Requests : Sound(work[r])
    BY IdleSound DEF Init
  <1>4. ReviewsAreSound
    BY <1>1 DEF ReviewsAreSound, OnePendingPerTeacher, ApprovedWasApplied, AppliedIsApproved
  <1> QED BY <1>2, <1>3, <1>4 DEF Init, Inductive

\* Bodies bounds what a request may set: the theorems need it to be a set of
\* the proposals the schema lets through, and no more.
LEMMA StepInv ==
    ASSUME Bodies \subseteq Proposal, Inductive, [Next]_vars
    PROVE  Inductive'
  <1>1. ASSUME NEW r \in Requests, NEW t \in Teachers, NEW p \in Bodies, CreateCheck(r, t, p) \/ PatchRead(r, t, p)
        PROVE  Inductive'
    <2>1. CASE CreateCheck(r, t, p)
      BY <2>1, CreateCheckInv
    <2>2. CASE PatchRead(r, t, p)
      <3>1. UpdateRead(r, t, p, {}) /\ work[r].pc # "applied"
        BY <2>2, IdleWork DEF PatchRead
      <3> QED BY <3>1, UpdateReadInv
    <2> QED BY <1>1, <2>1, <2>2
  <1>2. ASSUME NEW r \in Requests, NEW c \in Changes, CreateCommit(r, c) \/ ApproveRead(r, c) \/ RejectRead(r, c)
        PROVE  Inductive'
    BY <1>2, CreateCommitInv, ReviewReadInv
  <1>3. ASSUME NEW r \in Requests,
               \/ UpdateCheck(r) \/ UpdateCommit(r)
               \/ ApproveUpdate(r) \/ ApproveCommit(r) \/ RejectCommit(r) \/ Abort(r)
        PROVE  Inductive'
    BY <1>3, UpdateCheckInv, UpdateCommitInv, ApproveUpdateInv, ReviewCommitInv, AbortInv
  <1>4. CASE \E t \in Teachers : DeleteTeacher(t)
    BY <1>4, DeleteTeacherInv
  <1>5. CASE UNCHANGED vars
    BY <1>5 DEF vars, Inductive, TypeOK, Sound, ReviewsAreSound, OnePendingPerTeacher,
                ApprovedWasApplied, AppliedIsApproved, Rows
  <1> QED BY <1>1, <1>2, <1>3, <1>4, <1>5 DEF Next

\* The inductive invariant: the reads of a request under way still stand in
\* the ways that create, approve and reject rely on.
THEOREM InductiveInvariant ==
    ASSUME Bodies \subseteq Proposal
    PROVE  Spec => []Inductive
  <1>1. Inductive /\ [Next]_vars => Inductive'
    BY StepInv
  <1> QED BY <1>1, InitInv, PTL DEF Spec

\* Teachers, change requests, their histories and what HTTP requests have
\* read keep their types.
THEOREM TypeCorrect ==
    ASSUME Bodies \subseteq Proposal
    PROVE  Spec => []TypeOK
  <1>1. Inductive => TypeOK
    BY DEF Inductive
  <1> QED BY <1>1, InductiveInvariant, PTL

\* At most one open change request a teacher; approved only if applied; and
\* applied but not approved only after a cut or an overruling reject.
THEOREM ReviewsAlwaysSound ==
    ASSUME Bodies \subseteq Proposal
    PROVE  Spec => []ReviewsAreSound
  <1>1. Inductive => ReviewsAreSound
    BY DEF Inductive
  <1> QED BY <1>1, InductiveInvariant, PTL

-----------------------------------------------------------------------------
(* A review stands as long as reviewers of one request do not overlap.     *)

\* r has read c as pending, to approve or reject it.
Reviewing(r, c) ==
    \/ work[r].pc \in {"approve_read", "applied", "reject_read"} /\ work[r].change = c
    \/ work[r].pc \in {"update_read", "update_checked"} /\ c \in work[r].for

OneReviewer == \A q, r \in Requests, c \in Changes : Reviewing(q, c) /\ Reviewing(r, c) => q = r

StillPending ==
    \A r \in Requests, c \in DOMAIN change : Reviewing(r, c) => change[c].status = "pending"

\* Whoever reviews after a step did so before it, or has just read c as pending.
LEMMA ReviewersStep ==
    ASSUME Inductive, [Next]_vars, NEW r \in Requests, NEW c \in DOMAIN change, Reviewing(r, c)'
    PROVE  Reviewing(r, c) \/ (change[c].status = "pending" /\ change' = change)
  <1>t. work \in [Requests -> Work] /\ work[r] \in Work /\ Sound(work[r])
    BY DEF Inductive, TypeOK
  <1>b. ASSUME NEW q \in Requests, NEW w, Become(q, w) PROVE work'[r] = IF r = q THEN w ELSE work[r]
    BY <1>b, <1>t DEF Become
  <1>i. ASSUME NEW q \in Requests, Become(q, Idle) PROVE Reviewing(r, c)
    BY <1>i, <1>b, IdleWork DEF Reviewing
  <1>1. ASSUME NEW q \in Requests, NEW t, NEW p, NEW for, UpdateRead(q, t, p, for)
        PROVE  Reviewing(r, c) \/ (q = r /\ c \in for)
    <2> DEFINE w == [pc |-> "update_read", teacher |-> t, proposal |-> p, loaded |-> teacher[t], for |-> for]
    <2>1. Become(q, w) /\ w.pc = "update_read" /\ w.for = for
      BY <1>1 DEF UpdateRead
    <2> HIDE DEF w
    <2> QED BY <2>1, <1>b DEF Reviewing
  <1>2. ASSUME NEW q \in Requests, NEW t \in Teachers, NEW p \in Bodies, CreateCheck(q, t, p) \/ PatchRead(q, t, p)
        PROVE  Reviewing(r, c)
    <2>1. CASE PatchRead(q, t, p)
      BY <2>1, <1>1 DEF PatchRead
    <2>2. CASE CreateCheck(q, t, p)
      BY <2>2, <1>b DEF CreateCheck, Reviewing
    <2> QED BY <1>2, <2>1, <2>2
  <1>3. ASSUME NEW q \in Requests, NEW d \in Changes, ApproveRead(q, d) \/ RejectRead(q, d)
        PROVE  Reviewing(r, c) \/ (change[c].status = "pending" /\ change' = change)
    <2>1. PICK pc \in {"approve_read", "reject_read"} : ReviewRead(q, d, pc)
      BY <1>3 DEF ApproveRead, RejectRead
    <2>2. /\ change[d].status = "pending" /\ change' = change
          /\ work'[r] = IF r = q THEN [pc |-> pc, change |-> d] ELSE work[r]
      BY <2>1, <1>b DEF ReviewRead
    <2> QED BY <2>2 DEF Reviewing
  <1>4. ASSUME NEW q \in Requests, UpdateCheck(q) PROVE Reviewing(r, c)
    <2> DEFINE w == [work[q] EXCEPT !.pc = "update_checked"]
    <2>1. work[q] \in Work /\ work[q].pc = "update_read" /\ Become(q, w)
      BY <1>4, <1>t DEF UpdateCheck
    <2>2. w.pc = "update_checked" /\ w.for = work[q].for
      BY <2>1, WorkKinds
    <2> HIDE DEF w
    <2> QED BY <2>1, <2>2, <1>b DEF Reviewing
  <1>5. ASSUME NEW q \in Requests, UpdateCommit(q) PROVE Reviewing(r, c)
    <2>1. CASE Become(q, Idle)
      BY <2>1, <1>i
    <2>2. ASSUME NEW d \in work[q].for, Become(q, [pc |-> "applied", change |-> d]) PROVE Reviewing(r, c)
      <3>1. work'[r] = IF r = q THEN [pc |-> "applied", change |-> d] ELSE work[r]
        BY <2>2, <1>b
      <3>2. work[q].pc = "update_checked"
        BY <1>5 DEF UpdateCommit
      <3> QED BY <2>2, <3>1, <3>2 DEF Reviewing
    <2> QED BY <1>5, <2>1, <2>2 DEF UpdateCommit
  <1>6. ASSUME NEW q \in Requests, ApproveUpdate(q) PROVE Reviewing(r, c)
    BY <1>6, <1>1 DEF ApproveUpdate, Reviewing
  <1>7. ASSUME NEW q \in Requests,
               (\E d \in Changes : CreateCommit(q, d)) \/ ApproveCommit(q) \/ RejectCommit(q) \/ Abort(q)
        PROVE  Reviewing(r, c)
    <2>1. Become(q, Idle)
      BY <1>7 DEF CreateCommit, AddRow, ApproveCommit, RejectCommit, SetStatus, Abort
    <2> QED BY <2>1, <1>i
  <1>8. ASSUME UNCHANGED work PROVE Reviewing(r, c)
    BY <1>8 DEF Reviewing
  <1> QED BY <1>2, <1>3, <1>4, <1>5, <1>6, <1>7, <1>8 DEF Next, DeleteTeacher, vars

\* A status is written by a reviewer alone, who then is one no more.
LEMMA StatusStep ==
    ASSUME Inductive, [Next]_vars, NEW c \in DOMAIN change,
           c \notin DOMAIN change' \/ change'[c].status # change[c].status
    PROVE  \E r \in Requests : Reviewing(r, c) /\ ~Reviewing(r, c)'
  <1>1. ASSUME NEW r \in Requests, ApproveCommit(r) \/ RejectCommit(r)
        PROVE  Reviewing(r, c) /\ ~Reviewing(r, c)'
    <2>1. PICK status : SetStatus(r, status)
      BY <1>1 DEF ApproveCommit, RejectCommit
    <2>2. work[r].change = c
      <3>1. c # work[r].change => c \in DOMAIN change' /\ change'[c] = change[c]
        BY <2>1 DEF SetStatus
      <3>2. DOMAIN change' = DOMAIN change
        BY <2>1 DEF SetStatus
      <3> QED BY <3>1, <3>2
    <2>3. work'[r] = Idle
      BY <2>1 DEF SetStatus, Become, Inductive, TypeOK
    <2> QED BY <1>1, <2>2, <2>3, IdleWork DEF ApproveCommit, RejectCommit, Reviewing
  <1>2. ASSUME NEW q \in Requests, NEW d \in Changes, CreateCommit(q, d) PROVE FALSE
    BY <1>2 DEF CreateCommit, AddRow
  <1>3. change' # change
    OBVIOUS
  <1>4. \E r \in Requests : ApproveCommit(r) \/ RejectCommit(r)
    BY <1>2, <1>3
       DEF Next, CreateCheck, PatchRead, UpdateRead, ApproveRead, RejectRead, ReviewRead, UpdateCheck,
           UpdateCommit, ApproveUpdate, Abort, DeleteTeacher, vars
  <1> QED BY <1>1, <1>4

\* A new change request is pending.
LEMMA NewPending ==
    ASSUME [Next]_vars, NEW c \in DOMAIN change' \ DOMAIN change
    PROVE  change'[c].status = "pending"
  <1>1. ASSUME NEW q \in Requests, NEW d \in Changes, CreateCommit(q, d) PROVE change'[c].status = "pending"
    BY <1>1 DEF CreateCommit, AddRow
  <1>2. change' # change
    OBVIOUS
  <1>3. ASSUME NEW q \in Requests, ApproveCommit(q) \/ RejectCommit(q) PROVE FALSE
    BY <1>3 DEF ApproveCommit, RejectCommit, SetStatus
  <1> QED BY <1>1, <1>2, <1>3
          DEF Next, CreateCheck, PatchRead, UpdateRead, ApproveRead, RejectRead, ReviewRead, UpdateCheck,
              UpdateCommit, ApproveUpdate, Abort, DeleteTeacher, vars

LEMMA StillPendingStep ==
    ASSUME Inductive, OneReviewer, StillPending, [Next]_vars
    PROVE  StillPending' /\ ReviewStands
  <1>t. DOMAIN change \subseteq Changes
    BY DEF Inductive, TypeOK
  <1>1. ReviewStands
    BY StatusStep DEF StillPending, ReviewStands
  <1>2. ASSUME NEW r \in Requests, NEW c \in DOMAIN change', Reviewing(r, c)'
        PROVE  change'[c].status = "pending"
    <2>1. CASE c \in DOMAIN change
      <3>1. CASE Reviewing(r, c)
        <4>1. change[c].status = "pending"
          BY <2>1, <3>1 DEF StillPending
        <4>2. \A q \in Requests : Reviewing(q, c) => q = r
          BY <1>t, <2>1, <3>1 DEF OneReviewer
        <4> QED BY <1>2, <2>1, <4>1, <4>2, StatusStep
      <3>2. CASE change[c].status = "pending" /\ change' = change
        BY <3>2
      <3> QED BY <1>2, <2>1, <3>1, <3>2, ReviewersStep
    <2>2. CASE c \notin DOMAIN change
      BY <2>2, NewPending
    <2> QED BY <2>1, <2>2
  <1>3. (\A r \in Requests, c \in DOMAIN change : Reviewing(r, c) => change[c].status = "pending")'
    BY <1>2
  <1> QED BY <1>1, <1>3 DEF StillPending

\* Of all that may happen during a review (updates of the teacher, their
\* deletion, failures between two commits) only a second reviewer, who read
\* the request before the first one wrote, can change a review's outcome.
THEOREM ReviewsStandUnlessTheyOverlap ==
    ASSUME Bodies \subseteq Proposal
    PROVE  Spec /\ []OneReviewer => [][ReviewStands]_vars
  <1>1. Init => StillPending
    BY DEF Init, StillPending
  <1>2. Inductive /\ OneReviewer /\ StillPending /\ [Next]_vars => StillPending' /\ [ReviewStands]_vars
    BY StillPendingStep
  <1> QED BY <1>1, <1>2, InductiveInvariant, PTL DEF Spec

-----------------------------------------------------------------------------
(* ChangeRequests implements KeyTable.                                     *)

emails == [t \in DOMAIN teacher |-> {teacher[t].email}]

LEMMA EmailsInit == Init => EmailTable!Init
  BY DEF Init, Row, EmailTable!Init

\* Only an update's commit and a deletion are steps of the table; the first
\* changes the key of one row, the second removes one.
LEMMA EmailsStep ==
    ASSUME Inductive, [Next]_vars
    PROVE  [EmailTable!Next]_emails
  <1>0. \A t \in DOMAIN teacher : teacher[t] \in Row /\ t \in Teachers
    BY DEF Inductive, TypeOK
  <1>1. CASE UNCHANGED teacher
    BY <1>1 DEF emails
  <1>2. ASSUME NEW r \in Requests, UpdateCommit(r)
        PROVE  EmailTable!Next
    <2>0. work[r].teacher \in DOMAIN teacher /\ DOMAIN teacher \subseteq Teachers
      BY <1>2 DEF UpdateCommit, Inductive, TypeOK
    <2> PICK t \in Teachers : t = work[r].teacher
      BY <2>0
    <2> DEFINE e == Updated(work[r]).email
    <2>1. /\ t \in DOMAIN teacher /\ ~Taken(t, e)
          /\ teacher' = [teacher EXCEPT ![t] = Updated(work[r])]
          /\ work[r] \in Work /\ work[r].pc = "update_checked"
      BY <1>2 DEF UpdateCommit, Inductive, TypeOK
    <2>2. Updated(work[r]) \in Row
      BY <1>0, <2>1, UpdatedRow
    <2>3. e \in Emails
      BY <2>2 DEF Row
    <2>4. /\ DOMAIN emails' = DOMAIN teacher /\ DOMAIN emails = DOMAIN teacher
          /\ emails'[t] = {e}
          /\ \A u \in DOMAIN teacher \ {t} : emails'[u] = emails[u]
          /\ \A u \in DOMAIN teacher : emails[u] = {teacher[u].email}
      BY <2>1 DEF emails
    <2> HIDE DEF e
    <2>5. e \notin EmailTable!InUse(DOMAIN teacher \ {t})
      <3> SUFFICES ASSUME NEW u \in DOMAIN teacher \ {t}, e \in emails[u] PROVE FALSE
        BY DEF EmailTable!InUse, emails
      <3> QED BY <2>1, <2>4 DEF Taken
    <2>6. EmailTable!Rekey(t)
      BY <2>1, <2>3, <2>4, <2>5 DEF EmailTable!Rekey, EmailTable!Keep, emails
    <2> QED BY <2>6 DEF EmailTable!Next
  <1>3. ASSUME NEW t \in Teachers, DeleteTeacher(t)
        PROVE  EmailTable!Next
    <2>1. EmailTable!Remove
      BY <1>3 DEF DeleteTeacher, EmailTable!Remove, EmailTable!Keep
    <2> QED BY <2>1 DEF EmailTable!Next
  <1>4. CASE Next
    <2>1. \/ UNCHANGED teacher
          \/ \E r \in Requests : UpdateCommit(r)
          \/ \E t \in Teachers : DeleteTeacher(t)
      BY <1>4 DEF Next, CreateCheck, PatchRead, UpdateRead, CreateCommit, AddRow, ApproveRead, RejectRead,
                  ReviewRead, UpdateCheck, ApproveUpdate, ApproveCommit, RejectCommit, SetStatus, Abort
    <2> QED BY <1>1, <1>2, <1>3, <2>1
  <1> QED BY <1>1, <1>4 DEF vars

\* The teachers' e-mails are a KeyTable, whatever PATCH and approve have
\* checked and when: no address is two teachers'.
THEOREM EmailsAreAKeyTable ==
    ASSUME Bodies \subseteq Proposal
    PROVE  Spec => OneTeacherPerEmail
  <1>1. Inductive /\ [Next]_vars => [EmailTable!Next]_emails
    BY EmailsStep
  <1> QED BY <1>1, EmailsInit, InductiveInvariant, PTL
        DEF Spec, OneTeacherPerEmail, EmailTable!Spec, emails
=============================================================================
