---------------------------- MODULE RosterProofs ----------------------------
(* Theorems about Roster for every set of students, sections, classes and *)
(* requests.                                                               *)
EXTENDS RosterInvariant, FiniteSetTheorems, TLAPS

-----------------------------------------------------------------------------
(* Types.                                                                  *)

LEMMA PCsDistinct ==
    /\ "idle" \notin AssignPCs /\ "idle" \notin AttachPCs /\ "idle" \notin FanOutPCs
    /\ AssignPCs \cap AttachPCs = {}
    /\ \A pc \in {"detach_locked", "enroll_locked", "enroll_checked", "term_read"} :
         pc \notin AssignPCs /\ pc \notin AttachPCs /\ pc \notin FanOutPCs
  BY DEF AssignPCs, AttachPCs, FanOutPCs

LEMMA IdleType == Idle \in Transaction /\ WellFormed(Idle) /\ Idle.pc = "idle"
  BY PCsDistinct DEF Idle, Transaction, PCs, WellFormed

LEMMA BecomeType ==
    ASSUME TypeInv, NEW r \in Requests, NEW t \in Transaction, WellFormed(t), Become(r, t)
    PROVE  req' \in [Requests -> Transaction] /\ \A q \in Requests : WellFormed(req'[q])
  <1>1. \A q \in Requests : req'[q] = IF q = r THEN t ELSE req[q]
    BY DEF Become, TypeInv, TypeOK
  <1>2. req' \in [Requests -> Transaction]
    BY DEF Become, TypeInv, TypeOK
  <1> QED BY <1>1, <1>2 DEF TypeInv

LEMMA EndType ==
    ASSUME TypeInv, NEW r \in Requests, End(r)
    PROVE  /\ req' \in [Requests -> Transaction]
           /\ \A q \in Requests : WellFormed(req'[q])
           /\ sectionLock' \in [Sections -> Requests \cup {None}]
           /\ classLock' \in [Classes -> Requests \cup {None}]
  <1>1. Become(r, Idle)
    BY DEF End
  <1>2. sectionLock' \in [Sections -> Requests \cup {None}]
    BY DEF End, TypeInv, TypeOK
  <1>3. classLock' \in [Classes -> Requests \cup {None}]
    BY DEF End, TypeInv, TypeOK
  <1> QED BY <1>1, <1>2, <1>3, IdleType, BecomeType

LEMMA RollbackType ==
    ASSUME TypeInv, NEW r \in Requests, Rollback(r)
    PROVE  TypeInv'
  <1>1. End(r) /\ UNCHANGED tables
    BY DEF Rollback
  <1> QED BY <1>1, EndType DEF TypeInv, TypeOK, tables, WellFormed

LEMMA WithRowsType ==
    ASSUME TypeOK, NEW rows \in SUBSET Pairs
    PROVE  WithRows(rows) \in [Pairs -> Status]
  BY DEF TypeOK, WithRows, Status

LEMMA StartType ==
    ASSUME TypeInv, NEW r \in Requests, Start(r)
    PROVE  TypeInv'
<1> USE RosterAssumption, PCsDistinct, IdleType
<1>1. ASSUME NEW s \in Students, NEW x \in Sections, AssignLock(r, s, x) PROVE TypeInv'
  <2> DEFINE t == [Idle EXCEPT !.pc = "assign_locked", !.st = s, !.sec = x, !.cap = sectionCap[x]]
  <2>1. t \in Transaction
    BY DEF Transaction, PCs, AssignPCs, TypeInv, TypeOK
  <2>2. WellFormed(t)
    BY DEF WellFormed, Transaction, Idle, AssignPCs, AttachPCs, FanOutPCs
  <2>3. Become(r, t) /\ sectionLock' = [sectionLock EXCEPT ![x] = r] /\ UNCHANGED <<tables, classLock>>
    BY <1>1 DEF AssignLock
  <2> HIDE DEF t
  <2> QED BY <2>1, <2>2, <2>3, BecomeType DEF TypeInv, TypeOK, tables
<1>2. ASSUME NEW x \in Sections, NEW c \in Classes, AttachLockSection(r, x, c) PROVE TypeInv'
  <2> DEFINE t == [Idle EXCEPT !.pc = "attach_locked_section", !.sec = x, !.cls = c]
  <2>1. t \in Transaction
    BY DEF Transaction, PCs, AttachPCs
  <2>2. WellFormed(t)
    BY DEF WellFormed, Transaction, Idle, AssignPCs, AttachPCs, FanOutPCs
  <2>3. Become(r, t) /\ sectionLock' = [sectionLock EXCEPT ![x] = r] /\ UNCHANGED <<tables, classLock>>
    BY <1>2 DEF AttachLockSection
  <2> HIDE DEF t
  <2> QED BY <2>1, <2>2, <2>3, BecomeType DEF TypeInv, TypeOK, tables
<1>3. ASSUME NEW x \in Sections, NEW c \in Classes, DetachLock(r, x, c) PROVE TypeInv'
  <2> DEFINE t == [Idle EXCEPT !.pc = "detach_locked", !.sec = x, !.cls = c]
  <2>1. t \in Transaction
    BY DEF Transaction, PCs
  <2>2. WellFormed(t)
    BY DEF WellFormed, Transaction, Idle, AssignPCs, AttachPCs, FanOutPCs
  <2>3. Become(r, t) /\ classLock' = [classLock EXCEPT ![c] = r] /\ UNCHANGED <<tables, sectionLock>>
    BY <1>3 DEF DetachLock
  <2> HIDE DEF t
  <2> QED BY <2>1, <2>2, <2>3, BecomeType DEF TypeInv, TypeOK, tables
<1>4. ASSUME NEW s \in Students, NEW c \in Classes, EnrollLock(r, s, c) PROVE TypeInv'
  <2> DEFINE t == [Idle EXCEPT !.pc = "enroll_locked", !.st = s, !.cls = c, !.cap = classCap[c]]
  <2>1. t \in Transaction
    BY DEF Transaction, PCs, TypeInv, TypeOK
  <2>2. WellFormed(t)
    BY DEF WellFormed, Transaction, Idle, AssignPCs, AttachPCs, FanOutPCs
  <2>3. Become(r, t) /\ classLock' = [classLock EXCEPT ![c] = r] /\ UNCHANGED <<tables, sectionLock>>
    BY <1>4 DEF EnrollLock
  <2> HIDE DEF t
  <2> QED BY <2>1, <2>2, <2>3, BecomeType DEF TypeInv, TypeOK, tables
<1>5. ASSUME NEW c \in Classes, NEW u \in Terms, PatchTermRead(r, c, u) PROVE TypeInv'
  <2> DEFINE t == [Idle EXCEPT !.pc = "term_read", !.cls = c, !.term = u]
  <2>1. t \in Transaction
    BY DEF Transaction, PCs
  <2>2. WellFormed(t)
    BY DEF WellFormed, Transaction, Idle, AssignPCs, AttachPCs, FanOutPCs
  <2>3. Become(r, t) /\ UNCHANGED tables /\ UNCHANGED locks
    BY <1>5 DEF PatchTermRead, tables, locks
  <2> HIDE DEF t
  <2> QED BY <2>1, <2>2, <2>3, BecomeType DEF TypeInv, TypeOK, tables, locks
<1> QED BY <1>1, <1>2, <1>3, <1>4, <1>5 DEF Start

\* A step that only moves the request's own transaction on.
Moves(r, t) == Become(r, t) /\ UNCHANGED tables /\ UNCHANGED locks

LEMMA MovesType ==
    ASSUME TypeInv, NEW r \in Requests, NEW t \in Transaction, WellFormed(t), Moves(r, t)
    PROVE  TypeInv'
  BY BecomeType DEF Moves, TypeInv, TypeOK, tables, locks

LEMMA ContinueType ==
    ASSUME TypeInv, NEW r \in Requests, Continue(r)
    PROVE  TypeInv'
<1> USE RosterAssumption, PCsDistinct
<1>t. req[r] \in Transaction /\ WellFormed(req[r])
  BY DEF TypeInv, TypeOK
<1>1. CASE AssignCheck(r)
  <2> DEFINE t == [req[r] EXCEPT !.pc = "assign_checked"]
  <2>1. t \in Transaction /\ WellFormed(t)
    BY <1>1, <1>t DEF AssignCheck, Transaction, PCs, WellFormed, AssignPCs, AttachPCs, FanOutPCs
  <2>2. Rollback(r) \/ Moves(r, t)
    BY <1>1 DEF AssignCheck, Moves
  <2> HIDE DEF t
  <2> QED BY <2>1, <2>2, MovesType, RollbackType
<1>2. CASE AssignInsert(r)
  <2> DEFINE t == [req[r] EXCEPT !.pc = "assign_inserted"]
  <2>1. t \in Transaction /\ WellFormed(t)
    BY <1>2, <1>t DEF AssignInsert, Transaction, PCs, WellFormed, AssignPCs, AttachPCs, FanOutPCs
  <2>2. Rollback(r) \/ Moves(r, t)
    BY <1>2 DEF AssignInsert, Moves
  <2> HIDE DEF t
  <2> QED BY <2>1, <2>2, MovesType, RollbackType
<1>3. CASE AssignListClasses(r)
  <2> DEFINE ps == {req[r].st} \X Attached(req[r].sec)
             t == [req[r] EXCEPT !.pc = "assign_fanout", !.todo = ps]
  <2>1. ps \in SUBSET Pairs /\ \A p \in ps : p[1] = req[r].st
    BY <1>3, <1>t DEF AssignListClasses, WellFormed, AssignPCs, Attached, Pairs
  <2>2. Moves(r, t)
    BY <1>3 DEF AssignListClasses, Moves
  <2> HIDE DEF ps
  <2>3. t \in Transaction /\ WellFormed(t)
    BY <1>3, <1>t, <2>1 DEF AssignListClasses, Transaction, PCs, WellFormed, AssignPCs, AttachPCs, FanOutPCs
  <2> HIDE DEF t
  <2> QED BY <2>2, <2>3, MovesType
<1>4. CASE AssignCommit(r)
  <2>1. assigned' \subseteq Students \X Sections
    BY <1>4, <1>t DEF AssignCommit, WellFormed, AssignPCs, TypeInv, TypeOK
  <2>2. enrollment' \in [Pairs -> Status]
    BY <1>4, <1>t, WithRowsType DEF AssignCommit, Transaction, TypeInv
  <2>3. End(r) /\ UNCHANGED <<sectionCap, classCap, classTerm, classSection>>
    BY <1>4 DEF AssignCommit
  <2> QED BY <2>1, <2>2, <2>3, EndType DEF TypeInv, TypeOK
<1>5. CASE AttachLockClass(r)
  <2> DEFINE t == [req[r] EXCEPT !.pc = "attach_locked_class"]
  <2>1. t \in Transaction /\ WellFormed(t)
    BY <1>5, <1>t DEF AttachLockClass, Transaction, PCs, WellFormed, AssignPCs, AttachPCs, FanOutPCs
  <2>2. \/ Rollback(r)
        \/ /\ Become(r, t)
           /\ classLock' = [classLock EXCEPT ![req[r].cls] = r]
           /\ UNCHANGED <<tables, sectionLock>>
    BY <1>5 DEF AttachLockClass
  <2> HIDE DEF t
  <2> QED BY <2>1, <2>2, BecomeType, RollbackType DEF TypeInv, TypeOK, tables
<1>6. CASE AttachListRoster(r)
  <2> DEFINE ps == RosterOf(req[r].sec) \X {req[r].cls}
             t == [req[r] EXCEPT !.pc = "attach_fanout", !.todo = ps]
  <2>1. ps \in SUBSET Pairs /\ \A p \in ps : p[2] = req[r].cls
    BY <1>6, <1>t DEF AttachListRoster, WellFormed, AttachPCs, RosterOf, Pairs
  <2>2. Moves(r, t)
    BY <1>6 DEF AttachListRoster, Moves
  <2> HIDE DEF ps
  <2>3. t \in Transaction /\ WellFormed(t)
    BY <1>6, <1>t, <2>1 DEF AttachListRoster, Transaction, PCs, WellFormed, AssignPCs, AttachPCs, FanOutPCs
  <2> HIDE DEF t
  <2> QED BY <2>2, <2>3, MovesType
<1>7. CASE AttachCommit(r)
  <2>1. classSection' \in [Classes -> Sections \cup {None}]
    BY <1>7, <1>t DEF AttachCommit, WellFormed, AttachPCs, TypeInv, TypeOK
  <2>2. enrollment' \in [Pairs -> Status]
    BY <1>7, <1>t, WithRowsType DEF AttachCommit, Transaction, TypeInv
  <2>3. End(r) /\ UNCHANGED <<sectionCap, classCap, classTerm, assigned>>
    BY <1>7 DEF AttachCommit
  <2> QED BY <2>1, <2>2, <2>3, EndType DEF TypeInv, TypeOK
<1>8. ASSUME NEW p \in Pairs, FanOutLook(r, p) PROVE TypeInv'
  <2> DEFINE cur == IF enrollment[p] = "none" THEN p ELSE None
             t == [req[r] EXCEPT !.todo = @ \ {p}, !.cur = cur]
  <2>1. t \in Transaction
    BY <1>8, <1>t DEF FanOutLook, Transaction
  <2>2. WellFormed(t)
    BY <1>8, <1>t DEF FanOutLook, Transaction, WellFormed, AssignPCs, AttachPCs, FanOutPCs
  <2>3. Moves(r, t)
    BY <1>8 DEF FanOutLook, Moves
  <2> HIDE DEF t
  <2> QED BY <2>1, <2>2, <2>3, MovesType
<1>9. CASE FanOutInsert(r)
  <2> DEFINE t == [req[r] EXCEPT !.rows = @ \cup {req[r].cur}]
  <2>1. t \in Transaction
    BY <1>9, <1>t DEF FanOutInsert, Transaction
  <2>2. WellFormed(t)
    BY <1>9, <1>t DEF FanOutInsert, Transaction, WellFormed, AssignPCs, AttachPCs, FanOutPCs
  <2>3. Rollback(r) \/ Moves(r, t)
    BY <1>9 DEF FanOutInsert, Moves
  <2> HIDE DEF t
  <2> QED BY <2>1, <2>2, <2>3, MovesType, RollbackType
<1>14. CASE FanOutShare(r)
  <2> DEFINE t == [req[r] EXCEPT !.cur = None]
  <2>1. t \in Transaction
    BY <1>14, <1>t DEF FanOutShare, Transaction
  <2>2. WellFormed(t)
    BY <1>14, <1>t DEF FanOutShare, Transaction, WellFormed, AssignPCs, AttachPCs, FanOutPCs
  <2>3. Moves(r, t)
    BY <1>14 DEF FanOutShare, Moves
  <2> HIDE DEF t
  <2> QED BY <2>1, <2>2, <2>3, MovesType
<1>10. CASE DetachCommit(r)
  <2>1. classSection' \in [Classes -> Sections \cup {None}]
    BY <1>10 DEF DetachCommit, TypeInv, TypeOK
  <2>2. End(r) /\ UNCHANGED <<sectionCap, classCap, classTerm, assigned, enrollment>>
    BY <1>10 DEF DetachCommit
  <2> QED BY <2>1, <2>2, EndType DEF TypeInv, TypeOK
<1>11. CASE EnrollCheck(r)
  <2> DEFINE t == [req[r] EXCEPT !.pc = "enroll_checked"]
  <2>1. t \in Transaction /\ WellFormed(t)
    BY <1>11, <1>t DEF EnrollCheck, Transaction, PCs, WellFormed, AssignPCs, AttachPCs, FanOutPCs
  <2>2. Rollback(r) \/ Moves(r, t)
    BY <1>11 DEF EnrollCheck, Moves
  <2> HIDE DEF t
  <2> QED BY <2>1, <2>2, MovesType, RollbackType
<1>12. CASE EnrollCommit(r)
  <2>1. CASE Rollback(r)
    BY <2>1, RollbackType
  <2>2. CASE ~Rollback(r)
    <3>1. /\ enrollment' = [enrollment EXCEPT ![<<req[r].st, req[r].cls>>] = "active"]
          /\ End(r) /\ UNCHANGED <<sectionCap, classCap, classTerm, classSection, assigned>>
      BY <1>12, <2>2 DEF EnrollCommit
    <3>2. enrollment' \in [Pairs -> Status]
      BY <3>1 DEF TypeInv, TypeOK, Status
    <3> QED BY <3>1, <3>2, EndType DEF TypeInv, TypeOK
  <2> QED BY <2>1, <2>2
<1>13. CASE PatchTermCommit(r)
  <2>1. classTerm' \in [Classes -> Terms]
    BY <1>13, <1>t DEF PatchTermCommit, WellFormed, TypeInv, TypeOK
  <2>2. End(r) /\ UNCHANGED <<sectionCap, classCap, classSection, assigned, enrollment>>
    BY <1>13 DEF PatchTermCommit
  <2> QED BY <2>1, <2>2, EndType DEF TypeInv, TypeOK
<1> QED
  BY <1>1, <1>2, <1>3, <1>4, <1>5, <1>6, <1>7, <1>8, <1>9, <1>10, <1>11, <1>12, <1>13, <1>14 DEF Continue

LEMMA SingleType ==
    ASSUME TypeInv, Single
    PROVE  TypeInv'
<1> USE DEF TypeInv, TypeOK, locks, Capacities, Status
<1>1. ASSUME NEW s \in Students, NEW x \in Sections, Unassign(s, x) PROVE TypeInv'
  BY <1>1 DEF Unassign
<1>2. ASSUME NEW s \in Students, NEW c \in Classes, Drop(s, c) PROVE TypeInv'
  BY <1>2 DEF Drop
<1>3. ASSUME NEW x \in Sections, NEW k \in Capacities, PatchSectionCapacity(x, k) PROVE TypeInv'
  BY <1>3, RosterAssumption DEF PatchSectionCapacity
<1>4. ASSUME NEW c \in Classes, NEW k \in Capacities, PatchClassCapacity(c, k) PROVE TypeInv'
  BY <1>4, RosterAssumption DEF PatchClassCapacity
<1> QED BY <1>1, <1>2, <1>3, <1>4 DEF Single

LEMMA TypeInvariant == Spec => []TypeInv
<1>1. Init => TypeInv
  BY RosterAssumption, IdleType DEF Init, TypeInv, TypeOK, Capacities, Status, Pairs
<1>2. TypeInv /\ [Next]_vars => TypeInv'
  <2> SUFFICES ASSUME TypeInv, [Next]_vars PROVE TypeInv'
    OBVIOUS
  <2>1. CASE Next
    BY <2>1, StartType, ContinueType, RollbackType, SingleType DEF Next, Abort
  <2>2. CASE UNCHANGED vars
    BY <2>2 DEF vars, tables, locks, TypeInv, TypeOK
  <2> QED BY <2>1, <2>2
<1> QED BY <1>1, <1>2, PTL DEF Spec

\* Every variable keeps its domain, whatever the requests do and however many
\* of them there are.
THEOREM TypeCorrect == Spec => []TypeOK
  BY TypeInvariant, PTL DEF TypeInv
-----------------------------------------------------------------------------
(* A step of one request and the others: Guarantee.                        *)

\* What a request that need not wait may count on.
LEMMA GrantedMeans ==
    ASSUME TypeInv, NEW r \in Requests, Granted(r)
    PROVE  /\ req[r].pc = "assign_checked" =>
                \A q \in Requests \ {r} : ~HasFlushedAssignment(q, req[r].st, SectionYear[req[r].sec])
           /\ req[r].pc = "attach_locked_section" =>
                /\ classLock[req[r].cls] \in {None, r}
                /\ \A q \in Requests \ {r} : ~SharesKey(q, req[r].cls)
           /\ req[r].cur \notin req[r].rows \cup {None} =>
                \A q \in Requests \ {r} : req[r].cur \notin req[q].rows
           /\ req[r].cur \in req[r].rows => classLock[req[r].cur[2]] \in {None, r}
           /\ req[r].pc = "enroll_checked" =>
                \A q \in Requests \ {r} : <<req[r].st, req[r].cls>> \notin req[q].rows
           /\ req[r].pc = "term_read" => classLock[req[r].cls] \in {None, r}
<1>1. req[r] \in Transaction /\ WellFormed(req[r]) /\ classLock \in [Classes -> Requests \cup {None}]
  BY DEF TypeInv, TypeOK
<1>2. /\ req[r].pc \in {"attach_locked_section", "term_read"} => req[r].cls \in Classes
      /\ req[r].cur \in req[r].rows => req[r].cur[2] \in Classes
  BY <1>1 DEF WellFormed, Transaction, Pairs, AttachPCs
<1>3. \A q \in Requests \ {r} : ~WaitsFor(r, q)
  BY DEF Granted
<1> QED BY <1>1, <1>2, <1>3 DEF WaitsFor

\* Ending a transaction touches no lock but its own.
LEMMA EndFrame ==
    ASSUME TypeInv, NEW r \in Requests, End(r)
    PROVE  /\ req' = [req EXCEPT ![r] = Idle]
           /\ req'[r] = Idle
           /\ \A q \in Requests \ {r} : req'[q] = req[q]
           /\ \A x \in Sections : sectionLock'[x] = IF sectionLock[x] = r THEN None ELSE sectionLock[x]
           /\ \A c \in Classes : classLock'[c] = IF classLock[c] = r THEN None ELSE classLock[c]
  BY DEF End, Become, TypeInv, TypeOK

\* A step that leaves the tables alone keeps the guarantee if the locks it
\* takes were free.
LEMMA QuietGuarantee ==
    ASSUME TypeInv, NEW r \in Requests, UNCHANGED tables,
           \A q \in Requests \ {r} : req'[q] = req[q],
           \A x \in Sections : sectionLock[x] \notin {None, r} => sectionLock'[x] = sectionLock[x],
           \A c \in Classes : classLock[c] \notin {None, r} => classLock'[c] = classLock[c],
           \A q \in Requests \ {r} : \A p \in req[q].rows \ {req[q].cur} :
              classLock'[p[2]] \in {None, classLock[p[2]]}
    PROVE  Guarantee(r)
  BY DEF Guarantee, tables, RosterOf, Attached, ActiveIn

LEMMA RollbackGuarantee ==
    ASSUME TypeInv, NEW r \in Requests, Rollback(r)
    PROVE  Guarantee(r)
<1>1. \A q \in Requests : \A p \in req[q].rows : p[2] \in Classes
  BY DEF TypeInv, TypeOK, Transaction, Pairs
<1> QED BY <1>1, EndFrame, QuietGuarantee DEF Rollback

LEMMA MovesGuarantee ==
    ASSUME TypeInv, NEW r \in Requests, NEW t \in Transaction, Moves(r, t)
    PROVE  Guarantee(r)
<1>1. \A q \in Requests \ {r} : req'[q] = req[q]
  BY DEF Moves, Become, TypeInv, TypeOK
<1> QED BY <1>1, QuietGuarantee DEF Moves, locks

LEMMA StartGuarantee ==
    ASSUME TypeInv, NEW r \in Requests, Start(r)
    PROVE  Guarantee(r)
<1> USE RosterAssumption
<1>r. ASSUME NEW t, Become(r, t) PROVE \A q \in Requests \ {r} : req'[q] = req[q]
  BY <1>r DEF Become, TypeInv, TypeOK
<1>p. \A q \in Requests : \A p \in req[q].rows : p[1] \in Students /\ p[2] \in Classes /\ p = <<p[1], p[2]>>
  BY DEF TypeInv, TypeOK, Transaction, Pairs
<1>1. ASSUME NEW s \in Students, NEW x \in Sections, AssignLock(r, s, x) PROVE Guarantee(r)
  BY <1>1, <1>r, QuietGuarantee DEF AssignLock, SectionFree, TypeInv, TypeOK
<1>2. ASSUME NEW x \in Sections, NEW c \in Classes, AttachLockSection(r, x, c) PROVE Guarantee(r)
  BY <1>2, <1>r, QuietGuarantee DEF AttachLockSection, SectionFree, TypeInv, TypeOK
<1>3. ASSUME NEW x \in Sections, NEW c \in Classes, DetachLock(r, x, c) PROVE Guarantee(r)
  <2>1. \A q \in Requests \ {r} : \A p \in req[q].rows \ {req[q].cur} : p[2] # c
    BY <1>3, <1>p DEF DetachLock, ClassFree, SharesKey
  <2> QED BY <1>3, <1>r, <1>p, <2>1, QuietGuarantee DEF DetachLock, ClassFree, TypeInv, TypeOK
<1>4. ASSUME NEW s \in Students, NEW c \in Classes, EnrollLock(r, s, c) PROVE Guarantee(r)
  <2>1. \A q \in Requests \ {r} : \A p \in req[q].rows \ {req[q].cur} : p[2] # c
    BY <1>4, <1>p DEF EnrollLock, ClassFree, SharesKey
  <2> QED BY <1>4, <1>r, <1>p, <2>1, QuietGuarantee DEF EnrollLock, ClassFree, TypeInv, TypeOK
<1>5. ASSUME NEW c \in Classes, NEW u \in Terms, PatchTermRead(r, c, u) PROVE Guarantee(r)
  BY <1>5, <1>r, QuietGuarantee DEF PatchTermRead, locks
<1> QED BY <1>1, <1>2, <1>3, <1>4, <1>5 DEF Start

\* Committing the flushed rows: no row disappears, and none appears that
\* another request has flushed or in a class another request has locked.
LEMMA CommitRows ==
    ASSUME Inductive, NEW r \in Requests, req[r].cur = None, enrollment' = WithRows(req[r].rows)
    PROVE  /\ \A p \in Pairs : enrollment[p] # "none" => enrollment'[p] # "none"
           /\ \A q \in Requests \ {r} : \A p \in req[q].rows : enrollment'[p] = enrollment[p]
           /\ \A c \in Classes : classLock[c] \notin {None, r} => ActiveIn(c)' \subseteq ActiveIn(c)
<1>1. \A q \in Requests : req[q].rows \subseteq Pairs
  BY DEF Inductive, TypeInv, TypeOK, Transaction
<1>2. \A p \in Pairs : enrollment'[p] = IF p \in req[r].rows THEN "active" ELSE enrollment[p]
  BY DEF WithRows
<1>3. \A q \in Requests \ {r} : \A p \in req[q].rows : p \notin req[r].rows
  BY DEF Inductive, KeysDistinct
<1>4. \A p \in req[r].rows : classLock[p[2]] \in {None, r}
  <2>1. None \notin req[r].rows
    BY <1>1, RosterAssumption DEF Pairs
  <2> QED BY <2>1 DEF Inductive, Assertion, RowsPending
<1>5. ASSUME NEW c \in Classes, classLock[c] \notin {None, r}
      PROVE  ActiveIn(c)' \subseteq ActiveIn(c)
  <2>1. \A s \in Students : <<s, c>> \in Pairs /\ <<s, c>>[2] = c
    BY DEF Pairs
  <2>2. \A s \in Students : enrollment'[<<s, c>>] = enrollment[<<s, c>>]
    BY <1>2, <1>4, <1>5, <2>1
  <2> QED BY <2>2 DEF ActiveIn
<1> QED BY <1>1, <1>2, <1>3, <1>5

\* The locks of others, and the classes of their flushed rows, when r ends.
LEMMA EndGuarantee ==
    ASSUME TypeInv, NEW r \in Requests, End(r)
    PROVE  /\ \A q \in Requests \ {r} : req'[q] = req[q]
           /\ \A x \in Sections : sectionLock[x] \notin {None, r} => sectionLock'[x] = sectionLock[x]
           /\ \A c \in Classes : classLock[c] \notin {None, r} => classLock'[c] = classLock[c]
           /\ \A q \in Requests \ {r} : \A p \in req[q].rows : classLock'[p[2]] \in {None, classLock[p[2]]}
<1>1. \A q \in Requests : \A p \in req[q].rows : p[2] \in Classes
  BY DEF TypeInv, TypeOK, Transaction, Pairs
<1> QED BY <1>1, EndFrame

LEMMA ContinueGuarantee ==
    ASSUME Inductive, NEW r \in Requests, Continue(r)
    PROVE  Guarantee(r)
<1> USE RosterAssumption, PCsDistinct
<1>t. TypeInv /\ req[r] \in Transaction /\ WellFormed(req[r]) /\ Assertion(r)
  BY DEF Inductive, TypeInv, TypeOK
<1>m. ASSUME NEW t, Become(r, t), UNCHANGED <<tables, locks>> PROVE Guarantee(r)
  <2>1. \A q \in Requests \ {r} : req'[q] = req[q]
    BY <1>t, <1>m DEF Become, TypeInv, TypeOK
  <2> QED BY <1>t, <1>m, <2>1, QuietGuarantee DEF locks
<1>1. CASE AssignCheck(r)
  BY <1>1, <1>t, <1>m, RollbackGuarantee DEF AssignCheck
<1>2. CASE AssignInsert(r)
  BY <1>2, <1>t, <1>m, RollbackGuarantee DEF AssignInsert
<1>3. CASE AssignListClasses(r)
  BY <1>3, <1>m DEF AssignListClasses
<1>4. CASE AssignCommit(r)
  <2>1. End(r) /\ enrollment' = WithRows(req[r].rows)
        /\ assigned' = assigned \cup {<<req[r].st, req[r].sec>>}
        /\ UNCHANGED <<sectionCap, classCap, classTerm, classSection>>
    BY <1>4 DEF AssignCommit
  <2>2. req[r].pc = "assign_fanout" /\ req[r].pc \in SectionPCs /\ req[r].cur = None
    BY <1>4 DEF AssignCommit, SectionPCs, AssignPCs
  <2>3. sectionLock[req[r].sec] = r
    BY <1>t, <2>2 DEF Assertion, HoldsLocks
  <2>4. \A x \in Sections : sectionLock[x] \notin {None, r} =>
           RosterOf(x)' \subseteq RosterOf(x) /\ Attached(x)' \subseteq Attached(x)
    BY <2>1, <2>3 DEF RosterOf, Attached
  <2>5. ASSUME NEW q \in Requests \ {r}, NEW s \in Students, NEW x \in Sections,
               HasFlushedAssignment(q, s, SectionYear[x]), <<s, x>> \in assigned'
        PROVE  <<s, x>> \in assigned
    <3>1. CASE s = req[r].st /\ x = req[r].sec
      <4>1. HasFlushedAssignment(r, s, SectionYear[x])
        BY <2>2, <3>1 DEF HasFlushedAssignment
      <4> QED BY <2>5, <4>1 DEF Inductive, KeysDistinct
    <3>2. CASE ~(s = req[r].st /\ x = req[r].sec)
      BY <2>1, <2>5, <3>2
    <3> QED BY <3>1, <3>2
  <2> QED BY <1>t, <2>1, <2>2, <2>4, <2>5, CommitRows, EndGuarantee DEF Guarantee
<1>5. CASE AttachLockClass(r)
  <2>1. CASE Rollback(r)
    BY <1>t, <2>1, RollbackGuarantee
  <2>2. CASE ~Rollback(r)
    <3> DEFINE c == req[r].cls
    <3>1. /\ classLock[c] \in {None, r} /\ \A q \in Requests \ {r} : ~SharesKey(q, c)
          /\ classLock' = [classLock EXCEPT ![c] = r]
          /\ UNCHANGED <<tables, sectionLock>>
      BY <1>5, <1>t, <2>2, GrantedMeans DEF AttachLockClass
    <3>2. \A q \in Requests \ {r} : req'[q] = req[q]
      BY <1>5, <1>t, <2>2 DEF AttachLockClass, Become, TypeInv, TypeOK
    <3>3. \A q \in Requests : \A p \in req[q].rows : p[1] \in Students /\ p[2] \in Classes /\ p = <<p[1], p[2]>>
      BY <1>t DEF TypeInv, TypeOK, Transaction, Pairs
    <3>4. \A q \in Requests \ {r} : \A p \in req[q].rows \ {req[q].cur} : p[2] # c
      BY <3>1, <3>3 DEF SharesKey
    <3> QED BY <1>t, <3>1, <3>2, <3>3, <3>4, QuietGuarantee DEF TypeInv, TypeOK
  <2> QED BY <2>1, <2>2
<1>6. CASE AttachListRoster(r)
  BY <1>6, <1>m DEF AttachListRoster
<1>7. CASE AttachCommit(r)
  <2>1. End(r) /\ enrollment' = WithRows(req[r].rows)
        /\ classSection' = [classSection EXCEPT ![req[r].cls] = req[r].sec]
        /\ UNCHANGED <<sectionCap, classCap, classTerm, assigned>>
    BY <1>7 DEF AttachCommit
  <2>2. req[r].pc = "attach_fanout" /\ req[r].pc \in SectionPCs /\ req[r].pc \in ClassPCs
        /\ req[r].cur = None
    BY <1>7 DEF AttachCommit, SectionPCs, AttachPCs, ClassPCs
  <2>3. sectionLock[req[r].sec] = r /\ classLock[req[r].cls] = r /\ req[r].cls \in Classes
    BY <1>t, <2>2 DEF Assertion, HoldsLocks, WellFormed, AttachPCs
  <2>4. \A x \in Sections : sectionLock[x] \notin {None, r} =>
           RosterOf(x)' \subseteq RosterOf(x) /\ Attached(x)' \subseteq Attached(x)
    BY <1>t, <2>1, <2>3 DEF RosterOf, Attached, TypeInv, TypeOK
  <2>5. \A c \in Classes : classLock[c] \notin {None, r} => classSection'[c] = classSection[c]
    BY <1>t, <2>1, <2>3 DEF TypeInv, TypeOK
  <2> QED BY <1>t, <2>1, <2>2, <2>4, <2>5, CommitRows, EndGuarantee DEF Guarantee
<1>8. ASSUME NEW p \in Pairs, FanOutLook(r, p) PROVE Guarantee(r)
  BY <1>8, <1>m DEF FanOutLook
<1>9. CASE FanOutInsert(r)
  BY <1>9, <1>t, <1>m, RollbackGuarantee DEF FanOutInsert
<1>14. CASE FanOutShare(r)
  BY <1>14, <1>m DEF FanOutShare
<1>10. CASE DetachCommit(r)
  <2>1. End(r) /\ classSection' = [classSection EXCEPT ![req[r].cls] = None]
        /\ UNCHANGED <<sectionCap, classCap, classTerm, assigned, enrollment>>
    BY <1>10 DEF DetachCommit
  <2>2. req[r].pc = "detach_locked" /\ req[r].pc \in ClassPCs
    BY <1>10 DEF DetachCommit, ClassPCs
  <2>3. classLock[req[r].cls] = r /\ req[r].cls \in Classes
    BY <1>t, <2>2 DEF Assertion, HoldsLocks, WellFormed
  <2>4. \A x \in Sections : RosterOf(x)' = RosterOf(x) /\ Attached(x)' \subseteq Attached(x)
    BY <1>t, <2>1, <2>3 DEF RosterOf, Attached, TypeInv, TypeOK
  <2>5. \A c \in Classes : /\ classLock[c] \notin {None, r} => classSection'[c] = classSection[c]
                           /\ ActiveIn(c)' = ActiveIn(c)
    BY <1>t, <2>1, <2>3 DEF TypeInv, TypeOK, ActiveIn
  <2> QED BY <1>t, <2>1, <2>4, <2>5, EndGuarantee DEF Guarantee
<1>11. CASE EnrollCheck(r)
  BY <1>11, <1>t, <1>m, RollbackGuarantee DEF EnrollCheck
<1>12. CASE EnrollCommit(r)
  <2>1. CASE Rollback(r)
    BY <1>t, <2>1, RollbackGuarantee
  <2>2. CASE ~Rollback(r)
    <3> DEFINE p == <<req[r].st, req[r].cls>>
    <3>1. /\ End(r) /\ enrollment' = [enrollment EXCEPT ![p] = "active"]
          /\ UNCHANGED <<sectionCap, classCap, classTerm, classSection, assigned>>
          /\ \A q \in Requests \ {r} : p \notin req[q].rows
      BY <1>12, <1>t, <2>2, GrantedMeans DEF EnrollCommit
    <3>2. req[r].pc = "enroll_checked" /\ req[r].pc \in ClassPCs
      BY <1>12 DEF EnrollCommit, ClassPCs
    <3>3. classLock[req[r].cls] = r /\ p \in Pairs
      BY <1>t, <3>2 DEF Assertion, HoldsLocks, WellFormed, Pairs
    <3>4. \A u \in Pairs : enrollment'[u] = IF u = p THEN "active" ELSE enrollment[u]
      BY <1>t, <3>1 DEF TypeInv, TypeOK
    <3>5. \A q \in Requests : req[q].rows \subseteq Pairs
      BY <1>t DEF TypeInv, TypeOK, Transaction
    <3>6. \A c \in Classes : classLock[c] \notin {None, r} => ActiveIn(c)' \subseteq ActiveIn(c)
      BY <3>3, <3>4 DEF ActiveIn, Pairs
    <3>7. \A x \in Sections : RosterOf(x)' = RosterOf(x) /\ Attached(x)' = Attached(x)
      BY <3>1 DEF RosterOf, Attached
    <3>8. \A q \in Requests \ {r} : \A u \in req[q].rows : enrollment'[u] = enrollment[u]
      BY <3>1, <3>4, <3>5
    <3>9. \A u \in Pairs : enrollment[u] # "none" => enrollment'[u] # "none"
      BY <3>4
    <3> QED BY <1>t, <3>1, <3>6, <3>7, <3>8, <3>9, EndGuarantee DEF Guarantee
  <2> QED BY <2>1, <2>2
<1>13. CASE PatchTermCommit(r)
  <2>1. End(r) /\ classTerm' = [classTerm EXCEPT ![req[r].cls] = req[r].term]
        /\ classLock[req[r].cls] \in {None, r}
        /\ UNCHANGED <<sectionCap, classCap, classSection, assigned, enrollment>>
    BY <1>13, <1>t, GrantedMeans DEF PatchTermCommit
  <2>2. \A c \in Classes : /\ classLock[c] \notin {None, r} => classTerm'[c] = classTerm[c]
                           /\ ActiveIn(c)' = ActiveIn(c)
    BY <1>t, <2>1 DEF TypeInv, TypeOK, ActiveIn
  <2>3. \A x \in Sections : RosterOf(x)' = RosterOf(x) /\ Attached(x)' = Attached(x)
    BY <2>1 DEF RosterOf, Attached
  <2> QED BY <1>t, <2>1, <2>2, <2>3, EndGuarantee DEF Guarantee
<1> QED
  BY <1>1, <1>2, <1>3, <1>4, <1>5, <1>6, <1>7, <1>8, <1>9, <1>10, <1>11, <1>12, <1>13, <1>14 DEF Continue

LEMMA SingleGuarantee ==
    ASSUME Inductive, Single
    PROVE  Guarantee(None)
<1> USE RosterAssumption
<1>t. TypeOK /\ \A q \in Requests : req[q].rows \subseteq Pairs
  BY DEF Inductive, TypeInv, TypeOK, Transaction
<1>1. ASSUME NEW s \in Students, NEW x \in Sections, Unassign(s, x) PROVE Guarantee(None)
  <2>1. \A z \in Sections : RosterOf(z)' \subseteq RosterOf(z) /\ Attached(z)' = Attached(z)
    BY <1>1 DEF Unassign, RosterOf, Attached
  <2>2. \A c \in Classes : ActiveIn(c)' = ActiveIn(c)
    BY <1>1 DEF Unassign, ActiveIn
  <2> QED BY <1>1, <1>t, <2>1, <2>2 DEF Unassign, Guarantee, locks
<1>2. ASSUME NEW s \in Students, NEW c \in Classes, Drop(s, c) PROVE Guarantee(None)
  <2>1. \A z \in Sections : RosterOf(z)' = RosterOf(z) /\ Attached(z)' = Attached(z)
    BY <1>2 DEF Drop, RosterOf, Attached
  <2>2. \A p \in Pairs : enrollment'[p] = IF p = <<s, c>> THEN "dropped" ELSE enrollment[p]
    BY <1>2, <1>t DEF Drop, TypeOK
  <2>3. \A d \in Classes : ActiveIn(d)' \subseteq ActiveIn(d)
    BY <2>2 DEF ActiveIn, Pairs
  <2>4. \A q \in Requests : \A p \in req[q].rows : p # <<s, c>>
    BY <1>2 DEF Drop, Inductive, Assertion, RowsPending
  <2> QED BY <1>2, <1>t, <2>1, <2>2, <2>3, <2>4 DEF Drop, Guarantee, locks
<1>3. ASSUME NEW x \in Sections, NEW k \in Capacities, PatchSectionCapacity(x, k)
      PROVE  Guarantee(None)
  <2>1. \A z \in Sections : /\ RosterOf(z)' = RosterOf(z) /\ Attached(z)' = Attached(z)
                            /\ sectionLock[z] # None => sectionCap'[z] = sectionCap[z]
    BY <1>3, <1>t DEF PatchSectionCapacity, SectionFree, RosterOf, Attached, TypeOK
  <2>2. \A c \in Classes : ActiveIn(c)' = ActiveIn(c)
    BY <1>3 DEF PatchSectionCapacity, ActiveIn
  <2> QED BY <1>3, <1>t, <2>1, <2>2 DEF PatchSectionCapacity, Guarantee, locks
<1>4. ASSUME NEW c \in Classes, NEW k \in Capacities, PatchClassCapacity(c, k)
      PROVE  Guarantee(None)
  <2>1. \A z \in Sections : RosterOf(z)' = RosterOf(z) /\ Attached(z)' = Attached(z)
    BY <1>4 DEF PatchClassCapacity, RosterOf, Attached
  <2>2. \A d \in Classes : /\ ActiveIn(d)' = ActiveIn(d)
                           /\ classLock[d] # None => classCap'[d] = classCap[d]
    BY <1>4, <1>t DEF PatchClassCapacity, ActiveIn, TypeOK
  <2> QED BY <1>4, <1>t, <2>1, <2>2 DEF PatchClassCapacity, Guarantee, locks
<1> QED BY <1>1, <1>2, <1>3, <1>4 DEF Single

LEMMA NextGuarantee ==
    ASSUME Inductive, Next
    PROVE  \/ \E r \in Requests : Guarantee(r) /\ (Start(r) \/ Continue(r) \/ Abort(r))
           \/ Guarantee(None) /\ Single
<1>1. TypeInv
  BY DEF Inductive
<1> QED
  BY <1>1, StartGuarantee, ContinueGuarantee, RollbackGuarantee, SingleGuarantee DEF Next, Abort

\* The rule the design rests on: what a request has locked or flushed, and its
\* own transaction, no step of another request disturbs.
THEOREM OthersKeepOut == []Inductive /\ [][Next]_vars => StepsKeepOut
<1>1. ASSUME Inductive, [Next]_vars PROVE [\E r \in Requests \cup {None} : Guarantee(r)]_vars
  BY <1>1, NextGuarantee
<1> QED BY <1>1, PTL DEF StepsKeepOut

-----------------------------------------------------------------------------
(* Assertions are stable under the others' guarantee.                      *)

\* Rosters are finite, so losing students does not make them larger.
LEMMA Shrinks ==
    ASSUME NEW S, NEW T, IsFiniteSet(T), S \subseteq T
    PROVE  Cardinality(S) \in Nat /\ Cardinality(T) \in Nat /\ Cardinality(S) <= Cardinality(T)
  BY FS_Subset, FS_CardinalityType

LEMMA FiniteRosters ==
    ASSUME NEW x
    PROVE  IsFiniteSet(RosterOf(x)) /\ IsFiniteSet(ActiveIn(x))
  BY RosterAssumption, FS_Subset DEF RosterOf, ActiveIn

LEMMA Stable ==
    ASSUME Inductive, NEW r \in Requests \cup {None}, Guarantee(r), NEW q \in Requests \ {r}
    PROVE  Assertion(q)'
<1> USE RosterAssumption, PCsDistinct
<1>t. req[q] \in Transaction /\ WellFormed(req[q]) /\ Assertion(q)
  BY DEF Inductive, TypeInv, TypeOK
<1>q. req'[q] = req[q]
  BY DEF Guarantee
<1> DEFINE t == req[q]
<1>s. ASSUME t.pc \in SectionPCs
      PROVE  /\ t.sec \in Sections /\ sectionLock[t.sec] = q /\ sectionLock'[t.sec] = q
             /\ sectionCap'[t.sec] = sectionCap[t.sec]
             /\ RosterOf(t.sec)' \subseteq RosterOf(t.sec)
             /\ Attached(t.sec)' \subseteq Attached(t.sec)
  <2>1. t.sec \in Sections
    BY <1>s, <1>t DEF WellFormed, SectionPCs
  <2>2. sectionLock[t.sec] = q
    BY <1>s, <1>t DEF Assertion, HoldsLocks
  <2> QED BY <2>1, <2>2 DEF Guarantee
<1>c. ASSUME t.pc \in ClassPCs
      PROVE  /\ t.cls \in Classes /\ classLock[t.cls] = q /\ classLock'[t.cls] = q
             /\ classCap'[t.cls] = classCap[t.cls]
             /\ classTerm'[t.cls] = classTerm[t.cls]
             /\ classSection'[t.cls] = classSection[t.cls]
             /\ ActiveIn(t.cls)' \subseteq ActiveIn(t.cls)
  <2>1. t.cls \in Classes
    BY <1>c, <1>t DEF WellFormed, ClassPCs, AttachPCs
  <2>2. classLock[t.cls] = q
    BY <1>c, <1>t DEF Assertion, HoldsLocks
  <2> QED BY <2>1, <2>2 DEF Guarantee
<1>e. \A p \in Pairs : enrollment[p] # "none" => enrollment'[p] # "none"
  BY DEF Guarantee
<1>pc. /\ \A pc \in AssignPCs \cup AttachPCs : pc \in SectionPCs
       /\ \A pc \in FlushedPCs : pc \in SectionPCs
       /\ "assign_fanout" \in SectionPCs /\ "attach_fanout" \in SectionPCs
       /\ "attach_locked_class" \in ClassPCs /\ "attach_fanout" \in ClassPCs
       /\ "detach_locked" \in ClassPCs
       /\ "enroll_locked" \in ClassPCs /\ "enroll_checked" \in ClassPCs
  BY DEF SectionPCs, FlushedPCs, AssignPCs, AttachPCs, ClassPCs
<1>1. HoldsLocks(q)'
  BY <1>q, <1>s, <1>c DEF HoldsLocks
<1>2. RowsPending(q)'
  <2>1. \A p \in t.rows : /\ p[2] \in Classes /\ enrollment[p] = "none"
                          /\ p # t.cur => classLock[p[2]] \in {None, q}
    BY <1>t DEF Assertion, RowsPending, Transaction, Pairs
  <2>2. \A p \in t.rows : /\ enrollment'[p] = enrollment[p]
                          /\ p # t.cur => classLock'[p[2]] \in {None, classLock[p[2]]}
    BY DEF Guarantee
  <2> QED BY <1>q, <2>1, <2>2 DEF RowsPending
<1>3. AssignCovers(q)'
  <2> SUFFICES ASSUME t.pc = "assign_fanout", NEW c \in Attached(t.sec)'
               PROVE  Covers(t, <<t.st, c>>)'
    BY <1>q DEF AssignCovers
  <2>1. c \in Attached(t.sec) /\ c \in Classes /\ t.st \in Students
    BY <1>s, <1>t, <1>pc DEF Attached, WellFormed, AssignPCs
  <2>2. Covers(t, <<t.st, c>>)
    BY <1>t, <2>1 DEF Assertion, AssignCovers
  <2> QED BY <1>q, <1>e, <2>1, <2>2 DEF Covers, Pairs
<1>4. AttachCovers(q)'
  <2> SUFFICES ASSUME t.pc = "attach_fanout", NEW s \in RosterOf(t.sec)'
               PROVE  Covers(t, <<s, t.cls>>)'
    BY <1>q DEF AttachCovers
  <2>1. s \in RosterOf(t.sec) /\ s \in Students /\ t.cls \in Classes
    BY <1>s, <1>t, <1>pc DEF RosterOf, WellFormed, AttachPCs
  <2>2. Covers(t, <<s, t.cls>>)
    BY <1>t, <2>1 DEF Assertion, AttachCovers
  <2> QED BY <1>q, <1>e, <2>1, <2>2 DEF Covers, Pairs
<1>9. AttachIdempotent(q)'
  BY <1>q, <1>c, <1>e, <1>t, <1>pc DEF Assertion, AttachIdempotent
<1>5. SeatKept(q)'
  <2>1. ASSUME t.pc \in AssignPCs PROVE t.cap = sectionCap'[t.sec]
    BY <1>s, <1>t, <1>pc, <2>1 DEF Assertion, SeatKept
  <2>2. ASSUME t.pc \in AssignPCs \ {"assign_locked"}
        PROVE  Cardinality(RosterOf(t.sec)') < t.cap
    <3>1. Cardinality(RosterOf(t.sec)) < t.cap /\ t.cap \in Nat
      BY <1>t, <2>2 DEF Assertion, SeatKept, Transaction
    <3>2. RosterOf(t.sec)' \subseteq RosterOf(t.sec)
      BY <1>s, <1>pc, <2>2
    <3> QED BY <3>1, <3>2, Shrinks, FiniteRosters
  <2> QED BY <1>q, <2>1, <2>2 DEF SeatKept
<1>6. YearKept(q)'
  <2> SUFFICES ASSUME t.pc \in FlushedPCs, AssignedInYear(t.st, SectionYear[t.sec])'
               PROVE  FALSE
    BY <1>q DEF YearKept
  <2>1. t.st \in Students /\ t.sec \in Sections
    BY <1>t DEF WellFormed, FlushedPCs, AssignPCs
  <2>2. PICK x \in Sections : <<t.st, x>> \in assigned' /\ SectionYear[x] = SectionYear[t.sec]
    BY <1>q DEF AssignedInYear
  <2>3. HasFlushedAssignment(q, t.st, SectionYear[x])
    BY <2>2 DEF HasFlushedAssignment, FlushedPCs
  <2>4. <<t.st, x>> \in assigned
    BY <2>1, <2>2, <2>3 DEF Guarantee
  <2> QED BY <1>t, <2>2, <2>4 DEF Assertion, YearKept, AssignedInYear
<1>7. ClassKept(q)'
  BY <1>q, <1>c, <1>t, <1>pc DEF Assertion, ClassKept, Attachable
<1>8. PlaceKept(q)'
  <2>1. ASSUME t.pc \in {"enroll_locked", "enroll_checked"} PROVE t.cap = classCap'[t.cls]
    BY <1>c, <1>t, <1>pc, <2>1 DEF Assertion, PlaceKept
  <2>2. ASSUME t.pc = "enroll_checked" PROVE Cardinality(ActiveIn(t.cls)') < t.cap
    <3>1. Cardinality(ActiveIn(t.cls)) < t.cap /\ t.cap \in Nat
      BY <1>t, <2>2 DEF Assertion, PlaceKept, Transaction
    <3>2. ActiveIn(t.cls)' \subseteq ActiveIn(t.cls)
      BY <1>c, <1>pc, <2>2
    <3> QED BY <3>1, <3>2, Shrinks, FiniteRosters
  <2> QED BY <1>q, <2>1, <2>2 DEF PlaceKept
<1> QED BY <1>1, <1>2, <1>3, <1>4, <1>5, <1>6, <1>7, <1>8, <1>9 DEF Assertion

-----------------------------------------------------------------------------
(* A request's own step keeps its assertion.                               *)

LEMMA PCSets ==
    /\ "idle" \notin SectionPCs /\ "idle" \notin ClassPCs /\ "idle" \notin FlushedPCs
    /\ \A pc \in AssignPCs :
         pc \in SectionPCs /\ pc \notin AttachPCs /\ pc \notin ClassPCs
    /\ \A pc \in AttachPCs :
         pc \in SectionPCs /\ pc \notin AssignPCs /\ pc \notin FlushedPCs
    /\ \A pc \in {"detach_locked", "enroll_locked", "enroll_checked"} :
         pc \in ClassPCs /\ pc \notin SectionPCs /\ pc \notin FlushedPCs /\ pc \notin AssignPCs
    /\ "term_read" \notin SectionPCs \cup ClassPCs \cup FlushedPCs \cup AssignPCs
    /\ "attach_locked_section" \notin ClassPCs
  BY DEF SectionPCs, ClassPCs, FlushedPCs, AssignPCs, AttachPCs

LEMMA IdleAssertion ==
    ASSUME NEW r \in Requests, req'[r] = Idle
    PROVE  Assertion(r)'
<1>1. Idle.pc = "idle" /\ Idle.rows = {}
  BY DEF Idle
<1> QED
  BY <1>1, PCSets
  DEF Assertion, HoldsLocks, RowsPending, AssignCovers, AttachCovers, AttachIdempotent, SeatKept, YearKept,
      ClassKept, PlaceKept, AssignPCs

LEMMA StartAssertion ==
    ASSUME Inductive, NEW r \in Requests, Start(r)
    PROVE  Assertion(r)'
<1> USE RosterAssumption, PCSets
<1> USE DEF Assertion, RowsPending, AssignCovers, AttachCovers, AttachIdempotent, YearKept
<1>t. TypeInv
  BY DEF Inductive
<1>b. ASSUME NEW t, Become(r, t) PROVE req'[r] = t
  BY <1>b, <1>t DEF Become, TypeInv, TypeOK
<1>1. ASSUME NEW s \in Students, NEW x \in Sections, AssignLock(r, s, x) PROVE Assertion(r)'
  <2> DEFINE t == [Idle EXCEPT !.pc = "assign_locked", !.st = s, !.sec = x, !.cap = sectionCap[x]]
  <2>1. t.pc = "assign_locked" /\ t.sec = x /\ t.cap = sectionCap[x] /\ t.rows = {}
    BY DEF Idle
  <2>2. req'[r] = t /\ sectionLock'[x] = r /\ UNCHANGED sectionCap
    BY <1>1, <1>t, <1>b DEF AssignLock, tables, TypeInv, TypeOK
  <2> HIDE DEF t
  <2> QED BY <2>1, <2>2 DEF HoldsLocks, SeatKept, ClassKept, PlaceKept, FlushedPCs, AssignPCs
<1>2. ASSUME NEW x \in Sections, NEW c \in Classes, AttachLockSection(r, x, c) PROVE Assertion(r)'
  <2> DEFINE t == [Idle EXCEPT !.pc = "attach_locked_section", !.sec = x, !.cls = c]
  <2>1. t.pc = "attach_locked_section" /\ t.sec = x /\ t.rows = {}
    BY DEF Idle
  <2>2. req'[r] = t /\ sectionLock'[x] = r
    BY <1>2, <1>t, <1>b DEF AttachLockSection, TypeInv, TypeOK
  <2> HIDE DEF t
  <2> QED BY <2>1, <2>2 DEF HoldsLocks, SeatKept, ClassKept, PlaceKept, AttachPCs
<1>3. ASSUME NEW x \in Sections, NEW c \in Classes, DetachLock(r, x, c) PROVE Assertion(r)'
  <2> DEFINE t == [Idle EXCEPT !.pc = "detach_locked", !.sec = x, !.cls = c]
  <2>1. t.pc = "detach_locked" /\ t.sec = x /\ t.cls = c /\ t.rows = {}
    BY DEF Idle
  <2>2. req'[r] = t /\ classLock'[c] = r /\ classSection'[c] = x
    BY <1>3, <1>t, <1>b DEF DetachLock, tables, TypeInv, TypeOK
  <2> HIDE DEF t
  <2> QED BY <2>1, <2>2 DEF HoldsLocks, SeatKept, ClassKept, PlaceKept
<1>4. ASSUME NEW s \in Students, NEW c \in Classes, EnrollLock(r, s, c) PROVE Assertion(r)'
  <2> DEFINE t == [Idle EXCEPT !.pc = "enroll_locked", !.st = s, !.cls = c, !.cap = classCap[c]]
  <2>1. t.pc = "enroll_locked" /\ t.cls = c /\ t.cap = classCap[c] /\ t.rows = {}
    BY DEF Idle
  <2>2. req'[r] = t /\ classLock'[c] = r /\ UNCHANGED classCap
    BY <1>4, <1>t, <1>b DEF EnrollLock, tables, TypeInv, TypeOK
  <2> HIDE DEF t
  <2> QED BY <2>1, <2>2 DEF HoldsLocks, SeatKept, ClassKept, PlaceKept
<1>5. ASSUME NEW c \in Classes, NEW u \in Terms, PatchTermRead(r, c, u) PROVE Assertion(r)'
  <2> DEFINE t == [Idle EXCEPT !.pc = "term_read", !.cls = c, !.term = u]
  <2>1. t.pc = "term_read" /\ t.rows = {}
    BY DEF Idle
  <2>2. req'[r] = t
    BY <1>5, <1>b DEF PatchTermRead
  <2> HIDE DEF t
  <2> QED BY <2>1, <2>2 DEF HoldsLocks, SeatKept, ClassKept, PlaceKept
<1> QED BY <1>1, <1>2, <1>3, <1>4, <1>5 DEF Start

LEMMA EndAssertion ==
    ASSUME TypeInv, NEW r \in Requests, End(r)
    PROVE  Assertion(r)'
  BY EndFrame, IdleAssertion

LEMMA ContinueAssertion ==
    ASSUME Inductive, NEW r \in Requests, Continue(r)
    PROVE  Assertion(r)'
<1> USE RosterAssumption, PCSets
<1>t. TypeInv /\ req[r] \in Transaction /\ WellFormed(req[r]) /\ Assertion(r)
  BY DEF Inductive, TypeInv, TypeOK
<1>b. ASSUME NEW t, Become(r, t) PROVE req'[r] = t
  BY <1>b, <1>t DEF Become, TypeInv, TypeOK
<1>r. ASSUME Rollback(r) PROVE Assertion(r)'
  BY <1>r, <1>t, EndAssertion DEF Rollback
<1>e. ASSUME End(r) PROVE Assertion(r)'
  BY <1>e, <1>t, EndAssertion
<1>1. CASE AssignCheck(r)
  <2> DEFINE t == [req[r] EXCEPT !.pc = "assign_checked"]
  <2>0. SUFFICES ASSUME ~Rollback(r) PROVE Assertion(r)'
    BY <1>r
  <2>1. t.pc = "assign_checked" /\ t.sec = req[r].sec /\ t.cap = req[r].cap /\ t.rows = {}
    BY <1>1, <1>t DEF AssignCheck, Transaction, WellFormed, FanOutPCs
  <2>2. /\ req'[r] = t /\ UNCHANGED <<tables, locks>> /\ req[r].pc = "assign_locked"
        /\ ~(Cardinality(RosterOf(req[r].sec)) >= req[r].cap)
    BY <1>1, <1>b, <2>0 DEF AssignCheck
  <2>3. Cardinality(RosterOf(req[r].sec)) \in Nat /\ req[r].cap \in Nat
    BY <1>t, FiniteRosters, FS_CardinalityType DEF Transaction
  <2>4. Cardinality(RosterOf(req[r].sec)) < req[r].cap
    BY <2>2, <2>3
  <2>5. sectionLock[req[r].sec] = r /\ req[r].cap = sectionCap[req[r].sec]
    BY <1>t, <2>2 DEF Assertion, HoldsLocks, SeatKept, AssignPCs
  <2>6. RosterOf(req[r].sec)' = RosterOf(t.sec)
    BY <2>1, <2>2 DEF tables, RosterOf
  <2> HIDE DEF t
  <2> QED
    BY <2>1, <2>2, <2>4, <2>5, <2>6
    DEF Assertion, HoldsLocks, RowsPending, AssignCovers, AttachCovers, AttachIdempotent, SeatKept, YearKept,
        ClassKept, PlaceKept, tables, locks, AssignPCs, FlushedPCs
<1>2. CASE AssignInsert(r)
  <2> DEFINE t == [req[r] EXCEPT !.pc = "assign_inserted"]
  <2>0. SUFFICES ASSUME ~Rollback(r) PROVE Assertion(r)'
    BY <1>r
  <2>1. t.pc = "assign_inserted" /\ t.sec = req[r].sec /\ t.st = req[r].st /\ t.cap = req[r].cap /\ t.rows = {}
    BY <1>2, <1>t DEF AssignInsert, Transaction, WellFormed, FanOutPCs
  <2>2. /\ req'[r] = t /\ UNCHANGED <<tables, locks>> /\ req[r].pc = "assign_checked"
        /\ ~AssignedInYear(req[r].st, SectionYear[req[r].sec])
    BY <1>2, <1>b, <2>0 DEF AssignInsert
  <2>5. /\ sectionLock[req[r].sec] = r /\ req[r].cap = sectionCap[req[r].sec]
        /\ Cardinality(RosterOf(req[r].sec)) < req[r].cap
    BY <1>t, <2>2 DEF Assertion, HoldsLocks, SeatKept, AssignPCs
  <2>6. RosterOf(req[r].sec)' = RosterOf(t.sec)
    BY <2>1, <2>2 DEF tables, RosterOf
  <2>7. AssignedInYear(req[r].st, SectionYear[req[r].sec])' = AssignedInYear(t.st, SectionYear[t.sec])
    BY <2>1, <2>2 DEF tables, AssignedInYear
  <2> HIDE DEF t
  <2> QED
    BY <2>1, <2>2, <2>5, <2>6, <2>7
    DEF Assertion, HoldsLocks, RowsPending, AssignCovers, AttachCovers, AttachIdempotent, SeatKept, YearKept,
        ClassKept, PlaceKept, tables, locks, AssignPCs, FlushedPCs
<1>3. CASE AssignListClasses(r)
  <2> DEFINE t == [req[r] EXCEPT !.pc = "assign_fanout", !.todo = {req[r].st} \X Attached(req[r].sec)]
  <2>1. /\ t.pc = "assign_fanout" /\ t.sec = req[r].sec /\ t.st = req[r].st /\ t.cap = req[r].cap
        /\ t.rows = {} /\ t.todo = {req[r].st} \X Attached(req[r].sec)
    BY <1>3, <1>t DEF AssignListClasses, Transaction, WellFormed, FanOutPCs
  <2>2. req'[r] = t /\ UNCHANGED <<tables, locks>> /\ req[r].pc = "assign_inserted"
    BY <1>3, <1>b DEF AssignListClasses
  <2>5. /\ sectionLock[req[r].sec] = r /\ req[r].cap = sectionCap[req[r].sec]
        /\ Cardinality(RosterOf(req[r].sec)) < req[r].cap
        /\ ~AssignedInYear(req[r].st, SectionYear[req[r].sec])
    BY <1>t, <2>2 DEF Assertion, HoldsLocks, SeatKept, YearKept, AssignPCs, FlushedPCs
  <2>6. RosterOf(req[r].sec)' = RosterOf(t.sec)
    BY <2>1, <2>2 DEF tables, RosterOf
  <2>7. AssignedInYear(req[r].st, SectionYear[req[r].sec])' = AssignedInYear(t.st, SectionYear[t.sec])
    BY <2>1, <2>2 DEF tables, AssignedInYear
  <2>8. Attached(req[r].sec)' = Attached(t.sec)
    BY <2>1, <2>2 DEF tables, Attached
  <2> HIDE DEF t
  <2> QED
    BY <2>1, <2>2, <2>5, <2>6, <2>7, <2>8
    DEF Assertion, HoldsLocks, RowsPending, AssignCovers, AttachCovers, AttachIdempotent, SeatKept, YearKept,
        ClassKept, PlaceKept, Covers, tables, locks, AssignPCs, FlushedPCs
<1>4. CASE AssignCommit(r)
  BY <1>4, <1>e DEF AssignCommit
<1>5. CASE AttachLockClass(r)
  <2> DEFINE t == [req[r] EXCEPT !.pc = "attach_locked_class"]
  <2>0. SUFFICES ASSUME ~Rollback(r) PROVE Assertion(r)'
    BY <1>r
  <2>1. t.pc = "attach_locked_class" /\ t.sec = req[r].sec /\ t.cls = req[r].cls /\ t.rows = {}
    BY <1>5, <1>t DEF AttachLockClass, Transaction, WellFormed, FanOutPCs
  <2>2. /\ req'[r] = t /\ UNCHANGED <<tables, sectionLock>> /\ req[r].pc = "attach_locked_section"
        /\ classLock' = [classLock EXCEPT ![req[r].cls] = r]
        /\ Attachable(req[r].cls, req[r].sec)
    BY <1>5, <1>b, <2>0 DEF AttachLockClass
  <2>3. req[r].cls \in Classes /\ sectionLock[req[r].sec] = r
    BY <1>t, <2>2 DEF WellFormed, AttachPCs, Assertion, HoldsLocks, SectionPCs
  <2>4. classLock'[req[r].cls] = r
    BY <1>t, <2>2, <2>3 DEF TypeInv, TypeOK
  <2> HIDE DEF t
  <2> QED
    BY <2>1, <2>2, <2>3, <2>4
    DEF Assertion, HoldsLocks, RowsPending, AssignCovers, AttachCovers, AttachIdempotent, SeatKept, YearKept,
        ClassKept, PlaceKept, Attachable, tables, AttachPCs
<1>6. CASE AttachListRoster(r)
  <2> DEFINE t == [req[r] EXCEPT !.pc = "attach_fanout", !.todo = RosterOf(req[r].sec) \X {req[r].cls}]
  <2>1. /\ t.pc = "attach_fanout" /\ t.sec = req[r].sec /\ t.cls = req[r].cls
        /\ t.rows = {} /\ t.todo = RosterOf(req[r].sec) \X {req[r].cls}
    BY <1>6, <1>t DEF AttachListRoster, Transaction, WellFormed, FanOutPCs
  <2>2. req'[r] = t /\ UNCHANGED <<tables, locks>> /\ req[r].pc = "attach_locked_class"
    BY <1>6, <1>b DEF AttachListRoster
  <2>3. /\ sectionLock[req[r].sec] = r /\ classLock[req[r].cls] = r
        /\ Attachable(req[r].cls, req[r].sec)
    BY <1>t, <2>2 DEF Assertion, HoldsLocks, ClassKept, SectionPCs, AttachPCs, ClassPCs
  <2>4. RosterOf(req[r].sec)' = RosterOf(t.sec)
    BY <2>1, <2>2 DEF tables, RosterOf
  <2>5. classSection[req[r].cls] = req[r].sec =>
          \A p \in t.todo : enrollment[p] # "none"
    BY <1>t, <2>1, <2>2 DEF Inductive, RosterEnrolled, RosterOf, WellFormed, AttachPCs
  <2>6. t.cur = None
    BY <1>t, <2>2 DEF Transaction, WellFormed, FanOutPCs
  <2>7. \A p \in Pairs : p # None
    BY RosterAssumption DEF Pairs
  <2> HIDE DEF t
  <2> QED
    BY <2>1, <2>2, <2>3, <2>4, <2>5, <2>6, <2>7
    DEF Assertion, HoldsLocks, RowsPending, AssignCovers, AttachCovers, AttachIdempotent, SeatKept, YearKept,
        ClassKept, PlaceKept, Attachable, Covers, tables, locks, AttachPCs
<1>7. CASE AttachCommit(r)
  BY <1>7, <1>e DEF AttachCommit
<1>f. ASSUME NEW t \in Transaction, req'[r] = t, UNCHANGED <<tables, locks>>,
             req[r].pc \in FanOutPCs,
             t.pc = req[r].pc, t.st = req[r].st, t.sec = req[r].sec, t.cls = req[r].cls,
             t.cap = req[r].cap,
             \A p \in Pairs : Covers(req[r], p) => Covers(t, p),
             \A p \in t.rows : enrollment[p] = "none",
             \A p \in t.rows \ {t.cur} : classLock[p[2]] \in {None, r},
             \A p \in Pairs : p \in t.todo \cup t.rows \cup {t.cur} =>
                p \in req[r].todo \cup req[r].rows \cup {req[r].cur}
      PROVE  Assertion(r)'
  <2>1. RosterOf(req[r].sec)' = RosterOf(t.sec) /\ Attached(req[r].sec)' = Attached(t.sec)
    BY <1>f DEF tables, RosterOf, Attached
  <2>2. AssignedInYear(req[r].st, SectionYear[req[r].sec])' = AssignedInYear(t.st, SectionYear[t.sec])
    BY <1>f DEF tables, AssignedInYear
  <2>3. \A p : Covers(req[r], p)' = Covers(t, p)
    BY <1>f DEF tables, Covers
  <2>4. HoldsLocks(r)' /\ RowsPending(r)'
    BY <1>f, <1>t DEF Assertion, HoldsLocks, RowsPending, locks, tables
  <2>5. AssignCovers(r)'
    <3>1. ASSUME t.pc = "assign_fanout", NEW c \in Attached(t.sec) PROVE Covers(t, <<t.st, c>>)
      <4>1. <<t.st, c>> \in Pairs /\ Covers(req[r], <<t.st, c>>)
        BY <1>t, <1>f, <3>1 DEF Assertion, AssignCovers, WellFormed, AssignPCs, Attached, Pairs
      <4> QED BY <1>f, <4>1
    <3> QED BY <1>f, <2>1, <2>3, <3>1 DEF AssignCovers
  <2>6. AttachCovers(r)'
    <3>1. ASSUME t.pc = "attach_fanout", NEW s \in RosterOf(t.sec) PROVE Covers(t, <<s, t.cls>>)
      <4>1. <<s, t.cls>> \in Pairs /\ Covers(req[r], <<s, t.cls>>)
        BY <1>t, <1>f, <3>1 DEF Assertion, AttachCovers, WellFormed, AttachPCs, RosterOf, Pairs
      <4> QED BY <1>f, <4>1
    <3> QED BY <1>f, <2>1, <2>3, <3>1 DEF AttachCovers
  <2>7. SeatKept(r)' /\ YearKept(r)'
    BY <1>f, <1>t, <2>1, <2>2 DEF Assertion, SeatKept, YearKept, tables
  <2>8. ClassKept(r)' /\ PlaceKept(r)'
    BY <1>f, <1>t DEF Assertion, ClassKept, PlaceKept, Attachable, FanOutPCs, tables
  <2>9. AttachIdempotent(r)'
    BY <1>f, <1>t DEF Assertion, AttachIdempotent, tables
  <2> QED BY <2>4, <2>5, <2>6, <2>7, <2>8, <2>9 DEF Assertion
<1>8. ASSUME NEW p \in Pairs, FanOutLook(r, p) PROVE Assertion(r)'
  <2> DEFINE cur == IF enrollment[p] = "none" THEN p ELSE None
             t == [req[r] EXCEPT !.todo = @ \ {p}, !.cur = cur]
  <2>1. /\ req'[r] = t /\ UNCHANGED <<tables, locks>> /\ req[r].pc \in FanOutPCs
        /\ req[r].cur = None
    BY <1>8, <1>b DEF FanOutLook, FanOutPCs
  <2>2. t \in Transaction
    BY <1>t DEF Transaction
  <2>3. /\ t.pc = req[r].pc /\ t.st = req[r].st /\ t.sec = req[r].sec /\ t.cls = req[r].cls
        /\ t.cap = req[r].cap /\ t.rows = req[r].rows /\ t.todo = req[r].todo \ {p} /\ t.cur = cur
    BY <1>t DEF Transaction
  <2> HIDE DEF t
  <2>4. \A u \in Pairs : u # None
    BY DEF Pairs
  <2>5. \A u \in Pairs : Covers(req[r], u) => Covers(t, u)
    BY <2>1, <2>3, <2>4 DEF Covers
  <2>6. \A u \in Pairs : u \in t.todo \cup t.rows \cup {t.cur} =>
           u \in req[r].todo \cup req[r].rows \cup {req[r].cur}
    BY <2>1, <2>3, <1>8, RosterAssumption DEF FanOutLook, Pairs
  <2>7. \A u \in t.rows : enrollment[u] = "none" /\ classLock[u[2]] \in {None, r}
    <3>1. None \notin req[r].rows
      BY <1>t, RosterAssumption DEF Transaction, Pairs
    <3> QED BY <1>t, <2>1, <2>3, <3>1 DEF Assertion, RowsPending
  <2> QED BY <1>f, <2>1, <2>2, <2>3, <2>5, <2>6, <2>7
<1>9. CASE FanOutInsert(r)
  <2> DEFINE p == req[r].cur
             t == [req[r] EXCEPT !.rows = @ \cup {p}]
  <2>0. SUFFICES ASSUME ~Rollback(r) PROVE Assertion(r)'
    BY <1>r
  <2>1. /\ req'[r] = t /\ UNCHANGED <<tables, locks>> /\ req[r].pc \in FanOutPCs
        /\ p # None /\ enrollment[p] = "none"
    BY <1>9, <1>b, <2>0 DEF FanOutInsert, FanOutPCs
  <2>2. t \in Transaction
    BY <1>t, <2>1 DEF Transaction
  <2>3. /\ t.pc = req[r].pc /\ t.st = req[r].st /\ t.sec = req[r].sec /\ t.cls = req[r].cls
        /\ t.cap = req[r].cap /\ t.rows = req[r].rows \cup {p} /\ t.todo = req[r].todo /\ t.cur = p
    BY <1>t DEF Transaction
  <2> HIDE DEF t
  <2>5. \A u \in Pairs : Covers(req[r], u) => Covers(t, u)
    BY <2>1, <2>3 DEF Covers
  <2>6. \A u \in Pairs : u \in t.todo \cup t.rows \cup {t.cur} =>
           u \in req[r].todo \cup req[r].rows \cup {req[r].cur}
    BY <2>1, <2>3, <2>0, RosterAssumption DEF Pairs
  <2> QED BY <1>f, <1>t, <2>1, <2>2, <2>3, <2>5, <2>6 DEF Assertion, RowsPending
<1>14. CASE FanOutShare(r)
  <2> DEFINE t == [req[r] EXCEPT !.cur = None]
  <2>1. /\ req'[r] = t /\ UNCHANGED <<tables, locks>> /\ req[r].pc \in FanOutPCs
        /\ req[r].cur \in req[r].rows /\ classLock[req[r].cur[2]] \in {None, r}
    BY <1>14, <1>b, <1>t, GrantedMeans DEF FanOutShare, FanOutPCs
  <2>2. t \in Transaction
    BY <1>t DEF Transaction
  <2>3. /\ t.pc = req[r].pc /\ t.st = req[r].st /\ t.sec = req[r].sec /\ t.cls = req[r].cls
        /\ t.cap = req[r].cap /\ t.rows = req[r].rows /\ t.todo = req[r].todo /\ t.cur = None
    BY <1>t DEF Transaction
  <2> HIDE DEF t
  <2>5. \A u \in Pairs : Covers(req[r], u) => Covers(t, u)
    BY <2>1, <2>3 DEF Covers
  <2>6. \A u \in Pairs : u \in t.todo \cup t.rows \cup {t.cur} =>
           u \in req[r].todo \cup req[r].rows \cup {req[r].cur}
    BY <2>3, RosterAssumption DEF Pairs
  <2> QED BY <1>f, <1>t, <2>1, <2>2, <2>3, <2>5, <2>6 DEF Assertion, RowsPending
<1>10. CASE DetachCommit(r)
  BY <1>10, <1>e DEF DetachCommit
<1>11. CASE EnrollCheck(r)
  <2> DEFINE t == [req[r] EXCEPT !.pc = "enroll_checked"]
  <2>0. SUFFICES ASSUME ~Rollback(r) PROVE Assertion(r)'
    BY <1>r
  <2>1. t.pc = "enroll_checked" /\ t.cls = req[r].cls /\ t.cap = req[r].cap /\ t.rows = {}
    BY <1>11, <1>t DEF EnrollCheck, Transaction, WellFormed, FanOutPCs
  <2>2. /\ req'[r] = t /\ UNCHANGED <<tables, locks>> /\ req[r].pc = "enroll_locked"
        /\ ~(Cardinality(ActiveIn(req[r].cls)) >= req[r].cap)
    BY <1>11, <1>b, <2>0 DEF EnrollCheck
  <2>3. Cardinality(ActiveIn(req[r].cls)) \in Nat /\ req[r].cap \in Nat
    BY <1>t, FiniteRosters, FS_CardinalityType DEF Transaction
  <2>4. Cardinality(ActiveIn(req[r].cls)) < req[r].cap
    BY <2>2, <2>3
  <2>5. classLock[req[r].cls] = r /\ req[r].cap = classCap[req[r].cls]
    BY <1>t, <2>2 DEF Assertion, HoldsLocks, PlaceKept, ClassPCs
  <2>6. ActiveIn(req[r].cls)' = ActiveIn(t.cls)
    BY <2>1, <2>2 DEF tables, ActiveIn
  <2> HIDE DEF t
  <2> QED
    BY <2>1, <2>2, <2>4, <2>5, <2>6
    DEF Assertion, HoldsLocks, RowsPending, AssignCovers, AttachCovers, AttachIdempotent, SeatKept, YearKept,
        ClassKept, PlaceKept, tables, locks
<1>12. CASE EnrollCommit(r)
  BY <1>12, <1>e, <1>r DEF EnrollCommit
<1>13. CASE PatchTermCommit(r)
  BY <1>13, <1>e DEF PatchTermCommit
<1> QED
  BY <1>1, <1>2, <1>3, <1>4, <1>5, <1>6, <1>7, <1>8, <1>9, <1>10, <1>11, <1>12, <1>13, <1>14 DEF Continue

-----------------------------------------------------------------------------
(* The invariants of the tables.                                           *)

\* A step flushes at most keys that no other transaction has flushed.
LEMMA FlushesNewKeys ==
    ASSUME Inductive, NEW r \in Requests, Start(r) \/ Continue(r) \/ Abort(r)
    PROVE  /\ \A q \in Requests \ {r} : req'[r].rows \cap req[q].rows = {}
           /\ \A q \in Requests \ {r}, s \in Students, y \in Years :
                HasFlushedAssignment(r, s, y)' => ~HasFlushedAssignment(q, s, y)
<1>t. TypeInv /\ req \in [Requests -> Transaction] /\ req[r] \in Transaction /\ WellFormed(req[r])
  BY DEF Inductive, TypeInv, TypeOK
<1>k. /\ \A q \in Requests \ {r} : req[r].rows \cap req[q].rows = {}
      /\ \A q \in Requests \ {r}, s \in Students, y \in Years :
           HasFlushedAssignment(r, s, y) => ~HasFlushedAssignment(q, s, y)
  BY DEF Inductive, KeysDistinct
<1>i. ASSUME req'[r] = Idle PROVE req'[r].rows = {} /\ \A s, y : ~HasFlushedAssignment(r, s, y)'
  BY <1>i DEF Idle, HasFlushedAssignment
<1>e. ASSUME End(r) PROVE req'[r].rows = {} /\ \A s, y : ~HasFlushedAssignment(r, s, y)'
  BY <1>e, <1>t, <1>i, EndFrame
<1>b. ASSUME NEW t, Become(r, t) PROVE req'[r] = t
  BY <1>b, <1>t DEF Become
<1>1. CASE Start(r)
  <2>1. req'[r].rows = {} /\ req'[r].pc \notin FlushedPCs
    <3> USE <1>t DEF Become, Idle, FlushedPCs
    <3>1. ASSUME NEW s \in Students, NEW x \in Sections, AssignLock(r, s, x)
          PROVE req'[r].rows = {} /\ req'[r].pc \notin FlushedPCs
      BY <3>1 DEF AssignLock
    <3>2. ASSUME NEW x \in Sections, NEW c \in Classes, AttachLockSection(r, x, c)
          PROVE req'[r].rows = {} /\ req'[r].pc \notin FlushedPCs
      BY <3>2 DEF AttachLockSection
    <3>3. ASSUME NEW x \in Sections, NEW c \in Classes, DetachLock(r, x, c)
          PROVE req'[r].rows = {} /\ req'[r].pc \notin FlushedPCs
      BY <3>3 DEF DetachLock
    <3>4. ASSUME NEW s \in Students, NEW c \in Classes, EnrollLock(r, s, c)
          PROVE req'[r].rows = {} /\ req'[r].pc \notin FlushedPCs
      BY <3>4 DEF EnrollLock
    <3>5. ASSUME NEW c \in Classes, NEW u \in Terms, PatchTermRead(r, c, u)
          PROVE req'[r].rows = {} /\ req'[r].pc \notin FlushedPCs
      BY <3>5 DEF PatchTermRead
    <3> QED BY <1>1, <3>1, <3>2, <3>3, <3>4, <3>5 DEF Start
  <2> QED BY <2>1 DEF HasFlushedAssignment, FlushedPCs
<1>2. CASE Abort(r)
  BY <1>2, <1>e DEF Abort, Rollback
<1>3. CASE Continue(r)
  <2>1. CASE End(r)
    BY <2>1, <1>e
  <2>2. CASE ~End(r)
    <3>0. ~Rollback(r)
      BY <2>2 DEF Rollback
    <3>1. CASE AssignInsert(r)
      <4> DEFINE t == [req[r] EXCEPT !.pc = "assign_inserted"]
      <4>1. req'[r] = t /\ \A q \in Requests \ {r} :
               ~HasFlushedAssignment(q, req[r].st, SectionYear[req[r].sec])
        BY <3>0, <3>1, <1>b, <1>t, GrantedMeans DEF AssignInsert
      <4>2. t.rows = req[r].rows /\ t.st = req[r].st /\ t.sec = req[r].sec
        BY <1>t DEF Transaction
      <4> HIDE DEF t
      <4> QED BY <4>1, <4>2, <1>k DEF HasFlushedAssignment
    <3>2. CASE FanOutInsert(r)
      <4> DEFINE t == [req[r] EXCEPT !.rows = @ \cup {req[r].cur}]
      <4>1. req'[r] = t /\ \A q \in Requests \ {r} : req[r].cur \notin req[q].rows
        BY <3>0, <3>2, <1>b, <1>t, GrantedMeans DEF FanOutInsert
      <4>2. /\ t.rows = req[r].rows \cup {req[r].cur} /\ t.pc = req[r].pc
            /\ t.st = req[r].st /\ t.sec = req[r].sec
        BY <1>t DEF Transaction
      <4> HIDE DEF t
      <4> QED BY <4>1, <4>2, <1>k DEF HasFlushedAssignment
    <3>3. CASE AssignListClasses(r)
      <4> DEFINE t == [req[r] EXCEPT !.pc = "assign_fanout", !.todo = {req[r].st} \X Attached(req[r].sec)]
      <4>1. req'[r] = t /\ req[r].pc = "assign_inserted"
        BY <3>3, <1>b DEF AssignListClasses
      <4>2. t.rows = req[r].rows /\ t.st = req[r].st /\ t.sec = req[r].sec
        BY <1>t DEF Transaction
      <4> HIDE DEF t
      <4> QED BY <4>1, <4>2, <1>k DEF HasFlushedAssignment
    <3>4. ASSUME NEW p \in Pairs, FanOutLook(r, p)
          PROVE  req'[r].rows = req[r].rows
                 /\ \A s, y : HasFlushedAssignment(r, s, y)' = HasFlushedAssignment(r, s, y)
      <4> DEFINE t == [req[r] EXCEPT !.todo = @ \ {p}, !.cur = IF enrollment[p] = "none" THEN p ELSE None]
      <4>1. req'[r] = t
        BY <3>4, <1>b DEF FanOutLook
      <4>2. t.rows = req[r].rows /\ t.pc = req[r].pc /\ t.st = req[r].st /\ t.sec = req[r].sec
        BY <1>t DEF Transaction
      <4> HIDE DEF t
      <4> QED BY <4>1, <4>2 DEF HasFlushedAssignment
    <3>5. CASE AssignCheck(r) \/ AttachLockClass(r) \/ AttachListRoster(r) \/ EnrollCheck(r)
      <4>1. req'[r].rows = req[r].rows /\ req'[r].pc \notin FlushedPCs
        <5> USE <1>t DEF Become, Transaction, FlushedPCs
        <5>1. CASE AssignCheck(r)
          BY <5>1, <3>0 DEF AssignCheck
        <5>2. CASE AttachLockClass(r)
          BY <5>2, <3>0 DEF AttachLockClass
        <5>3. CASE AttachListRoster(r)
          BY <5>3 DEF AttachListRoster
        <5>4. CASE EnrollCheck(r)
          BY <5>4, <3>0 DEF EnrollCheck
        <5> QED BY <3>5, <5>1, <5>2, <5>3, <5>4
      <4> QED BY <4>1, <1>k DEF HasFlushedAssignment, FlushedPCs
    <3>6. CASE AssignCommit(r) \/ AttachCommit(r) \/ DetachCommit(r) \/ EnrollCommit(r) \/ PatchTermCommit(r)
      BY <3>6, <3>0, <2>2 DEF AssignCommit, AttachCommit, DetachCommit, EnrollCommit, PatchTermCommit
    <3>7. CASE FanOutShare(r)
      <4> DEFINE t == [req[r] EXCEPT !.cur = None]
      <4>1. req'[r] = t
        BY <3>7, <1>b DEF FanOutShare
      <4>2. t.rows = req[r].rows /\ t.pc = req[r].pc /\ t.st = req[r].st /\ t.sec = req[r].sec
        BY <1>t DEF Transaction
      <4> HIDE DEF t
      <4> QED BY <4>1, <4>2, <1>k DEF HasFlushedAssignment
    <3> QED BY <1>3, <1>k, <3>1, <3>2, <3>3, <3>4, <3>5, <3>6, <3>7 DEF Continue
  <2> QED BY <2>1, <2>2
<1> QED BY <1>1, <1>2, <1>3

LEMMA KeysDistinctStep ==
    ASSUME Inductive, Next
    PROVE  KeysDistinct'
<1>1. ASSUME NEW r \in Requests, Guarantee(r), Start(r) \/ Continue(r) \/ Abort(r)
      PROVE  KeysDistinct'
  <2>1. \A q \in Requests \ {r} : /\ req'[q] = req[q]
                                  /\ \A s, y : HasFlushedAssignment(q, s, y)' = HasFlushedAssignment(q, s, y)
    BY <1>1 DEF Guarantee, HasFlushedAssignment
  <2> QED BY <1>1, <2>1, FlushesNewKeys DEF KeysDistinct, Inductive
<1>2. CASE Guarantee(None) /\ Single
  <2>1. \A q \in Requests : /\ req'[q] = req[q]
                            /\ \A s, y : HasFlushedAssignment(q, s, y)' = HasFlushedAssignment(q, s, y)
    BY <1>2, RosterAssumption DEF Guarantee, HasFlushedAssignment
  <2> QED BY <2>1 DEF KeysDistinct, Inductive
<1> QED BY <1>1, <1>2, NextGuarantee

\* Steps that grow no roster and attach no class.
LEMMA QuietRosters ==
    ASSUME Inductive, assigned' \subseteq assigned,
           \A c \in Classes : classSection'[c] \in {None, classSection[c]},
           \A p \in Pairs : enrollment[p] # "none" => enrollment'[p] # "none"
    PROVE  RosterEnrolled' /\ OneSectionPerYear'
<1>1. \A s \in Students : <<s, None>> \notin assigned
  BY RosterAssumption DEF Inductive, TypeInv, TypeOK
<1>2. ASSUME NEW s \in Students, NEW c \in Classes, <<s, classSection'[c]>> \in assigned'
      PROVE  enrollment'[<<s, c>>] # "none"
  <2>1. <<s, classSection[c]>> \in assigned
    BY <1>1, <1>2
  <2> QED BY <2>1 DEF Inductive, RosterEnrolled, Pairs
<1> QED BY <1>2 DEF Inductive, RosterEnrolled, OneSectionPerYear

LEMMA AssignCommitRosters ==
    ASSUME Inductive, NEW r \in Requests, AssignCommit(r)
    PROVE  RosterEnrolled' /\ OneSectionPerYear'
<1> DEFINE st == req[r].st
           x == req[r].sec
<1>1. /\ req[r].pc = "assign_fanout" /\ req[r].todo = {} /\ req[r].cur = None
      /\ assigned' = assigned \cup {<<st, x>>} /\ enrollment' = WithRows(req[r].rows)
      /\ UNCHANGED classSection
  BY DEF AssignCommit
<1>2. st \in Students /\ x \in Sections
  BY <1>1 DEF Inductive, TypeInv, WellFormed, AssignPCs
<1>3. \A p \in Pairs : p # None
  BY RosterAssumption DEF Pairs
<1>4. \A p \in Pairs : enrollment[p] # "none" \/ p \in req[r].rows => enrollment'[p] # "none"
  BY <1>1 DEF WithRows
<1>5. ASSUME NEW c \in Classes, classSection[c] = x PROVE enrollment'[<<st, c>>] # "none"
  <2>1. <<st, c>> \in Pairs /\ Covers(req[r], <<st, c>>)
    BY <1>1, <1>2, <1>5 DEF Inductive, Assertion, AssignCovers, Attached, Pairs
  <2> QED BY <1>1, <1>3, <1>4, <2>1 DEF Covers
<1>6. RosterEnrolled'
  <2> SUFFICES ASSUME NEW s \in Students, NEW c \in Classes, <<s, classSection[c]>> \in assigned'
               PROVE  enrollment'[<<s, c>>] # "none"
    BY <1>1 DEF RosterEnrolled
  <2>1. CASE <<s, classSection[c]>> \in assigned
    BY <1>4, <2>1 DEF Inductive, RosterEnrolled, Pairs
  <2>2. CASE s = st /\ classSection[c] = x
    BY <1>5, <2>2
  <2> QED BY <1>1, <2>1, <2>2
<1>7. OneSectionPerYear'
  <2>1. ~AssignedInYear(st, SectionYear[x])
    BY <1>1 DEF Inductive, Assertion, YearKept, FlushedPCs
  <2> QED BY <1>1, <1>2, <2>1 DEF Inductive, OneSectionPerYear, AssignedInYear
<1> QED BY <1>6, <1>7

LEMMA AttachCommitRosters ==
    ASSUME Inductive, NEW r \in Requests, AttachCommit(r)
    PROVE  RosterEnrolled' /\ OneSectionPerYear'
<1> DEFINE d == req[r].cls
           x == req[r].sec
<1>1. /\ req[r].pc = "attach_fanout" /\ req[r].todo = {} /\ req[r].cur = None
      /\ classSection' = [classSection EXCEPT ![d] = x] /\ enrollment' = WithRows(req[r].rows)
      /\ UNCHANGED assigned
  BY DEF AttachCommit
<1>2. d \in Classes /\ x \in Sections
  BY <1>1 DEF Inductive, TypeInv, WellFormed, AttachPCs
<1>3. \A p \in Pairs : p # None
  BY RosterAssumption DEF Pairs
<1>4. \A p \in Pairs : enrollment[p] # "none" \/ p \in req[r].rows => enrollment'[p] # "none"
  BY <1>1 DEF WithRows
<1>5. ASSUME NEW s \in Students, <<s, x>> \in assigned PROVE enrollment'[<<s, d>>] # "none"
  <2>1. <<s, d>> \in Pairs /\ Covers(req[r], <<s, d>>)
    BY <1>1, <1>2, <1>5 DEF Inductive, Assertion, AttachCovers, RosterOf, Pairs
  <2> QED BY <1>1, <1>3, <1>4, <2>1 DEF Covers
<1>6. RosterEnrolled'
  <2> SUFFICES ASSUME NEW s \in Students, NEW c \in Classes, <<s, classSection'[c]>> \in assigned
               PROVE  enrollment'[<<s, c>>] # "none"
    BY <1>1 DEF RosterEnrolled
  <2>1. CASE c = d
    BY <1>1, <1>2, <1>5, <2>1 DEF Inductive, TypeInv, TypeOK
  <2>2. CASE c # d
    <3>1. classSection'[c] = classSection[c]
      BY <1>1, <2>2 DEF Inductive, TypeInv, TypeOK
    <3> QED BY <1>4, <3>1 DEF Inductive, RosterEnrolled, Pairs
  <2> QED BY <2>1, <2>2
<1>7. OneSectionPerYear'
  BY <1>1 DEF Inductive, OneSectionPerYear
<1> QED BY <1>6, <1>7

LEMMA TablesStep ==
    ASSUME Inductive, Next
    PROVE  RosterEnrolled' /\ OneSectionPerYear'
<1>t. TypeInv
  BY DEF Inductive
<1>g. \A p \in Pairs : enrollment[p] # "none" => enrollment'[p] # "none"
  BY NextGuarantee DEF Guarantee
<1>1. ASSUME NEW r \in Requests, AssignCommit(r) PROVE RosterEnrolled' /\ OneSectionPerYear'
  BY <1>1, AssignCommitRosters
<1>2. ASSUME NEW r \in Requests, AttachCommit(r) PROVE RosterEnrolled' /\ OneSectionPerYear'
  BY <1>2, AttachCommitRosters
<1>3. ASSUME NEW r \in Requests, Start(r) \/ Continue(r) \/ Abort(r),
             ~AssignCommit(r), ~AttachCommit(r)
      PROVE  assigned' = assigned /\ \A c \in Classes : classSection'[c] \in {None, classSection[c]}
  <2> USE DEF tables, Rollback
  <2>1. CASE Start(r)
    BY <2>1 DEF Start, AssignLock, AttachLockSection, DetachLock, EnrollLock, PatchTermRead
  <2>2. CASE Abort(r)
    BY <2>2 DEF Abort
  <2>3. CASE DetachCommit(r)
    BY <2>3, <1>t DEF DetachCommit, TypeInv, TypeOK
  <2>4. CASE Continue(r) /\ ~DetachCommit(r)
    BY <1>3, <2>4
    DEF Continue, AssignCheck, AssignInsert, AssignListClasses, AttachLockClass, AttachListRoster,
        FanOutLook, FanOutInsert, FanOutShare, EnrollCheck, EnrollCommit, PatchTermCommit
  <2> QED BY <1>3, <2>1, <2>2, <2>3, <2>4
<1>4. ASSUME Single
      PROVE  assigned' \subseteq assigned /\ \A c \in Classes : classSection'[c] = classSection[c]
  BY <1>4 DEF Single, Unassign, Drop, PatchSectionCapacity, PatchClassCapacity
<1> QED BY <1>g, <1>1, <1>2, <1>3, <1>4, QuietRosters DEF Next

-----------------------------------------------------------------------------
(* Who holds the locks.                                                    *)

\* r moves on to t, and what it holds afterwards t accounts for.
LEMMA LocksFollow ==
    ASSUME TypeInv, LocksOwned, NEW r \in Requests, NEW t, Become(r, t),
           \A x \in Sections : \/ sectionLock'[x] \in {None, sectionLock[x]} /\ sectionLock'[x] # r
                               \/ sectionLock'[x] = r /\ t.pc \in SectionPCs /\ t.sec = x,
           \A c \in Classes : \/ classLock'[c] \in {None, classLock[c]} /\ classLock'[c] # r
                              \/ classLock'[c] = r /\ t.pc \in ClassPCs /\ t.cls = c
    PROVE  LocksOwned'
<1>1. /\ req'[r] = t /\ \A q \in Requests \ {r} : req'[q] = req[q]
      /\ sectionLock \in [Sections -> Requests \cup {None}]
      /\ classLock \in [Classes -> Requests \cup {None}]
  BY DEF Become, TypeInv, TypeOK
<1> QED BY <1>1 DEF LocksOwned

LEMMA EndOwned ==
    ASSUME TypeInv, LocksOwned, NEW r \in Requests, End(r)
    PROVE  LocksOwned'
<1>1. Become(r, Idle) /\ None # r
  BY RosterAssumption DEF End
<1>2. /\ \A x \in Sections : sectionLock'[x] \in {None, sectionLock[x]} /\ sectionLock'[x] # r
      /\ \A c \in Classes : classLock'[c] \in {None, classLock[c]} /\ classLock'[c] # r
  BY <1>1 DEF End
<1> QED BY <1>1, <1>2, LocksFollow

\* A request that starts holds nothing.
LEMMA IdleHoldsNothing ==
    ASSUME LocksOwned, NEW r \in Requests, req[r] = Idle
    PROVE  /\ \A x \in Sections : sectionLock[x] # r
           /\ \A c \in Classes : classLock[c] # r
<1>1. Idle.pc = "idle" /\ None # r
  BY RosterAssumption DEF Idle
<1> QED BY <1>1, PCSets DEF LocksOwned

\* A step that takes no lock and keeps to the pcs of the locks it has.
LEMMA MovesOwned ==
    ASSUME TypeInv, LocksOwned, NEW r \in Requests, NEW t, Moves(r, t),
           t.sec = req[r].sec, t.cls = req[r].cls,
           req[r].pc \in SectionPCs => t.pc \in SectionPCs,
           req[r].pc \in ClassPCs => t.pc \in ClassPCs
    PROVE  LocksOwned'
<1>1. /\ \A x \in Sections : sectionLock[x] = r => req[r].pc \in SectionPCs /\ req[r].sec = x
      /\ \A c \in Classes : classLock[c] = r => req[r].pc \in ClassPCs /\ req[r].cls = c
  BY RosterAssumption DEF LocksOwned
<1>2. Become(r, t) /\ sectionLock' = sectionLock /\ classLock' = classLock
  BY DEF Moves, locks
<1> QED BY <1>1, <1>2, LocksFollow

LEMMA StartOwned ==
    ASSUME TypeInv, LocksOwned, NEW r \in Requests, Start(r)
    PROVE  LocksOwned'
<1>t. /\ sectionLock \in [Sections -> Requests \cup {None}]
      /\ classLock \in [Classes -> Requests \cup {None}]
  BY DEF TypeInv, TypeOK
<1>1. ASSUME NEW s \in Students, NEW x \in Sections, AssignLock(r, s, x) PROVE LocksOwned'
  <2> DEFINE t == [Idle EXCEPT !.pc = "assign_locked", !.st = s, !.sec = x, !.cap = sectionCap[x]]
  <2>1. t.pc \in SectionPCs /\ t.sec = x
    BY DEF Idle, SectionPCs, AssignPCs
  <2>2. /\ Become(r, t) /\ req[r] = Idle /\ classLock' = classLock
        /\ \A z \in Sections : sectionLock'[z] = IF z = x THEN r ELSE sectionLock[z]
    BY <1>t, <1>1 DEF AssignLock
  <2> HIDE DEF t
  <2> QED BY <2>1, <2>2, IdleHoldsNothing, LocksFollow
<1>2. ASSUME NEW x \in Sections, NEW c \in Classes, AttachLockSection(r, x, c) PROVE LocksOwned'
  <2> DEFINE t == [Idle EXCEPT !.pc = "attach_locked_section", !.sec = x, !.cls = c]
  <2>1. t.pc \in SectionPCs /\ t.sec = x
    BY DEF Idle, SectionPCs, AttachPCs
  <2>2. /\ Become(r, t) /\ req[r] = Idle /\ classLock' = classLock
        /\ \A z \in Sections : sectionLock'[z] = IF z = x THEN r ELSE sectionLock[z]
    BY <1>t, <1>2 DEF AttachLockSection
  <2> HIDE DEF t
  <2> QED BY <2>1, <2>2, IdleHoldsNothing, LocksFollow
<1>3. ASSUME NEW x \in Sections, NEW c \in Classes, DetachLock(r, x, c) PROVE LocksOwned'
  <2> DEFINE t == [Idle EXCEPT !.pc = "detach_locked", !.sec = x, !.cls = c]
  <2>1. t.pc \in ClassPCs /\ t.cls = c
    BY DEF Idle, ClassPCs
  <2>2. /\ Become(r, t) /\ req[r] = Idle /\ sectionLock' = sectionLock
        /\ \A d \in Classes : classLock'[d] = IF d = c THEN r ELSE classLock[d]
    BY <1>t, <1>3 DEF DetachLock
  <2> HIDE DEF t
  <2> QED BY <2>1, <2>2, IdleHoldsNothing, LocksFollow
<1>4. ASSUME NEW s \in Students, NEW c \in Classes, EnrollLock(r, s, c) PROVE LocksOwned'
  <2> DEFINE t == [Idle EXCEPT !.pc = "enroll_locked", !.st = s, !.cls = c, !.cap = classCap[c]]
  <2>1. t.pc \in ClassPCs /\ t.cls = c
    BY DEF Idle, ClassPCs
  <2>2. /\ Become(r, t) /\ req[r] = Idle /\ sectionLock' = sectionLock
        /\ \A d \in Classes : classLock'[d] = IF d = c THEN r ELSE classLock[d]
    BY <1>t, <1>4 DEF EnrollLock
  <2> HIDE DEF t
  <2> QED BY <2>1, <2>2, IdleHoldsNothing, LocksFollow
<1>5. ASSUME NEW c \in Classes, NEW u \in Terms, PatchTermRead(r, c, u) PROVE LocksOwned'
  <2> DEFINE t == [Idle EXCEPT !.pc = "term_read", !.cls = c, !.term = u]
  <2>1. /\ Become(r, t) /\ req[r] = Idle
        /\ sectionLock' = sectionLock /\ classLock' = classLock
    BY <1>5 DEF PatchTermRead, locks
  <2> HIDE DEF t
  <2> QED BY <2>1, IdleHoldsNothing, LocksFollow
<1> QED BY <1>1, <1>2, <1>3, <1>4, <1>5 DEF Start

LEMMA ContinueOwned ==
    ASSUME TypeInv, LocksOwned, NEW r \in Requests, Continue(r)
    PROVE  LocksOwned'
<1>t. /\ req[r] \in Transaction /\ WellFormed(req[r])
      /\ classLock \in [Classes -> Requests \cup {None}]
  BY DEF TypeInv, TypeOK
<1>p. /\ AssignPCs \cup AttachPCs = SectionPCs
      /\ "attach_locked_class" \in ClassPCs /\ "attach_fanout" \in ClassPCs /\ "enroll_checked" \in ClassPCs
  BY DEF SectionPCs, ClassPCs
<1>r. ASSUME Rollback(r) PROVE LocksOwned'
  BY <1>r, EndOwned DEF Rollback
<1>m. ASSUME NEW pc, Moves(r, [req[r] EXCEPT !.pc = pc]),
             req[r].pc \in SectionPCs => pc \in SectionPCs, req[r].pc \in ClassPCs => pc \in ClassPCs
      PROVE  LocksOwned'
  <2> DEFINE t == [req[r] EXCEPT !.pc = pc]
  <2>1. t.pc = pc /\ t.sec = req[r].sec /\ t.cls = req[r].cls
    BY <1>t DEF Transaction
  <2> HIDE DEF t
  <2> QED BY <1>m, <2>1, MovesOwned DEF t
<1>1. CASE AssignCheck(r) /\ ~Rollback(r)
  BY <1>1, <1>m DEF AssignCheck, Moves, SectionPCs, AssignPCs, ClassPCs
<1>2. CASE AssignInsert(r) /\ ~Rollback(r)
  BY <1>2, <1>m DEF AssignInsert, Moves, SectionPCs, AssignPCs, ClassPCs
<1>3. CASE AssignListClasses(r)
  <2> DEFINE t == [req[r] EXCEPT !.pc = "assign_fanout", !.todo = {req[r].st} \X Attached(req[r].sec)]
  <2>1. t.pc = "assign_fanout" /\ t.sec = req[r].sec /\ t.cls = req[r].cls /\ req[r].pc = "assign_inserted"
    BY <1>t, <1>3 DEF AssignListClasses, Transaction
  <2>2. Moves(r, t)
    BY <1>3 DEF AssignListClasses, Moves
  <2> HIDE DEF t
  <2> QED BY <2>1, <2>2, MovesOwned DEF SectionPCs, AssignPCs, ClassPCs
<1>4. CASE AttachLockClass(r) /\ ~Rollback(r)
  <2> DEFINE t == [req[r] EXCEPT !.pc = "attach_locked_class"]
  <2>1. /\ t.pc \in SectionPCs /\ t.pc \in ClassPCs /\ t.sec = req[r].sec /\ t.cls = req[r].cls
        /\ req[r].pc \notin ClassPCs
    BY <1>t, <1>4 DEF AttachLockClass, Transaction, SectionPCs, AttachPCs, ClassPCs
  <2>2. /\ Become(r, t) /\ sectionLock' = sectionLock
        /\ \A d \in Classes : classLock'[d] = IF d = req[r].cls THEN r ELSE classLock[d]
    BY <1>t, <1>4 DEF AttachLockClass
  <2>3. /\ \A x \in Sections : sectionLock[x] = r => req[r].sec = x
        /\ \A c \in Classes : classLock[c] # r
    BY <2>1, RosterAssumption DEF LocksOwned
  <2> HIDE DEF t
  <2> QED BY <2>1, <2>2, <2>3, LocksFollow
<1>5. CASE AttachListRoster(r)
  <2> DEFINE t == [req[r] EXCEPT !.pc = "attach_fanout", !.todo = RosterOf(req[r].sec) \X {req[r].cls}]
  <2>1. t.pc = "attach_fanout" /\ t.sec = req[r].sec /\ t.cls = req[r].cls
    BY <1>t DEF Transaction
  <2>2. Moves(r, t)
    BY <1>5 DEF AttachListRoster, Moves
  <2> HIDE DEF t
  <2> QED BY <2>1, <2>2, MovesOwned DEF SectionPCs, AttachPCs, ClassPCs
<1>6. ASSUME NEW p \in Pairs, FanOutLook(r, p) PROVE LocksOwned'
  <2> DEFINE t == [req[r] EXCEPT !.todo = @ \ {p}, !.cur = IF enrollment[p] = "none" THEN p ELSE None]
  <2>1. t.pc = req[r].pc /\ t.sec = req[r].sec /\ t.cls = req[r].cls
    BY <1>t DEF Transaction
  <2>2. Moves(r, t)
    BY <1>6 DEF FanOutLook, Moves
  <2> HIDE DEF t
  <2> QED BY <2>1, <2>2, MovesOwned
<1>10. CASE FanOutShare(r)
  <2> DEFINE t == [req[r] EXCEPT !.cur = None]
  <2>1. t.pc = req[r].pc /\ t.sec = req[r].sec /\ t.cls = req[r].cls
    BY <1>t DEF Transaction
  <2>2. Moves(r, t)
    BY <1>10 DEF FanOutShare, Moves
  <2> HIDE DEF t
  <2> QED BY <2>1, <2>2, MovesOwned
<1>7. CASE FanOutInsert(r) /\ ~Rollback(r)
  <2> DEFINE t == [req[r] EXCEPT !.rows = @ \cup {req[r].cur}]
  <2>1. t.pc = req[r].pc /\ t.sec = req[r].sec /\ t.cls = req[r].cls
    BY <1>t DEF Transaction
  <2>2. Moves(r, t)
    BY <1>7 DEF FanOutInsert, Moves
  <2> HIDE DEF t
  <2> QED BY <2>1, <2>2, MovesOwned
<1>8. CASE EnrollCheck(r) /\ ~Rollback(r)
  BY <1>8, <1>m DEF EnrollCheck, Moves, SectionPCs, AssignPCs, AttachPCs, ClassPCs
<1>9. CASE AssignCommit(r) \/ AttachCommit(r) \/ DetachCommit(r) \/ EnrollCommit(r) \/ PatchTermCommit(r)
  <2>1. End(r)
    BY <1>9 DEF AssignCommit, AttachCommit, DetachCommit, EnrollCommit, PatchTermCommit, Rollback
  <2> QED BY <2>1, EndOwned
<1> QED BY <1>r, <1>1, <1>2, <1>3, <1>4, <1>5, <1>6, <1>7, <1>8, <1>9, <1>10 DEF Continue

LEMMA NextOwned ==
    ASSUME TypeInv, LocksOwned, [Next]_vars
    PROVE  LocksOwned'
<1>1. ASSUME NEW r \in Requests, Abort(r) PROVE LocksOwned'
  BY <1>1, EndOwned DEF Abort, Rollback
<1>2. CASE Single \/ UNCHANGED vars
  <2>1. UNCHANGED <<sectionLock, classLock, req>>
    BY <1>2 DEF Single, Unassign, Drop, PatchSectionCapacity, PatchClassCapacity, locks, vars
  <2> QED BY <2>1 DEF LocksOwned
<1> QED BY <1>1, <1>2, StartOwned, ContinueOwned DEF Next

-----------------------------------------------------------------------------
(* The inductive invariant and what follows from it.                       *)

THEOREM InductiveInvariant == Spec => []Inductive
<1>1. Init => Inductive
  <2> SUFFICES ASSUME Init PROVE Inductive
    OBVIOUS
  <2>1. TypeInv
    BY RosterAssumption, IdleType DEF Init, TypeInv, TypeOK, Capacities, Status, Pairs
  <2>2. \A r \in Requests : req[r] = Idle
    BY DEF Init
  <2>3. Idle.pc = "idle" /\ Idle.rows = {}
    BY DEF Idle
  <2>4. \A r \in Requests : Assertion(r)
    BY <2>2, <2>3, PCSets, PCsDistinct
    DEF Assertion, HoldsLocks, RowsPending, AssignCovers, AttachCovers, AttachIdempotent, SeatKept, YearKept,
        ClassKept, PlaceKept
  <2>5. KeysDistinct
    BY <2>2, <2>3 DEF KeysDistinct, HasFlushedAssignment
  <2>6. RosterEnrolled /\ OneSectionPerYear
    BY DEF Init, RosterEnrolled, OneSectionPerYear
  <2>7. LocksOwned
    BY DEF Init, LocksOwned
  <2> QED BY <2>1, <2>4, <2>5, <2>6, <2>7 DEF Inductive
<1>2. Inductive /\ [Next]_vars => Inductive'
  <2> SUFFICES ASSUME Inductive, [Next]_vars PROVE Inductive'
    OBVIOUS
  <2>1. CASE Next
    <3>1. TypeInv'
      BY <2>1, StartType, ContinueType, RollbackType, SingleType DEF Next, Abort, Inductive
    <3>2. \A r \in Requests : Assertion(r)'
      <4>1. ASSUME NEW r \in Requests, Guarantee(r), Start(r) \/ Continue(r) \/ Abort(r),
                   NEW q \in Requests
            PROVE  Assertion(q)'
        <5>1. CASE q # r
          BY <4>1, <5>1, Stable
        <5>2. CASE q = r
          BY <4>1, <5>2, StartAssertion, ContinueAssertion, EndAssertion
          DEF Abort, Rollback, Inductive
        <5> QED BY <5>1, <5>2
      <4>2. ASSUME Guarantee(None), NEW q \in Requests PROVE Assertion(q)'
        BY <4>2, Stable, RosterAssumption
      <4> QED BY <2>1, <4>1, <4>2, NextGuarantee
    <3> QED BY <2>1, <3>1, <3>2, KeysDistinctStep, TablesStep, NextOwned DEF Inductive
  <2>2. CASE UNCHANGED vars
    <3> USE <2>2 DEF vars, tables, locks
    <3>1. TypeInv'
      BY DEF Inductive, TypeInv, TypeOK
    <3>2. ASSUME NEW r \in Requests PROVE Assertion(r)'
      <4>1. Assertion(r)
        BY DEF Inductive
      <4>2. HoldsLocks(r)' /\ RowsPending(r)'
        BY <4>1 DEF Assertion, HoldsLocks, RowsPending
      <4>3. AssignCovers(r)' /\ AttachCovers(r)'
        BY <4>1 DEF Assertion, AssignCovers, AttachCovers, Covers, Attached, RosterOf
      <4>6. AttachIdempotent(r)'
        BY <4>1 DEF Assertion, AttachIdempotent
      <4>4. SeatKept(r)' /\ YearKept(r)'
        BY <4>1 DEF Assertion, SeatKept, YearKept, RosterOf, AssignedInYear
      <4>5. ClassKept(r)' /\ PlaceKept(r)'
        BY <4>1 DEF Assertion, ClassKept, PlaceKept, Attachable, ActiveIn
      <4> QED BY <4>2, <4>3, <4>4, <4>5, <4>6 DEF Assertion
    <3>3. KeysDistinct'
      BY DEF Inductive, KeysDistinct, HasFlushedAssignment
    <3>4. RosterEnrolled' /\ OneSectionPerYear'
      BY DEF Inductive, RosterEnrolled, OneSectionPerYear
    <3>5. LocksOwned'
      BY <2>2, NextOwned DEF Inductive
    <3> QED BY <3>1, <3>2, <3>3, <3>4, <3>5 DEF Inductive
  <2> QED BY <2>1, <2>2
<1> QED BY <1>1, <1>2, PTL DEF Spec

\* Nobody on a roster is missing from a class of the section, for any number
\* of sections, classes, students and concurrent requests.
THEOREM RosterAlwaysEnrolled == Spec => []RosterEnrolled
  BY InductiveInvariant, PTL DEF Inductive

\* The one-section-per-year rule, whatever races the pre-check loses.
THEOREM OneSectionAlways == Spec => []OneSectionPerYear
  BY InductiveInvariant, PTL DEF Inductive

\* No step disturbs what another request has locked or flushed.
THEOREM KeepingOut == Spec => StepsKeepOut
  BY InductiveInvariant, OthersKeepOut, PTL DEF Spec

-----------------------------------------------------------------------------
(* Who can wait in a circle; and classes keep to their section's year while *)
(* no class is moved between years.                                        *)

\* attach_class alone gives a class a section, one of the class's year.
LEMMA Attaching ==
    ASSUME Inductive, [Next]_vars, NEW c \in Classes
    PROVE  \/ classSection'[c] \in {None, classSection[c]}
           \/ TermYear[classTerm[c]] = SectionYear[classSection'[c]]
<1>t. TypeInv
  BY DEF Inductive
<1>1. ASSUME NEW r \in Requests, AttachCommit(r)
      PROVE  classSection'[c] = classSection[c] \/ TermYear[classTerm[c]] = SectionYear[classSection'[c]]
  <2>1. /\ classSection' = [classSection EXCEPT ![req[r].cls] = req[r].sec]
        /\ req[r].pc = "attach_fanout"
    BY <1>1 DEF AttachCommit
  <2>2. TermYear[classTerm[req[r].cls]] = SectionYear[req[r].sec]
    BY <2>1 DEF Inductive, Assertion, ClassKept, Attachable
  <2> QED BY <1>t, <2>1, <2>2 DEF TypeInv, TypeOK
<1>2. ASSUME NEW r \in Requests, DetachCommit(r) PROVE classSection'[c] \in {None, classSection[c]}
  BY <1>2, <1>t DEF DetachCommit, TypeInv, TypeOK
<1>3. ASSUME NEW r \in Requests, Continue(r), ~AttachCommit(r), ~DetachCommit(r)
      PROVE  classSection' = classSection
  BY <1>3
  DEF Continue, AssignCheck, AssignInsert, AssignListClasses, AssignCommit, AttachLockClass, AttachListRoster,
      FanOutLook, FanOutInsert, FanOutShare, EnrollCheck, EnrollCommit, PatchTermCommit, Rollback, tables
<1>4. ASSUME NEW r \in Requests, Start(r) \/ Abort(r) PROVE classSection' = classSection
  BY <1>4
  DEF Start, AssignLock, AttachLockSection, DetachLock, EnrollLock, PatchTermRead, Abort, Rollback, tables
<1>5. ASSUME Single \/ UNCHANGED vars PROVE classSection' = classSection
  BY <1>5 DEF Single, Unassign, Drop, PatchSectionCapacity, PatchClassCapacity, vars, tables
<1> QED BY <1>1, <1>2, <1>3, <1>4, <1>5 DEF Next

\* What a step of r makes of its fan-out: the pairs in hand stay among those it
\* listed.
LEMMA FanOutStep ==
    ASSUME Inductive, NEW r \in Requests, Start(r) \/ Continue(r) \/ Abort(r),
           req'[r].pc \in FanOutPCs
    PROVE  /\ req'[r].sec = req[r].sec
           /\ \/ req'[r].pc = req[r].pc /\ InHand(req'[r]) \subseteq InHand(req[r])
              \/ /\ req'[r].pc = "assign_fanout" /\ req[r].pc = "assign_inserted" /\ req[r].sec \in Sections
                 /\ InHand(req'[r]) \subseteq {req[r].st} \X Attached(req[r].sec)
              \/ /\ req'[r].pc = "attach_fanout" /\ req[r].sec \in Sections
                 /\ InHand(req'[r]) \subseteq RosterOf(req[r].sec) \X {req[r].cls}
<1> DEFINE Goal ==
           /\ req'[r].sec = req[r].sec
           /\ \/ req'[r].pc = req[r].pc /\ InHand(req'[r]) \subseteq InHand(req[r])
              \/ /\ req'[r].pc = "assign_fanout" /\ req[r].pc = "assign_inserted" /\ req[r].sec \in Sections
                 /\ InHand(req'[r]) \subseteq {req[r].st} \X Attached(req[r].sec)
              \/ /\ req'[r].pc = "attach_fanout" /\ req[r].sec \in Sections
                 /\ InHand(req'[r]) \subseteq RosterOf(req[r].sec) \X {req[r].cls}
<1>t. TypeInv /\ req \in [Requests -> Transaction] /\ req[r] \in Transaction /\ WellFormed(req[r])
  BY DEF Inductive, TypeInv, TypeOK
<1>n. None \notin Pairs
  BY RosterAssumption DEF Pairs
<1>b. ASSUME NEW t, Become(r, t) PROVE req'[r] = t
  BY <1>b, <1>t DEF Become
<1>i. ~End(r)
  BY <1>t, EndFrame, IdleType DEF FanOutPCs
<1>1. ~Start(r)
  <2> USE <1>t DEF Become, Idle, FanOutPCs
  <2>1. ASSUME NEW s \in Students, NEW x \in Sections, AssignLock(r, s, x) PROVE FALSE
    BY <2>1 DEF AssignLock
  <2>2. ASSUME NEW x \in Sections, NEW c \in Classes, AttachLockSection(r, x, c) PROVE FALSE
    BY <2>2 DEF AttachLockSection
  <2>3. ASSUME NEW x \in Sections, NEW c \in Classes, DetachLock(r, x, c) PROVE FALSE
    BY <2>3 DEF DetachLock
  <2>4. ASSUME NEW s \in Students, NEW c \in Classes, EnrollLock(r, s, c) PROVE FALSE
    BY <2>4 DEF EnrollLock
  <2>5. ASSUME NEW c \in Classes, NEW u \in Terms, PatchTermRead(r, c, u) PROVE FALSE
    BY <2>5 DEF PatchTermRead
  <2> QED BY <2>1, <2>2, <2>3, <2>4, <2>5 DEF Start
<1>2. ~(\/ AssignCommit(r) \/ AttachCommit(r) \/ DetachCommit(r) \/ EnrollCommit(r) \/ PatchTermCommit(r)
        \/ Abort(r) \/ Rollback(r))
  BY <1>i DEF AssignCommit, AttachCommit, DetachCommit, EnrollCommit, PatchTermCommit, Abort, Rollback
<1>3. ~(AssignCheck(r) \/ AssignInsert(r) \/ AttachLockClass(r) \/ EnrollCheck(r))
  <2> USE <1>t DEF Become, Transaction, FanOutPCs
  <2>1. ~AssignCheck(r)
    BY <1>2 DEF AssignCheck
  <2>2. ~AssignInsert(r)
    BY <1>2 DEF AssignInsert
  <2>3. ~AttachLockClass(r)
    BY <1>2 DEF AttachLockClass
  <2>4. ~EnrollCheck(r)
    BY <1>2 DEF EnrollCheck
  <2> QED BY <2>1, <2>2, <2>3, <2>4
<1>4. CASE AssignListClasses(r)
  <2> DEFINE t == [req[r] EXCEPT !.pc = "assign_fanout", !.todo = {req[r].st} \X Attached(req[r].sec)]
  <2>1. req'[r] = t /\ req[r].pc = "assign_inserted"
    BY <1>4, <1>b DEF AssignListClasses
  <2>2. /\ t.todo = {req[r].st} \X Attached(req[r].sec) /\ t.rows = {} /\ t.cur = None
        /\ t.sec = req[r].sec /\ req[r].sec \in Sections /\ t.pc = "assign_fanout"
    BY <1>t, <2>1 DEF Transaction, WellFormed, FanOutPCs, AssignPCs
  <2> HIDE DEF t
  <2>3. InHand(t) \subseteq {req[r].st} \X Attached(req[r].sec)
    BY <2>2 DEF InHand
  <2> QED BY <2>1, <2>2, <2>3
<1>5. CASE AttachListRoster(r)
  <2> DEFINE t == [req[r] EXCEPT !.pc = "attach_fanout", !.todo = RosterOf(req[r].sec) \X {req[r].cls}]
  <2>1. req'[r] = t /\ req[r].pc = "attach_locked_class"
    BY <1>5, <1>b DEF AttachListRoster
  <2>2. /\ t.todo = RosterOf(req[r].sec) \X {req[r].cls} /\ t.rows = {} /\ t.cur = None
        /\ t.sec = req[r].sec /\ req[r].sec \in Sections /\ t.pc = "attach_fanout"
    BY <1>t, <2>1 DEF Transaction, WellFormed, FanOutPCs, AttachPCs
  <2> HIDE DEF t
  <2>3. InHand(t) \subseteq RosterOf(req[r].sec) \X {req[r].cls}
    BY <2>2 DEF InHand
  <2> QED BY <2>1, <2>2, <2>3
<1>6. ASSUME NEW p \in Pairs, FanOutLook(r, p) PROVE Goal
  <2> DEFINE t == [req[r] EXCEPT !.todo = @ \ {p}, !.cur = IF enrollment[p] = "none" THEN p ELSE None]
  <2>1. req'[r] = t /\ p \in req[r].todo
    BY <1>6, <1>b DEF FanOutLook
  <2>2. /\ t.todo \subseteq req[r].todo /\ t.rows = req[r].rows /\ t.cur \in {p, None}
        /\ t.sec = req[r].sec /\ t.pc = req[r].pc
    BY <1>t DEF Transaction
  <2> HIDE DEF t
  <2>3. InHand(t) \subseteq InHand(req[r])
    BY <2>1, <2>2 DEF InHand
  <2> QED BY <2>1, <2>2, <2>3
<1>7. CASE FanOutInsert(r)
  <2> DEFINE t == [req[r] EXCEPT !.rows = @ \cup {req[r].cur}]
  <2>1. req'[r] = t /\ req[r].cur # None
    BY <1>7, <1>2, <1>b DEF FanOutInsert
  <2>2. /\ t.todo = req[r].todo /\ t.rows = req[r].rows \cup {req[r].cur} /\ t.cur = req[r].cur
        /\ t.sec = req[r].sec /\ t.pc = req[r].pc
    BY <1>t DEF Transaction
  <2> HIDE DEF t
  <2>3. InHand(t) \subseteq InHand(req[r])
    BY <2>1, <2>2 DEF InHand
  <2> QED BY <2>1, <2>2, <2>3
<1>8. CASE FanOutShare(r)
  <2> DEFINE t == [req[r] EXCEPT !.cur = None]
  <2>1. req'[r] = t
    BY <1>8, <1>b DEF FanOutShare
  <2>2. /\ t.todo = req[r].todo /\ t.rows = req[r].rows /\ t.cur = None
        /\ t.sec = req[r].sec /\ t.pc = req[r].pc
    BY <1>t DEF Transaction
  <2> HIDE DEF t
  <2>3. InHand(t) \subseteq InHand(req[r])
    BY <2>1, <2>2 DEF InHand
  <2> QED BY <2>1, <2>2, <2>3
<1> QED BY <1>1, <1>2, <1>3, <1>4, <1>5, <1>6, <1>7, <1>8 DEF Continue

\* A transaction's next state keeps to the year of its section.
LEMMA MovesInYear ==
    ASSUME Inductive, YearsAgree, NEW r \in Requests, Start(r) \/ Continue(r) \/ Abort(r)
    PROVE  InSectionYear(req'[r])
<1> SUFFICES ASSUME req'[r].pc = "assign_fanout", NEW p \in InHand(req'[r])
             PROVE  TermYear[classTerm[p[2]]] = SectionYear[req'[r].sec]
  BY DEF InSectionYear
<1>1. CASE req'[r].pc = req[r].pc /\ InHand(req'[r]) \subseteq InHand(req[r]) /\ req'[r].sec = req[r].sec
  BY <1>1 DEF YearsAgree, InSectionYear
<1>2. CASE /\ req'[r].sec = req[r].sec /\ req[r].sec \in Sections
           /\ InHand(req'[r]) \subseteq {req[r].st} \X Attached(req[r].sec)
  <2>1. p[2] \in Classes /\ classSection[p[2]] = req[r].sec /\ req[r].sec # None
    BY <1>2, RosterAssumption DEF Attached
  <2> QED BY <1>2, <2>1 DEF YearsAgree, AttachedClassInSectionYear
<1> QED BY <1>1, <1>2, FanOutStep DEF FanOutPCs

\* A transaction changes in its own steps.
LEMMA OwnSteps ==
    ASSUME Inductive, [Next]_vars, NEW q \in Requests, req'[q] # req[q]
    PROVE  Start(q) \/ Continue(q) \/ Abort(q)
<1>1. Next
  BY DEF vars
<1>2. CASE Guarantee(None)
  BY <1>2, RosterAssumption DEF Guarantee
<1>3. ASSUME NEW r \in Requests, Guarantee(r), Start(r) \/ Continue(r) \/ Abort(r)
      PROVE  Start(q) \/ Continue(q) \/ Abort(q)
  <2>1. q = r
    BY <1>3 DEF Guarantee
  <2> QED BY <1>3, <2>1
<1> QED BY <1>1, <1>2, <1>3, NextGuarantee

LEMMA YearsStep ==
    ASSUME Inductive, Inductive', YearsAgree, [Next]_vars, YearsStay
    PROVE  YearsAgree'
<1>t. req \in [Requests -> Transaction]
  BY DEF Inductive, TypeInv, TypeOK
<1>1. ASSUME NEW c \in Classes, classSection'[c] # None
      PROVE  TermYear[classTerm'[c]] = SectionYear[classSection'[c]]
  BY <1>1, Attaching DEF YearsAgree, AttachedClassInSectionYear, YearsStay
<1>2. ASSUME NEW q \in Requests PROVE InSectionYear(req'[q])
  BY OwnSteps, MovesInYear DEF YearsAgree
<1>3. ASSUME NEW q \in Requests PROVE InSectionYear(req[q])'
  <2>1. req'[q] \in Transaction
    BY DEF Inductive, TypeInv, TypeOK
  <2>2. InHand(req'[q]) \subseteq Pairs
    BY <2>1 DEF InHand, Transaction
  <2>3. \A p \in InHand(req'[q]) : p[2] \in Classes
    BY <2>2 DEF Pairs
  <2> QED BY <1>2, <2>3 DEF InSectionYear, YearsStay
<1> QED BY <1>1, <1>3 DEF YearsAgree, AttachedClassInSectionYear

\* attach_class has the class locked and lists the committed roster, on which an
\* assignment under way in the same year is not; the assignment lists the
\* classes of its own section.
LEMMA HandsApartStep ==
    ASSUME Inductive, HandsApart, [Next]_vars
    PROVE  HandsApart'
<1> SUFFICES ASSUME NEW r \in Requests, NEW q \in Requests, NEW p,
                    req'[r].pc = "attach_fanout", req'[q].pc = "assign_fanout",
                    p \in InHand(req'[r]), p \in InHand(req'[q]),
                    SectionYear[req'[r].sec] = SectionYear[req'[q].sec]
             PROVE  FALSE
  BY DEF HandsApart, YearsCross, InHand
<1>t. /\ \A w \in Requests : /\ req[w] \in Transaction /\ WellFormed(req[w]) /\ Assertion(w)
                            /\ InHand(req[w]) \subseteq Pairs
      /\ req \in [Requests -> Transaction] /\ None \notin Sections
  BY RosterAssumption DEF Inductive, TypeInv, TypeOK, InHand, Transaction
<1>0. r # q
  OBVIOUS
<1>1. req'[r] = req[r] \/ req'[q] = req[q]
  BY <1>0, NextGuarantee, RosterAssumption DEF Guarantee, vars
<1>2. CASE req'[r] = req[r] /\ req'[q] = req[q]
  BY <1>2 DEF HandsApart, YearsCross
<1>3. CASE req'[r] # req[r]
  <2>1. req'[q] = req[q]
    BY <1>1, <1>3
  <2>2. /\ req'[r].sec = req[r].sec
        /\ \/ req'[r].pc = req[r].pc /\ InHand(req'[r]) \subseteq InHand(req[r])
           \/ req[r].sec \in Sections /\ InHand(req'[r]) \subseteq RosterOf(req[r].sec) \X {req[r].cls}
    BY <1>3, OwnSteps, FanOutStep DEF FanOutPCs
  <2>3. CASE req'[r].pc = req[r].pc /\ InHand(req'[r]) \subseteq InHand(req[r])
    BY <2>1, <2>2, <2>3 DEF HandsApart, YearsCross
  <2>4. CASE req[r].sec \in Sections /\ InHand(req'[r]) \subseteq RosterOf(req[r].sec) \X {req[r].cls}
    <3>1. p[1] \in RosterOf(req[r].sec)
      BY <2>4
    <3>2. p[1] = req[q].st
      BY <1>t, <2>1 DEF InHand, WellFormed
    <3>3. AssignedInYear(req[q].st, SectionYear[req[q].sec])
      BY <2>1, <2>2, <2>4, <3>1, <3>2 DEF AssignedInYear, RosterOf
    <3> QED BY <1>t, <2>1, <3>3 DEF Assertion, YearKept, FlushedPCs
  <2> QED BY <2>2, <2>3, <2>4
<1>4. CASE req'[q] # req[q]
  <2>1. req'[r] = req[r]
    BY <1>1, <1>4
  <2>2. /\ req'[q].sec = req[q].sec
        /\ \/ req'[q].pc = req[q].pc /\ InHand(req'[q]) \subseteq InHand(req[q])
           \/ /\ req[q].pc = "assign_inserted" /\ req[q].sec \in Sections
              /\ InHand(req'[q]) \subseteq {req[q].st} \X Attached(req[q].sec)
    BY <1>4, OwnSteps, FanOutStep DEF FanOutPCs
  <2>3. CASE req'[q].pc = req[q].pc /\ InHand(req'[q]) \subseteq InHand(req[q])
    BY <2>1, <2>2, <2>3 DEF HandsApart, YearsCross
  <2>4. CASE /\ req[q].pc = "assign_inserted" /\ req[q].sec \in Sections
             /\ InHand(req'[q]) \subseteq {req[q].st} \X Attached(req[q].sec)
    <3>1. p[2] \in Attached(req[q].sec)
      BY <2>4
    <3>2. p[2] = req[r].cls
      BY <1>t, <2>1 DEF InHand, WellFormed
    <3>3. req[r].sec = req[q].sec
      BY <1>t, <2>1, <2>4, <3>1, <3>2 DEF Attached, Assertion, ClassKept, Attachable
    <3>4. sectionLock[req[r].sec] = r
      BY <1>t, <2>1 DEF Assertion, HoldsLocks, SectionPCs, AttachPCs
    <3>5. req[q].pc \in SectionPCs
      BY <2>4 DEF SectionPCs, AssignPCs
    <3> QED BY <1>0, <1>t, <3>3, <3>4, <3>5 DEF Assertion, HoldsLocks
  <2> QED BY <2>2, <2>3, <2>4
<1> QED BY <1>2, <1>3, <1>4

LEMMA HandsApartInvariant == Spec => []HandsApart
<1>1. Init => HandsApart
  BY IdleType DEF Init, HandsApart
<1> QED BY <1>1, HandsApartStep, InductiveInvariant, PTL DEF Spec

\* A request that has just taken its locks waits for nobody.
LEMMA WhoWaits ==
    ASSUME Inductive, NEW r \in Requests, NEW q \in Requests, WaitsFor(r, q)
    PROVE  req[r].pc \in {"assign_checked", "assign_fanout", "attach_locked_section",
                         "attach_fanout", "enroll_checked", "term_read"}
<1>1. WellFormed(req[r])
  BY DEF Inductive, TypeInv
<1>2. req[r].pc \notin FanOutPCs => req[r].cur = None /\ req[r].rows = {}
  BY <1>1 DEF WellFormed
<1> QED BY <1>2 DEF WaitsFor, FanOutPCs

\* The fan-out of attach_class, which holds the class, waits for nobody but an
\* assignment of another year.
LEMMA AttachFanOutWaits ==
    ASSUME Inductive, HandsApart, NEW r \in Requests, NEW q \in Requests,
           req[r].pc = "attach_fanout", WaitsFor(r, q)
    PROVE  YearsCross(r, q)
<1>t. /\ req[r] \in Transaction /\ WellFormed(req[r]) /\ Assertion(r)
      /\ req[q] \in Transaction /\ WellFormed(req[q]) /\ Assertion(q)
  BY DEF Inductive, TypeInv, TypeOK
<1> DEFINE p == req[r].cur
<1>1. q # r /\ q # None /\ p # None /\ (p \in req[q].rows \/ classLock[p[2]] = q)
  BY <1>t, RosterAssumption DEF WaitsFor, Transaction, Pairs
<1>2. p[2] = req[r].cls /\ classLock[req[r].cls] = r
  BY <1>t, <1>1 DEF WellFormed, Assertion, HoldsLocks, ClassPCs
<1>3. p \in req[q].rows
  BY <1>1, <1>2
<1>4. req[q].pc \in FanOutPCs
  BY <1>t, <1>3 DEF WellFormed
<1>5. req[q].pc # "attach_fanout"
  <2> SUFFICES ASSUME req[q].pc = "attach_fanout" PROVE FALSE
    OBVIOUS
  <2>1. p[2] = req[q].cls
    BY <1>t, <1>3 DEF WellFormed
  <2> QED BY <1>t, <1>1, <1>2, <2>1 DEF Assertion, HoldsLocks, ClassPCs
<1>6. p \in InHand(req[r]) /\ p \in InHand(req[q])
  BY <1>1, <1>3 DEF InHand
<1> HIDE DEF p
<1> QED BY <1>4, <1>5, <1>6 DEF HandsApart, FanOutPCs

\* An enroll, which holds the class, waits for nobody but an assignment whose
\* fan-out has entered the same enrollment and waits for the class.
LEMMA EnrollWaits ==
    ASSUME Inductive, NEW r \in Requests, NEW q \in Requests,
           req[r].pc = "enroll_checked", WaitsFor(r, q)
    PROVE  EnrollMeetsFanOut(r, q)
<1>t. /\ req[r] \in Transaction /\ WellFormed(req[r]) /\ Assertion(r)
      /\ req[q] \in Transaction /\ WellFormed(req[q]) /\ Assertion(q)
  BY DEF Inductive, TypeInv, TypeOK
<1> DEFINE p == <<req[r].st, req[r].cls>>
<1>1. q # r /\ r # None /\ p \in req[q].rows
  BY <1>t, RosterAssumption DEF WaitsFor, WellFormed, FanOutPCs
<1>2. classLock[req[r].cls] = r
  BY <1>t DEF Assertion, HoldsLocks, ClassPCs
<1>3. p[2] = req[r].cls
  OBVIOUS
<1>4. req[q].pc \in FanOutPCs
  BY <1>t, <1>1 DEF WellFormed
<1>5. req[q].pc # "attach_fanout"
  <2> SUFFICES ASSUME req[q].pc = "attach_fanout" PROVE FALSE
    OBVIOUS
  <2>1. p[2] = req[q].cls
    BY <1>t, <1>1 DEF WellFormed
  <2> QED BY <1>t, <1>1, <1>2, <1>3, <2>1 DEF Assertion, HoldsLocks, ClassPCs
<1>6. p = req[q].cur
  BY <1>t, <1>1, <1>2, <1>3 DEF Assertion, RowsPending
<1>7. WaitsFor(q, r)
  BY <1>1, <1>2, <1>3, <1>6 DEF WaitsFor
<1> QED BY <1>4, <1>5, <1>6, <1>7 DEF EnrollMeetsFanOut, FanOutPCs

\* An assignment that has flushed its row waits for holders of a class and for
\* assignments of the same student in another year.
LEMMA FlushedWaits ==
    ASSUME Inductive, NEW r \in Requests, NEW q \in Requests,
           req[r].pc \in FlushedPCs, WaitsFor(r, q)
    PROVE  req[q].pc \in ClassPCs \/ YearsCross(r, q)
<1>t. /\ req[r] \in Transaction /\ WellFormed(req[r])
      /\ req[q] \in Transaction /\ WellFormed(req[q])
  BY DEF Inductive, TypeInv, TypeOK
<1>1. /\ req[r].pc = "assign_fanout" /\ req[r].cur \in Pairs /\ req[r].cur # None /\ q # r
      /\ classLock[req[r].cur[2]] = q \/ req[r].cur \in req[q].rows
  BY <1>t, WhoWaits, RosterAssumption DEF WaitsFor, FlushedPCs, Transaction, Pairs
<1>2. CASE classLock[req[r].cur[2]] = q
  <2>1. req[r].cur[2] \in Classes /\ q # None
    BY <1>1, RosterAssumption DEF Pairs
  <2> QED BY <1>2, <2>1 DEF Inductive, LocksOwned
<1>3. CASE req[r].cur \in req[q].rows
  <2>1. req[q].pc \in FanOutPCs
    BY <1>t, <1>3 DEF WellFormed
  <2>2. ASSUME req[q].pc = "assign_fanout" PROVE YearsCross(r, q)
    <3>1. req[q].st = req[r].st /\ req[r].st \in Students /\ req[r].sec \in Sections
      BY <1>t, <1>1, <1>3, <2>2, RosterAssumption DEF WellFormed, AssignPCs, Pairs
    <3>2. SectionYear[req[r].sec] \in Years
      BY <3>1, RosterAssumption
    <3>3. SectionYear[req[q].sec] # SectionYear[req[r].sec]
      BY <1>1, <2>2, <3>1, <3>2 DEF Inductive, KeysDistinct, HasFlushedAssignment
    <3>4. req[r].cur \in InHand(req[r]) /\ req[r].cur \in InHand(req[q])
      BY <1>1, <1>3 DEF InHand
    <3> QED BY <3>3, <3>4 DEF YearsCross
  <2> QED BY <2>1, <2>2 DEF FanOutPCs, ClassPCs
<1> QED BY <1>1, <1>2, <1>3

\* Everybody else has flushed nothing and holds no class, and nobody waits for
\* a section: only holders of a class and assignments that have flushed are
\* ever waited for.
LEMMA OnlyHoldersWaitedFor ==
    ASSUME Inductive, NEW r \in Requests, NEW q \in Requests, WaitsFor(r, q)
    PROVE  req[q].pc \in ClassPCs \cup FlushedPCs
<1>t. /\ req[r] \in Transaction /\ WellFormed(req[r])
      /\ req[q] \in Transaction /\ WellFormed(req[q]) /\ q # None
  BY RosterAssumption DEF Inductive, TypeInv, TypeOK
<1>1. ASSUME NEW c \in Classes, classLock[c] = q PROVE req[q].pc \in ClassPCs
  BY <1>t, <1>1 DEF Inductive, LocksOwned
<1>2. ASSUME req[q].rows # {} PROVE req[q].pc \in ClassPCs \cup FlushedPCs
  BY <1>t, <1>2 DEF WellFormed, FanOutPCs, ClassPCs, FlushedPCs
<1>3. /\ req[r].pc \in {"attach_locked_section", "term_read"} => req[r].cls \in Classes
      /\ req[r].cur \in req[r].rows => req[r].cur[2] \in Classes
  BY <1>t DEF WellFormed, Transaction, Pairs, AttachPCs
<1> QED BY <1>1, <1>2, <1>3 DEF WaitsFor, SharesKey, HasFlushedAssignment, FlushedPCs

\* Of requests among which no enroll meets a fan-out and no years cross: a
\* holder of a class waits for none of them; with no such holder, an assignment
\* that has flushed does not; with neither, nobody does.
LEMMA CirclesAreKnown ==
    ASSUME Inductive, HandsApart
    PROVE  OnlyKnownCircles
<1> SUFFICES ASSUME NEW S \in SUBSET Requests, S # {},
                    \A r, q \in S : ~EnrollMeetsFanOut(r, q) /\ ~YearsCross(r, q)
             PROVE  \E r \in S : \A q \in S : ~WaitsFor(r, q)
  BY DEF OnlyKnownCircles
<1>1. CASE \E r \in S : req[r].pc \in ClassPCs
  <2>1. PICK r \in S : req[r].pc \in ClassPCs
    BY <1>1
  <2>2. ASSUME NEW q \in S, WaitsFor(r, q) PROVE FALSE
    <3>1. req[r].pc \in {"attach_fanout", "enroll_checked"}
      BY <2>1, <2>2, WhoWaits DEF ClassPCs
    <3> QED BY <2>2, <3>1, AttachFanOutWaits, EnrollWaits
  <2> QED BY <2>2
<1>2. CASE (\A r \in S : req[r].pc \notin ClassPCs) /\ \E r \in S : req[r].pc \in FlushedPCs
  BY <1>2, FlushedWaits
<1>3. CASE \A r \in S : req[r].pc \notin ClassPCs \cup FlushedPCs
  BY <1>3, OnlyHoldersWaitedFor
<1> QED BY <1>1, <1>2, <1>3

\* Requests that wait in a circle are an enroll and a fan-out that meet on one
\* enrollment, or fan-outs of different years: whatever the instance, the locks
\* are taken in an order that allows no other.
THEOREM CirclesAlwaysKnown == Spec => []OnlyKnownCircles
  BY HandsApartInvariant, InductiveInvariant, CirclesAreKnown, PTL

\* While years stay, no two fan-outs of different years want one enrollment.
LEMMA NoYearsCross ==
    ASSUME Inductive, YearsAgree, NEW r \in Requests, NEW q \in Requests
    PROVE  ~YearsCross(r, q)
<1> SUFFICES ASSUME NEW p, p \in InHand(req[r]), p \in InHand(req[q])
             PROVE  SectionYear[req[r].sec] = SectionYear[req[q].sec]
  BY DEF YearsCross
<1>1. ASSUME NEW w \in Requests, p \in InHand(req[w])
      PROVE  TermYear[classTerm[p[2]]] = SectionYear[req[w].sec]
  <2>t. /\ req[w] \in Transaction /\ WellFormed(req[w]) /\ Assertion(w) /\ InSectionYear(req[w])
    BY DEF Inductive, TypeInv, TypeOK, YearsAgree
  <2>1. req[w].pc \in FanOutPCs
    BY <1>1, <2>t DEF WellFormed, InHand
  <2>2. CASE req[w].pc = "assign_fanout"
    BY <1>1, <2>t, <2>2 DEF InSectionYear
  <2>3. CASE req[w].pc = "attach_fanout"
    <3>1. p[2] = req[w].cls
      BY <1>1, <2>t, <2>3 DEF WellFormed, InHand
    <3> QED BY <2>t, <2>3, <3>1 DEF Assertion, ClassKept, Attachable
  <2> QED BY <2>1, <2>2, <2>3 DEF FanOutPCs
<1> QED BY <1>1

\* While no PATCH moves a class to another year, attached classes keep to
\* their section's year.
LEMMA YearsInvariant == Spec /\ [][YearsStay]_vars => []YearsAgree
<1>1. Init => YearsAgree
  BY IdleType DEF Init, YearsAgree, AttachedClassInSectionYear, InSectionYear
<1>2. Inductive /\ Inductive' /\ YearsAgree /\ [Next]_vars /\ [YearsStay]_vars => YearsAgree'
  <2> SUFFICES ASSUME Inductive, Inductive', YearsAgree, [Next]_vars, [YearsStay]_vars PROVE YearsAgree'
    OBVIOUS
  <2>1. YearsStay
    BY DEF YearsStay, vars, tables
  <2> QED BY <2>1, YearsStep
<1> QED BY <1>1, <1>2, InductiveInvariant, PTL DEF Spec

\* The pinning of a section-taught class to its section's year, which a term
\* change racing attach_class breaks, holds as long as term changes stay
\* within a year.
THEOREM AttachedInYearWhileYearsStay == Spec /\ [][YearsStay]_vars => []AttachedClassInSectionYear
  BY YearsInvariant, PTL DEF YearsAgree

\* As long as no PATCH moves a class between years, whoever waits in a circle
\* waits with an enroll and an assignment that meet on one enrollment.
THEOREM OnlyEnrollsCircleWhileYearsStay == Spec /\ [][YearsStay]_vars => []OnlyEnrollsCircle
<1>1. Inductive /\ YearsAgree /\ OnlyKnownCircles => OnlyEnrollsCircle
  BY NoYearsCross DEF OnlyKnownCircles, OnlyEnrollsCircle
<1> QED BY <1>1, YearsInvariant, InductiveInvariant, CirclesAlwaysKnown, PTL

\* Where no term is ever changed, no request is about to change one; where all
\* terms lie in one year, a change does not matter.
LEMMA YearsStayStep ==
    ASSUME NoYearMoves, Inductive, Inductive', NoTermChanges, [Next]_vars
    PROVE  YearsStay /\ NoTermChanges'
<1>t. /\ req \in [Requests -> Transaction] /\ \A c \in Classes : classTerm[c] \in Terms /\ classTerm'[c] \in Terms
  BY DEF Inductive, TypeInv, TypeOK
<1>1. CASE "class_term" \in Ops
  BY <1>1, <1>t DEF NoYearMoves, NoTermChanges, YearsStay
<1>2. CASE "class_term" \notin Ops
  <2>1. \A r \in Requests : req[r].pc # "term_read"
    BY <1>2 DEF NoTermChanges
  <2>2. ASSUME NEW r \in Requests, Start(r) \/ Continue(r) \/ Abort(r), NEW q \in Requests
        PROVE  classTerm' = classTerm /\ req'[q].pc # "term_read"
    <3>t. req[r] \in Transaction /\ (End(r) => req'[r].pc # "term_read")
      BY <1>t, EndFrame, IdleType DEF Inductive
    <3>0. q # r => req'[q].pc # "term_read"
      <4>1. Guarantee(r)
        BY <2>2, StartGuarantee, ContinueGuarantee, RollbackGuarantee DEF Inductive, Abort
      <4> QED BY <4>1, <2>1 DEF Guarantee
    <3>1. CASE Start(r)
      <4> USE <1>t DEF Become, Idle, tables
      <4>1. ASSUME NEW s \in Students, NEW x \in Sections, AssignLock(r, s, x)
            PROVE  classTerm' = classTerm /\ req'[r].pc # "term_read"
        BY <4>1 DEF AssignLock
      <4>2. ASSUME NEW x \in Sections, NEW c \in Classes, AttachLockSection(r, x, c)
            PROVE  classTerm' = classTerm /\ req'[r].pc # "term_read"
        BY <4>2 DEF AttachLockSection
      <4>3. ASSUME NEW x \in Sections, NEW c \in Classes, DetachLock(r, x, c)
            PROVE  classTerm' = classTerm /\ req'[r].pc # "term_read"
        BY <4>3 DEF DetachLock
      <4>4. ASSUME NEW s \in Students, NEW c \in Classes, EnrollLock(r, s, c)
            PROVE  classTerm' = classTerm /\ req'[r].pc # "term_read"
        BY <4>4 DEF EnrollLock
      <4>5. ~ \E c \in Classes, u \in Terms : PatchTermRead(r, c, u)
        BY <1>2 DEF PatchTermRead
      <4> QED BY <3>0, <3>1, <4>1, <4>2, <4>3, <4>4, <4>5 DEF Start
    <3>2. CASE Rollback(r)
      BY <3>t, <3>0, <3>2 DEF Rollback, tables
    <3>3. CASE Continue(r) /\ ~Rollback(r)
      <4>1. ~PatchTermCommit(r)
        BY <2>1 DEF PatchTermCommit
      <4>2. CASE \/ AssignCheck(r) \/ AssignInsert(r) \/ AssignListClasses(r)
                 \/ AttachLockClass(r) \/ AttachListRoster(r) \/ EnrollCheck(r)
        <5> USE <3>t, <1>t, <3>3 DEF Become, Transaction, tables
        <5>1. CASE AssignCheck(r)
          BY <5>1, <3>0 DEF AssignCheck
        <5>2. CASE AssignInsert(r)
          BY <5>2, <3>0 DEF AssignInsert
        <5>3. CASE AssignListClasses(r)
          BY <5>3, <3>0 DEF AssignListClasses
        <5>4. CASE AttachLockClass(r)
          BY <5>4, <3>0 DEF AttachLockClass
        <5>5. CASE AttachListRoster(r)
          BY <5>5, <3>0 DEF AttachListRoster
        <5>6. CASE EnrollCheck(r)
          BY <5>6, <3>0 DEF EnrollCheck
        <5> QED BY <4>2, <5>1, <5>2, <5>3, <5>4, <5>5, <5>6
      <4>3. CASE \/ AssignCommit(r) \/ AttachCommit(r) \/ DetachCommit(r) \/ EnrollCommit(r)
        <5>1. End(r) /\ classTerm' = classTerm
          BY <4>3, <3>3 DEF AssignCommit, AttachCommit, DetachCommit, EnrollCommit
        <5> QED BY <5>1, <3>t, <3>0
      <4>4. CASE (\E p \in Pairs : FanOutLook(r, p)) \/ FanOutInsert(r) \/ FanOutShare(r)
        <5>1. classTerm' = classTerm
          BY <4>4, <3>3 DEF FanOutLook, FanOutInsert, FanOutShare, tables
        <5>2. ASSUME NEW p \in Pairs, FanOutLook(r, p) PROVE req'[r].pc = req[r].pc
          <6> DEFINE t == [req[r] EXCEPT !.todo = @ \ {p}, !.cur = IF enrollment[p] = "none" THEN p ELSE None]
          <6>1. t.pc = req[r].pc
            BY <3>t DEF Transaction
          <6>2. req'[r] = t
            BY <5>2, <1>t DEF FanOutLook, Become
          <6> HIDE DEF t
          <6> QED BY <6>1, <6>2
        <5>3. ASSUME FanOutInsert(r) PROVE req'[r].pc = req[r].pc
          BY <5>3, <3>3, <3>t, <1>t DEF FanOutInsert, Become, Transaction
        <5>4. ASSUME FanOutShare(r) PROVE req'[r].pc = req[r].pc
          BY <5>4, <3>3, <3>t, <1>t DEF FanOutShare, Become, Transaction
        <5> QED BY <4>4, <5>1, <5>2, <5>3, <5>4, <2>1, <3>0
      <4> QED BY <3>3, <4>1, <4>2, <4>3, <4>4 DEF Continue
    <3> QED BY <2>2, <3>1, <3>2, <3>3 DEF Abort
  <2>3. ASSUME Single \/ UNCHANGED vars PROVE classTerm' = classTerm /\ req' = req
    BY <2>3 DEF Single, Unassign, Drop, PatchSectionCapacity, PatchClassCapacity, vars, tables
  <2>4. classTerm' = classTerm /\ NoTermChanges'
    BY <2>1, <2>2, <2>3 DEF Next, NoTermChanges
  <2> QED BY <2>4 DEF YearsStay
<1> QED BY <1>1, <1>2

\* In particular when no PATCH changes a term, or when all terms lie in one
\* academic year.
THEOREM OnlyEnrollsCircleWithoutYearMoves == NoYearMoves => (Spec => []OnlyEnrollsCircle)
<1> SUFFICES ASSUME NoYearMoves PROVE Spec => []OnlyEnrollsCircle
  OBVIOUS
<1>1. Init => NoTermChanges
  BY IdleType DEF Init, NoTermChanges, Idle
<1>2. Inductive /\ Inductive' /\ NoTermChanges /\ [Next]_vars => [YearsStay]_vars /\ NoTermChanges'
  BY YearsStayStep
<1> QED BY <1>1, <1>2, InductiveInvariant, OnlyEnrollsCircleWhileYearsStay, PTL DEF Spec

-----------------------------------------------------------------------------
(* Roster implements RosterPromise.                                        *)

\* The instance brings its own copy of the FiniteSets operator.
LEMMA SameCardinality == \A S : Promise!Cardinality(S) = Cardinality(S)
  BY DEF Promise!Cardinality, Cardinality

LEMMA CommitEnrolls ==
    ASSUME Inductive, NEW r \in Requests, enrollment' = WithRows(req[r].rows),
           NEW ps, req[r].rows \subseteq ps,
           \A p \in Pairs : p \in ps /\ enrollment[p] = "none" => p \in req[r].rows
    PROVE  Promise!EnrollMissing(ps)
<1>1. \A p \in req[r].rows : enrollment[p] = "none"
  BY DEF Inductive, Assertion, RowsPending
<1> QED BY <1>1 DEF WithRows, Promise!EnrollMissing, Pairs

LEMMA AssignRefines ==
    ASSUME Inductive, NEW r \in Requests, AssignCommit(r)
    PROVE  Promise!Assign(req[r].st, req[r].sec)
<1> DEFINE s == req[r].st
           x == req[r].sec
           left == {c \in Classes \ Attached(x) : <<s, c>> \in req[r].rows}
           ps == {s} \X (Attached(x) \cup left)
<1>1. /\ req[r].pc = "assign_fanout" /\ req[r].todo = {} /\ req[r].cur = None
      /\ req[r].pc \in AssignPCs \ {"assign_locked"} /\ req[r].pc \in FlushedPCs
      /\ assigned' = assigned \cup {<<s, x>>} /\ enrollment' = WithRows(req[r].rows)
      /\ UNCHANGED <<sectionCap, classCap, classTerm, classSection>>
  BY DEF AssignCommit, AssignPCs, FlushedPCs
<1>2. s \in Students /\ x \in Sections /\ Assertion(r) /\ req[r].rows \subseteq Pairs
      /\ \A p \in req[r].rows : p[1] = s
  BY <1>1 DEF Inductive, TypeInv, TypeOK, Transaction, WellFormed, AssignPCs
<1>3. \A z \in Sections : <<s, z>> \in assigned => SectionYear[z] # SectionYear[x]
  BY <1>1, <1>2 DEF Assertion, YearKept, AssignedInYear
<1>4. Promise!Cardinality(Promise!RosterOf(x)) < sectionCap[x]
  BY <1>1, <1>2, SameCardinality DEF Assertion, SeatKept, RosterOf, Promise!RosterOf
<1>5. Promise!EnrollMissing(ps)
  <2>1. ASSUME NEW p \in req[r].rows PROVE p \in ps
    <3>1. p \in Pairs /\ p[1] = s
      BY <1>2
    <3>2. p = <<s, p[2]>> /\ p[2] \in Classes
      BY <3>1 DEF Pairs
    <3> QED BY <3>2 DEF Attached
  <2>2. ASSUME NEW p \in Pairs, p \in ps, enrollment[p] = "none" PROVE p \in req[r].rows
    <3>1. PICK c \in Attached(x) \cup left : p = <<s, c>>
      BY <2>2
    <3>2. CASE c \in left
      BY <3>1, <3>2
    <3>3. CASE c \in Attached(x)
      <4>1. Covers(req[r], p) /\ p # None
        BY <1>1, <1>2, <3>1, <3>3, RosterAssumption DEF Assertion, AssignCovers, Pairs
      <4> QED BY <1>1, <2>2, <4>1 DEF Covers
    <3> QED BY <3>1, <3>2, <3>3
  <2> HIDE DEF ps
  <2> QED BY <1>1, <2>1, <2>2, CommitEnrolls
<1>6. left \in SUBSET (Classes \ Promise!Attached(x)) /\ Promise!Attached(x) = Attached(x)
  BY DEF Attached, Promise!Attached
<1>7. \E l \in SUBSET (Classes \ Promise!Attached(x)) :
        Promise!EnrollMissing({s} \X (Promise!Attached(x) \cup l))
  BY <1>5, <1>6
<1> QED BY <1>1, <1>3, <1>4, <1>7 DEF Promise!Assign

LEMMA AttachRefines ==
    ASSUME Inductive, NEW r \in Requests, AttachCommit(r)
    PROVE  Promise!Attach(req[r].cls, req[r].sec)
<1> DEFINE c == req[r].cls
           x == req[r].sec
           gone == {s \in Students \ RosterOf(x) : <<s, c>> \in req[r].rows}
           ps == (RosterOf(x) \cup gone) \X {c}
<1>1. /\ req[r].pc = "attach_fanout" /\ req[r].todo = {} /\ req[r].cur = None
      /\ classSection' = [classSection EXCEPT ![c] = x] /\ enrollment' = WithRows(req[r].rows)
      /\ UNCHANGED <<sectionCap, classCap, classTerm, assigned>>
  BY DEF AttachCommit
<1>2. c \in Classes /\ x \in Sections /\ Assertion(r) /\ req[r].rows \subseteq Pairs
      /\ \A p \in req[r].rows : p[2] = c
  BY <1>1 DEF Inductive, TypeInv, TypeOK, Transaction, WellFormed, AttachPCs
<1>3. classSection[c] \in {None, x} /\ TermYear[classTerm[c]] = SectionYear[x]
  BY <1>1, <1>2 DEF Assertion, ClassKept, Attachable
<1>4. Promise!EnrollMissing(ps)
  <2>1. ASSUME NEW p \in req[r].rows PROVE p \in ps
    <3>1. p \in Pairs /\ p[2] = c
      BY <1>2
    <3>2. p = <<p[1], c>> /\ p[1] \in Students
      BY <3>1 DEF Pairs
    <3> QED BY <3>2 DEF RosterOf
  <2>2. ASSUME NEW p \in Pairs, p \in ps, enrollment[p] = "none" PROVE p \in req[r].rows
    <3>1. PICK s \in RosterOf(x) \cup gone : p = <<s, c>>
      BY <2>2
    <3>2. CASE s \in gone
      BY <3>1, <3>2
    <3>3. CASE s \in RosterOf(x)
      <4>1. Covers(req[r], p) /\ p # None
        BY <1>1, <1>2, <3>1, <3>3, RosterAssumption DEF Assertion, AttachCovers, Pairs
      <4> QED BY <1>1, <2>2, <4>1 DEF Covers
    <3> QED BY <3>1, <3>2, <3>3
  <2> HIDE DEF ps
  <2> QED BY <1>1, <2>1, <2>2, CommitEnrolls
<1>5. gone \in SUBSET (Students \ Promise!RosterOf(x)) /\ Promise!RosterOf(x) = RosterOf(x)
  BY DEF RosterOf, Promise!RosterOf
<1>6. \E g \in SUBSET (Students \ Promise!RosterOf(x)) :
        Promise!EnrollMissing((Promise!RosterOf(x) \cup g) \X {c})
  BY <1>4, <1>5
<1> QED BY <1>1, <1>3, <1>6 DEF Promise!Attach

LEMMA EnrollRefines ==
    ASSUME Inductive, NEW r \in Requests, EnrollCommit(r), ~Rollback(r)
    PROVE  Promise!Enroll(req[r].st, req[r].cls)
<1>1. /\ req[r].pc = "enroll_checked" /\ enrollment[<<req[r].st, req[r].cls>>] = "none"
      /\ enrollment' = [enrollment EXCEPT ![<<req[r].st, req[r].cls>>] = "active"]
      /\ UNCHANGED <<sectionCap, classCap, classTerm, classSection, assigned>>
  BY DEF EnrollCommit
<1>2. Cardinality(ActiveIn(req[r].cls)) < classCap[req[r].cls]
  BY <1>1 DEF Inductive, Assertion, PlaceKept
<1>3. Promise!ActiveIn(req[r].cls) = ActiveIn(req[r].cls)
  BY DEF ActiveIn, Promise!ActiveIn
<1> QED BY <1>1, <1>2, <1>3, SameCardinality DEF Promise!Enroll

LEMMA StepRefines ==
    ASSUME Inductive, [Next]_vars
    PROVE  [Promise!Next]_(Promise!vars)
<1>u. ASSUME UNCHANGED tables PROVE UNCHANGED Promise!vars
  BY <1>u DEF tables, Promise!vars
<1>t. TypeInv /\ \A r \in Requests : WellFormed(req[r]) /\ Assertion(r)
  BY DEF Inductive, TypeInv
<1>1. ASSUME NEW r \in Requests, Start(r) PROVE UNCHANGED tables
  BY <1>1
  DEF Start, AssignLock, AttachLockSection, DetachLock, EnrollLock, PatchTermRead
<1>2. ASSUME NEW r \in Requests, Continue(r) PROVE Promise!Next \/ UNCHANGED tables
  <2>1. CASE AssignCommit(r)
    <3>1. req[r].st \in Students /\ req[r].sec \in Sections
      BY <2>1, <1>t DEF AssignCommit, WellFormed, AssignPCs
    <3> QED BY <2>1, <3>1, AssignRefines DEF Promise!Next
  <2>2. CASE AttachCommit(r)
    <3>1. req[r].cls \in Classes /\ req[r].sec \in Sections
      BY <2>2, <1>t DEF AttachCommit, WellFormed, AttachPCs
    <3> QED BY <2>2, <3>1, AttachRefines DEF Promise!Next
  <2>3. CASE DetachCommit(r)
    <3>1. /\ req[r].pc = "detach_locked" /\ classSection' = [classSection EXCEPT ![req[r].cls] = None]
          /\ UNCHANGED <<sectionCap, classCap, classTerm, assigned, enrollment>>
      BY <2>3 DEF DetachCommit
    <3>2. /\ req[r].cls \in Classes /\ req[r].sec \in Sections
          /\ classSection[req[r].cls] = req[r].sec
      BY <1>t, <3>1 DEF WellFormed, Assertion, ClassKept
    <3>3. Promise!Detach(req[r].cls)
      BY <3>1, <3>2, RosterAssumption DEF Promise!Detach
    <3> QED BY <3>2, <3>3 DEF Promise!Next
  <2>4. CASE EnrollCommit(r)
    <3>1. CASE Rollback(r)
      BY <3>1 DEF Rollback
    <3>2. CASE ~Rollback(r)
      <4>1. req[r].st \in Students /\ req[r].cls \in Classes
        BY <2>4, <1>t DEF EnrollCommit, WellFormed
      <4> QED BY <2>4, <3>2, <4>1, EnrollRefines DEF Promise!Next
    <3> QED BY <3>1, <3>2
  <2>5. CASE PatchTermCommit(r)
    <3>1. /\ req[r].pc = "term_read" /\ classTerm' = [classTerm EXCEPT ![req[r].cls] = req[r].term]
          /\ UNCHANGED <<sectionCap, classCap, classSection, assigned, enrollment>>
      BY <2>5 DEF PatchTermCommit
    <3>2. req[r].cls \in Classes /\ req[r].term \in Terms
      BY <1>t, <3>1 DEF WellFormed
    <3>3. Promise!Patch
      BY <3>1, <3>2 DEF Promise!Patch
    <3> QED BY <3>3 DEF Promise!Next
  <2>6. CASE ~(AssignCommit(r) \/ AttachCommit(r) \/ DetachCommit(r) \/ EnrollCommit(r) \/ PatchTermCommit(r))
    BY <1>2, <2>6
    DEF Continue, AssignCheck, AssignInsert, AssignListClasses, AttachLockClass, AttachListRoster,
        FanOutLook, FanOutInsert, FanOutShare, EnrollCheck, Rollback
  <2> QED BY <2>1, <2>2, <2>3, <2>4, <2>5, <2>6
<1>3. ASSUME NEW r \in Requests, Abort(r) PROVE UNCHANGED tables
  BY <1>3 DEF Abort, Rollback
<1>4. ASSUME Single PROVE Promise!Next
  <2>1. ASSUME NEW s \in Students, NEW x \in Sections, Unassign(s, x) PROVE Promise!Next
    BY <2>1 DEF Unassign, Promise!Unassign, Promise!Next
  <2>2. ASSUME NEW s \in Students, NEW c \in Classes, Drop(s, c) PROVE Promise!Next
    BY <2>2 DEF Drop, Promise!Drop, Promise!Next
  <2>3. ASSUME NEW x \in Sections, NEW k \in Capacities, PatchSectionCapacity(x, k)
        PROVE  Promise!Next
    <3>1. sectionCap' = [sectionCap EXCEPT ![x] = sectionCap'[x]]
      BY <2>3, <1>t DEF PatchSectionCapacity, TypeInv, TypeOK
    <3>2. UNCHANGED <<classCap, classTerm, classSection, assigned, enrollment>>
      BY <2>3 DEF PatchSectionCapacity
    <3>3. Promise!Patch
      BY <3>1, <3>2 DEF Promise!Patch
    <3> QED BY <3>3 DEF Promise!Next
  <2>4. ASSUME NEW c \in Classes, NEW k \in Capacities, PatchClassCapacity(c, k)
        PROVE  Promise!Next
    <3>1. classCap' = [classCap EXCEPT ![c] = classCap'[c]]
      BY <2>4, <1>t DEF PatchClassCapacity, TypeInv, TypeOK
    <3>2. UNCHANGED <<sectionCap, classTerm, classSection, assigned, enrollment>>
      BY <2>4 DEF PatchClassCapacity
    <3>3. Promise!Patch
      BY <3>1, <3>2 DEF Promise!Patch
    <3> QED BY <3>3 DEF Promise!Next
  <2> QED BY <1>4, <2>1, <2>2, <2>3, <2>4 DEF Single
<1>5. ASSUME UNCHANGED vars PROVE UNCHANGED tables
  BY <1>5 DEF vars, tables
<1> QED BY <1>u, <1>1, <1>2, <1>3, <1>4, <1>5 DEF Next

\* Every behaviour of the interleaved requests is one of the atomic ones.
THEOREM Refinement == Spec => KeepsPromise
<1>1. Init => Promise!Init
  BY DEF Init, Promise!Init, Pairs
<1> QED BY <1>1, StepRefines, InductiveInvariant, PTL DEF Spec, KeepsPromise, Promise!Spec

\* Seats: a corollary of the abstract steps and of finite rosters.
LEMMA OneMore ==
    ASSUME NEW S, NEW T, NEW a, NEW k \in Nat,
           IsFiniteSet(S), T \subseteq S \cup {a}, Cardinality(S) < k
    PROVE  Cardinality(T) <= k
<1>1. /\ IsFiniteSet(S \cup {a}) /\ Cardinality(S) \in Nat
      /\ Cardinality(S \cup {a}) \in {Cardinality(S), Cardinality(S) + 1}
  BY FS_AddElement, FS_CardinalityType
<1>2. Cardinality(T) <= Cardinality(S \cup {a}) /\ Cardinality(T) \in Nat
      /\ Cardinality(S) \in Nat /\ Cardinality(S \cup {a}) \in Nat
  BY <1>1, FS_Subset, FS_CardinalityType
<1> QED BY <1>1, <1>2

LEMMA SeatsStep ==
    ASSUME Inductive, [Next]_vars, NEW x \in Sections
    PROVE  RosterOf(x)' \subseteq RosterOf(x) \/ Cardinality(RosterOf(x)') <= sectionCap[x]
<1>1. ASSUME NEW s \in Students, NEW z \in Sections, Promise!Assign(s, z)
      PROVE  RosterOf(x)' \subseteq RosterOf(x) \/ Cardinality(RosterOf(x)') <= sectionCap[x]
  <2>1. CASE z # x
    BY <1>1, <2>1 DEF Promise!Assign, RosterOf
  <2>2. CASE z = x
    <3>1. RosterOf(x)' \subseteq RosterOf(x) \cup {s}
      BY <1>1, <2>2 DEF Promise!Assign, RosterOf
    <3>2. Promise!RosterOf(x) = RosterOf(x)
      BY DEF RosterOf, Promise!RosterOf
    <3>3. Promise!Cardinality(Promise!RosterOf(x)) < sectionCap[x] /\ sectionCap[x] \in Nat
      BY <1>1, <2>2 DEF Promise!Assign, Inductive, TypeInv, TypeOK
    <3>4. Cardinality(RosterOf(x)) < sectionCap[x]
      BY <3>2, <3>3, SameCardinality
    <3> QED BY <3>1, <3>3, <3>4, OneMore, FiniteRosters
  <2> QED BY <2>1, <2>2
<1>2. ASSUME assigned' \subseteq assigned PROVE RosterOf(x)' \subseteq RosterOf(x)
  BY <1>2 DEF RosterOf
<1>3. \/ \E s \in Students, z \in Sections : Promise!Assign(s, z)
      \/ assigned' \subseteq assigned
  BY StepRefines
  DEF Promise!Next, Promise!vars, Promise!Unassign, Promise!Attach, Promise!Detach,
      Promise!Enroll, Promise!Drop, Promise!Patch
<1> QED BY <1>1, <1>2, <1>3

\* No assignment overfills a section, whatever runs at the same time.
THEOREM SeatsAlwaysRespected == Spec => SeatsRespected
<1>1. ASSUME Inductive, [Next]_vars
      PROVE  [\A x \in Sections :
                RosterOf(x)' \subseteq RosterOf(x) \/ Cardinality(RosterOf(x)') <= sectionCap[x]]_vars
  BY <1>1, SeatsStep
<1> QED BY <1>1, InductiveInvariant, PTL DEF Spec, SeatsRespected

\* No individual enrollment overfills a class, whatever fan-outs run at the
\* same time.
THEOREM EnrollAlwaysWithinCapacity == Spec => EnrollWithinCapacity
<1> DEFINE Fits(c) == ActiveIn(c)' \subseteq ActiveIn(c) \/ Cardinality(ActiveIn(c)') <= classCap[c]
<1>1. ASSUME Inductive, [Next]_vars, UNCHANGED <<assigned, classSection>>, NEW c \in Classes
      PROVE  Fits(c)
  <2>t. TypeInv /\ \A r \in Requests : WellFormed(req[r]) /\ Assertion(r) /\ req[r] \in Transaction
    BY <1>1 DEF Inductive, TypeInv, TypeOK
  <2>1. ASSUME NEW r \in Requests, AssignCommit(r) PROVE FALSE
    <3>1. /\ req[r].pc \in FlushedPCs /\ req[r].pc \in AssignPCs
          /\ <<req[r].st, req[r].sec>> \in assigned
      BY <1>1, <2>1 DEF AssignCommit, FlushedPCs, AssignPCs
    <3> QED BY <2>t, <3>1 DEF WellFormed, Assertion, YearKept, AssignedInYear
  <2>2. ASSUME NEW r \in Requests, AttachCommit(r) PROVE Fits(c)
    <3>1. /\ req[r].pc = "attach_fanout" /\ enrollment' = WithRows(req[r].rows)
          /\ classSection = [classSection EXCEPT ![req[r].cls] = req[r].sec]
      BY <1>1, <2>2 DEF AttachCommit
    <3>2. classSection[req[r].cls] = req[r].sec
      BY <2>t, <3>1 DEF TypeInv, TypeOK, WellFormed, AttachPCs
    <3>3. \A p \in Pairs : p \notin req[r].rows
      BY <2>t, <3>1, <3>2 DEF Assertion, AttachIdempotent, RowsPending
    <3> QED BY <3>1, <3>3 DEF WithRows, ActiveIn, Pairs
  <2>3. ASSUME NEW r \in Requests, EnrollCommit(r), ~Rollback(r) PROVE Fits(c)
    <3> DEFINE d == req[r].cls
    <3>1. /\ req[r].pc = "enroll_checked"
          /\ enrollment' = [enrollment EXCEPT ![<<req[r].st, d>>] = "active"]
      BY <2>3 DEF EnrollCommit
    <3>2. \A p \in Pairs : enrollment'[p] = IF p = <<req[r].st, d>> THEN "active" ELSE enrollment[p]
      BY <2>t, <3>1 DEF TypeInv, TypeOK
    <3>3. CASE c = d
      <4>1. ActiveIn(c)' \subseteq ActiveIn(c) \cup {req[r].st}
        BY <3>2, <3>3 DEF ActiveIn, Pairs
      <4>2. Cardinality(ActiveIn(c)) < classCap[c] /\ classCap[c] \in Nat
        BY <2>t, <3>1, <3>3 DEF Assertion, PlaceKept, TypeInv, TypeOK
      <4> QED BY <4>1, <4>2, OneMore, FiniteRosters
    <3>4. CASE c # d
      BY <3>2, <3>4 DEF ActiveIn, Pairs
    <3> QED BY <3>3, <3>4
  <2>4. ASSUME UNCHANGED enrollment PROVE Fits(c)
    BY <2>4 DEF ActiveIn
  <2>5. ASSUME NEW s \in Students, NEW d \in Classes, Drop(s, d) PROVE Fits(c)
    <3>1. \A p \in Pairs : enrollment'[p] = IF p = <<s, d>> THEN "dropped" ELSE enrollment[p]
      BY <2>t, <2>5 DEF Drop, TypeInv, TypeOK
    <3> QED BY <3>1 DEF ActiveIn, Pairs
  <2>6. ASSUME NEW r \in Requests, Continue(r),
               ~AssignCommit(r), ~AttachCommit(r), ~(EnrollCommit(r) /\ ~Rollback(r))
        PROVE  UNCHANGED enrollment
    BY <2>6
    DEF Continue, AssignCheck, AssignInsert, AssignListClasses, AttachLockClass, AttachListRoster,
        FanOutLook, FanOutInsert, FanOutShare, DetachCommit, EnrollCheck, EnrollCommit, PatchTermCommit,
        Rollback, tables
  <2>7. ASSUME NEW r \in Requests, Start(r) \/ Abort(r) PROVE UNCHANGED enrollment
    BY <2>7
    DEF Start, AssignLock, AttachLockSection, DetachLock, EnrollLock, PatchTermRead, Abort,
        Rollback, tables
  <2>8. ASSUME NEW r \in Requests, Start(r) \/ Continue(r) \/ Abort(r) PROVE Fits(c)
    BY <2>1, <2>2, <2>3, <2>4, <2>6, <2>7, <2>8
  <2>9. ASSUME Single PROVE Fits(c)
    <3>1. UNCHANGED enrollment \/ \E s \in Students, d \in Classes : Drop(s, d)
      BY <2>9 DEF Single, Unassign, PatchSectionCapacity, PatchClassCapacity
    <3> QED BY <2>4, <2>5, <3>1
  <2>10. ASSUME UNCHANGED vars PROVE Fits(c)
    BY <2>4, <2>10 DEF vars, tables
  <2> QED BY <1>1, <2>8, <2>9, <2>10 DEF Next
<1>2. ASSUME Inductive, [Next]_vars
      PROVE  [UNCHANGED <<assigned, classSection>> => \A c \in Classes : Fits(c)]_vars
  BY <1>1, <1>2
<1> QED BY <1>2, InductiveInvariant, PTL DEF Spec, EnrollWithinCapacity

-----------------------------------------------------------------------------
(* While seats only fill, the section's capacity governs its classes.      *)

\* The rows of a class come from the fan-outs of assign and attach_class, or
\* from a student enrolled on their own.
LEMMA NewRows ==
    ASSUME Inductive, [Next]_vars, NEW p \in Pairs, enrollment[p] = "none", enrollment'[p] # "none"
    PROVE  \E r \in Requests :
             \/ (AssignCommit(r) \/ AttachCommit(r)) /\ p \in req[r].rows
             \/ EnrollCommit(r)
<1>t. enrollment \in [Pairs -> Status]
  BY DEF Inductive, TypeInv, TypeOK
<1>1. ASSUME NEW r \in Requests, AssignCommit(r) \/ AttachCommit(r) PROVE p \in req[r].rows
  BY <1>1 DEF AssignCommit, AttachCommit, WithRows
<1>2. ASSUME NEW r \in Requests, Continue(r), ~AssignCommit(r), ~AttachCommit(r), ~EnrollCommit(r)
      PROVE  UNCHANGED enrollment
  BY <1>2
  DEF Continue, AssignCheck, AssignInsert, AssignListClasses, AttachLockClass, AttachListRoster,
      FanOutLook, FanOutInsert, FanOutShare, DetachCommit, EnrollCheck, PatchTermCommit, Rollback, tables
<1>3. ASSUME NEW r \in Requests, Start(r) \/ Abort(r) PROVE UNCHANGED enrollment
  BY <1>3
  DEF Start, AssignLock, AttachLockSection, DetachLock, EnrollLock, PatchTermRead, Abort,
      Rollback, tables
<1>4. ~Single
  <2>1. ASSUME NEW s \in Students, NEW d \in Classes PROVE ~Drop(s, d)
    <3>1. \A q \in Pairs : Drop(s, d) /\ enrollment[<<s, d>>] = "active" =>
             enrollment'[q] = IF q = <<s, d>> THEN "dropped" ELSE enrollment[q]
      BY <1>t DEF Drop
    <3> QED BY <3>1 DEF Drop
  <2> QED BY <2>1 DEF Single, Unassign, PatchSectionCapacity, PatchClassCapacity
<1>5. ~UNCHANGED enrollment
  OBVIOUS
<1>6. Next
  BY <1>5 DEF vars, tables
<1> QED BY <1>1, <1>2, <1>3, <1>4, <1>5, <1>6 DEF Next

\* The pairs a fan-out takes up are of its section and of the section's roster.
LEMMA MovesRostered ==
    ASSUME Inductive, Seated, NEW r \in Requests, Start(r) \/ Continue(r) \/ Abort(r)
    PROVE  InHandRostered(req'[r])
<1> SUFFICES ASSUME req'[r].pc \in FanOutPCs PROVE InHandRostered(req'[r])
  BY DEF InHandRostered, FanOutPCs
<1>1. CASE req'[r].pc = req[r].pc /\ InHand(req'[r]) \subseteq InHand(req[r]) /\ req'[r].sec = req[r].sec
  BY <1>1 DEF Seated, InHandRostered
<1>2. CASE /\ req'[r].pc = "assign_fanout" /\ req'[r].sec = req[r].sec
           /\ InHand(req'[r]) \subseteq {req[r].st} \X Attached(req[r].sec)
  <2>1. \A p \in InHand(req'[r]) : classSection[p[2]] = req[r].sec
    BY <1>2 DEF Attached
  <2> QED BY <1>2, <2>1 DEF InHandRostered
<1>3. CASE /\ req'[r].pc = "attach_fanout" /\ req'[r].sec = req[r].sec
           /\ InHand(req'[r]) \subseteq RosterOf(req[r].sec) \X {req[r].cls}
  <2>1. \A p \in InHand(req'[r]) : <<p[1], req[r].sec>> \in assigned
    BY <1>3 DEF RosterOf
  <2> QED BY <1>3, <2>1 DEF InHandRostered
<1> QED BY <1>1, <1>2, <1>3, FanOutStep

LEMMA RowsRosteredStep ==
    ASSUME Inductive, Seated, [Next]_vars, SeatsOnlyFill
    PROVE  RowsRostered'
<1> SUFFICES ASSUME NEW s \in Students, NEW c \in Classes, enrollment'[<<s, c>>] # "none"
             PROVE  classSection'[c] # None /\ <<s, classSection'[c]>> \in assigned'
  BY DEF RowsRostered
<1>t. TypeOK /\ \A r \in Requests : WellFormed(req[r]) /\ InHandRostered(req[r])
  BY DEF Inductive, TypeInv, Seated
<1>1. CASE enrollment[<<s, c>>] # "none"
  BY <1>1 DEF Seated, RowsRostered, SeatsOnlyFill
<1>2. CASE enrollment[<<s, c>>] = "none"
  <2>1. PICK r \in Requests :
          \/ (AssignCommit(r) \/ AttachCommit(r)) /\ <<s, c>> \in req[r].rows
          \/ EnrollCommit(r)
    BY <1>2, NewRows DEF Pairs
  <2>2. ~EnrollCommit(r)
    BY <1>2 DEF SeatsOnlyFill
  <2>3. CASE AssignCommit(r) /\ <<s, c>> \in req[r].rows
    <3>1. /\ req[r].pc = "assign_fanout" /\ assigned' = assigned \cup {<<req[r].st, req[r].sec>>}
          /\ classSection' = classSection
      BY <2>3 DEF AssignCommit
    <3>2. classSection[c] = req[r].sec /\ req[r].st = s /\ req[r].sec \in Sections
      BY <1>t, <2>3, <3>1 DEF InHandRostered, InHand, WellFormed, AssignPCs
    <3> QED BY <3>1, <3>2, RosterAssumption
  <2>4. CASE AttachCommit(r) /\ <<s, c>> \in req[r].rows
    <3>1. /\ req[r].pc = "attach_fanout" /\ assigned' = assigned
          /\ classSection' = [classSection EXCEPT ![req[r].cls] = req[r].sec]
      BY <2>4 DEF AttachCommit
    <3>2. req[r].cls = c /\ <<s, req[r].sec>> \in assigned /\ req[r].sec \in Sections
      BY <1>t, <2>4, <3>1 DEF InHandRostered, InHand, WellFormed, AttachPCs
    <3>3. classSection'[c] = req[r].sec
      BY <1>t, <3>1, <3>2 DEF TypeOK
    <3> QED BY <3>1, <3>2, <3>3, RosterAssumption
  <2> QED BY <2>1, <2>2, <2>3, <2>4
<1> QED BY <1>1, <1>2

LEMMA SeatedStep ==
    ASSUME Inductive, Inductive', Seated, [Next]_vars, SeatsOnlyFill
    PROVE  Seated'
<1>1. ASSUME NEW q \in Requests PROVE InHandRostered(req[q])'
  <2>1. InHandRostered(req'[q])
    BY OwnSteps, MovesRostered DEF Seated
  <2>2. req'[q] \in Transaction /\ WellFormed(req'[q])
    BY DEF Inductive, TypeInv, TypeOK
  <2>3. InHand(req'[q]) \subseteq Pairs
    BY <2>2 DEF InHand, Transaction
  <2>4. \A p \in InHand(req'[q]) : p[2] \in Classes
    BY <2>3 DEF Pairs
  <2>5. req'[q].pc = "assign_fanout" => req'[q].sec \in Sections /\ req'[q].sec # None
    BY <2>2, RosterAssumption DEF WellFormed, AssignPCs
  <2> QED BY <2>1, <2>4, <2>5 DEF InHandRostered, SeatsOnlyFill
<1>2. ASSUME NEW x \in Sections PROVE Cardinality(RosterOf(x)') <= sectionCap'[x]
  <2>1. /\ sectionCap[x] \in Nat /\ sectionCap'[x] \in Nat /\ sectionCap[x] <= sectionCap'[x]
        /\ Cardinality(RosterOf(x)) <= sectionCap[x]
    BY DEF Inductive, TypeInv, TypeOK, SeatsOnlyFill, Seated
  <2>2. IsFiniteSet(RosterOf(x)) /\ IsFiniteSet(RosterOf(x)')
    BY FiniteRosters, RosterAssumption, FS_Subset DEF RosterOf
  <2>3. CASE RosterOf(x)' \subseteq RosterOf(x)
    <3>1. /\ Cardinality(RosterOf(x)') \in Nat /\ Cardinality(RosterOf(x)) \in Nat
          /\ Cardinality(RosterOf(x)') <= Cardinality(RosterOf(x))
      BY <2>2, <2>3, Shrinks
    <3> QED BY <2>1, <3>1
  <2>4. CASE Cardinality(RosterOf(x)') <= sectionCap[x]
    <3>1. Cardinality(RosterOf(x)') \in Nat
      BY <2>2, FS_CardinalityType
    <3> QED BY <2>1, <2>4, <3>1
  <2> QED BY <2>3, <2>4, SeatsStep
<1> QED BY <1>1, <1>2, RowsRosteredStep DEF Seated

\* Whoever is active in an attached class is on its section's roster.
LEMMA SeatedGoverns ==
    ASSUME Inductive, Seated
    PROVE  SectionCapacityGoverns
<1> SUFFICES ASSUME NEW c \in Classes, NEW x \in Sections, classSection[c] = x
             PROVE  Cardinality(ActiveIn(c)) <= sectionCap[x]
  BY DEF SectionCapacityGoverns
<1>1. ActiveIn(c) \subseteq RosterOf(x)
  BY DEF Seated, RowsRostered, ActiveIn, RosterOf
<1>2. /\ Cardinality(ActiveIn(c)) \in Nat /\ Cardinality(RosterOf(x)) \in Nat
      /\ Cardinality(ActiveIn(c)) <= Cardinality(RosterOf(x))
  BY <1>1, FiniteRosters, Shrinks
<1>3. Cardinality(RosterOf(x)) <= sectionCap[x] /\ sectionCap[x] \in Nat
  BY DEF Seated, Inductive, TypeInv, TypeOK
<1> QED BY <1>2, <1>3

\* A section's capacity governs the classes attached to it, whose fan-outs
\* check none, as long as seats only fill: nobody leaves a roster and no class
\* its section (their rows stay behind), no section loses seats, and nobody is
\* enrolled on their own.
THEOREM CapacityGovernsWhileSeatsOnlyFill ==
    Spec /\ [][SeatsOnlyFill]_vars => []SectionCapacityGoverns
<1>1. Init => Seated
  <2> SUFFICES ASSUME Init PROVE Seated
    OBVIOUS
  <2>1. \A x \in Sections : RosterOf(x) = {}
    BY DEF Init, RosterOf
  <2>2. Cardinality({}) = 0 /\ \A x \in Sections : sectionCap[x] \in Nat
    BY FS_EmptySet DEF Init, Capacities
  <2>3. \A x \in Sections : Cardinality(RosterOf(x)) <= sectionCap[x]
    BY <2>1, <2>2
  <2>4. RowsRostered
    BY DEF Init, RowsRostered, Pairs
  <2>5. \A r \in Requests : InHandRostered(req[r])
    BY IdleType DEF Init, InHandRostered
  <2> QED BY <2>3, <2>4, <2>5 DEF Seated
<1>2. Inductive /\ Inductive' /\ Seated /\ [Next]_vars /\ [SeatsOnlyFill]_vars => Seated'
  <2> SUFFICES ASSUME Inductive, Inductive', Seated, [Next]_vars, [SeatsOnlyFill]_vars PROVE Seated'
    OBVIOUS
  <2>1. CASE SeatsOnlyFill
    BY <2>1, SeatedStep
  <2>2. CASE UNCHANGED vars
    BY <2>2 DEF vars, tables, Seated, RowsRostered, InHandRostered, InHand, RosterOf
  <2> QED BY <2>1, <2>2
<1> QED BY <1>1, <1>2, SeatedGoverns, InductiveInvariant, PTL DEF Spec
=============================================================================
