--------------------------- MODULE TimetableProofs ---------------------------
(* Theorems about Timetable for every set of classes, periods, teachers,   *)
(* rooms, sections and requests.                                           *)
EXTENDS Timetable, TLAPS

USE DEF tables

-----------------------------------------------------------------------------
(* Steps of one request that write no table.                               *)

LEMMA IdleType == Idle \in Transaction /\ WellFormed(Idle) /\ Idle.pc = "idle" /\ Idle.others = {}
  BY DEF Idle, Transaction, PCs, CreatePCs, WellFormed

\* What a request t of r relies on, cl and pl being the locks.
Good(r, t, cl, pl) ==
    /\ t.pc # "idle" => cl[t.cls] = r
    /\ t.pc \in LockedPeriodPCs => pl[t.period] = r
    /\ t.pc \in CreatePCs => t.row = class[t.cls]
    /\ t.pc = "looking" =>
         \A k \in At(t) : k.cls # t.cls => k.cls \in t.todo \/ \E o \in t.others : o[1] = k.cls
    /\ \A o \in t.others, k \in At(t) :
         k.cls = o[1] /\ k \notin changed => class[k.cls] \in {o[2], Detached(o[2])}

LEMMA GoodRequests ==
    ASSUME NEW r \in Requests
    PROVE  HoldsLocks(r) /\ Covers(r) /\ LooksHigh(r) <=> Good(r, req[r], classLock, periodLock)
  BY DEF HoldsLocks, Covers, LooksHigh, Good

\* r takes locks nobody holds and moves on to t.
LEMMA MovesInv ==
    ASSUME Sound, NEW r \in Requests, NEW t \in Transaction, WellFormed(t),
           Become(r, t), UNCHANGED tables,
           classLock' \in [Classes -> Requests \cup {None}],
           periodLock' \in [Periods -> Requests \cup {None}],
           \A c \in Classes : classLock[c] \in Requests \ {r} => classLock'[c] = classLock[c],
           \A p \in Periods : periodLock[p] \in Requests \ {r} => periodLock'[p] = periodLock[p],
           Good(r, t, classLock', periodLock')
    PROVE  Sound'
  <1>1. \A q \in Requests : req'[q] = IF q = r THEN t ELSE req[q]
    BY DEF Become, Sound, TypeOK
  <1>2. TypeOK'
    BY <1>1 DEF Become, Sound, TypeOK
  <1>3. ASSUME NEW q \in Requests PROVE (HoldsLocks(q) /\ Covers(q) /\ LooksHigh(q))'
    <2>1. CASE q = r
      BY <1>1, <2>1 DEF Good, HoldsLocks, Covers, LooksHigh, At
    <2>2. CASE q # r
      <3>1. req'[q] = req[q] /\ HoldsLocks(q) /\ Covers(q) /\ LooksHigh(q) /\ WellFormed(req[q])
        BY <1>1, <2>2 DEF Sound, TypeOK
      <3> QED BY <2>2, <3>1 DEF HoldsLocks, Covers, LooksHigh, At, WellFormed, LockedPeriodPCs, CreatePCs
    <2> QED BY <2>1, <2>2
  <1>6. NoDoubleBooking'
    BY DEF Sound, NoDoubleBooking
  <1> QED BY <1>2, <1>3, <1>6 DEF Sound

\* The request ends, whatever it has written.
LEMMA EndLocks ==
    ASSUME Sound, NEW r \in Requests, End(r)
    PROVE  /\ req' = [req EXCEPT ![r] = Idle]
           /\ classLock' \in [Classes -> Requests \cup {None}]
           /\ periodLock' \in [Periods -> Requests \cup {None}]
           /\ \A c \in Classes : classLock[c] \in Requests \ {r} => classLock'[c] = classLock[c]
           /\ \A p \in Periods : periodLock[p] \in Requests \ {r} => periodLock'[p] = periodLock[p]
  BY DEF End, Become, Sound, TypeOK

LEMMA IdleGood == \A r, cl, pl : Good(r, Idle, cl, pl)
  BY IdleType DEF Good, LockedPeriodPCs, CreatePCs

LEMMA RollbackInv ==
    ASSUME Sound, NEW r \in Requests, Rollback(r)
    PROVE  Sound'
  <1>1. End(r) /\ UNCHANGED tables /\ Become(r, Idle)
    BY DEF Rollback, End
  <1> QED BY <1>1, IdleType, EndLocks, IdleGood, MovesInv

-----------------------------------------------------------------------------
(* The steps of create up to its commit.                                   *)

LEMMA CreateLockClassInv ==
    ASSUME Sound, NEW r \in Requests, NEW c \in Classes, NEW d \in Days, NEW p \in Periods,
           CreateLockClass(r, c, d, p)
    PROVE  Sound'
  <1> DEFINE t == [Idle EXCEPT !.pc = "class_locked", !.cls = c, !.day = d, !.period = p,
                               !.row = class[c]]
  <1>1. t \in Transaction /\ WellFormed(t)
    BY DEF Idle, Transaction, PCs, CreatePCs, WellFormed, Sound, TypeOK
  <1>2. Become(r, t) /\ UNCHANGED <<tables, periodLock>> /\ classLock[c] = None
    BY DEF CreateLockClass
  <1>3. /\ classLock' \in [Classes -> Requests \cup {None}] /\ classLock'[c] = r
        /\ \A a \in Classes : a # c => classLock'[a] = classLock[a]
    BY DEF CreateLockClass, Sound, TypeOK
  <1>4. Good(r, t, classLock', periodLock')
    BY <1>2, <1>3 DEF Good, Idle, LockedPeriodPCs, CreatePCs
  <1>5. None \notin Requests /\ periodLock \in [Periods -> Requests \cup {None}]
    BY TimetableAssumption DEF Sound, TypeOK
  <1> HIDE DEF t
  <1> QED BY <1>1, <1>2, <1>3, <1>4, <1>5, MovesInv

LEMMA CreateLockPeriodInv ==
    ASSUME Sound, NEW r \in Requests, CreateLockPeriod(r)
    PROVE  Sound'
  <1> DEFINE t == [req[r] EXCEPT !.pc = "period_locked"]
  <1>0. req[r] \in Transaction /\ WellFormed(req[r]) /\ Good(r, req[r], classLock, periodLock) /\ req[r].pc = "class_locked"
    BY GoodRequests DEF CreateLockPeriod, Sound, TypeOK
  <1>1. t \in Transaction /\ WellFormed(t)
    BY <1>0 DEF Transaction, PCs, CreatePCs, WellFormed
  <1>2. Become(r, t) /\ UNCHANGED <<tables, classLock>> /\ periodLock[req[r].period] \notin Requests \ {r}
    BY <1>0 DEF CreateLockPeriod, Granted, WaitsFor
  <1>3. /\ periodLock' \in [Periods -> Requests \cup {None}] /\ periodLock'[req[r].period] = r
        /\ \A p \in Periods : p # req[r].period => periodLock'[p] = periodLock[p]
    BY <1>0 DEF CreateLockPeriod, Sound, TypeOK, WellFormed, CreatePCs
  <1>4. Good(r, t, classLock', periodLock')
    BY <1>0, <1>2, <1>3 DEF Good, LockedPeriodPCs, CreatePCs, Transaction, WellFormed
  <1>5. None \notin Requests /\ classLock \in [Classes -> Requests \cup {None}]
    BY TimetableAssumption DEF Sound, TypeOK
  <1> HIDE DEF t
  <1> QED BY <1>1, <1>2, <1>3, <1>4, <1>5, MovesInv

\* The reads of create under its locks.
LEMMA ReadsInv ==
    ASSUME Sound, NEW r \in Requests, CreateCheckOwn(r) \/ CreateList(r) \/ \E c \in Classes : CreateLook(r, c)
    PROVE  Sound'
  <1>0. req[r] \in Transaction /\ WellFormed(req[r]) /\ Good(r, req[r], classLock, periodLock)
    BY GoodRequests DEF Sound, TypeOK
  <1>l. /\ classLock \in [Classes -> Requests \cup {None}]
        /\ periodLock \in [Periods -> Requests \cup {None}]
        /\ class \in [Classes -> ClassRow] /\ slot \subseteq Slot
    BY DEF Sound, TypeOK
  <1>1. CASE CreateCheckOwn(r)
    <2>1. CASE Rollback(r)
      BY <2>1, RollbackInv
    <2>2. CASE Become(r, [req[r] EXCEPT !.pc = "own_free"]) /\ UNCHANGED <<tables, locks>>
      <3> DEFINE t == [req[r] EXCEPT !.pc = "own_free"]
      <3>1. t \in Transaction /\ WellFormed(t) /\ req[r].pc = "period_locked"
        BY <1>0, <1>1 DEF Transaction, PCs, CreatePCs, WellFormed, CreateCheckOwn
      <3>2. Good(r, t, classLock', periodLock')
        BY <1>0, <2>2, <3>1 DEF Good, LockedPeriodPCs, CreatePCs, Transaction, WellFormed, locks
      <3> HIDE DEF t
      <3> QED BY <1>l, <2>2, <3>1, <3>2, MovesInv DEF t, locks
    <2> QED BY <1>1, <2>1, <2>2 DEF CreateCheckOwn
  <1>2. CASE CreateList(r)
    <2> DEFINE T == {k.cls : k \in At(req[r])} \ {req[r].cls}
               t == [req[r] EXCEPT !.pc = "looking", !.todo = T]
    <2>0. T \subseteq Classes
      BY <1>l DEF At, Slot
    <2>1. t \in Transaction /\ WellFormed(t) /\ req[r].pc = "own_free"
      BY <1>0, <1>2, <2>0 DEF Transaction, PCs, CreatePCs, WellFormed, CreateList
    <2>2. Become(r, t) /\ UNCHANGED <<tables, classLock, periodLock>>
      BY <1>2 DEF CreateList, locks
    <2>3. At(t) = At(req[r]) /\ t.todo = T /\ t.cls = req[r].cls /\ t.others = req[r].others
      BY <1>0, <2>2 DEF At, Transaction
    <2>4. \A k \in At(t) : k.cls # t.cls => k.cls \in t.todo
      BY <2>3
    <2>5. t.others = {}
      BY <1>0, <2>1, <2>3 DEF WellFormed
    <2>6. Good(r, t, classLock', periodLock')
      BY <1>0, <2>1, <2>2, <2>4, <2>5 DEF Good, LockedPeriodPCs, CreatePCs, Transaction
    <2> HIDE DEF t, T
    <2> QED BY <1>l, <2>1, <2>2, <2>6, MovesInv
  <1>3. ASSUME NEW c \in Classes, CreateLook(r, c) PROVE Sound'
    <2> DEFINE t == [req[r] EXCEPT !.todo = req[r].todo \ {c}, !.others = req[r].others \cup {<<c, class[c]>>}]
    <2>0. req[r].pc = "looking" /\ c \in req[r].todo /\ class[c] \in ClassRow
      BY <1>l, <1>3 DEF CreateLook
    <2>1. t \in Transaction /\ WellFormed(t) /\ req[r].pc = "looking" /\ c \in req[r].todo
      <3> HIDE DEF Transaction
      <3>1. req[r].others \cup {<<c, class[c]>>} \in SUBSET (Classes \X ClassRow)
        BY <1>0, <2>0 DEF Transaction
      <3>2. t \in Transaction
        BY <1>0, <3>1 DEF Transaction
      <3>3. WellFormed(t)
        BY <1>0, <2>0 DEF Transaction, WellFormed, CreatePCs
      <3> QED BY <2>0, <3>2, <3>3
    <2>2. Become(r, t) /\ UNCHANGED <<tables, classLock, periodLock>>
      BY <1>3 DEF CreateLook, locks
    <2>3. /\ At(t) = At(req[r]) /\ t.cls = req[r].cls /\ t.pc = "looking"
          /\ t.todo = req[r].todo \ {c} /\ t.others = req[r].others \cup {<<c, class[c]>>}
      BY <1>0, <2>1, <2>2 DEF At, Transaction
    <2>4. ASSUME NEW k \in At(t), k.cls # t.cls PROVE k.cls \in t.todo \/ \E o \in t.others : o[1] = k.cls
      <3>1. k.cls \in req[r].todo \/ \E o \in req[r].others : o[1] = k.cls
        BY <1>0, <2>1, <2>3, <2>4 DEF Good
      <3>2. CASE k.cls = c
        <4>1. <<c, class[c]>> \in t.others /\ <<c, class[c]>>[1] = c
          BY <2>3
        <4> QED BY <3>2, <4>1
      <3>3. CASE k.cls # c
        BY <2>3, <3>1, <3>3
      <3> QED BY <3>2, <3>3
    <2>5. ASSUME NEW o \in t.others, NEW k \in At(t), k.cls = o[1], k \notin changed
          PROVE  class[k.cls] \in {o[2], Detached(o[2])}
      <3>1. CASE o = <<c, class[c]>>
        BY <2>5, <3>1
      <3>2. CASE o \in req[r].others
        BY <1>0, <2>3, <2>5, <3>2 DEF Good
      <3> QED BY <2>3, <3>1, <3>2
    <2>6. Good(r, t, classLock', periodLock')
      BY <1>0, <2>1, <2>2, <2>3, <2>4, <2>5 DEF Good, LockedPeriodPCs, CreatePCs, Transaction
    <2> HIDE DEF t
    <2> QED BY <1>l, <2>1, <2>2, <2>6, MovesInv
  <1> QED BY <1>1, <1>2, <1>3

-----------------------------------------------------------------------------
(* The commit of create.                                                   *)

LEMMA ConflictSymmetric == \A a, b : Conflict(a, b) <=> Conflict(b, a)
  BY DEF Conflict

\* Detaching a class takes conflicts away.
LEMMA DetachedConflicts ==
    ASSUME NEW a \in ClassRow, NEW b \in ClassRow, NEW c \in {b, Detached(b)}, Conflict(a, c)
    PROVE  Conflict(a, b)
  BY DEF Conflict, ClassRow, Detached

\* Detaching leaves a row of the table, and detaching again changes nothing.
LEMMA DetachedRow == ASSUME NEW a \in ClassRow PROVE Detached(a) \in ClassRow /\ Detached(Detached(a)) = Detached(a)
  BY DEF ClassRow, Detached

\* A create about to commit has looked at every competitor.
LEMMA AllLooked ==
    ASSUME Sound, NEW r \in Requests, Passed(req[r]), NEW j \in At(req[r]), j.cls # req[r].cls
    PROVE  /\ class[req[r].cls] = req[r].row
           /\ \E o \in req[r].others : o[1] = j.cls /\ ~Conflict(class[req[r].cls], o[2])
  BY DEF Sound, HoldsLocks, Covers, Passed, CreatePCs

LEMMA CreateCommitInv ==
    ASSUME Sound, NEW r \in Requests, CreateCommit(r)
    PROVE  Sound'
  <1> DEFINE t == req[r]
             n == [cls |-> t.cls, day |-> t.day, period |-> t.period]
  <1>0. /\ t \in Transaction /\ WellFormed(t) /\ HoldsLocks(r) /\ t.pc = "looking"
        /\ req \in [Requests -> Transaction] /\ slot \subseteq Slot /\ changed \subseteq slot
        /\ class \in [Classes -> ClassRow]
    BY DEF Sound, TypeOK, CreateCommit, Passed
  <1>1. /\ Passed(t) /\ End(r) /\ UNCHANGED <<class, changed>> /\ slot' = slot \cup {n} /\ n \in Slot
        /\ \A k \in At(t) : k.cls # t.cls
    BY <1>0 DEF CreateCommit, Slot, WellFormed, CreatePCs
  <1>2. \A q \in Requests : req'[q] = IF q = r THEN Idle ELSE req[q]
    BY <1>0, <1>1, EndLocks
  <1>3. TypeOK'
    BY <1>0, <1>1, <1>2, EndLocks, IdleType DEF Sound, TypeOK
  <1>4. ASSUME NEW q \in Requests \ {r} PROVE (HoldsLocks(q) /\ Covers(q) /\ LooksHigh(q))'
    <2>1. req'[q] = req[q] /\ HoldsLocks(q) /\ Covers(q) /\ LooksHigh(q) /\ WellFormed(req[q])
      BY <1>2 DEF Sound, TypeOK
    <2>2. HoldsLocks(q)'
      BY <1>1, <2>1, EndLocks DEF HoldsLocks, WellFormed, LockedPeriodPCs, CreatePCs
    <2>3. req[q].pc = "looking" => req[q].period # t.period
      BY <1>0, <2>1 DEF HoldsLocks, LockedPeriodPCs
    <2>4. req[q].pc = "looking" => At(req[q])' = At(req[q])
      BY <1>1, <2>1, <2>3 DEF At
    <2>5. Covers(q)'
      BY <2>1, <2>4 DEF Covers
    <2>6. LooksHigh(q)'
      BY <1>1, <2>1, <2>4 DEF LooksHigh, WellFormed
    <2> QED BY <2>2, <2>5, <2>6
  <1>5. (HoldsLocks(r) /\ Covers(r) /\ LooksHigh(r))'
    BY <1>2, IdleType DEF HoldsLocks, Covers, LooksHigh, LockedPeriodPCs, CreatePCs
  <1>6. NoDoubleBooking'
    <2>0. n \notin changed
      BY <1>0, <1>1 DEF At
    <2>1. ASSUME NEW j \in slot, SameTime(j, n), j \notin changed PROVE ~Conflict(class[n.cls], class[j.cls])
      <3>1. j \in At(t) /\ j.cls # t.cls /\ j.cls \in Classes /\ t.cls \in Classes
        BY <1>0, <1>1, <2>1 DEF At, SameTime, Slot, WellFormed
      <3>2. PICK o \in t.others : o[1] = j.cls /\ ~Conflict(class[t.cls], o[2])
        BY <1>1, <3>1, AllLooked
      <3>3. class[j.cls] \in {o[2], Detached(o[2])} /\ o[2] \in ClassRow
        BY <1>0, <2>1, <3>1, <3>2 DEF Sound, LooksHigh, Transaction
      <3> QED BY <1>0, <3>1, <3>2, <3>3, DetachedConflicts
    <2>2. \A j, k \in slot : SameTime(j, k) /\ Conflict(class[j.cls], class[k.cls]) => {j, k} \cap changed # {}
      BY DEF Sound, NoDoubleBooking
    <2>3. \A j, k \in slot \cup {n} :
            SameTime(j, k) /\ Conflict(class[j.cls], class[k.cls]) => {j, k} \cap changed # {}
      BY <2>1, <2>2, ConflictSymmetric DEF SameTime
    <2> QED BY <1>1, <2>3 DEF NoDoubleBooking, SameTime
  <1> QED BY <1>3, <1>4, <1>5, <1>6 DEF Sound

-----------------------------------------------------------------------------
(* Attaching, detaching, PATCH and the removal of a slot.                  *)

LEMMA AttachLockInv ==
    ASSUME Sound, NEW r \in Requests, NEW x \in Sections, NEW c \in Classes, AttachLock(r, x, c)
    PROVE  Sound'
  <1> DEFINE t == [Idle EXCEPT !.pc = "attach_locked", !.cls = c, !.sec = x]
  <1>1. t \in Transaction /\ WellFormed(t)
    BY DEF Idle, Transaction, PCs, CreatePCs, WellFormed
  <1>2. Become(r, t) /\ UNCHANGED <<tables, periodLock>> /\ classLock[c] = None
    BY DEF AttachLock
  <1>3. /\ classLock' \in [Classes -> Requests \cup {None}] /\ classLock'[c] = r
        /\ \A a \in Classes : a # c => classLock'[a] = classLock[a]
    BY DEF AttachLock, Sound, TypeOK
  <1>4. Good(r, t, classLock', periodLock')
    BY <1>2, <1>3 DEF Good, Idle, LockedPeriodPCs, CreatePCs, AttachLock
  <1>5. None \notin Requests /\ periodLock \in [Periods -> Requests \cup {None}]
    BY TimetableAssumption DEF Sound, TypeOK
  <1> HIDE DEF t
  <1> QED BY <1>1, <1>2, <1>3, <1>4, <1>5, MovesInv

LEMMA DeleteSlotInv ==
    ASSUME Sound, NEW k \in slot, DeleteSlot(k)
    PROVE  Sound'
  <1>1. /\ slot' = slot \ {k} /\ changed' = changed \ {k}
        /\ UNCHANGED <<class, classLock, periodLock, req>>
    BY DEF DeleteSlot, locks
  <1>2. TypeOK'
    BY <1>1 DEF Sound, TypeOK, WellFormed
  <1>3. \A r \in Requests : (HoldsLocks(r) /\ Covers(r) /\ LooksHigh(r))'
    BY <1>1 DEF Sound, HoldsLocks, Covers, LooksHigh, At
  <1>4. NoDoubleBooking'
    BY <1>1 DEF Sound, NoDoubleBooking, SameTime
  <1> QED BY <1>2, <1>3, <1>4 DEF Sound

\* The write of row to c marks the slots of c, unless it only detaches c.
Marked(c, row) ==
    /\ changed \subseteq changed' /\ changed' \subseteq slot
    /\ \A k \in slot \ changed' : k.cls = c => row = Detached(class[c])

\* A class written while nobody but r holds its row, r being at its end.
LEMMA WriteInv ==
    ASSUME Sound, NEW c \in Classes, NEW row \in ClassRow,
           class' = [class EXCEPT ![c] = row], UNCHANGED slot,
           Marked(c, row),
           classLock' \in [Classes -> Requests \cup {None}],
           periodLock' \in [Periods -> Requests \cup {None}],
           req' \in [Requests -> Transaction],
           \A q \in Requests : req'[q] = Idle \/
               /\ req'[q] = req[q] /\ classLock[c] # q
               /\ \A a \in Classes : classLock[a] = q => classLock'[a] = q
               /\ \A p \in Periods : periodLock[p] = q => periodLock'[p] = q
    PROVE  Sound'
  <1>0. /\ class \in [Classes -> ClassRow] /\ slot \subseteq Slot
        /\ \A a \in Classes : class'[a] = IF a = c THEN row ELSE class[a]
        /\ changed \subseteq changed' /\ changed' \subseteq slot
        /\ \A k \in slot \ changed' : k.cls = c => row = Detached(class[c])
    BY DEF Sound, TypeOK, Marked
  <1>1. TypeOK'
    <2>1. class' \in [Classes -> ClassRow]
      BY <1>0
    <2>2. \A q \in Requests : WellFormed(req'[q])
      BY IdleType DEF Sound, TypeOK
    <2> QED BY <1>0, <2>1, <2>2 DEF TypeOK, WellFormed
  <1>2. ASSUME NEW q \in Requests PROVE (HoldsLocks(q) /\ Covers(q) /\ LooksHigh(q))'
    <2>1. CASE req'[q] = Idle
      BY <2>1, IdleType DEF HoldsLocks, Covers, LooksHigh, LockedPeriodPCs, CreatePCs
    <2>2. CASE req'[q] # Idle
      <3>1. /\ req'[q] = req[q] /\ classLock[c] # q
            /\ \A a \in Classes : classLock[a] = q => classLock'[a] = q
            /\ \A p \in Periods : periodLock[p] = q => periodLock'[p] = q
        BY <2>2
      <3>2. HoldsLocks(q) /\ Covers(q) /\ LooksHigh(q) /\ WellFormed(req[q]) /\ req[q] \in Transaction
        BY DEF Sound, TypeOK
      <3>3. HoldsLocks(q)'
        BY <1>0, <3>1, <3>2 DEF HoldsLocks, WellFormed, LockedPeriodPCs, CreatePCs
      <3>4. Covers(q)'
        BY <3>1, <3>2 DEF Covers, At
      <3>5. LooksHigh(q)'
        <4> SUFFICES ASSUME NEW o \in req[q].others, NEW k \in At(req[q]), k.cls = o[1], k \notin changed'
                     PROVE  class'[k.cls] \in {o[2], Detached(o[2])}
          BY <3>1 DEF LooksHigh, At
        <4>1. /\ class[k.cls] \in {o[2], Detached(o[2])} /\ k.cls \in Classes /\ o[2] \in ClassRow
              /\ k \in slot
          BY <1>0, <3>2 DEF LooksHigh, Transaction, At
        <4>2. CASE k.cls # c
          BY <1>0, <4>1, <4>2
        <4>3. CASE k.cls = c
          <5>1. class'[k.cls] = Detached(class[c])
            BY <1>0, <4>1, <4>3
          <5> QED BY <4>1, <4>3, <5>1, DetachedRow
        <4> QED BY <4>2, <4>3
      <3> QED BY <3>3, <3>4, <3>5
    <2> QED BY <2>1, <2>2
  <1>3. NoDoubleBooking'
    <2> SUFFICES ASSUME NEW j \in slot, NEW k \in slot, SameTime(j, k), Conflict(class'[j.cls], class'[k.cls]),
                        j \notin changed', k \notin changed'
                 PROVE  FALSE
      BY DEF NoDoubleBooking, SameTime, Conflict
    <2>2. /\ j.cls \in Classes /\ k.cls \in Classes
          /\ class[j.cls] \in ClassRow /\ class[k.cls] \in ClassRow
          /\ class'[j.cls] \in ClassRow
          /\ class'[j.cls] \in {class[j.cls], Detached(class[j.cls])}
          /\ class'[k.cls] \in {class[k.cls], Detached(class[k.cls])}
      BY <1>0, DetachedRow DEF Slot
    <2>3. Conflict(class'[j.cls], class[k.cls])
      BY <2>2, DetachedConflicts
    <2>4. Conflict(class[k.cls], class[j.cls])
      BY <2>2, <2>3, ConflictSymmetric, DetachedConflicts
    <2> QED BY <1>0, <2>4, ConflictSymmetric DEF Sound, NoDoubleBooking
  <1> QED BY <1>1, <1>2, <1>3 DEF Sound

LEMMA AttachCommitInv ==
    ASSUME Sound, NEW r \in Requests, AttachCommit(r)
    PROVE  Sound'
  <1> DEFINE c == req[r].cls
             row == [class[c] EXCEPT !.section = req[r].sec]
  <1>1. /\ c \in Classes /\ req[r].sec \in Sections /\ class[c] \in ClassRow /\ classLock[c] = r
        /\ req \in [Requests -> Transaction]
    BY DEF AttachCommit, Sound, TypeOK, WellFormed, HoldsLocks
  <1>2. row \in ClassRow
    BY <1>1 DEF ClassRow
  <1>3. class' = [class EXCEPT ![c] = row] /\ Changes(c) /\ End(r) /\ UNCHANGED slot
    BY <1>1, <1>2 DEF AttachCommit, ClassRow, Sound, TypeOK
  <1>4. /\ req' \in [Requests -> Transaction]
        /\ \A q \in Requests : req'[q] = IF q = r THEN Idle ELSE req[q]
    BY <1>1, <1>3, EndLocks, IdleType
  <1>5. \A q \in Requests : req'[q] = Idle \/
            /\ req'[q] = req[q] /\ classLock[c] # q
            /\ \A a \in Classes : classLock[a] = q => classLock'[a] = q
            /\ \A p \in Periods : periodLock[p] = q => periodLock'[p] = q
    BY <1>1, <1>3, <1>4, EndLocks
  <1>6. /\ classLock' \in [Classes -> Requests \cup {None}]
        /\ periodLock' \in [Periods -> Requests \cup {None}]
    BY <1>3, EndLocks
  <1>7. Marked(c, row)
    BY <1>3 DEF Marked, Changes, Sound, TypeOK
  <1> HIDE DEF row, c
  <1> QED BY <1>1, <1>2, <1>3, <1>4, <1>5, <1>6, <1>7, WriteInv

\* A statement that writes a free row and belongs to no request in progress.
LEMMA FreeWriteInv ==
    ASSUME Sound, NEW c \in Classes, NEW row \in ClassRow, classLock[c] = None,
           class' = [class EXCEPT ![c] = row], UNCHANGED <<slot, classLock, periodLock, req>>,
           (changed' = changed /\ row = Detached(class[c])) \/ Changes(c)
    PROVE  Sound'
  <1>1. \A q \in Requests : classLock[c] # q
    BY TimetableAssumption
  <1>2. Marked(c, row)
    BY DEF Marked, Changes, Sound, TypeOK
  <1> QED BY <1>1, <1>2, WriteInv DEF Sound, TypeOK

LEMMA SingleInv == ASSUME Sound, Single PROVE Sound'
  <1>0. class \in [Classes -> ClassRow]
    BY DEF Sound, TypeOK
  <1>1. ASSUME NEW c \in Classes, Detach(c) PROVE Sound'
    <2> DEFINE row == Detached(class[c])
    <2>1. row \in ClassRow
      BY <1>0, DetachedRow
    <2>2. class' = [class EXCEPT ![c] = row]
      BY <1>0, <1>1 DEF Detach
    <2> QED BY <1>1, <2>1, <2>2, FreeWriteInv DEF Detach, locks
  <1>2. ASSUME NEW c \in Classes, NEW t \in Teachers, PatchTeacher(c, t) PROVE Sound'
    <2> DEFINE row == [class[c] EXCEPT !.teacher = t]
    <2>1. row \in ClassRow
      BY <1>0 DEF ClassRow
    <2>2. class' = [class EXCEPT ![c] = row]
      BY <1>0, <1>2 DEF PatchTeacher, ClassRow
    <2> HIDE DEF row
    <2> QED BY <1>2, <2>1, <2>2, FreeWriteInv DEF PatchTeacher, locks
  <1>3. ASSUME NEW c \in Classes, NEW m \in Rooms \cup {None}, PatchRoom(c, m) PROVE Sound'
    <2> DEFINE row == [class[c] EXCEPT !.room = m]
    <2>1. row \in ClassRow
      BY <1>0 DEF ClassRow
    <2>2. class' = [class EXCEPT ![c] = row]
      BY <1>0, <1>3 DEF PatchRoom, ClassRow
    <2> HIDE DEF row
    <2> QED BY <1>3, <2>1, <2>2, FreeWriteInv DEF PatchRoom, locks
  <1> QED BY <1>1, <1>2, <1>3, DeleteSlotInv DEF Single

-----------------------------------------------------------------------------
(* Every step keeps what the slots and the requests rely on.               *)

LEMMA InitInv == Init => Sound
  <1> SUFFICES ASSUME Init PROVE Sound
    OBVIOUS
  <1>1. TypeOK /\ \A r \in Requests : req[r] = Idle
    BY IdleType DEF Init, TypeOK
  <1>2. \A r \in Requests : HoldsLocks(r) /\ Covers(r) /\ LooksHigh(r)
    BY <1>1, IdleType DEF HoldsLocks, Covers, LooksHigh, LockedPeriodPCs, CreatePCs
  <1>3. NoDoubleBooking
    BY DEF Init, NoDoubleBooking
  <1> QED BY <1>1, <1>2, <1>3 DEF Sound

\* A commit of create or attach_class, a refusal or a step before them.
LEMMA ContinueInv == ASSUME Sound, NEW r \in Requests, Continue(r) PROVE Sound'
  <1>1. ASSUME CreateRefuse(r) PROVE Sound'
    BY <1>1, RollbackInv DEF CreateRefuse
  <1> QED BY <1>1, CreateLockPeriodInv, ReadsInv, CreateCommitInv, AttachCommitInv DEF Continue

LEMMA StutterInv == Sound /\ UNCHANGED vars => Sound'
  <1> SUFFICES ASSUME Sound, UNCHANGED vars PROVE Sound'
    OBVIOUS
  <1>1. UNCHANGED <<tables, classLock, periodLock, req>>
    BY DEF vars, locks
  <1>2. TypeOK'
    BY <1>1 DEF Sound, TypeOK, WellFormed
  <1>3. \A r \in Requests : (HoldsLocks(r) /\ Covers(r) /\ LooksHigh(r))'
    BY <1>1 DEF Sound, HoldsLocks, Covers, LooksHigh, At
  <1>4. NoDoubleBooking'
    BY <1>1 DEF Sound, NoDoubleBooking, SameTime
  <1> QED BY <1>2, <1>3, <1>4 DEF Sound

LEMMA NextInv == Sound /\ [Next]_vars => Sound'
  <1> SUFFICES ASSUME Sound, Next PROVE Sound'
    BY StutterInv
  <1>1. ASSUME NEW r \in Requests, Start(r) PROVE Sound'
    BY <1>1, CreateLockClassInv, AttachLockInv DEF Start
  <1>2. ASSUME NEW r \in Requests, Abort(r) PROVE Sound'
    BY <1>2, RollbackInv DEF Abort
  <1> QED BY <1>1, <1>2, ContinueInv, SingleInv DEF Next

-----------------------------------------------------------------------------
(* Who holds the locks, and who waits for whom.                            *)

\* r moves on to t, and what it holds afterwards t accounts for.
LEMMA LocksFollow ==
    ASSUME Sound, LocksOwned, NEW r \in Requests, NEW t, Become(r, t),
           \A c \in Classes : \/ classLock'[c] \in {None, classLock[c]} /\ classLock'[c] # r
                              \/ classLock'[c] = r /\ t.pc # "idle" /\ t.cls = c,
           \A p \in Periods : \/ periodLock'[p] \in {None, periodLock[p]} /\ periodLock'[p] # r
                              \/ periodLock'[p] = r /\ t.pc \in LockedPeriodPCs /\ t.period = p
    PROVE  LocksOwned'
  <1>1. /\ req'[r] = t /\ \A q \in Requests \ {r} : req'[q] = req[q]
        /\ classLock \in [Classes -> Requests \cup {None}]
        /\ periodLock \in [Periods -> Requests \cup {None}]
    BY DEF Become, Sound, TypeOK
  <1> QED BY <1>1 DEF LocksOwned

LEMMA EndOwned ==
    ASSUME Sound, LocksOwned, NEW r \in Requests, End(r)
    PROVE  LocksOwned'
  <1>1. Become(r, Idle) /\ None # r
    BY TimetableAssumption DEF End
  <1>2. /\ \A c \in Classes : classLock'[c] \in {None, classLock[c]} /\ classLock'[c] # r
        /\ \A p \in Periods : periodLock'[p] \in {None, periodLock[p]} /\ periodLock'[p] # r
    BY <1>1 DEF End
  <1> QED BY <1>1, <1>2, LocksFollow

\* A step that moves within create and takes no lock.
LEMMA MovesOwned ==
    ASSUME Sound, LocksOwned, NEW r \in Requests, NEW t, Become(r, t), UNCHANGED locks,
           t.pc # "idle", t.cls = req[r].cls, t.period = req[r].period,
           req[r].pc \in LockedPeriodPCs => t.pc \in LockedPeriodPCs
    PROVE  LocksOwned'
  <1>1. /\ \A c \in Classes : classLock[c] = r => req[r].cls = c
        /\ \A p \in Periods : periodLock[p] = r => req[r].pc \in LockedPeriodPCs /\ req[r].period = p
        /\ None # r
    BY TimetableAssumption DEF LocksOwned
  <1>2. classLock' = classLock /\ periodLock' = periodLock
    BY DEF locks
  <1> QED BY <1>1, <1>2, LocksFollow

\* A request that starts holds nothing.
LEMMA IdleHoldsNothing ==
    ASSUME LocksOwned, NEW r \in Requests, req[r] = Idle
    PROVE  /\ \A c \in Classes : classLock[c] # r
           /\ \A p \in Periods : periodLock[p] # r
  <1>1. Idle.pc = "idle" /\ "idle" \notin LockedPeriodPCs /\ None # r
    BY TimetableAssumption DEF Idle, LockedPeriodPCs
  <1> QED BY <1>1 DEF LocksOwned

LEMMA StartOwned ==
    ASSUME Sound, LocksOwned, NEW r \in Requests, Start(r)
    PROVE  LocksOwned'
  <1>1. classLock \in [Classes -> Requests \cup {None}]
    BY DEF Sound, TypeOK
  <1>2. ASSUME NEW c \in Classes, NEW d \in Days, NEW p \in Periods, CreateLockClass(r, c, d, p)
        PROVE  LocksOwned'
    <2> DEFINE t == [Idle EXCEPT !.pc = "class_locked", !.cls = c, !.day = d, !.period = p,
                                 !.row = class[c]]
    <2>1. t.pc = "class_locked" /\ t.cls = c
      BY DEF Idle
    <2>2. /\ Become(r, t) /\ req[r] = Idle /\ periodLock' = periodLock
          /\ \A a \in Classes : classLock'[a] = IF a = c THEN r ELSE classLock[a]
      BY <1>1, <1>2 DEF CreateLockClass
    <2> HIDE DEF t
    <2> QED BY <2>1, <2>2, IdleHoldsNothing, LocksFollow
  <1>3. ASSUME NEW x \in Sections, NEW c \in Classes, AttachLock(r, x, c)
        PROVE  LocksOwned'
    <2> DEFINE t == [Idle EXCEPT !.pc = "attach_locked", !.cls = c, !.sec = x]
    <2>1. t.pc = "attach_locked" /\ t.cls = c
      BY DEF Idle
    <2>2. /\ Become(r, t) /\ req[r] = Idle /\ periodLock' = periodLock
          /\ \A a \in Classes : classLock'[a] = IF a = c THEN r ELSE classLock[a]
      BY <1>1, <1>3 DEF AttachLock
    <2> HIDE DEF t
    <2> QED BY <2>1, <2>2, IdleHoldsNothing, LocksFollow
  <1> QED BY <1>2, <1>3 DEF Start

LEMMA ContinueOwned ==
    ASSUME Sound, LocksOwned, NEW r \in Requests, Continue(r)
    PROVE  LocksOwned'
  <1>t. /\ req[r] \in Transaction /\ WellFormed(req[r])
        /\ periodLock \in [Periods -> Requests \cup {None}]
    BY DEF Sound, TypeOK
  <1>r. ASSUME Rollback(r) PROVE LocksOwned'
    BY <1>r, EndOwned DEF Rollback
  <1>1. CASE CreateLockPeriod(r)
    <2> DEFINE t == [req[r] EXCEPT !.pc = "period_locked"]
    <2>1. /\ t.pc = "period_locked" /\ t.cls = req[r].cls /\ t.period = req[r].period
          /\ req[r].pc = "class_locked" /\ req[r].period \in Periods
      BY <1>t, <1>1 DEF CreateLockPeriod, Transaction, WellFormed, CreatePCs
    <2>2. /\ Become(r, t) /\ classLock' = classLock
          /\ \A p \in Periods : periodLock'[p] = IF p = req[r].period THEN r ELSE periodLock[p]
      BY <1>t, <1>1 DEF CreateLockPeriod
    <2>3. /\ \A c \in Classes : classLock[c] = r => req[r].cls = c
          /\ \A p \in Periods : periodLock[p] # r
      BY <2>1, TimetableAssumption DEF LocksOwned, LockedPeriodPCs
    <2> HIDE DEF t
    <2> QED BY <2>1, <2>2, <2>3, LocksFollow DEF LockedPeriodPCs
  <1>2. CASE CreateCheckOwn(r)
    <2> DEFINE t == [req[r] EXCEPT !.pc = "own_free"]
    <2>1. t.pc = "own_free" /\ t.cls = req[r].cls /\ t.period = req[r].period
      BY <1>t DEF Transaction
    <2>2. ASSUME Become(r, t), UNCHANGED <<tables, locks>> PROVE LocksOwned'
      <3> HIDE DEF t
      <3> QED BY <2>1, <2>2, MovesOwned DEF LockedPeriodPCs
    <2> QED BY <1>2, <1>r, <2>2 DEF CreateCheckOwn
  <1>3. CASE CreateList(r)
    <2> DEFINE t == [req[r] EXCEPT !.pc = "looking", !.todo = {k.cls : k \in At(req[r])} \ {req[r].cls}]
    <2>1. t.pc = "looking" /\ t.cls = req[r].cls /\ t.period = req[r].period
      BY <1>t DEF Transaction
    <2>2. Become(r, t) /\ UNCHANGED locks
      BY <1>3 DEF CreateList
    <2> HIDE DEF t
    <2> QED BY <2>1, <2>2, MovesOwned DEF LockedPeriodPCs
  <1>4. ASSUME NEW c \in Classes, CreateLook(r, c) PROVE LocksOwned'
    <2> DEFINE t == [req[r] EXCEPT !.todo = @ \ {c}, !.others = @ \cup {<<c, class[c]>>}]
    <2>1. t.pc = "looking" /\ t.cls = req[r].cls /\ t.period = req[r].period
      BY <1>t, <1>4 DEF CreateLook, Transaction
    <2>2. Become(r, t) /\ UNCHANGED locks
      BY <1>4 DEF CreateLook
    <2> HIDE DEF t
    <2> QED BY <2>1, <2>2, MovesOwned DEF LockedPeriodPCs
  <1>5. CASE CreateRefuse(r) \/ CreateCommit(r) \/ AttachCommit(r)
    <2>1. End(r)
      BY <1>5 DEF CreateRefuse, CreateCommit, AttachCommit, Rollback
    <2> QED BY <2>1, EndOwned
  <1> QED BY <1>1, <1>2, <1>3, <1>4, <1>5 DEF Continue

LEMMA NextOwned == Sound /\ LocksOwned /\ [Next]_vars => LocksOwned'
  <1> SUFFICES ASSUME Sound, LocksOwned, [Next]_vars PROVE LocksOwned'
    OBVIOUS
  <1>1. ASSUME NEW r \in Requests, Abort(r) PROVE LocksOwned'
    BY <1>1, EndOwned DEF Abort, Rollback
  <1>2. CASE Single \/ UNCHANGED vars
    <2>1. UNCHANGED <<classLock, periodLock, req>>
      BY <1>2 DEF Single, DeleteSlot, Detach, PatchTeacher, PatchRoom, locks, vars
    <2> QED BY <2>1 DEF LocksOwned
  <1> QED BY <1>1, <1>2, StartOwned, ContinueOwned DEF Next

\* Who waits holds a class and waits for a period; who holds a period is past
\* its last lock.
LEMMA NobodyInACircle == Sound /\ LocksOwned => NoDeadlock
  <1> SUFFICES ASSUME Sound, LocksOwned, NEW S \in SUBSET Requests, S # {}
               PROVE  \E r \in S : \A q \in S : ~WaitsFor(r, q)
    BY DEF NoDeadlock
  <1>1. CASE \E r \in S : req[r].pc # "class_locked"
    BY <1>1 DEF WaitsFor
  <1>2. CASE \A r \in S : req[r].pc = "class_locked"
    <2>1. ASSUME NEW r \in S, NEW q \in S, WaitsFor(r, q) PROVE FALSE
      <3>1. req[r].period \in Periods /\ periodLock[req[r].period] = q
        BY <1>2, <2>1 DEF WaitsFor, Sound, TypeOK, WellFormed, CreatePCs
      <3> QED BY <1>2, <3>1, TimetableAssumption DEF LocksOwned, LockedPeriodPCs
    <2> QED BY <1>2, <2>1
  <1> QED BY <1>1, <1>2

-----------------------------------------------------------------------------
(* One section, one place: what the lock on the class's row does achieve.  *)

\* A step that writes no class and inserts no slot, r looking at nothing it has
\* not just read.
LEMMA SameClasses ==
    ASSUME Sound, SectionsApart, class' = class, slot' \subseteq slot,
           \A q \in Requests : \A o \in req'[q].others :
              \/ req'[q].day = req[q].day /\ req'[q].period = req[q].period /\ o \in req[q].others
              \/ o[2] = class[o[1]]
    PROVE  SectionsApart'
  <1>1. SectionInOnePlace'
    BY DEF SectionsApart, SectionInOnePlace, SameTime
  <1>2. ASSUME NEW q \in Requests, NEW o \in req'[q].others, NEW k \in At(req[q])', k.cls = o[1]
        PROVE  class'[k.cls].section \in {o[2].section, None}
    BY <1>2 DEF SectionsApart, SectionsSeen, At
  <1> QED BY <1>1, <1>2 DEF SectionsApart, SectionsSeen

\* r moves on and reads no competitor.
LEMMA NothingSeen ==
    ASSUME Sound, SectionsApart, NEW r \in Requests, NEW t, Become(r, t), t.others = {},
           class' = class, slot' \subseteq slot
    PROVE  SectionsApart'
  <1>1. \A q \in Requests : req'[q] = IF q = r THEN t ELSE req[q]
    BY DEF Become, Sound, TypeOK
  <1> QED BY <1>1, SameClasses

LEMMA ReadsApart ==
    ASSUME Sound, SectionsApart, NEW r \in Requests, Continue(r), ~CreateCommit(r), ~AttachCommit(r)
    PROVE  SectionsApart'
  <1>t. req[r] \in Transaction /\ WellFormed(req[r])
    BY DEF Sound, TypeOK
  <1>1. ASSUME NEW pc, req[r].pc # "looking", Become(r, [req[r] EXCEPT !.pc = pc]), UNCHANGED tables
        PROVE  SectionsApart'
    <2> DEFINE t == [req[r] EXCEPT !.pc = pc]
    <2>1. t.others = {}
      BY <1>t, <1>1 DEF Transaction, WellFormed
    <2> HIDE DEF t
    <2> QED BY <1>1, <2>1, NothingSeen DEF t
  <1>2. ASSUME Rollback(r) PROVE SectionsApart'
    BY <1>2, IdleType, NothingSeen DEF Rollback, End
  <1>3. CASE CreateLockPeriod(r) \/ CreateCheckOwn(r) \/ CreateRefuse(r)
    BY <1>1, <1>2, <1>3 DEF CreateLockPeriod, CreateCheckOwn, CreateRefuse
  <1>4. CASE CreateList(r)
    <2> DEFINE T == {k.cls : k \in At(req[r])} \ {req[r].cls}
               t == [req[r] EXCEPT !.pc = "looking", !.todo = T]
    <2>1. t.others = {} /\ Become(r, t) /\ UNCHANGED tables
      BY <1>t, <1>4 DEF CreateList, Transaction, WellFormed
    <2> HIDE DEF t, T
    <2> QED BY <2>1, NothingSeen
  <1>5. ASSUME NEW c \in Classes, CreateLook(r, c) PROVE SectionsApart'
    <2> DEFINE t == [req[r] EXCEPT !.todo = req[r].todo \ {c}, !.others = req[r].others \cup {<<c, class[c]>>}]
    <2>1. /\ t.day = req[r].day /\ t.period = req[r].period
          /\ t.others = req[r].others \cup {<<c, class[c]>>}
      BY <1>t DEF Transaction
    <2>2. Become(r, t) /\ UNCHANGED tables
      BY <1>5 DEF CreateLook
    <2> HIDE DEF t
    <2>3. \A q \in Requests : req'[q] = IF q = r THEN t ELSE req[q]
      BY <2>2 DEF Become, Sound, TypeOK
    <2> QED BY <2>1, <2>2, <2>3, SameClasses
  <1> QED BY <1>3, <1>4, <1>5 DEF Continue

\* Whoever commits a slot has read every competitor under the period's lock.
LEMMA CommitApart ==
    ASSUME Sound, SectionsApart, NEW r \in Requests, CreateCommit(r)
    PROVE  SectionsApart'
  <1> DEFINE t == req[r]
             n == [cls |-> t.cls, day |-> t.day, period |-> t.period]
  <1>0. /\ t \in Transaction /\ WellFormed(t) /\ t.pc = "looking"
        /\ req \in [Requests -> Transaction] /\ slot \subseteq Slot
        /\ class \in [Classes -> ClassRow]
    BY DEF Sound, TypeOK, CreateCommit, Passed
  <1>1. /\ Passed(t) /\ End(r) /\ class' = class /\ slot' = slot \cup {n}
        /\ \A k \in At(t) : k.cls # t.cls
        /\ n.cls = t.cls /\ n.day = t.day /\ n.period = t.period
    BY DEF CreateCommit
  <1>2. \A q \in Requests : req'[q] = IF q = r THEN Idle ELSE req[q]
    BY <1>0, <1>1, EndLocks
  <1>3. ASSUME NEW q \in Requests PROVE SectionsSeen(q)'
    <2>1. CASE q = r
      BY <1>2, <2>1, IdleType DEF SectionsSeen
    <2>2. CASE q # r
      <3>1. req'[q] = req[q] /\ SectionsSeen(q) /\ WellFormed(req[q])
        BY <1>2, <2>2 DEF Sound, TypeOK, SectionsApart
      <3>2. req[q].pc = "looking" => req[q].period # t.period
        BY <1>0, <2>2 DEF Sound, HoldsLocks, LockedPeriodPCs
      <3>3. req[q].pc = "looking" => At(req[q])' = At(req[q])
        BY <1>1, <3>1, <3>2 DEF At
      <3> QED BY <1>1, <3>1, <3>3 DEF SectionsSeen, WellFormed
    <2> QED BY <2>1, <2>2
  <1>4. ASSUME NEW j \in slot, SameTime(j, n)
        PROVE  class[j.cls].section = None \/ class[j.cls].section # class[n.cls].section
    <2>1. j \in At(t) /\ j.cls # t.cls
      BY <1>1, <1>4 DEF At, SameTime
    <2>2. PICK o \in t.others : o[1] = j.cls /\ ~Conflict(class[t.cls], o[2])
      BY <1>1, <2>1, AllLooked
    <2>3. class[j.cls].section \in {o[2].section, None}
      BY <2>1, <2>2 DEF SectionsApart, SectionsSeen
    <2> QED BY <1>1, <2>2, <2>3 DEF Conflict
  <1>5. SectionInOnePlace'
    <2>1. ASSUME NEW j \in slot \cup {n}, NEW k \in slot \cup {n}, SameTime(j, k)
          PROVE  class[j.cls].section = None \/ class[j.cls].section # class[k.cls].section
      <3>1. CASE j \in slot /\ k \in slot
        BY <2>1, <3>1 DEF SectionsApart, SectionInOnePlace
      <3>2. CASE j \in slot /\ k = n
        BY <1>4, <2>1, <3>2
      <3>3. CASE j = n /\ k \in slot
        <4>1. SameTime(k, n)
          BY <2>1, <3>3 DEF SameTime
        <4> QED BY <1>4, <3>3, <4>1
      <3>4. CASE j = n /\ k = n
        BY <2>1, <3>4 DEF SameTime
      <3> QED BY <3>1, <3>2, <3>3, <3>4
    <2> QED BY <1>1, <2>1 DEF SectionInOnePlace, SameTime
  <1> QED BY <1>3, <1>5 DEF SectionsApart

\* A step that writes classes gives none that has a slot another section.
LEMMA WritesApart ==
    ASSUME Sound, SectionsApart, ScheduledNotAttached, slot' \subseteq slot,
           \A q \in Requests : req'[q] = req[q] \/ req'[q] = Idle
    PROVE  SectionsApart'
  <1>1. SectionInOnePlace'
    BY DEF SectionsApart, SectionInOnePlace, SameTime, ScheduledNotAttached
  <1>2. ASSUME NEW q \in Requests PROVE SectionsSeen(q)'
    <2>1. CASE req'[q] = Idle
      BY <2>1, IdleType DEF SectionsSeen
    <2>2. CASE req'[q] = req[q]
      BY <2>2 DEF SectionsApart, SectionsSeen, At, ScheduledNotAttached
    <2> QED BY <2>1, <2>2
  <1> QED BY <1>1, <1>2 DEF SectionsApart

LEMMA NextApart ==
    ASSUME Sound, SectionsApart, [Next]_vars, ScheduledNotAttached
    PROVE  SectionsApart'
  <1>1. ASSUME NEW r \in Requests, Start(r) PROVE SectionsApart'
    <2>1. ASSUME NEW c \in Classes, NEW d \in Days, NEW p \in Periods, CreateLockClass(r, c, d, p)
          PROVE  SectionsApart'
      <3> DEFINE t == [Idle EXCEPT !.pc = "class_locked", !.cls = c, !.day = d, !.period = p,
                                   !.row = class[c]]
      <3>1. t.others = {} /\ Become(r, t) /\ UNCHANGED tables
        BY <2>1 DEF CreateLockClass, Idle
      <3> HIDE DEF t
      <3> QED BY <3>1, NothingSeen
    <2>2. ASSUME NEW x \in Sections, NEW c \in Classes, AttachLock(r, x, c) PROVE SectionsApart'
      <3> DEFINE t == [Idle EXCEPT !.pc = "attach_locked", !.cls = c, !.sec = x]
      <3>1. t.others = {} /\ Become(r, t) /\ UNCHANGED tables
        BY <2>2 DEF AttachLock, Idle
      <3> HIDE DEF t
      <3> QED BY <3>1, NothingSeen
    <2> QED BY <1>1, <2>1, <2>2 DEF Start
  <1>2. ASSUME NEW r \in Requests, Abort(r) PROVE SectionsApart'
    BY <1>2, IdleType, NothingSeen DEF Abort, Rollback, End
  <1>3. ASSUME NEW r \in Requests, AttachCommit(r) PROVE SectionsApart'
    <2>1. slot' = slot /\ \A q \in Requests : req'[q] = req[q] \/ req'[q] = Idle
      BY <1>3, EndLocks DEF AttachCommit, Sound, TypeOK
    <2> QED BY <2>1, WritesApart
  <1>4. CASE Single \/ UNCHANGED vars
    <2>1. slot' \subseteq slot /\ req' = req
      BY <1>4 DEF Single, DeleteSlot, Detach, PatchTeacher, PatchRoom, locks, vars
    <2> QED BY <2>1, WritesApart
  <1> QED BY <1>1, <1>2, <1>3, <1>4, ReadsApart, CommitApart DEF Next

-----------------------------------------------------------------------------
(* The theorems.                                                           *)

\* The invariant behind the conflict rules.
THEOREM InductiveInvariant == Spec => []Inductive
  <1>1. Init => Inductive
    BY InitInv DEF Init, Inductive, LocksOwned
  <1>2. Inductive /\ [Next]_vars => Inductive'
    BY NextInv, NextOwned DEF Inductive
  <1> QED BY <1>1, <1>2, PTL DEF Spec

\* Every row, request and lock has the shape the code gives it.
THEOREM TypeCorrect == Spec => []TypeOK
  <1>1. Inductive => TypeOK
    BY DEF Inductive, Sound
  <1> QED BY <1>1, InductiveInvariant, PTL

\* No teacher, room or section is in two places at once but by a slot whose
\* class was changed after it was inserted.
THEOREM NeverDoubleBooked == Spec => []NoDoubleBooking
  <1>1. Inductive => NoDoubleBooking
    BY DEF Inductive, Sound
  <1> QED BY <1>1, InductiveInvariant, PTL

\* No requests, however many, wait for each other in a circle: of any set of
\* them one waits for none of the others.
THEOREM NeverDeadlocked == Spec => []NoDeadlock
  <1>1. Inductive => NoDeadlock
    BY NobodyInACircle DEF Inductive
  <1> QED BY <1>1, InductiveInvariant, PTL

\* Whatever changes beside it, create commits no slot in conflict with a
\* class as it read it.
THEOREM OnlyTheUnseenConflicts == Spec => ConflictsOnlyUnseen
  <1> DEFINE Unseen(k, j) == \E r \in Requests :
               /\ req[r].cls = k.cls /\ req'[r] # req[r]
               /\ \E o \in req[r].others : o[1] = j.cls /\ o[2] # class[j.cls]
  <1>1. ASSUME Sound, NEW r \in Requests, CreateCommit(r), NEW k \in slot' \ slot, NEW j \in slot,
               SameTime(j, k), Conflict(class[k.cls], class[j.cls])
        PROVE  Unseen(k, j)
    <2>1. /\ k = [cls |-> req[r].cls, day |-> req[r].day, period |-> req[r].period]
          /\ Passed(req[r]) /\ \A i \in At(req[r]) : i.cls # req[r].cls
      BY <1>1 DEF CreateCommit
    <2>2. j \in At(req[r]) /\ j.cls # req[r].cls
      BY <1>1, <2>1 DEF At, SameTime
    <2>3. PICK o \in req[r].others : o[1] = j.cls /\ ~Conflict(class[req[r].cls], o[2])
      BY <1>1, <2>1, <2>2, AllLooked
    <2>4. o[2] # class[j.cls]
      BY <1>1, <2>1, <2>3
    <2>5. req'[r] # req[r]
      <3>1. req'[r] = Idle
        BY <1>1, EndLocks DEF CreateCommit, Sound, TypeOK
      <3> QED BY <2>1, <3>1, IdleType DEF Passed
    <2> QED BY <2>1, <2>3, <2>4, <2>5
  <1>2. ASSUME Next, NEW k \in slot' \ slot PROVE \E r \in Requests : CreateCommit(r)
    BY <1>2 DEF Next, Start, Continue, Single, Abort, Rollback, CreateLockClass, CreateLockPeriod, CreateCheckOwn,
                CreateList, CreateLook, CreateRefuse, AttachLock, AttachCommit, DeleteSlot, Detach, PatchTeacher,
                PatchRoom
  <1>3. Inductive /\ [Next]_vars =>
          [\A k \in slot' \ slot, j \in slot :
             SameTime(j, k) /\ Conflict(class[k.cls], class[j.cls]) => Unseen(k, j)]_vars
    BY <1>1, <1>2 DEF Inductive
  <1> QED BY <1>3, InductiveInvariant, PTL DEF Spec, ConflictsOnlyUnseen

\* A section is in two places at one time only if a class that already had a
\* slot was attached to it: create itself lets none through, whatever it runs
\* beside.
THEOREM SectionsApartUnlessAttachedLater == Spec /\ [][ScheduledNotAttached]_vars => []SectionInOnePlace
  <1>1. Init => SectionsApart
    BY IdleType DEF Init, SectionsApart, SectionInOnePlace, SectionsSeen
  <1>2. Inductive /\ SectionsApart /\ [Next]_vars /\ [ScheduledNotAttached]_vars => SectionsApart'
    <2> SUFFICES ASSUME Inductive, SectionsApart, [Next]_vars, [ScheduledNotAttached]_vars PROVE SectionsApart'
      OBVIOUS
    <2>1. ScheduledNotAttached
      BY DEF ScheduledNotAttached, vars
    <2> QED BY <2>1, NextApart DEF Inductive
  <1>3. SectionsApart => SectionInOnePlace
    BY DEF SectionsApart
  <1> QED BY <1>1, <1>2, <1>3, InductiveInvariant, PTL DEF Spec
=============================================================================
