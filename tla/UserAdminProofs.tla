--------------------------- MODULE UserAdminProofs ---------------------------
(* Theorems about UserAdmin for every set of accounts and requests.        *)
EXTENDS UserAdminInvariant, FiniteSetTheorems, TLAPS

-----------------------------------------------------------------------------
(* Rows and changes.                                                       *)

LEMMA RowTypes ==
    /\ SuperAdmin \in Row /\ NoChange \in Change /\ Row \subseteq Change
    /\ None \notin Row /\ SuperAdmin # None
  BY UserAdminAssumption, NoneIsNoRecord DEF SuperAdmin, NoChange, Row, Change, Roles, Statuses

LEMMA WrittenType ==
    ASSUME NEW row \in Row, NEW chg \in Change
    PROVE  Written(row, chg) \in Row /\ Changed(row, chg) \in Change
  BY DEF Written, Changed, Row, Change

LEMMA NothingWritten ==
    ASSUME NEW row \in Row
    PROVE  Written(row, NoChange) = row
  BY DEF Written, NoChange, Row

\* A change that does not ask for an active super admin makes none.
LEMMA WrittenNotHigher ==
    ASSUME NEW row \in Row, NEW chg \in Change,
           chg.role # "super_admin", chg.status # "active",
           Written(row, chg) = SuperAdmin
    PROVE  row = SuperAdmin
  BY DEF Written, Row, SuperAdmin

LEMMA IdleType == Idle \in Transaction /\ WellFormed(Idle) /\ Idle.pc = "idle"
  BY RowTypes DEF Idle, Transaction, PCs, WellFormed, UpdatePCs, NoChange

-----------------------------------------------------------------------------
(* Steps that only move a request's own transaction on.                    *)

Moves(r, t) == Become(r, t) /\ UNCHANGED <<account, logged, lock>>

LEMMA BecomeType ==
    ASSUME TypeInv, NEW r \in Requests, NEW t \in Transaction, WellFormed(t), Become(r, t)
    PROVE  /\ req' \in [Requests -> Transaction]
           /\ \A q \in Requests : WellFormed(req'[q])
           /\ \A q \in Requests : req'[q] = IF q = r THEN t ELSE req[q]
  BY DEF TypeInv, TypeOK, Become

LEMMA MovesInv ==
    ASSUME SafeInv, NEW r \in Requests, NEW t \in Transaction, WellFormed(t),
           Good(r, t), Moves(r, t)
    PROVE  SafeInv'
  <1>1. \A q \in Requests : req'[q] = IF q = r THEN t ELSE req[q]
    BY BecomeType DEF Moves, SafeInv
  <1>2. TypeInv'
    BY BecomeType DEF Moves, SafeInv, TypeInv, TypeOK
  <1>3. UNCHANGED <<account, logged, lock>>
    BY DEF Moves
  <1>4. \A q \in Requests, u \in Users : HasFlushed(q, u)' =>
           IF q = r THEN Dirty(t) /\ t.target = u ELSE HasFlushed(q, u)
    BY <1>1 DEF HasFlushed, Dirty
  <1>5. ASSUME NEW q \in Requests PROVE Good(q, req[q])'
    <2>1. CASE q = r
      <3>1. req'[q] = t
        BY <1>1, <2>1
      <3>2. ReadsHigh(req[q])' /\ CountHolds(q, req[q])' /\ FlushSafe(q, req[q])'
        BY <1>3, <2>1, <3>1 DEF Good, ReadsHigh, CountHolds, FlushSafe, Dirty, SuperAdmin, Stored, OnlyDemotions
      <3>3. FlushAlone(q, req[q])'
        <4>1. SUFFICES ASSUME Dirty(t) PROVE lock[t.target] \in {None, r} /\ \A p \in Requests \ {r} : ~HasFlushed(p, t.target)'
          BY <1>3, <2>1, <3>1 DEF FlushAlone, Dirty
        <4>2. t.target \in Users
          BY <4>1 DEF Dirty, WellFormed
        <4> QED BY <1>4, <4>1, <4>2 DEF Good, FlushAlone
      <3> QED BY <3>2, <3>3 DEF Good
    <2>2. CASE q # r
      <3>1. req'[q] = req[q] /\ Good(q, req[q])
        BY <1>1, <2>2 DEF SafeInv
      <3>2. ReadsHigh(req[q])' /\ CountHolds(q, req[q])' /\ FlushSafe(q, req[q])'
        BY <1>3, <3>1 DEF Good, ReadsHigh, CountHolds, FlushSafe, Dirty, SuperAdmin, Stored, OnlyDemotions
      <3>3. FlushAlone(q, req[q])'
        <4>1. SUFFICES ASSUME Dirty(req[q])
                       PROVE  /\ lock[req[q].target] \in {None, q}
                              /\ \A p \in Requests \ {q} : ~HasFlushed(p, req[q].target)'
          BY <1>3, <3>1 DEF FlushAlone, Dirty
        <4>2. req[q].target \in Users
          BY <4>1 DEF Dirty, WellFormed, SafeInv, TypeInv
        <4>3. HasFlushed(q, req[q].target)
          BY <4>1 DEF Dirty, HasFlushed
        <4>4. lock[req[q].target] \in {None, q} /\ \A p \in Requests \ {q} : ~HasFlushed(p, req[q].target)
          BY <3>1, <4>1 DEF Good, FlushAlone
        <4>5. ~(Dirty(t) /\ t.target = req[q].target)
          BY <2>2, <4>3 DEF Good, FlushAlone
        <4> QED BY <1>4, <3>1, <4>2, <4>4, <4>5
      <3> QED BY <3>2, <3>3 DEF Good
    <2> QED BY <2>1, <2>2
  <1>6. OnlyDemotions => SuperAdminRemains'
    BY <1>3 DEF SafeInv, SuperAdminRemains, ActiveSuperAdmins, SuperAdmin
  <1> QED BY <1>2, <1>5, <1>6 DEF SafeInv, OnlyDemotions

-----------------------------------------------------------------------------
(* Steps that end a request, and the one that locks a row.                 *)

LEMMA EndType ==
    ASSUME TypeInv, NEW r \in Requests, End(r)
    PROVE  /\ req' \in [Requests -> Transaction]
           /\ \A q \in Requests : WellFormed(req'[q])
           /\ \A q \in Requests : req'[q] = IF q = r THEN Idle ELSE req[q]
           /\ lock' \in [Users -> Requests \cup {None}]
           /\ \A u \in Users : lock'[u] = IF lock[u] = r THEN None ELSE lock[u]
  <1>1. Become(r, Idle)
    BY DEF End
  <1>2. lock' \in [Users -> Requests \cup {None}] /\ \A u \in Users : lock'[u] = IF lock[u] = r THEN None ELSE lock[u]
    BY DEF End, TypeInv, TypeOK
  <1> QED BY <1>1, <1>2, IdleType, BecomeType

LEMMA EndGood ==
    ASSUME SafeInv, NEW r \in Requests, End(r)
    PROVE  Good(r, req[r])'
  <1>1. req'[r] = Idle /\ \A u \in Users : lock'[u] # r
    BY UserAdminAssumption, EndType DEF SafeInv
  <1> QED BY <1>1 DEF Good, ReadsHigh, CountHolds, FlushSafe, FlushAlone, Dirty, Idle, UpdatePCs, Stored

\* The others keep their locks.
LEMMA EndLocks ==
    ASSUME SafeInv, NEW r \in Requests, End(r), NEW q \in Requests, q # r
    PROVE  \A u \in Users : lock[u] = q <=> lock'[u] = q
  BY UserAdminAssumption, EndType DEF SafeInv

\* What r has flushed is not the business of another request that goes on.
LEMMA EndFlushAlone ==
    ASSUME SafeInv, NEW r \in Requests, End(r), NEW q \in Requests, q # r
    PROVE  FlushAlone(q, req[q])'
  <1>1. req'[q] = req[q] /\ FlushAlone(q, req[q])
    BY EndType DEF SafeInv, Good
  <1>2. SUFFICES ASSUME Dirty(req[q])
                 PROVE  /\ lock'[req[q].target] \in {None, q}
                        /\ \A p \in Requests \ {q} : ~HasFlushed(p, req[q].target)'
    BY <1>1 DEF FlushAlone, Dirty
  <1>3. req[q].target \in Users
    BY <1>2 DEF Dirty, WellFormed, SafeInv, TypeInv
  <1>4. \A p \in Requests : HasFlushed(p, req[q].target)' => HasFlushed(p, req[q].target)
    BY <1>1, EndType, IdleType DEF HasFlushed, SafeInv
  <1> QED BY <1>1, <1>2, <1>3, <1>4, EndType DEF FlushAlone, SafeInv

LEMMA RollbackInv ==
    ASSUME SafeInv, NEW r \in Requests, Rollback(r)
    PROVE  SafeInv'
  <1>1. End(r) /\ UNCHANGED <<account, logged>>
    BY DEF Rollback
  <1>2. TypeInv'
    BY <1>1, EndType DEF SafeInv, TypeInv, TypeOK
  <1>3. ASSUME NEW q \in Requests PROVE Good(q, req[q])'
    <2>1. CASE q = r
      BY <1>1, <2>1, EndGood
    <2>2. CASE q # r
      <3>1. req'[q] = req[q] /\ Good(q, req[q]) /\ WellFormed(req[q]) /\ req[q] \in Transaction
        BY <1>1, <2>2, EndType DEF SafeInv, TypeInv, TypeOK
      <3>2. \A u \in Users : lock[u] = q <=> lock'[u] = q
        BY <1>1, <2>2, EndLocks
      <3>3. ReadsHigh(req[q])'
        BY <1>1, <3>1 DEF Good, ReadsHigh, SuperAdmin, OnlyDemotions
      <3>4. CountHolds(q, req[q])'
        BY <1>1, <3>1, <3>2 DEF Good, CountHolds, SuperAdmin, Transaction
      <3>5. FlushSafe(q, req[q])'
        BY <1>1, <3>1, <3>2 DEF Good, FlushSafe, Dirty, SuperAdmin, Stored, OnlyDemotions
      <3> QED BY <1>1, <2>2, <3>3, <3>4, <3>5, EndFlushAlone DEF Good
    <2> QED BY <2>1, <2>2
  <1>4. OnlyDemotions => SuperAdminRemains'
    BY <1>1 DEF SafeInv, SuperAdminRemains, ActiveSuperAdmins, SuperAdmin
  <1> QED BY <1>2, <1>3, <1>4 DEF SafeInv, OnlyDemotions

LEMMA CountRowInv ==
    ASSUME SafeInv, NEW r \in Requests, NEW u \in Users, CountRow(r, u)
    PROVE  SafeInv'
  <1> DEFINE n == IF account[u] = SuperAdmin THEN req[r].counted \cup {u} ELSE req[r].counted
             t == [req[r] EXCEPT !.todo = @ \ {u}, !.counted = n]
  <1>t. req[r] \in Transaction /\ WellFormed(req[r]) /\ Good(r, req[r]) /\ req[r].pc = "counting"
    BY DEF CountRow, SafeInv, TypeInv, TypeOK
  <1>1. /\ Become(r, t) /\ lock' = [lock EXCEPT ![u] = r] /\ UNCHANGED <<account, logged>>
        /\ lock[u] = None /\ \A q \in Requests \ {r} : ~HasFlushed(q, u)
    BY DEF CountRow, ActiveSuperAdmins
  <1>2. t \in Transaction /\ WellFormed(t) /\ t.pc = "counting"
    BY <1>t DEF Transaction, WellFormed, UpdatePCs
  <1>3. \A q \in Requests : req'[q] = IF q = r THEN t ELSE req[q]
    BY <1>1, <1>2, BecomeType DEF SafeInv
  <1>4. TypeInv'
    BY <1>1, <1>2, BecomeType DEF SafeInv, TypeInv, TypeOK
  <1>5. \A v \in Users : lock'[v] = IF v = u THEN r ELSE lock[v]
    BY <1>1 DEF SafeInv, TypeInv, TypeOK
  <1>6. None \notin Requests
    BY UserAdminAssumption
  <1>7. t.counted = n /\ t.todo \subseteq req[r].todo /\ t.actor = req[r].actor /\ t.me = req[r].me /\ t.target = req[r].target /\ t.seen = req[r].seen
    BY <1>t DEF Transaction
  <1> HIDE DEF t
  <1>8. ASSUME NEW q \in Requests PROVE Good(q, req[q])'
    <2>1. CASE q = r
      <3>1. req'[q] = t
        BY <1>3, <2>1
      <3>2. ReadsHigh(req[q])'
        BY <1>t, <1>1, <1>2, <1>7, <3>1 DEF Good, ReadsHigh, SuperAdmin, OnlyDemotions
      <3>3. CountHolds(q, req[q])'
        <4>1. account[u] # None
          BY <1>t DEF CountRow, Good, CountHolds
        <4>2. \A v \in Users : v \in t.todo \/ lock'[v] = r => account[v] # None
          BY <1>t, <1>5, <1>7, <4>1 DEF Good, CountHolds
        <4>3. \A v \in t.counted : lock'[v] = r /\ account[v] = SuperAdmin
          BY <1>t, <1>5, <1>7 DEF Good, CountHolds, Transaction
        <4> QED BY <1>1, <1>2, <2>1, <3>1, <4>2, <4>3 DEF CountHolds, SuperAdmin
      <3> QED BY <1>2, <3>1, <3>2, <3>3 DEF Good, FlushSafe, FlushAlone, Dirty, Stored
    <2>2. CASE q # r
      <3>1. req'[q] = req[q] /\ Good(q, req[q]) /\ WellFormed(req[q]) /\ req[q] \in Transaction
        BY <1>3, <2>2 DEF SafeInv, TypeInv, TypeOK
      <3>2. \A v \in Users : lock[v] = q <=> lock'[v] = q
        BY <1>1, <1>5, <1>6, <2>2
      <3>3. ReadsHigh(req[q])'
        BY <1>1, <3>1 DEF Good, ReadsHigh, SuperAdmin, OnlyDemotions
      <3>4. CountHolds(q, req[q])'
        BY <1>1, <3>1, <3>2 DEF Good, CountHolds, SuperAdmin, Transaction
      <3>5. FlushSafe(q, req[q])'
        BY <1>1, <3>1, <3>2 DEF Good, FlushSafe, Dirty, SuperAdmin, Stored, OnlyDemotions
      <3>6. FlushAlone(q, req[q])'
        <4>1. SUFFICES ASSUME Dirty(req[q])
                       PROVE  /\ lock'[req[q].target] \in {None, q}
                              /\ \A p \in Requests \ {q} : ~HasFlushed(p, req[q].target)'
          BY <3>1 DEF FlushAlone, Dirty
        <4>2. req[q].target \in Users /\ HasFlushed(q, req[q].target)
          BY <3>1, <4>1 DEF Dirty, WellFormed, HasFlushed
        <4>3. req[q].target # u
          BY <1>1, <2>2, <4>2
        <4>4. \A p \in Requests : HasFlushed(p, req[q].target)' => HasFlushed(p, req[q].target)
          BY <1>2, <1>3, <3>1 DEF HasFlushed
        <4> QED BY <1>5, <3>1, <4>1, <4>2, <4>3, <4>4 DEF Good, FlushAlone
      <3> QED BY <3>3, <3>4, <3>5, <3>6 DEF Good
    <2> QED BY <2>1, <2>2
  <1>9. OnlyDemotions => SuperAdminRemains'
    BY <1>1 DEF SafeInv, SuperAdminRemains, ActiveSuperAdmins, SuperAdmin
  <1> QED BY <1>4, <1>8, <1>9 DEF SafeInv, OnlyDemotions

-----------------------------------------------------------------------------
(* Commit.                                                                 *)

\* A commit of no column changes no account.
LEMMA CommitKeeps ==
    ASSUME SafeInv, NEW r \in Requests, Commit(r), req[r].cols = NoChange
    PROVE  UNCHANGED account
  <1>1. req[r].target \in Users /\ req[r].seen # None
    BY RowTypes DEF Commit, SafeInv, TypeInv, WellFormed, NoChange, Row, Roles, Statuses
  <1>2. account[req[r].target] \in Row /\ account[req[r].target] # None
    BY <1>1 DEF SafeInv, TypeInv, TypeOK, Good, ReadsHigh
  <1>3. Stored(req[r]) = account[req[r].target]
    BY <1>2, NothingWritten DEF Stored
  <1>4. account' = [account EXCEPT ![req[r].target] = account[req[r].target]]
    BY <1>3 DEF Commit
  <1> QED BY <1>1, <1>4 DEF SafeInv, TypeInv, TypeOK

LEMMA CommitCleanInv ==
    ASSUME SafeInv, NEW r \in Requests, Commit(r), req[r].cols = NoChange
    PROVE  SafeInv'
  <1>1. req[r].target \in Users /\ req[r].after \in Row
    BY DEF Commit, SafeInv, TypeInv, WellFormed
  <1>2. End(r) /\ UNCHANGED account /\ logged' = [target |-> req[r].target, after |-> req[r].after]
    BY CommitKeeps DEF Commit
  <1>3. TypeInv'
    BY <1>1, <1>2, EndType DEF SafeInv, TypeInv, TypeOK, Entry
  <1>4. ASSUME NEW q \in Requests PROVE Good(q, req[q])'
    <2>1. CASE q = r
      BY <1>2, <2>1, EndGood
    <2>2. CASE q # r
      <3>1. req'[q] = req[q] /\ Good(q, req[q]) /\ req[q] \in Transaction
        BY <1>2, <2>2, EndType DEF SafeInv, TypeInv, TypeOK
      <3>2. \A u \in Users : lock[u] = q <=> lock'[u] = q
        BY <1>2, <2>2, EndLocks
      <3>3. ReadsHigh(req[q])' /\ CountHolds(q, req[q])' /\ FlushSafe(q, req[q])'
        BY <1>2, <3>1, <3>2 DEF Good, ReadsHigh, CountHolds, FlushSafe, Dirty, SuperAdmin, Transaction, Stored, OnlyDemotions
      <3> QED BY <1>2, <2>2, <3>3, EndFlushAlone DEF Good
    <2> QED BY <2>1, <2>2
  <1>5. OnlyDemotions => SuperAdminRemains'
    BY <1>2 DEF SafeInv, SuperAdminRemains, ActiveSuperAdmins, SuperAdmin
  <1> QED BY <1>3, <1>4, <1>5 DEF SafeInv, OnlyDemotions

\* A commit of a change writes one row, which no other request has locked or
\* flushed; an active super admin is still there.
LEMMA CommitDirtyInv ==
    ASSUME SafeInv, NEW r \in Requests, Commit(r), req[r].cols # NoChange
    PROVE  SafeInv'
  <1> DEFINE t == req[r].target
             a == req[r].after
  <1>1. t \in Users /\ a \in Row /\ a # None /\ Dirty(req[r])
    BY RowTypes DEF Commit, SafeInv, TypeInv, WellFormed, Dirty
  <1>5. Good(r, req[r])
    BY DEF SafeInv
  <1>2. End(r) /\ account' = [account EXCEPT ![t] = a] /\ logged' = [target |-> t, after |-> a]
    BY <1>1, <1>5 DEF Commit, Good, FlushSafe
  <1>3. TypeInv'
    BY <1>1, <1>2, EndType DEF SafeInv, TypeInv, TypeOK, Entry
  <1>4. \A u \in Users : account'[u] = IF u = t THEN a ELSE account[u]
    BY <1>1, <1>2 DEF SafeInv, TypeInv, TypeOK
  <1>6. lock[t] \in {None, r} /\ \A q \in Requests \ {r} : ~HasFlushed(q, t)
    BY <1>1, <1>5 DEF Good, FlushAlone
  <1>h. OnlyDemotions /\ account[t] # None /\ a = SuperAdmin => account[t] = SuperAdmin
    <2>1. SUFFICES ASSUME OnlyDemotions, account[t] # None, a = SuperAdmin PROVE account[t] = SuperAdmin
      OBVIOUS
    <2>2. req[r].seen # None /\ a = Written(account[t], req[r].cols)
      BY <1>1, <1>5, <2>1 DEF Good, FlushSafe, Stored
    <2>3. account[t] \in Row /\ req[r].cols \in Change
      BY <1>1, <2>1 DEF SafeInv, TypeInv, TypeOK, Transaction
    <2>4. req[r].cols.role # "super_admin" /\ req[r].cols.status # "active"
      BY <2>1, <2>2 DEF SafeInv, TypeInv, WellFormed
    <2> HIDE DEF t, a
    <2> QED BY <2>1, <2>2, <2>3, <2>4, WrittenNotHigher
  <1>7. \A u \in Users : account[u] # None =>
           account'[u] # None /\ (OnlyDemotions /\ account'[u] = SuperAdmin => account[u] = SuperAdmin)
    BY <1>1, <1>4, <1>h
  <1> HIDE DEF t, a
  <1>8. ASSUME NEW q \in Requests PROVE Good(q, req[q])'
    <2>1. CASE q = r
      BY <1>2, <2>1, EndGood
    <2>2. CASE q # r
      <3>1. req'[q] = req[q] /\ Good(q, req[q]) /\ WellFormed(req[q]) /\ req[q] \in Transaction
        BY <1>2, <2>2, EndType DEF SafeInv, TypeInv, TypeOK
      <3>2. \A u \in Users : (lock[u] = q => lock'[u] = q) /\ (lock'[u] = q => lock[u] = q)
        BY <1>2, <2>2, EndLocks
      <3>u. \A u \in Users : lock[u] = q => account'[u] = account[u]
        BY <1>4, <1>6, <2>2, UserAdminAssumption
      <3>3. ReadsHigh(req[q])'
        BY <1>7, <3>1 DEF Good, ReadsHigh, SuperAdmin, WellFormed, UpdatePCs, OnlyDemotions
      <3>4. CountHolds(q, req[q])'
        <4>1. \A u \in Users : (u \in req[q].todo \/ lock'[u] = q) => account'[u] # None
          BY <1>7, <3>1, <3>2 DEF Good, CountHolds
        <4>2. \A u \in req[q].counted : lock'[u] = q /\ account'[u] = SuperAdmin
          BY <3>1, <3>2, <3>u DEF Good, CountHolds, Transaction
        <4> QED BY <3>1, <4>1, <4>2 DEF Good, CountHolds, SuperAdmin
      <3>5. FlushSafe(q, req[q])'
        <4>1. SUFFICES ASSUME Dirty(req[q]) PROVE FlushSafe(q, req[q])'
          BY <3>1 DEF FlushSafe, Dirty, Stored
        <4>2. req[q].target \in Users /\ HasFlushed(q, req[q].target)
          BY <3>1, <4>1 DEF Dirty, WellFormed, HasFlushed
        <4>3. req[q].target # t
          BY <1>6, <2>2, <4>2
        <4>4. account'[req[q].target] = account[req[q].target]
          BY <1>4, <4>2, <4>3
        <4>5. ASSUME NEW v \in Users \ {req[q].target}, lock[v] = q /\ account[v] = SuperAdmin
              PROVE  lock'[v] = q /\ account'[v] = SuperAdmin
          BY <3>2, <3>u, <4>5
        <4>6. FlushSafe(q, req[q])
          BY <3>1 DEF Good
        <4> QED BY <3>1, <4>1, <4>4, <4>5, <4>6 DEF FlushSafe, Dirty, SuperAdmin, Stored, OnlyDemotions
      <3> QED BY <1>2, <2>2, <3>3, <3>4, <3>5, EndFlushAlone DEF Good
    <2> QED BY <2>1, <2>2
  <1>9. OnlyDemotions => SuperAdminRemains'
    <2>0. SUFFICES ASSUME OnlyDemotions PROVE SuperAdminRemains'
      OBVIOUS
    <2>1. PICK v \in Users : account[v] = SuperAdmin
      BY <2>0 DEF SafeInv, SuperAdminRemains, ActiveSuperAdmins
    <2>2. \E w \in Users : account'[w] = SuperAdmin
      <3>1. CASE v # t
        BY <1>4, <2>1, <3>1
      <3>2. CASE v = t /\ a = SuperAdmin
        BY <1>1, <1>4, <3>2
      <3>3. CASE v = t /\ a # SuperAdmin
        <4>1. \E w \in Users \ {t} : account[w] = SuperAdmin
          BY <1>1, <1>5, <2>0, <2>1, <3>3 DEF Good, FlushSafe, t, a
        <4> QED BY <1>4, <4>1
      <3> QED BY <3>1, <3>2, <3>3
    <2> QED BY <2>2 DEF SuperAdminRemains, ActiveSuperAdmins, SuperAdmin
  <1> QED BY <1>3, <1>8, <1>9 DEF SafeInv, OnlyDemotions

-----------------------------------------------------------------------------
(* The steps of create and update.                                         *)

LEMMA AuthenticateInv ==
    ASSUME SafeInv, NEW r \in Requests, NEW u \in Users, Authenticate(r, u)
    PROVE  SafeInv'
  <1> DEFINE t == [Idle EXCEPT !.pc = "in", !.actor = u, !.me = account[u]]
  <1>1. account[u] \in Row /\ account[u] # None
    BY DEF Authenticate, SafeInv, TypeInv, TypeOK
  <1>2. t \in Transaction /\ WellFormed(t)
    BY <1>1, IdleType DEF Transaction, PCs, WellFormed, Idle, UpdatePCs
  <1>3. Good(r, t)
    <2>1. \A u1 \in Users : lock[u1] = r => account[u1] # None
      BY DEF SafeInv, Good, CountHolds
    <2> QED BY <1>1, <2>1 DEF Good, ReadsHigh, CountHolds, FlushSafe, FlushAlone, Dirty, Idle, UpdatePCs, Stored
  <1>4. Moves(r, t)
    BY DEF Authenticate, Moves
  <1> HIDE DEF t
  <1> QED BY <1>2, <1>3, <1>4, MovesInv

LEMMA CreateInv ==
    ASSUME SafeInv, NEW r \in Requests, Create(r)
    PROVE  SafeInv'
<1>t. req[r] \in Transaction /\ WellFormed(req[r]) /\ Good(r, req[r])
  BY DEF SafeInv, TypeInv, TypeOK
<1>1. ASSUME NEW u \in Users, NEW role \in CreateRoles, CreateCheck(r, u, role) PROVE SafeInv'
  <2> DEFINE row == [role |-> role, status |-> "active"]
             t == [req[r] EXCEPT !.pc = "creating", !.target = u, !.cols = row]
  <2>1. row \in Row /\ row \in Change
    BY UserAdminAssumption DEF Row, Change, Statuses, Roles
  <2>2. t \in Transaction /\ WellFormed(t)
    BY <1>1, <1>t, <2>1 DEF CreateCheck, Transaction, PCs, WellFormed, UpdatePCs
  <2>3. Good(r, t)
    BY <1>1, <1>t DEF CreateCheck, Transaction, Good, ReadsHigh, CountHolds, FlushSafe, FlushAlone, Dirty, UpdatePCs, WellFormed, Stored
  <2>4. Moves(r, t) \/ Rollback(r)
    BY <1>1 DEF CreateCheck, Moves
  <2> HIDE DEF t
  <2> QED BY <2>2, <2>3, <2>4, MovesInv, RollbackInv
<1>2. CASE CreateFlush(r)
  <2> DEFINE t == [req[r] EXCEPT !.pc = "flushed", !.after = req[r].cols]
  <2>1. Rollback(r) \/ (Moves(r, t) /\ account[req[r].target] = None)
    BY <1>2 DEF CreateFlush, Moves
  <2>2. CASE Moves(r, t) /\ account[req[r].target] = None
    <3>1. t \in Transaction /\ WellFormed(t)
      BY <1>2, <1>t DEF CreateFlush, Transaction, PCs, WellFormed, UpdatePCs
    <3>2. ReadsHigh(t) /\ CountHolds(r, t)
      BY <1>2, <1>t DEF CreateFlush, Transaction, Good, ReadsHigh, CountHolds, UpdatePCs, WellFormed
    <3>3. FlushSafe(r, t)
      BY <1>2, <1>t, <2>2, RowTypes DEF CreateFlush, Transaction, FlushSafe, Dirty, WellFormed, Stored
    <3>4. FlushAlone(r, t)
      <4>1. req[r].target \in Users /\ t.target = req[r].target
        BY <1>2, <1>t DEF CreateFlush, WellFormed, Transaction
      <4>2. \A q \in Requests : lock[req[r].target] # q
        BY <2>2, <4>1 DEF SafeInv, Good, CountHolds
      <4>3. lock[req[r].target] = None
        BY <4>1, <4>2 DEF SafeInv, TypeInv, TypeOK
      <4> QED BY <1>2, <4>1, <4>3 DEF CreateFlush, FlushAlone
    <3> HIDE DEF t
    <3> QED BY <2>2, <3>1, <3>2, <3>3, <3>4, MovesInv DEF Good
  <2> QED BY <2>1, <2>2, RollbackInv
<1> QED BY <1>1, <1>2 DEF Create

\* Two elements of a set: one is not x.
LEMMA Another ==
    ASSUME NEW S, IsFiniteSet(S), Cardinality(S) > 1, NEW x
    PROVE  \E v \in S : v # x
  <1>1. SUFFICES ASSUME S \subseteq {x} PROVE FALSE
    OBVIOUS
  <1>2. Cardinality(S) <= Cardinality({x}) /\ Cardinality({x}) = 1 /\ Cardinality(S) \in Nat
    BY <1>1, FS_Singleton, FS_Subset, FS_CardinalityType
  <1> QED BY <1>2

LEMMA UpdateReadInv ==
    ASSUME SafeInv, NEW r \in Requests,
           NEW u \in Users, NEW chg \in Changes, UpdateRead(r, u, chg)
    PROVE  SafeInv'
  <1> DEFINE seen == IF u = req[r].actor THEN req[r].me ELSE account[u]
             cols == Changed(seen, chg)
             t == [req[r] EXCEPT !.pc = "read", !.target = u, !.seen = seen, !.cols = cols]
  <1>t. req[r] \in Transaction /\ WellFormed(req[r]) /\ Good(r, req[r]) /\ req[r].pc = "in"
    BY DEF UpdateRead, SafeInv, TypeInv, TypeOK
  <1>1. account[u] # None /\ account[u] \in Row
    BY DEF UpdateRead, SafeInv, TypeInv, TypeOK
  <1>2. seen \in Row /\ (OnlyDemotions /\ account[u] = SuperAdmin => seen = SuperAdmin)
    BY <1>t, <1>1 DEF WellFormed, Good, ReadsHigh
  <1>3. chg \in Change /\ (OnlyDemotions => chg.role # "super_admin" /\ chg.status # "active")
    BY UserAdminAssumption DEF OnlyDemotions, Changes, Change, Roles, Statuses
  <1>4. Rollback(r) \/ Moves(r, t)
    BY DEF UpdateRead, Moves
  <1> HIDE DEF seen
  <1>5. cols \in Change /\ (OnlyDemotions => cols.role # "super_admin" /\ cols.status # "active")
    BY <1>2, <1>3, WrittenType, UserAdminAssumption DEF Changed, Roles, Statuses
  <1> HIDE DEF cols
  <1>6. t \in Transaction /\ WellFormed(t)
    BY <1>t, <1>2, <1>5, RowTypes DEF Transaction, PCs, WellFormed, UpdatePCs
  <1>7. Good(r, t)
    BY <1>t, <1>1, <1>2 DEF Transaction, Good, ReadsHigh, CountHolds, FlushSafe, FlushAlone, Dirty, UpdatePCs, WellFormed, Stored
  <1> HIDE DEF t
  <1> QED BY <1>4, <1>6, <1>7, MovesInv, RollbackInv

LEMMA CountStartInv ==
    ASSUME SafeInv, NEW r \in Requests, CountStart(r)
    PROVE  SafeInv'
  <1> DEFINE t == [req[r] EXCEPT !.pc = "counting", !.todo = ActiveSuperAdmins]
  <1>t. req[r] \in Transaction /\ WellFormed(req[r]) /\ Good(r, req[r]) /\ req[r].pc = "read"
    BY DEF CountStart, SafeInv, TypeInv, TypeOK
  <1>1. ActiveSuperAdmins \in SUBSET Users /\ \A u \in ActiveSuperAdmins : account[u] # None
    BY RowTypes DEF ActiveSuperAdmins
  <1>2. t \in Transaction /\ WellFormed(t)
    BY <1>t, <1>1 DEF Transaction, PCs, WellFormed, UpdatePCs
  <1>3. Good(r, t)
    BY <1>t, <1>1 DEF Transaction, Good, ReadsHigh, CountHolds, FlushSafe, FlushAlone, Dirty, UpdatePCs, WellFormed, Stored
  <1>4. Moves(r, t)
    BY DEF CountStart, Moves
  <1> HIDE DEF t
  <1> QED BY <1>2, <1>3, <1>4, MovesInv

LEMMA CountEndInv ==
    ASSUME SafeInv, NEW r \in Requests, CountEnd(r)
    PROVE  SafeInv'
  <1> DEFINE t == [req[r] EXCEPT !.pc = "counted"]
  <1>t. req[r] \in Transaction /\ WellFormed(req[r]) /\ Good(r, req[r]) /\ req[r].pc = "counting"
    BY DEF CountEnd, SafeInv, TypeInv, TypeOK
  <1>1. Rollback(r) \/ (Moves(r, t) /\ ~(Cardinality(req[r].counted) <= 1))
    BY DEF CountEnd, Moves
  <1>2. CASE Moves(r, t) /\ ~(Cardinality(req[r].counted) <= 1)
    <2>1. IsFiniteSet(req[r].counted)
      BY <1>t, UserAdminAssumption, FS_Subset DEF Transaction
    <2>2. Cardinality(req[r].counted) > 1
      BY <1>2, <2>1, FS_CardinalityType
    <2>3. t \in Transaction /\ WellFormed(t)
      BY <1>t DEF Transaction, PCs, WellFormed, UpdatePCs
    <2>4. Good(r, t)
      BY <1>t, <2>2 DEF Transaction, Good, ReadsHigh, CountHolds, FlushSafe, FlushAlone, Dirty, UpdatePCs, WellFormed, Stored
    <2> HIDE DEF t
    <2> QED BY <1>2, <2>3, <2>4, MovesInv
  <1> QED BY <1>1, <1>2, RollbackInv

LEMMA UpdateFlushInv ==
    ASSUME SafeInv, NEW r \in Requests, UpdateFlush(r)
    PROVE  SafeInv'
  <1> DEFINE u == req[r].target
             after == Written(account[u], req[r].cols)
             t == [req[r] EXCEPT !.pc = "flushed", !.counted = {}, !.after = after]
  <1>t. /\ req[r] \in Transaction /\ WellFormed(req[r]) /\ Good(r, req[r])
        /\ req[r].pc \in {"read", "counted"}
    BY DEF UpdateFlush, MayFlush, SafeInv, TypeInv, TypeOK
  <1>1. u \in Users /\ account[u] \in Row /\ account[u] # None /\ req[r].seen \in Row /\ req[r].seen # None
    BY <1>t, RowTypes DEF WellFormed, UpdatePCs, Good, ReadsHigh, SafeInv, TypeInv, TypeOK
  <1>2. /\ req[r].cols \in Change
        /\ OnlyDemotions => req[r].cols.role # "super_admin" /\ req[r].cols.status # "active"
    BY <1>t, <1>1 DEF Transaction, WellFormed
  <1>3. after \in Row
    BY <1>1, <1>2, WrittenType
  <1>4. Moves(r, t)
    BY DEF UpdateFlush, Moves
  <1>5. OnlyDemotions /\ account[u] = SuperAdmin /\ after # SuperAdmin =>
          \E v \in Users \ {u} : lock[v] = r /\ account[v] = SuperAdmin
    <2>1. SUFFICES ASSUME OnlyDemotions, account[u] = SuperAdmin, after # SuperAdmin
                   PROVE  \E v \in Users \ {u} : lock[v] = r /\ account[v] = SuperAdmin
      OBVIOUS
    <2>2. req[r].seen = SuperAdmin
      BY <1>t, <1>1, <2>1 DEF Good, ReadsHigh, UpdatePCs
    <2>3. req[r].pc = "counted"
      BY <2>1, <2>2 DEF UpdateFlush, MayFlush, LosesSuperAdmin
    <2>4. req[r].counted \subseteq Users /\ IsFiniteSet(req[r].counted) /\ Cardinality(req[r].counted) > 1
      BY <1>t, <2>3, UserAdminAssumption, FS_Subset DEF Transaction, Good, CountHolds
    <2>5. PICK v \in req[r].counted : v # u
      BY <2>4, Another
    <2> QED BY <1>t, <2>4, <2>5 DEF Good, CountHolds
  <1>6. req[r].cols # NoChange => lock[u] \in {None, r} /\ \A q \in Requests \ {r} : ~HasFlushed(q, u)
    BY DEF UpdateFlush
  <1>a. after = Written(account[u], req[r].cols)
    OBVIOUS
  <1> HIDE DEF after
  <1>7. /\ t \in Transaction /\ t.pc = "flushed" /\ t.target = u /\ t.after = after
        /\ t.counted = {} /\ t.todo = req[r].todo /\ t.actor = req[r].actor /\ t.me = req[r].me
        /\ t.seen = req[r].seen /\ t.cols = req[r].cols
    BY <1>t, <1>3 DEF Transaction, PCs
  <1> HIDE DEF t, u
  <1>8. WellFormed(t)
    BY <1>t, <1>1, <1>2, <1>3, <1>7 DEF WellFormed, UpdatePCs
  <1>9. ReadsHigh(t) /\ CountHolds(r, t)
    BY <1>t, <1>1, <1>7 DEF Good, ReadsHigh, CountHolds, UpdatePCs
  <1>10. Stored(t) = t.after
    BY <1>1, <1>7, <1>a DEF Stored
  <1>11. FlushSafe(r, t) /\ FlushAlone(r, t)
    BY <1>1, <1>3, <1>5, <1>6, <1>7, <1>10 DEF FlushSafe, FlushAlone, Dirty
  <1> QED BY <1>4, <1>7, <1>8, <1>9, <1>11, MovesInv DEF Good

-----------------------------------------------------------------------------
(* The theorems.                                                           *)

LEMMA InitSafe == Init => SafeInv
  <1> SUFFICES ASSUME Init PROVE SafeInv
    OBVIOUS
  <1>1. TypeInv
    BY IdleType DEF Init, TypeInv, TypeOK
  <1>2. \A r \in Requests : Good(r, req[r])
    BY UserAdminAssumption DEF Init, Good, ReadsHigh, CountHolds, FlushSafe, FlushAlone, Dirty, Idle, UpdatePCs, Stored
  <1>3. SuperAdminRemains
    BY DEF Init, SuperAdminRemains
  <1> QED BY <1>1, <1>2, <1>3 DEF SafeInv

LEMMA NextSafe == SafeInv /\ [Next]_vars => SafeInv'
  <1> SUFFICES ASSUME SafeInv, [Next]_vars PROVE SafeInv'
    OBVIOUS
  <1>1. ASSUME NEW r \in Requests, Update(r) PROVE SafeInv'
    BY <1>1, UpdateReadInv, CountStartInv, CountRowInv, CountEndInv, UpdateFlushInv DEF Update
  <1>2. ASSUME NEW r \in Requests, Commit(r) PROVE SafeInv'
    BY <1>2, CommitCleanInv, CommitDirtyInv
  <1>3. ASSUME NEW r \in Requests, Abort(r) PROVE SafeInv'
    BY <1>3, RollbackInv DEF Abort
  <1>4. CASE UNCHANGED vars
    <2>1. UNCHANGED <<account, logged, lock, req>>
      BY <1>4 DEF vars
    <2>2. TypeInv'
      BY <2>1 DEF SafeInv, TypeInv, TypeOK, WellFormed, OnlyDemotions
    <2>3. ASSUME NEW r \in Requests PROVE Good(r, req[r])'
      <3>1. Good(r, req[r])
        BY DEF SafeInv
      <3>2. ReadsHigh(req[r])' /\ CountHolds(r, req[r])'
        BY <2>1, <3>1 DEF Good, ReadsHigh, CountHolds, SuperAdmin, OnlyDemotions
      <3>3. FlushSafe(r, req[r])' /\ FlushAlone(r, req[r])'
        BY <2>1, <3>1 DEF Good, FlushSafe, FlushAlone, Dirty, HasFlushed, Stored, SuperAdmin, OnlyDemotions
      <3> QED BY <3>2, <3>3 DEF Good
    <2>4. OnlyDemotions => SuperAdminRemains'
      BY <2>1 DEF SafeInv, SuperAdminRemains, ActiveSuperAdmins, SuperAdmin
    <2> QED BY <2>2, <2>3, <2>4 DEF SafeInv, OnlyDemotions
  <1> QED BY <1>1, <1>2, <1>3, <1>4, AuthenticateInv, CreateInv DEF Next

\* The invariant behind the guard of the last super admin and the audit trail.
THEOREM SafeInvariant == Spec => []SafeInv
  <1>1. SafeInv /\ [Next]_vars => SafeInv'
    BY NextSafe
  <1> QED BY <1>1, InitSafe, PTL DEF Spec

\* Every table, lock and open transaction has the shape the code gives it.
THEOREM TypesHold == Spec => []TypeOK
  <1>1. SafeInv => TypeOK
    BY DEF SafeInv, TypeInv
  <1> QED BY <1>1, SafeInvariant, PTL

\* However many requests demote and deactivate admins at the same time, and
\* whatever accounts are created meanwhile, an active super admin is left.
THEOREM SuperAdminAlwaysRemains == OnlyDemotions => (Spec => []SuperAdminRemains)
  <1> SUFFICES ASSUME OnlyDemotions PROVE Spec => []SuperAdminRemains
    OBVIOUS
  <1>1. SafeInv => SuperAdminRemains
    BY DEF SafeInv
  <1> QED BY <1>1, SafeInvariant, PTL

\* In every instance, promotions included, the audit entry committed with a
\* change of an account tells the row that the change leaves behind.
THEOREM ChangesAreAudited == Spec => EveryChangeAudited
  <1> DEFINE Told == \A u \in Users : account'[u] # account[u] =>
                        logged' = [target |-> u, after |-> account'[u]]
  <1>1. SafeInv /\ [Next]_vars => [Told]_vars
    <2> SUFFICES ASSUME SafeInv, Next, account' # account PROVE Told
      BY DEF vars
    <2>1. PICK r \in Requests : Commit(r)
      BY DEF Next, Authenticate, Create, CreateCheck, CreateFlush, Update, UpdateRead, CountStart,
             CountRow, CountEnd, UpdateFlush, Abort, Rollback
    <2>2. Dirty(req[r])
      BY <2>1, CommitKeeps DEF Dirty, Commit
    <2>3. req[r].after = Stored(req[r]) /\ req[r].target \in Users
      BY <2>1, <2>2 DEF SafeInv, TypeInv, WellFormed, Good, FlushSafe, Commit
    <2> QED BY <2>1, <2>3 DEF Commit, SafeInv, TypeInv, TypeOK
  <1> QED BY <1>1, SafeInvariant, PTL DEF Spec, EveryChangeAudited

-----------------------------------------------------------------------------
(* The admin tier.                                                         *)

LEMMA TierInit == Init => \A r \in Requests : TierGuarded(req[r])
  BY RowTypes DEF Init, TierGuarded, Idle

\* What a request reads, or writes down for later, respects the tier.
LEMMA TierOwnStep ==
    ASSUME TierInv, NEW r \in Requests,
           \/ \E a \in Users : Authenticate(r, a)
           \/ Create(r) \/ Update(r) \/ Abort(r)
    PROVE  TierGuarded(req'[r])
  <1> DEFINE t == req[r]
  <1>1. /\ t \in Transaction /\ WellFormed(t) /\ TierGuarded(t) /\ req \in [Requests -> Transaction]
        /\ account \in [Users -> Row \cup {None}]
    BY DEF TierInv, SafeInv, TypeInv, TypeOK
  <1>2. TierGuarded(Idle)'
    BY RowTypes DEF TierGuarded, Idle
  <1>3. ASSUME Rollback(r) PROVE TierGuarded(req'[r])
    BY <1>1, <1>2, <1>3 DEF Rollback, End, Become, TierGuarded
  <1>4. ASSUME NEW a \in Users, Authenticate(r, a) PROVE TierGuarded(req'[r])
    <2>1. req'[r] = [Idle EXCEPT !.pc = "in", !.actor = a, !.me = account[a]]
      BY <1>1, <1>4 DEF Authenticate, Become
    <2>2. req'[r].me = account[a] /\ req'[r].seen = None
      BY <2>1 DEF Idle
    <2> QED BY <1>4, <2>2 DEF Authenticate, TierGuarded
  <1>5. ASSUME NEW u \in Users, NEW role \in CreateRoles, CreateCheck(r, u, role)
        PROVE  TierGuarded(req'[r])
    <2>1. CASE Rollback(r)
      BY <1>3, <2>1
    <2>2. CASE Become(r, [t EXCEPT !.pc = "creating", !.target = u,
                                   !.cols = [role |-> role, status |-> "active"]])
      <3>1. t.pc = "in" /\ t.seen = None /\ req'[r].me = t.me /\ req'[r].seen = t.seen
        BY <1>1, <1>5, <2>2 DEF CreateCheck, WellFormed, Become, Transaction
      <3> QED BY <1>1, <3>1 DEF TierGuarded
    <2> QED BY <1>5, <2>1, <2>2 DEF CreateCheck
  <1>6. ASSUME CreateFlush(r) PROVE TierGuarded(req'[r])
    <2>1. CASE Rollback(r)
      BY <1>3, <2>1
    <2>2. CASE Become(r, [t EXCEPT !.pc = "flushed", !.after = t.cols])
      <3>1. t.pc = "creating" /\ t.seen = None /\ req'[r].me = t.me /\ req'[r].seen = t.seen
        BY <1>1, <1>6, <2>2 DEF CreateFlush, WellFormed, Become, Transaction
      <3> QED BY <1>1, <3>1 DEF TierGuarded
    <2> QED BY <1>6, <2>1, <2>2 DEF CreateFlush
  <1>7. ASSUME NEW u \in Users, NEW chg \in Changes, UpdateRead(r, u, chg)
        PROVE  TierGuarded(req'[r])
    <2> DEFINE seen == IF u = t.actor THEN t.me ELSE account[u]
    <2>1. CASE Rollback(r)
      BY <1>3, <2>1
    <2>2. CASE /\ ~(TouchesAdminTier(seen, chg) /\ t.me.role # "super_admin")
               /\ Become(r, [t EXCEPT !.pc = "read", !.target = u, !.seen = seen,
                                      !.cols = Changed(seen, chg)])
      <3>1. req'[r].me = t.me /\ req'[r].seen = seen /\ req'[r].cols = Changed(seen, chg)
        BY <1>1, <2>2 DEF Become, Transaction
      <3>2. SUFFICES ASSUME t.me.role # "super_admin"
                     PROVE  seen.role \notin AdminTier /\ Changed(seen, chg).role \notin AdminTier
        BY <3>1 DEF TierGuarded
      <3>3. seen.role \notin AdminTier /\ Written(seen, chg).role \notin AdminTier
        BY <2>2, <3>2 DEF TouchesAdminTier
      <3>4. Changed(seen, chg).role \in {None, Written(seen, chg).role}
        BY DEF Changed, Written
      <3>5. None \notin AdminTier
        BY UserAdminAssumption DEF AdminTier, Roles
      <3> QED BY <3>3, <3>4, <3>5
    <2> QED BY <1>7, <2>1, <2>2 DEF UpdateRead
  <1>8. ASSUME CountStart(r) \/ (\E u \in Users : CountRow(r, u)) \/ CountEnd(r) \/ UpdateFlush(r)
        PROVE  TierGuarded(req'[r])
    <2>1. CASE Rollback(r)
      BY <1>3, <2>1
    <2>2. CASE ~Rollback(r)
      <3> DEFINE Same == req'[r].me = t.me /\ req'[r].seen = t.seen /\ req'[r].cols = t.cols
      <3>1. ASSUME CountStart(r) PROVE Same
        <4>1. req' = [req EXCEPT ![r] = [t EXCEPT !.pc = "counting", !.todo = ActiveSuperAdmins]]
          BY <3>1 DEF CountStart, Become
        <4> HIDE DEF ActiveSuperAdmins
        <4> QED BY <1>1, <3>1, <4>1 DEF CountStart, Transaction
      <3>2. ASSUME NEW u \in Users, CountRow(r, u) PROVE Same
        <4>1. PICK c : req' = [req EXCEPT ![r] = [t EXCEPT !.todo = @ \ {u}, !.counted = c]]
          BY <3>2 DEF CountRow, Become
        <4> QED BY <1>1, <3>2, <4>1 DEF CountRow, Transaction
      <3>3. ASSUME CountEnd(r) PROVE Same
        BY <1>1, <2>2, <3>3 DEF CountEnd, Become, Transaction
      <3>4. ASSUME UpdateFlush(r) PROVE Same
        <4>1. PICK a : req' = [req EXCEPT ![r] = [t EXCEPT !.pc = "flushed", !.counted = {}, !.after = a]]
          BY <3>4 DEF UpdateFlush, Become
        <4> QED BY <1>1, <3>4, <4>1 DEF UpdateFlush, MayFlush, Transaction
      <3>5. Same
        BY <1>8, <3>1, <3>2, <3>3, <3>4
      <3> QED BY <1>1, <3>5 DEF TierGuarded
    <2> QED BY <2>1, <2>2
  <1> QED BY <1>3, <1>4, <1>5, <1>6, <1>7, <1>8 DEF Create, Update, Abort

LEMMA TierNext ==
    ASSUME TierInv, [Next]_vars
    PROVE  \A r \in Requests : TierGuarded(req[r])'
  <1>0. (\A r \in Requests : TierGuarded(req[r])) /\ req \in [Requests -> Transaction]
    BY DEF TierInv, SafeInv, TypeInv, TypeOK
  <1>1. CASE UNCHANGED vars
    BY <1>0, <1>1 DEF vars, TierGuarded
  <1>2. ASSUME NEW r \in Requests, NEW q \in Requests,
               \/ \E a \in Users : Authenticate(r, a)
               \/ Create(r) \/ Update(r) \/ Commit(r) \/ Abort(r)
        PROVE  TierGuarded(req[q])'
    <2>1. CASE q = r /\ Commit(r)
      <3>1. req'[q] = Idle
        BY <1>0, <2>1 DEF Commit, End, Become
      <3> QED BY <3>1 DEF TierGuarded, Idle
    <2>2. CASE q = r /\ ~Commit(r)
      BY <1>2, <2>2, TierOwnStep DEF TierGuarded
    <2>3. CASE q # r
      <3>1. \E t : req' = [req EXCEPT ![r] = t]
        BY <1>2 DEF Authenticate, Create, CreateCheck, CreateFlush, Update, UpdateRead, CountStart,
             CountRow, CountEnd, UpdateFlush, Commit, Abort, Rollback, End, Become
      <3> QED BY <1>0, <2>3, <3>1 DEF TierGuarded
    <2> QED BY <2>1, <2>2, <2>3
  <1> QED BY <1>1, <1>2 DEF Next

\* In every instance, with any promotions and demotions at any time, a request
\* that is not a super admin's changes an account of the tier only if it has
\* read it before its promotion; and none of them promotes an account.
THEOREM TierIsSuperAdmins == Spec => TierChangedBySuperAdmin
  <1> DEFINE Allowed ==
        \A u \in Users, r \in Requests :
            /\ account[u] # None
            /\ account'[u] # account[u]
            /\ account[u].role \in AdminTier \/ account'[u].role \in AdminTier
            /\ req'[r] # req[r]
            => \/ req[r].me.role = "super_admin"
               \/ /\ PromotedSince(r, u)
                  /\ account'[u].role \notin AdminTier \ {account[u].role}
  <1>1. TierInv /\ [Next]_vars => TierInv'
    BY NextSafe, TierNext DEF TierInv
  <1>2. TierInv /\ [Next]_vars => [Allowed]_vars
    <2> SUFFICES ASSUME TierInv, Next, NEW u \in Users, NEW r \in Requests,
                        account[u] # None, account'[u] # account[u],
                        account[u].role \in AdminTier \/ account'[u].role \in AdminTier,
                        req'[r] # req[r], req[r].me.role # "super_admin"
                 PROVE  PromotedSince(r, u) /\ account'[u].role \notin AdminTier \ {account[u].role}
      BY DEF vars
    <2>1. PICK q \in Requests : Commit(q)
      BY DEF Next, Authenticate, Create, CreateCheck, CreateFlush, Update, UpdateRead, CountStart,
             CountRow, CountEnd, UpdateFlush, Abort, Rollback
    <2>2. q = r /\ u = req[r].target /\ account'[u] = Stored(req[r])
      BY <2>1 DEF Commit, End, Become, TierInv, SafeInv, TypeInv, TypeOK
    <2>3. /\ TierGuarded(req[r]) /\ Good(r, req[r]) /\ WellFormed(req[r]) /\ req[r].pc = "flushed"
      BY <2>1, <2>2 DEF Commit, TierInv, SafeInv, TypeInv
    <2>4. req[r].seen # None
      <3> SUFFICES ASSUME req[r].seen = None PROVE FALSE
        OBVIOUS
      <3>1. req[r].cols \in Row
        BY <2>3 DEF WellFormed
      <3> QED BY <2>2, <2>3, <3>1, RowTypes, UserAdminAssumption
              DEF Good, FlushSafe, Dirty, NoChange, Row, Roles, Statuses
    <2>5. req[r].seen.role \notin AdminTier /\ req[r].cols.role \notin AdminTier
      BY <2>3, <2>4 DEF TierGuarded
    <2>6. account'[u].role \in {req[r].cols.role, account[u].role}
      BY <2>2 DEF Stored, Written
    <2> QED BY <2>5, <2>6 DEF PromotedSince
  <1>3. Init => TierInv
    BY InitSafe, TierInit DEF TierInv
  <1> QED BY <1>1, <1>2, <1>3, PTL DEF Spec, TierChangedBySuperAdmin
=============================================================================
