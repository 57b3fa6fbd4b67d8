------------------------------ MODULE UserAdmin ------------------------------
(***************************************************************************)
(* Accounts and their audit trail: UserService.create and update, run by   *)
(* concurrent admin requests.                                              *)
(*                                                                         *)
(* The tables hold committed rows.  A request is one transaction under     *)
(* READ COMMITTED: it authenticates, reads the account it is about, and    *)
(* flushes and commits later.  get_db is cached per request, so actor and  *)
(* target share one session: an account read once is not read again.       *)
(***************************************************************************)
EXTENDS Naturals, FiniteSets

CONSTANTS
    Users,          \* e-mail addresses, each an account or not yet
    Requests,       \* transactions that can be open at the same time
    CreateRoles,    \* the roles POST /users asks for in this instance
    UpdateRoles,    \* the roles PATCH /users asks for
    UpdateStatus,   \* the is_active values PATCH /users asks for
    None            \* no account, no entry, a field that is not set

Roles     == {"super_admin", "admin", "teacher"}  \* student acts as teacher does
AdminTier == {"super_admin", "admin"}
Statuses  == {"active", "inactive"}               \* is_active

ASSUME UserAdminAssumption ==
    /\ IsFiniteSet(Users)
    /\ CreateRoles \subseteq Roles
    /\ UpdateRoles \subseteq Roles
    /\ UpdateStatus \subseteq Statuses
    /\ None \notin Roles \cup Statuses \cup Users \cup Requests

VARIABLES
    account,    \* users: the row of each account, or None
    logged,     \* audit_logs: target and "after" of the entry committed last
    lock,       \* holder of FOR UPDATE on a users row
    req         \* the open transaction of each request

vars == <<account, logged, lock, req>>

-----------------------------------------------------------------------------

Row    == [role: Roles, status: Statuses]
Change == [role: Roles \cup {None}, status: Statuses \cup {None}]

ASSUME NoneIsNoRecord == None \notin Row \cup [target: Users, after: Row]

Entry == [target: Users, after: Row]

PCs == {"idle", "in", "creating", "read", "counting", "counted", "flushed"}

\* me: the actor's row as authenticated.  seen: the target's row as first
\* read.  cols: the columns to write.  todo, counted: the rows the guard has
\* still to lock and those it has counted.  after: the row once refreshed.
Transaction ==
    [pc: PCs, actor: Users \cup {None}, me: Row \cup {None},
     target: Users \cup {None}, seen: Row \cup {None}, cols: Change,
     todo: SUBSET Users, counted: SUBSET Users, after: Row \cup {None}]

NoChange == [role |-> None, status |-> None]

Idle == [pc |-> "idle", actor |-> None, me |-> None, target |-> None, seen |-> None,
         cols |-> NoChange, todo |-> {}, counted |-> {}, after |-> None]

TypeOK ==
    /\ account \in [Users -> Row \cup {None}]
    /\ logged \in Entry \cup {None}
    /\ lock \in [Users -> Requests \cup {None}]
    /\ req \in [Requests -> Transaction]

SuperAdmin == [role |-> "super_admin", status |-> "active"]
ActiveSuperAdmins == {u \in Users : account[u] = SuperAdmin}

\* The row once the fields that are set have been written to it.
Written(row, chg) ==
    [role |-> IF chg.role = None THEN row.role ELSE chg.role,
     status |-> IF chg.status = None THEN row.status ELSE chg.status]

\* What SQLAlchemy's UPDATE sets: the fields that differ from the loaded row.
Changed(row, chg) ==
    [role |-> IF chg.role = row.role THEN None ELSE chg.role,
     status |-> IF chg.status = row.status THEN None ELSE chg.status]

\* The target's row with the flushed columns.
Stored(t) == IF account[t.target] = None THEN t.cols ELSE Written(account[t.target], t.cols)

\* q has flushed an UPDATE of u, or the insert of u, and not committed it.
HasFlushed(q, u) == req[q].pc = "flushed" /\ req[q].target = u /\ req[q].cols # NoChange

Become(r, t) == req' = [req EXCEPT ![r] = t]

End(r) ==
    /\ Become(r, Idle)
    /\ lock' = [u \in Users |-> IF lock[u] = r THEN None ELSE lock[u]]

Rollback(r) == End(r) /\ UNCHANGED <<account, logged>>

-----------------------------------------------------------------------------
(* require_role(ADMIN): the actor's row is read once, without a lock.      *)

Authenticate(r, a) ==
    /\ req[r] = Idle
    /\ account[a] # None
    /\ account[a].status = "active"
    /\ account[a].role \in AdminTier
    /\ Become(r, [Idle EXCEPT !.pc = "in", !.actor = a, !.me = account[a]])
    /\ UNCHANGED <<account, logged, lock>>

-----------------------------------------------------------------------------
(* UserService.create                                                      *)

\* Only a super admin creates a super admin; the address is free.
CreateCheck(r, u, role) ==
    /\ req[r].pc = "in"
    /\ role \in CreateRoles
    /\ IF /\ role = "super_admin" => req[r].me.role = "super_admin"
          /\ account[u] = None
         THEN /\ Become(r, [req[r] EXCEPT !.pc = "creating", !.target = u,
                                          !.cols = [role |-> role, status |-> "active"]])
              /\ UNCHANGED <<account, logged, lock>>
         ELSE Rollback(r)

\* Mutant: no unique index on the address.
CreateFlushAnyway(r) ==
    /\ req[r].pc = "creating"
    /\ Become(r, [req[r] EXCEPT !.pc = "flushed", !.after = req[r].cols])
    /\ UNCHANGED <<account, logged, lock>>

\* The unique index on the address makes the insert wait for another insert
\* of it and fail if that one committed.
CreateFlush(r) ==
    /\ req[r].pc = "creating"
    /\ \A q \in Requests \ {r} : ~HasFlushed(q, req[r].target)
    /\ IF account[req[r].target] = None
         THEN /\ Become(r, [req[r] EXCEPT !.pc = "flushed", !.after = req[r].cols])
              /\ UNCHANGED <<account, logged, lock>>
         ELSE Rollback(r)

-----------------------------------------------------------------------------
(* UserService.update                                                      *)

TouchesAdminTier(seen, chg) ==
    seen.role \in AdminTier \/ Written(seen, chg).role \in AdminTier

LosesSuperAdmin(seen, chg) == seen = SuperAdmin /\ Written(seen, chg) # SuperAdmin

\* Mutant: only the role asked for is looked at.
UpdateReadNewRoleOnly(r, u, chg) ==
    LET seen == IF u = req[r].actor THEN req[r].me ELSE account[u]
    IN  /\ req[r].pc = "in"
        /\ account[u] # None
        /\ IF chg.role \in AdminTier /\ req[r].me.role # "super_admin"
             THEN Rollback(r)
             ELSE /\ Become(r, [req[r] EXCEPT !.pc = "read", !.target = u, !.seen = seen,
                                              !.cols = Changed(seen, chg)])
                  /\ UNCHANGED <<account, logged, lock>>

\* The target is read without a lock, or found in the session if it is the
\* actor.  An admin-tier account is for super admins to change.
UpdateRead(r, u, chg) ==
    LET seen == IF u = req[r].actor THEN req[r].me ELSE account[u]
    IN  /\ req[r].pc = "in"
        /\ account[u] # None
        /\ IF TouchesAdminTier(seen, chg) /\ req[r].me.role # "super_admin"
             THEN Rollback(r)
             ELSE /\ Become(r, [req[r] EXCEPT !.pc = "read", !.target = u, !.seen = seen,
                                              !.cols = Changed(seen, chg)])
                  /\ UNCHANGED <<account, logged, lock>>

\* count_active_super_admins, only if the row as read is losing the status:
\* the statement's snapshot gives the rows to lock.
CountStart(r) ==
    /\ req[r].pc = "read"
    /\ LosesSuperAdmin(req[r].seen, req[r].cols)
    /\ Become(r, [req[r] EXCEPT !.pc = "counting", !.todo = ActiveSuperAdmins])
    /\ UNCHANGED <<account, logged, lock>>

\* Mutant: a plain SELECT.
CountRowUnlocked(r, u) ==
    /\ req[r].pc = "counting"
    /\ u \in req[r].todo
    /\ Become(r, [req[r] EXCEPT !.todo = @ \ {u}, !.counted = @ \cup {u}])
    /\ UNCHANGED <<account, logged, lock>>

\* FOR UPDATE locks a row once its holder is gone and looks at it again
\* before it counts it.  Rows come in the order of the heap, which no two
\* statements need share.
CountRow(r, u) ==
    /\ req[r].pc = "counting"
    /\ u \in req[r].todo
    /\ lock[u] = None
    /\ \A q \in Requests \ {r} : ~HasFlushed(q, u)
    /\ lock' = [lock EXCEPT ![u] = r]
    /\ Become(r, [req[r] EXCEPT !.todo = @ \ {u},
                                !.counted = IF u \in ActiveSuperAdmins THEN @ \cup {u} ELSE @])
    /\ UNCHANGED <<account, logged>>

CountEnd(r) ==
    /\ req[r].pc = "counting"
    /\ req[r].todo = {}
    /\ IF Cardinality(req[r].counted) <= 1
         THEN Rollback(r)
         ELSE /\ Become(r, [req[r] EXCEPT !.pc = "counted"])
              /\ UNCHANGED <<account, logged, lock>>

\* The guard is passed, or was not called for.
MayFlush(r) ==
    \/ req[r].pc = "counted"
    \/ req[r].pc = "read" /\ ~LosesSuperAdmin(req[r].seen, req[r].cols)

\* Mutant: the entry is made from the loaded object, not the refreshed one.
UpdateFlushUnrefreshed(r) ==
    LET u == req[r].target
    IN  /\ MayFlush(r)
        /\ req[r].cols # NoChange =>
             lock[u] \in {None, r} /\ \A q \in Requests \ {r} : ~HasFlushed(q, u)
        /\ Become(r, [req[r] EXCEPT !.pc = "flushed", !.counted = {},
                                    !.after = Written(req[r].seen, req[r].cols)])
        /\ UNCHANGED <<account, logged, lock>>

\* UPDATE of the changed columns, if there are any, waiting for the row; then
\* the refresh of the object from the row.
UpdateFlush(r) ==
    LET u == req[r].target
    IN  /\ MayFlush(r)
        /\ req[r].cols # NoChange =>
             lock[u] \in {None, r} /\ \A q \in Requests \ {r} : ~HasFlushed(q, u)
        /\ Become(r, [req[r] EXCEPT !.pc = "flushed", !.counted = {},
                                    !.after = Written(account[u], req[r].cols)])
        /\ UNCHANGED <<account, logged, lock>>

\* Mutant: the fields that were not set are written as well.
CommitAllColumns(r) ==
    LET q == req[r]
    IN  /\ q.pc = "flushed"
        /\ lock[q.actor] \in {None, r} /\ lock[q.target] \in {None, r}
        /\ account' = [account EXCEPT ![q.target] = q.cols]
        /\ logged' = [target |-> q.target, after |-> q.after]
        /\ End(r)

\* The audit entry (its foreign keys wait for a FOR UPDATE of the actor's or
\* the target's row) and the commit of both writes.
Commit(r) ==
    LET q == req[r]
    IN  /\ q.pc = "flushed"
        /\ lock[q.actor] \in {None, r} /\ lock[q.target] \in {None, r}
        /\ account' = [account EXCEPT ![q.target] = Stored(q)]
        /\ logged' = [target |-> q.target, after |-> q.after]
        /\ End(r)

\* Any failure before the commit, a deadlock PostgreSQL breaks included.
Abort(r) == req[r] # Idle /\ Rollback(r)

-----------------------------------------------------------------------------

\* The bootstrap script has run: there is an active super admin.
Init ==
    /\ account \in [Users -> Row \cup {None}]
    /\ ActiveSuperAdmins # {}
    /\ logged = None
    /\ lock = [u \in Users |-> None]
    /\ req = [r \in Requests |-> Idle]

Changes == [role: UpdateRoles \cup {None}, status: UpdateStatus \cup {None}]

Create(r) == (\E u \in Users, role \in CreateRoles : CreateCheck(r, u, role)) \/ CreateFlush(r)

Update(r) ==
    \/ \E u \in Users, chg \in Changes : UpdateRead(r, u, chg)
    \/ CountStart(r)
    \/ \E u \in Users : CountRow(r, u)
    \/ CountEnd(r)
    \/ UpdateFlush(r)

Next == \E r \in Requests :
    \/ \E a \in Users : Authenticate(r, a)
    \/ Create(r) \/ Update(r) \/ Commit(r) \/ Abort(r)

Spec == Init /\ [][Next]_vars

-----------------------------------------------------------------------------
(* What must hold.                                                         *)

\* There is always an active super admin, whoever demotes or deactivates
\* whom at the same time.
SuperAdminRemains == ActiveSuperAdmins # {}

\* The entry that commits with a change of an account tells the row as it is
\* after the change, even if the account was changed by another request since
\* this one read it.
EveryChangeAudited ==
    [][\A u \in Users : account'[u] # account[u] =>
         logged' = [target |-> u, after |-> account'[u]]]_vars

\* r has read u as an ordinary account, and u has been promoted since.
PromotedSince(r, u) == req[r].seen.role \notin AdminTier /\ account[u].role \in AdminTier

\* Once an account exists it enters, leaves or changes in the admin tier only
\* by a request whose actor authenticated as a super admin: but for one that
\* has read it as an ordinary account and writes after it was promoted, for the
\* tier is checked on the row as first read.  Even that one promotes nobody.
TierChangedBySuperAdmin ==
    [][\A u \in Users, r \in Requests :
         /\ account[u] # None
         /\ account'[u] # account[u]
         /\ account[u].role \in AdminTier \/ account'[u].role \in AdminTier
         /\ req'[r] # req[r]
         => \/ req[r].me.role = "super_admin"
            \/ /\ PromotedSince(r, u)
               /\ account'[u].role \notin AdminTier \ {account[u].role}]_vars
=============================================================================
