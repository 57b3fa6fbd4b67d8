------------------------- MODULE UserAdminInvariant -------------------------
(***************************************************************************)
(* The inductive invariant of UserAdmin.  What it says of the audit trail  *)
(* and the tier holds of every instance; that a super admin remains, of    *)
(* those in which no PATCH makes a super admin or reactivates an account.  *)
(***************************************************************************)
EXTENDS UserAdmin

\* PATCH only takes the status of active super admin away.
OnlyDemotions == "super_admin" \notin UpdateRoles /\ "active" \notin UpdateStatus

UpdatePCs == {"read", "counting", "counted"}

\* The fields a transaction has at each pc.
WellFormed(t) ==
    /\ t.pc # "idle" => t.actor \in Users /\ t.me \in Row
    /\ t.pc \in UpdatePCs => t.target \in Users /\ t.seen \in Row
    /\ t.pc = "creating" => t.target \in Users /\ t.seen = None /\ t.cols \in Row
    /\ t.pc = "flushed" => t.target \in Users /\ t.after \in Row
    /\ t.pc = "flushed" /\ t.seen = None => t.cols \in Row /\ t.after = t.cols
    /\ t.pc \notin {"counting", "counted"} => t.counted = {}
    /\ t.pc \in {"idle", "in"} => t.seen = None
    /\ OnlyDemotions /\ t.seen # None => t.cols.role # "super_admin" /\ t.cols.status # "active"

\* An account that exists stays, and under demotions does not become an active
\* super admin: what a request has read of it is at worst too high.
ReadsHigh(t) ==
    /\ t.pc # "idle" =>
         /\ account[t.actor] # None
         /\ OnlyDemotions /\ account[t.actor] = SuperAdmin => t.me = SuperAdmin
    /\ t.seen # None =>
         /\ t.target \in Users
         /\ account[t.target] # None
         /\ OnlyDemotions /\ account[t.target] = SuperAdmin /\ t.pc \in UpdatePCs => t.seen = SuperAdmin

\* The rows r has locked, or is about to, exist; those it has counted are
\* active super admins and locked.
CountHolds(r, t) ==
    /\ \A u \in Users : u \in t.todo \/ lock[u] = r => account[u] # None
    /\ \A u \in t.counted : lock[u] = r /\ account[u] = SuperAdmin
    /\ t.pc = "counted" => Cardinality(t.counted) > 1

Dirty(t) == t.pc = "flushed" /\ t.cols # NoChange

\* A flushed change has been refreshed from the row as it is now; under
\* demotions, if it takes away an active super admin, r holds another's row.
FlushSafe(r, t) ==
    /\ Dirty(t) /\ t.seen = None => account[t.target] = None
    /\ Dirty(t) => t.after = Stored(t)
    /\ Dirty(t) /\ OnlyDemotions /\ account[t.target] = SuperAdmin /\ t.after # SuperAdmin =>
         \E v \in Users \ {t.target} : lock[v] = r /\ account[v] = SuperAdmin

\* A dirty row is nobody else's: neither flushed nor locked by another.
FlushAlone(r, t) ==
    Dirty(t) =>
        /\ lock[t.target] \in {None, r}
        /\ \A q \in Requests \ {r} : ~HasFlushed(q, t.target)

Good(r, t) == ReadsHigh(t) /\ CountHolds(r, t) /\ FlushSafe(r, t) /\ FlushAlone(r, t)

\* Who goes on without being a super admin has read an account outside the
\* tier and asks for no role of it.
TierGuarded(t) ==
    t.seen # None /\ t.me.role # "super_admin" =>
        t.seen.role \notin AdminTier /\ t.cols.role \notin AdminTier

TypeInv == TypeOK /\ \A r \in Requests : WellFormed(req[r])

SafeInv ==
    /\ TypeInv
    /\ \A r \in Requests : Good(r, req[r])
    /\ OnlyDemotions => SuperAdminRemains

TierInv == SafeInv /\ \A r \in Requests : TierGuarded(req[r])
=============================================================================
