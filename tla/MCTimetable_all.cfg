\* Every operation, three classes, three requests.
SPECIFICATION Spec

CONSTANTS
    Classes  = {c1, c2, c3}
    Days     = {d1}
    Periods  = {p1}
    Teachers = {t1, t2}
    Rooms    = {m1}
    Sections = {x1}
    Requests = {r1, r2, r3}
    Ops      = {"create", "delete", "attach", "detach", "patch_teacher", "patch_room"}
    None     = None

SYMMETRY Interchangeable

INVARIANTS
    TypeOK
    NoDoubleBooking
    Inductive
    NoDeadlock

PROPERTIES
    ConflictsOnlyUnseen
