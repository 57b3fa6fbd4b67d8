SPECIFICATION Spec

CONSTANTS
    Users    = {u1}
    Sessions = {s1}
    Tokens   = {t1, t2}
    Requests = {r1, r2}
    Lifetime = 1
    MaxTime  = 0
    None     = None

SYMMETRY Interchangeable

INVARIANTS
    LogoutEnsuresInactive
