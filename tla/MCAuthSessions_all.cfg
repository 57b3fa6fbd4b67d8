\* Two sessions of one account, past their lifetime.
SPECIFICATION Spec

CONSTANTS
    Users    = {u1}
    Sessions = {s1, s2}
    Tokens   = {t1, t2, t3}
    Requests = {r1, r2}
    Lifetime = 1
    MaxTime  = 2
    None     = None

SYMMETRY Interchangeable

INVARIANTS
    TypeOK
    ExchangedOnce
    LogoutEndsSession
    AbsoluteExpiry
    Inductive

PROPERTIES
    RevokedForGood
