\* Promotions as well, three requests at once.
SPECIFICATION Spec

CONSTANTS
    Users        = {u1, u2}
    Requests     = {r1, r2, r3}
    CreateRoles  = {}
    UpdateRoles  = {"super_admin", "admin"}
    UpdateStatus = {"inactive"}
    None         = None

SYMMETRY Interchangeable

INVARIANTS
    SuperAdminRemains
