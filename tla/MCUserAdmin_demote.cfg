\* Three accounts, two requests that demote, deactivate and promote to admin,
\* but not to super admin.
SPECIFICATION Spec

CONSTANTS
    Users        = {u1, u2, u3}
    Requests     = {r1, r2}
    CreateRoles  = {"super_admin"}
    UpdateRoles  = {"teacher", "admin"}
    UpdateStatus = {"inactive"}
    None         = None

SYMMETRY Interchangeable

INVARIANTS
    TypeOK
    SuperAdminRemains
    SafeInv

PROPERTIES
    TierChangedBySuperAdmin
    EveryChangeAudited
