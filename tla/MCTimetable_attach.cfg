SPECIFICATION Spec

CONSTANTS
    Classes  = {c1, c2}
    Days     = {d1}
    Periods  = {p1}
    Teachers = {t1, t2}
    Rooms    = {m1}
    Sections = {x1}
    Requests = {r1, r2}
    Ops      = {"create", "attach"}
    None     = None

SYMMETRY Interchangeable

INVARIANTS
    SectionInOnePlace
