SPECIFICATION Spec

CONSTANTS
    Students    = {s1, s2}
    Sections    = {x1, x2}
    Classes     = {c1}
    Terms       = {t1}
    Years       = {y1, y2}
    Requests    = {r1}
    SectionYear <- OneYear
    TermYear    <- OneTermYear
    MaxCapacity = 1
    Ops         = {"assign", "attach", "detach"}
    None        = None
    y1          = y1
    y2          = y2

INVARIANTS
    SectionCapacityGoverns
