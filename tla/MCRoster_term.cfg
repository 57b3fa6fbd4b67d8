SPECIFICATION Spec

CONSTANTS
    Students    = {s1}
    Sections    = {x1}
    Classes     = {c1}
    Terms       = {t1, t2}
    Years       = {y1, y2}
    Requests    = {r1, r2}
    SectionYear <- OneYear
    TermYear    <- TermEach
    MaxCapacity = 1
    Ops         = {"attach", "class_term"}
    None        = None
    y1          = y1
    y2          = y2

INVARIANTS
    AttachedClassInSectionYear
