\* Two sections of different years, one class that PATCH moves between two
\* terms, every operation.
SPECIFICATION Spec

CONSTANTS
    Students    = {s1, s2}
    Sections    = {x1, x2}
    Classes     = {c1}
    Terms       = {t1, t2}
    Years       = {y1, y2}
    Requests    = {r1, r2}
    SectionYear <- YearEach
    TermYear    <- TermEach
    MaxCapacity = 2
    Ops         = {"assign", "unassign", "attach", "detach", "enroll", "drop", "section_capacity", "class_capacity", "class_term"}
    None        = None
    y1          = y1
    y2          = y2

SYMMETRY Interchangeable

INVARIANTS
    TypeOK
    Inductive
    OnlyKnownCircles

PROPERTIES
    SeatsRespected
    EnrollWithinCapacity
    KeepsPromise
    StepsKeepOut
