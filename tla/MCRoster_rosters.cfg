\* One student, whom two sections of one year that share two classes all want.
\* No symmetry: a liveness property is checked.
SPECIFICATION FairSpec

CONSTANTS
    Students    = {s1}
    Sections    = {x1, x2}
    Classes     = {c1, c2}
    Terms       = {t1}
    Years       = {y1, y2}
    Requests    = {r1, r2}
    SectionYear <- OneYear
    TermYear    <- OneTermYear
    MaxCapacity = 1
    Ops         = {"assign", "unassign", "attach", "detach", "enroll", "drop"}
    None        = None
    y1          = y1
    y2          = y2

INVARIANTS
    RosterEnrolled
    OneSectionPerYear

PROPERTIES
    EveryRequestEnds
