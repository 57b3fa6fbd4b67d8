\* Each part alone; a part stops when its bounded ids are used up.
SPECIFICATION MCSpec

CONSTANTS
    Requests    = {r1, r2}
    Visits      = {k1}
    Users       = {s1}
    Teachers    <- TeachersOf
    Students    <- StudentsOf
    Accounts    = {a1, a2}
    Emails      <- EmailsOf
    Names       <- NamesOf
    Bodies      <- OneEmail
    ChangeIds   = {c1, c2}
    Classes     <- ClassesOf
    Assessments = {q1}
    GradeIds    = {a1, a2}
    Scores      <- ScoresOf
    Periods     = {c1, c2}
    Times       <- Moments
    Years       = {y1}
    Dates       <- Moments
    Terms       <- TermsOf
    Levels      = {a1, a2}
    Sections    = {c1, c2}
    Subjects    = {b1}
    Values      = {n1, n2}
    Exts        = {a1, a2}
    Inodes      = {c1, c2}
    Runs        = {a1, a2}
    s1          = s1
    t1          = t1
    t2          = t2
    a1          = a1
    a2          = a2
    e1          = e1
    e2          = e2
    e3          = e3
    n1          = n1
    n2          = n2
    c1          = c1
    c2          = c2
    k1          = k1
    q1          = q1
    y1          = y1
    m1          = m1
    m2          = m2
    b1          = b1
    r1          = r1
    r2          = r2

SYMMETRY Interchangeable

INVARIANTS
    TypeOK
    ReviewsAreSound
    AccountsAreSound
    GradesAreJust
    ViewsAgree
    PeriodsAreSound
    CalendarHolds
    AccessHolds
    PicturesHold
    SeedsOnce

PROPERTIES
    UniqueKeysHold
    CatalogueHolds
    TeachersWriteAtHome
    RefusalsHaveCause

CHECK_DEADLOCK FALSE
