SPECIFICATION Spec
CONSTANTS
    Provider = {p1}
    Manual = {m1}
    Request = {r1, r2}
    PeriodEnd = {3, 6}
    ActiveSeconds = 2
    GraceSeconds = 1
    MaxClock = 5
    MaxRequests = 3
    None = None
SYMMETRY Symmetry
INVARIANTS
    TypeOK
    LeaseKeepsPromise
    DatesInOrder
    GoodWhenAsked
CHECK_DEADLOCK FALSE
