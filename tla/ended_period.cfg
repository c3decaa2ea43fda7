SPECIFICATION Spec
CONSTANTS
    Provider = {p1}
    Manual = {m1}
    Request = {r1}
    PeriodEnd = {2, 9}
    ActiveSeconds = 2
    GraceSeconds = 1
    MaxClock = 4
    MaxRequests = 3
    None = None
PROPERTIES
    RefusedOnlyAfterThePeriod
CHECK_DEADLOCK FALSE
