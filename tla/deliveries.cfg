SPECIFICATION Spec
CONSTANTS
    Request = {r1, r2}
    Price = {p1, p2}
    Payment = {y1}
    Status = {"active", "past_due", "cancelled"}
    None = None
    MaxEvents = 2
    MaxFailures = 2
SYMMETRY Symmetry
INVARIANTS
    TypeOK
    SettledIsRecorded
    FollowsLog
PROPERTIES
    DoneIsFinal
    ImplementsInbox
