SPECIFICATION FairSpec
CONSTANTS
    Request = {r1, r2}
    Price = {p1}
    Payment = {y1}
    Status = {"active", "past_due"}
    None = None
    MaxEvents = 2
    MaxFailures = 1
PROPERTIES
    EveryEventIsAnswered
