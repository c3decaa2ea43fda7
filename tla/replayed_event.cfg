SPECIFICATION Spec
CONSTANTS
    Request = {r1, r2}
    Price = {p1}
    Payment = {y1}
    Status = {"active", "past_due", "cancelled"}
    None = None
    MaxEvents = 2
    MaxFailures = 0
SYMMETRY Symmetry
PROPERTIES
    ProcessedEventChangesNothing
