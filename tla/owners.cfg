SPECIFICATION Spec
CONSTANTS
    Account = {a1}
    Email = {e1, e2}
    Module = {"academics", "hr_payroll"}
    Terms = {t1, t2}
    Request = {r1, r2, r3}
    None = None
    MaxOperations = 3
    MaxFailures = 1
SYMMETRY Symmetry
INVARIANTS
    TypeOK
    PlansAreClosed
    GrantsAreGiven
    ReportedUnlessFailed
PROPERTIES
    PatchesKeepTheRest
    ImplementsAdministration
CHECK_DEADLOCK FALSE
