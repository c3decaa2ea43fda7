SPECIFICATION Spec
CONSTANTS
    Account = {a1}
    Code = {c1, c2}
    Deployment = {d1}
    Installation = {i1}
    Request = {r1, r2, r3}
    None = None
    MaxSequence = 2
SYMMETRY Symmetry
INVARIANTS
    TypeOK
    SequenceHasOneOwner
    ActiveLeaseIsCurrent
    OneInstallationPerCode
    ServedIsRecorded
    TrailIsTrue
PROPERTIES
    LeaseLifecycle
    DrainedIsFinal
    ImplementsLedger
