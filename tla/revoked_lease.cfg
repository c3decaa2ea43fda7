SPECIFICATION Spec
CONSTANTS
    Account = {a1}
    Code = {c1}
    Deployment = {d1}
    Installation = {i1}
    Request = {r1, r2}
    None = None
    MaxSequence = 2
PROPERTIES
    RevokedReceivesNoLease
