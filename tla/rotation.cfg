SPECIFICATION Spec
CONSTANTS
    Id = {i1, i2}
    WellFormed = {i1, i2}
    k1 = k1
    k2 = k2
    p1 = p1
    p2 = p2
    Pem = {p1, p2}
    Key = {k1, k2}
    KeyOf <- Texts
    Request = {r1}
    MaxDeploys = 2
    Junk = Junk
    None = None
SYMMETRY Symmetry
INVARIANTS
    TypeOK
    NumberedCanSign
    LeasesVerify
PROPERTIES
    RotationIsSmooth
