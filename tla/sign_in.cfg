SPECIFICATION Spec
CONSTANTS
    Request = {r1, r2}
    Email = {e1, e2}
    Owner = {e1}
    Token = {t1, t2}
    Session = {s1, s2}
    Account = {a1, a2}
    None = None
    LinkLife = 2
    MaxClock = 1
SYMMETRY Symmetry
INVARIANTS
    TypeOK
    LinkIsOneTime
    FormIsOfTheLink
    ActsAreProven
PROPERTY
    ImplementsAccess
CHECK_DEADLOCK FALSE
