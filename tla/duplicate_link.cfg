SPECIFICATION Spec
CONSTANTS
    Request = {r1, r2}
    Email = {e1}
    Owner = {e1}
    Token = {t1, t2}
    Session = {s1, s2, s3}
    Account = {a1, a2}
    None = None
    LinkLife = 1
    MaxClock = 2
SYMMETRY Symmetry
PROPERTIES
    DuplicateLinkCreatesNothing
CHECK_DEADLOCK FALSE
