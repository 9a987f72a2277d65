SPECIFICATION Spec
CONSTANTS
    r1 = r1
    r2 = r2
    m1 = m1
    m2 = m2
    none = none
    Requests = {r1, r2}
    Messages = {m1, m2}
    None = none
    MaxVersions = 3
    MaxDays = 3
SYMMETRY Symmetry
PROPERTIES
    SupersededIsFinal
CHECK_DEADLOCK FALSE
