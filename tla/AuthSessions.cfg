SPECIFICATION Spec
CONSTANTS
    Requests = {r1, r2}
    MaxSessions = 3
    MaxTime = 1
    RefreshTtl = 1
    None = none
INVARIANTS
    OneCurrentPerFamily
PROPERTIES
    RevokedForGood
    RevocationCoversSeen
    RequestsEnd
