SPECIFICATION Spec
CONSTANTS
    p1 = p1  s1 = s1
    Workers = {p1, s1}
    Sleepers = {s1}
    Last = 2
    MaxAttempts = 2
    Lease = 2
    Wait = 1
    Budget = 1
    MaxMishaps = 1
    Gone = Gone
    None = None
INVARIANTS
    TypeOK
    TurnHoldsLease
    PromptTurnNotStale
    ExtractedOnce
PROPERTIES
    TurnsNeverGoBack
    EveryMessageSettles
