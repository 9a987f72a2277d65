SPECIFICATION Spec
CONSTANTS
    p1 = p1
    p2 = p2
    s1 = s1
    Workers <- MCWorkers
    Punctual <- MCPunctual
    MaxAttempts = 2
    Lease = 3
    Budget = 2
    MaxClock = 7
    None = None
SYMMETRY PunctualSymmetry
INVARIANTS
    PunctualWorkerOwnsRun
PROPERTIES
    ExhaustedIsFinal
    AnswersOnce
