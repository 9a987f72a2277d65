SPECIFICATION Spec
CONSTANTS
    Last = 3
    MaxPending = 2
    Loop = loop
    Monitor = monitor
    Nobody = nobody
INVARIANTS
    NothingOutlivesEndpoint
    LateRequestsRefused
PROPERTIES
    InvalidSessionEnds
    AcceptedIsAnswered
CHECK_DEADLOCK FALSE
