SPECIFICATION Spec
CONSTANTS
    p1 = p1
    p2 = p2
    p3 = p3
    ana = ana
    bo = bo
    a1 = a1
    a2 = a2
    b1 = b1
    a3 = a3
    b2 = b2
    Requests <- MCRequests
    Punctual <- MCRequests
    Messages = {a1, a2, a3, b1, b2}
    Users = {ana, bo}
    Sender <- MCSender
    GlobalLimit = 3
    UserLimit = 2
    DailyLimit = 2
    LeaseTime = 2
    BodyTime = 1
    DayLength = 2
    Retention = 0
    MaxClock = 2
    None = None
SYMMETRY InstanceSymmetry
INVARIANTS
    ConcurrencyBounded
    QuotaKept
    OneBodyPerMessage
