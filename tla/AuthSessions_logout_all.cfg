SPECIFICATION Spec
CONSTANTS
    Requests = {r1, r2}
    MaxSessions = 3
    MaxTime = 1
    RefreshTtl = 1
    None = none
PROPERTIES
    LogoutAllSignsOutDevices
