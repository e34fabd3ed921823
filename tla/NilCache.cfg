\* Can NewManager go on with a nil cache?
CONSTANTS
    h1 = h1
    h2 = h2
    u1 = u1
    u2 = u2
    Handlers <- OneHandler
    Users <- OneUser
    Expiration = 1
    StartTime = 2
    MaxTime = 2
    MaxCorruptions = 0
    MaxRestarts = 0
    MaxFaults = 0

SPECIFICATION Spec
INVARIANT ManagerNeverPanics
CHECK_DEADLOCK FALSE
