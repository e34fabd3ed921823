\* Can the expiry sweep take the local groups of a user who just logged in?
CONSTANTS
    h1 = h1
    h2 = h2
    u1 = u1
    u2 = u2
    Handlers <- OneHandler
    Users <- OneUser
    Expiration = 1
    StartTime = 2
    MaxTime = 2
    MaxCorruptions = 0
    MaxRestarts = 0
    MaxFaults = 0

SPECIFICATION Spec
PROPERTY SweepSparesCachedUsers
CHECK_DEADLOCK FALSE
