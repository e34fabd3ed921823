\* Does every expiry sweep remove the users idle for longer than Expiration?
CONSTANTS
    h1 = h1
    h2 = h2
    u1 = u1
    u2 = u2
    Handlers <- OneHandler
    Users <- OneUser
    Expiration = 1
    StartTime = 2
    MaxTime = 4
    MaxCorruptions = 0
    MaxRestarts = 0
    MaxFaults = 0

SPECIFICATION Spec
PROPERTY ExpiredUsersSwept
CHECK_DEADLOCK FALSE
