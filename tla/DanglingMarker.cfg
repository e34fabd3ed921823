\* Can requestClearDatabase leave a .corrupted marker on a healthy database?
CONSTANTS
    h1 = h1
    h2 = h2
    u1 = u1
    u2 = u2
    Handlers <- TwoHandlers
    Users <- OneUser
    Expiration = 1
    StartTime = 2
    MaxTime = 2
    MaxCorruptions = 1
    MaxRestarts = 0
    MaxFaults = 0

SPECIFICATION Spec
SYMMETRY HandlerSymmetry
INVARIANT MarkerMeansCorruption
CHECK_DEADLOCK FALSE
