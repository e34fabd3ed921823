\* Progress of requests and of Stop under fair scheduling of the goroutines.
CONSTANTS
    h1 = h1
    h2 = h2
    u1 = u1
    u2 = u2
    Handlers <- OneHandler
    Users <- OneUser
    Expiration = 1
    StartTime = 2
    MaxTime = 3
    MaxCorruptions = 1
    MaxRestarts = 1
    MaxFaults = 1

SPECIFICATION FairSpec
PROPERTY HandlerRequestReturns
PROPERTY StopTerminates

\* Stop and a failed NewManager end the daemon.
CHECK_DEADLOCK FALSE
