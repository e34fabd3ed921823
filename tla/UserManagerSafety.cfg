\* Safety of the user manager under all interleavings, restarts and corruptions.
CONSTANTS
    h1 = h1
    h2 = h2
    u1 = u1
    u2 = u2
    Handlers <- TwoHandlers
    Users <- OneUser
    Expiration = 1
    StartTime = 2
    MaxTime = 4
    MaxCorruptions = 1
    MaxRestarts = 1
    MaxFaults = 1

SPECIFICATION Spec
SYMMETRY HandlerSymmetry

INVARIANT TypeOK
PROPERTY SweepRespectsWindow

\* Stop and a failed NewManager end the daemon.
CHECK_DEADLOCK FALSE
