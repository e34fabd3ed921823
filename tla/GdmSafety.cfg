\* The authentication handshake of the GDM adapter.
CONSTANTS
    MaxQueue = 2
    MaxEvents = 3
    MaxRounds = 2

SPECIFICATION Spec
INVARIANT TypeOK
INVARIANT SingleForwardPerStart

\* The PAM conversation ends when the user, the parent and the broker stop.
CHECK_DEADLOCK FALSE
