\* Is an authentication reported cancelled to GDM at most once?
CONSTANTS
    MaxQueue = 2
    MaxEvents = 2
    MaxRounds = 1

SPECIFICATION Spec
INVARIANT CancelReportedOnce
CHECK_DEADLOCK FALSE
