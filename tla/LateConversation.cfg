\* Does anything talk to GDM after stopConversations?
CONSTANTS
    MaxQueue = 1
    MaxEvents = 1
    MaxRounds = 1

SPECIFICATION Spec
INVARIANT NoConversationAfterStop
CHECK_DEADLOCK FALSE
