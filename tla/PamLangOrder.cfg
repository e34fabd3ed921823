\* The lang sent with SelectBroker against the spec's precedence rule.
CONSTANTS
    s1 = s1
    s2 = s2
    Sessions <- TwoSessions
    Names <- TwoNames
    MaxRequests = 1

SPECIFICATION Spec
INVARIANT LangAsSpecified

CHECK_DEADLOCK FALSE
