\* The PAM module's commands: broker selection, layouts and quitting.
CONSTANTS
    s1 = s1
    s2 = s2
    Sessions <- TwoSessions
    Names <- TwoNames
    MaxRequests = 3

SPECIFICATION FairSpec
INVARIANT TypeOK
PROPERTY QuitExits

\* The program ends after tea.Quit.
CHECK_DEADLOCK FALSE
