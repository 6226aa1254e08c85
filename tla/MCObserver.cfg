SPECIFICATION FairSpec
CONSTANTS
    k1 = k1
    k2 = k2
    SessionKeys = {k1, k2}
    MaxAttempts = 2
    MaxMessages = 4
    MaxOutages = 2
INVARIANTS
    ObservedSessionsVerify
PROPERTIES
    GivesUp
CHECK_DEADLOCK FALSE
