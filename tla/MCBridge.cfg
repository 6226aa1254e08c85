SPECIFICATION FairSpec
CONSTANTS
    k1 = k1
    k2 = k2
    SessionKeys = {k1, k2}
    MaxQueue = 3
    MaxHooks = 4
    MaxStops = 1
INVARIANTS
    OrderKept
    
PROPERTIES
    ReadMeansKept
    HooksAreStored
CHECK_DEADLOCK FALSE
