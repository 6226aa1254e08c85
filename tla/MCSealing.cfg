SPECIFICATION FairSpec
CONSTANTS
    c1 = c1
    c2 = c2
    Clients = {c1, c2}
    Logs <- MCLogs
    ServerKeys = {"key-1", "key-2"}
    EnvKey = "no-key"
    MaxRuns = 1
    MaxCrashes = 1
INVARIANTS
    SealedAtMostOnce
    WholeOrDetected
    PinStaysValid
PROPERTIES
    SealedMeansAuthoritative
    RestartsUnlessKeyFileEmpty
CHECK_DEADLOCK FALSE
