SPECIFICATION FairSpec
CONSTANTS
    c1 = c1
    c2 = c2
    Clients = {c1}
    Logs <- OneLog
    ServerKeys = {"key-1", "key-2"}
    EnvKey = "no-key"
    MaxRuns = 1
    MaxCrashes = 1
PROPERTIES
    ServerComesUp
CHECK_DEADLOCK FALSE
