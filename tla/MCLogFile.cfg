SPECIFICATION LogFileSpec
CONSTANTS
    Shapes <- MCShapes
    Keys <- MCKeys
    Canons <- MCCanons
    ServerKey = "server-key"
    MaxFaults = 2
INVARIANTS
    PassedMeansRecorded
    ClaimsAreEarned
    VerifiersAgree
CHECK_DEADLOCK FALSE
