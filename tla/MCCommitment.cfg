SPECIFICATION Spec
CONSTANTS
    freetsa = freetsa
    exact = exact
    Urls <- MCUrls
    Stated <- MCStated
    Pki <- MCPki
    Leaves <- MCLeaves
    Chains <- MCChains
    Roots <- MCRoots
    MaxDepth = 1
    Cases <- MCCases
    Omitted = Omitted
    DefaultAccuracy = 1
    Deadline = 3
    None = None
    MaxTime = 3
    MaxEvents = 3
    MaxCommits = 2
    MaxReceipts = 2
INVARIANTS
    AcceptedExactlyWhenIssued
    OnTimeIsTrue
    NothingHidden
    PatientIsAccepted
PROPERTIES
    VerdictIsFinal
CHECK_DEADLOCK FALSE
