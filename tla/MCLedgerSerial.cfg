SPECIFICATION Spec
CONSTANTS
    t1 = t1
    t2 = t2
    Threads = {t1}
    Main = t1
    Exporters = {t1}
    s1 = s1
    s2 = s2
    Sessions = {s1, s2}
    NoSession = NoSession
    d1 = d1
    Data = {d1}
    RecordTypes = {"ACTION", "CHAIN_SEAL"}
    Key = "session-key"
    MaxRows = 3
    Env = {"failure", "crash"}
INVARIANTS
    ChainIntact
    TokensMatch
    ExportsAreDurable
    SerialInv
PROPERTIES
    ImplementsAuditLog
SYMMETRY SessionSymmetry
CHECK_DEADLOCK FALSE
