SPECIFICATION FairSpec
CONSTANTS
    t1 = t1
    t2 = t2
    Threads = {t1, t2}
    Main = t1
    Exporters = {}
    s1 = s1
    s2 = s2
    Sessions = {s1}
    NoSession = NoSession
    d1 = d1
    Data = {d1}
    RecordTypes = {"ACTION", "CHAIN_SEAL"}
    Key = "session-key"
    MaxRows = 2
    Env = {"concurrent", "interrupt", "failure", "crash"}
INVARIANTS
    TypeOK
    LockDiscipline
    
PROPERTIES
    LockIsReleased
    CommittedRowsStay
CHECK_DEADLOCK FALSE
