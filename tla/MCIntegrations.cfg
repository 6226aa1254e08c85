SPECIFICATION IntegrationSpec
CONSTANTS
    r1 = r1
    r2 = r2
    Tracers = {r1, r2}
    MaxEvents = 4
    MaxStarts = 2
    i1 = i1
    i2 = i2
    SessionIds = {i1, i2}
    c1 = c1
    c2 = c2
    Commands = {c1, c2}
    None = None
    MaxHooks = 5
    e1 = e1
    e2 = e2
    Exporters = {e1, e2}
    k1 = k1
    k2 = k2
    Callers = {k1, k2}
    t1 = t1
    t2 = t2
    Traces = {t1, t2}
    s1 = s1
    s2 = s2
    Spans = {s1, s2}
    Recorded0 <- Session
    SealKey = "server-key"
    BatchSize = 2
    MaxCalls = 2
INVARIANTS
    NestedBlocksRestore
    
    
    
    CountsAreTrue
    SnapshotIsWhole
SYMMETRY IntegrationSymmetry
CHECK_DEADLOCK FALSE
