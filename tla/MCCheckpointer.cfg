SPECIFICATION Spec
CONSTANTS
    t1 = t1
    t2 = t2
    t3 = t3
    Threads = {t1, t2, t3}
    Inner = "async"
    MaxCalls = 5
INVARIANTS
    AuditedOnce
    EndedOnceVerifies
    
SYMMETRY ThreadSymmetry
CHECK_DEADLOCK FALSE
