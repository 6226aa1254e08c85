SPECIFICATION Spec
CONSTANTS
    t1 = t1
    t2 = t2
    k1 = k1
    k2 = k2
    Threads = {t1, t2}
    SessionKeys = {k1, k2}
    MaxHooks = 4
INVARIANTS
    ExportedExactlyOnce
    ExportsVerify
SYMMETRY SkillSymmetry
CHECK_DEADLOCK FALSE
