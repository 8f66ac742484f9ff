\* Two callers, pools of one connection, servers that fail and restart.
SPECIFICATION Spec
CONSTANTS
    c1 = c1
    c2 = c2
    s1 = s1
    s2 = s2
    x1 = x1
    x2 = x2
    t1 = t1
    i1 = i1
    i2 = i2
    none = none
    g1 = g1
    Caller = {c1, c2}
    Storage = {s1, s2, x1}
    Tracker = {t1}
    Static = {x1}
    Id <- TwoAndTwo
    Group <- OneGroup
    AnyGroup = none
    Readonly = {s2}
    Holder = {s2, x1}
    MaxConns = 1
    MaxCalls = 2
    MaxTrouble = 2
INVARIANTS
    TypeOK
    PoolConserved
    UploadOnce
    FindsFile
    CallsGoOn
PROPERTIES
    CallsAdvance
CHECK_DEADLOCK FALSE
