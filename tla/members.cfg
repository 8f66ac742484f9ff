\* A server that moves and changes its secret, and one that watches it.
SPECIFICATION FairSpec
CONSTANTS
    t1 = t1
    n1 = n1
    n2 = n2
    a1 = a1
    a2 = a2
    b1 = b1
    s1 = s1
    s2 = s2
    s3 = s3
    Tracker = {t1}
    Node = {n1, n2}
    Addr = {a1, a2, b1}
    Secret = {s1, s2, s3}
    Slots <- Slots21
    Watcher = {n2}
    First <- First2
    Conf <- Moves
    MaxTrouble = 2
    Allowance = 0
    MaxAge = 0
INVARIANTS
    TypeOK
    HeldHasHandler
    OwnSecretsUsable
    MemoryOnDisk
PROPERTIES
    ImplementsLease
    GoneExpires
    BecomesKnown
CHECK_DEADLOCK FALSE
