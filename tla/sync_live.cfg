\* Two members watch each other: one binlog file each, one restart.
SPECIFICATION FairSpec
CONSTANTS
    n1 = n1
    n2 = n2
    r1 = r1
    r2 = r2
    Node <- Nodes2
    Record = {r1, r2}
    Watches <- Mutual
    Src <- OneEach
    FetchSize = 1
    MaxFiles = 1
    MaxLog = 3
    MaxRestarts = 1
    MaxFaults = 0
PROPERTIES
    Converges
    PositionsSaved
CHECK_DEADLOCK FALSE
