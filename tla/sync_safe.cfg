\* One member watches another: rolls, restarts and failing calls.
SPECIFICATION Spec
CONSTANTS
    n1 = n1
    n2 = n2
    r1 = r1
    r2 = r2
    Node <- Nodes2
    Record = {r1, r2}
    Watches <- OneWay
    Src <- BothHome
    FetchSize = 2
    MaxFiles = 2
    MaxLog = 2
    MaxRestarts = 2
    MaxFaults = 2
INVARIANTS
    TypeOK
    PositionsSound
    DatasetInLog
CHECK_DEADLOCK FALSE
