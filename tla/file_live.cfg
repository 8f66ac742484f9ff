\* One binlog file; failing downloads or a restart.
SPECIFICATION FairSpec
CONSTANTS
    r1 = r1
    r2 = r2
    Record = {r1, r2}
    EncLen = 4
    Fetch = 1
    KeyBefore <- ByOffset
    Lines <- InOrder
    MaxFiles = 1
    MaxLines = 4
    MaxReboots = 1
    MaxFaults = 3
PROPERTIES
    FilesArrive
CHECK_DEADLOCK FALSE
