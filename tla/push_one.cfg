\* One tracker: rolls, restarts, failing pushes and saves.
SPECIFICATION FairSpec
CONSTANTS
    Record = {r1}
    EncLen = 4
    NTrackers = 1
    BatchSize = 2
    MaxFiles = 2
    MaxLines = 2
    MaxReboots = 2
    MaxFaults = 2
INVARIANTS
    TypeOK
PROPERTIES
    CursorForward
    RecordsPushed
CHECK_DEADLOCK FALSE
