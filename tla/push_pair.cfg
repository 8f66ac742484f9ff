\* Two pushers of one tracker, as the loop variable makes them.
SPECIFICATION Spec
CONSTANTS
    Record = {r1}
    EncLen = 4
    NTrackers = 2
    BatchSize = 1
    MaxFiles = 3
    MaxLines = 1
    MaxReboots = 1
    MaxFaults = 1
INVARIANTS
    CursorValid
    AckedBeforeCursor
    NothingLeftBehind
CHECK_DEADLOCK FALSE
