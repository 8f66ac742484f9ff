\* Two goroutines, one record, torn lines; failures, a restart.
SPECIFICATION Spec
CONSTANTS
    r1 = r1
    r2 = r2
    Record = {r1}
    EncLen = 4
    Fetch = 2
    KeyBefore <- ByOffset
    Lines <- TornLines
    MaxFiles = 2
    MaxLines = 2
    MaxReboots = 1
    MaxFaults = 2
INVARIANTS
    TypeOK
    OneDownload
    NothingForgotten
    PositionsValid
CHECK_DEADLOCK FALSE
