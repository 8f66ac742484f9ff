\* A batch that starts with a known record.
SPECIFICATION Spec
CONSTANTS
    Record = {r1, r2}
    EncLen = 4
    NTrackers = 1
    BatchSize = 2
    MaxFiles = 1
    MaxLines = 3
    MaxReboots = 0
    MaxFaults = 0
INVARIANTS
    TrackerComplete
CHECK_DEADLOCK FALSE
