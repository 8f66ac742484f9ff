\* Crashes anywhere in a Write, failing system calls, and a full map.
SPECIFICATION Spec
CONSTANTS
    Record = {r1, r2}
    EncLen = 4
    MaxSize = 1
    MaxFiles = 2
    MaxBatch = 2
    MaxWrites = 3
    MaxRestarts = 3
    MaxFaults = 2
INVARIANTS
    TypeOK
    AppendsToNewest
    SealedFull
    CountNeverOver
    DamageBounded
PROPERTIES
    RefinesLogFeed
CHECK_DEADLOCK FALSE
