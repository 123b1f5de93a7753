\* Three blocks at a time on a heap of a first chunk that can grow once or twice;
\* the driver plays two traces of at most three requests.
SPECIFICATION DriverSpec
CONSTANTS
    MAX_HEAP = 208
    CHUNKSIZE = 64
    SizeBits = 9
    Sizes <- CallerSizes
    MaxLive = 3
    MaxOps = 3
    NumTraces = 2
    Repetitions = 2
    HighIds = {2}
CHECK_DEADLOCK FALSE
INVARIANTS
    HeapInv
    PayloadsKept
    DriverKnowsBlocks
PROPERTIES
    BestFit
    AlarmsAreExplained
    PlaysAlike
