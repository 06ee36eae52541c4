SPECIFICATION FairSpec
CONSTANTS
    Programs <- TimesCycle
    LongMax = 1000000
INVARIANT
    CyclesDetected
CHECK_DEADLOCK FALSE
