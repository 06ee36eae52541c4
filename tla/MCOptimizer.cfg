SPECIFICATION FairSpec
CONSTANTS
    Programs <- AllPrograms
    LongMax = 1000000
INVARIANTS
    TermAccuracy
    NoLostExpansion
    LayoutCorrect
    CyclesDetected
PROPERTIES
    Termination
CHECK_DEADLOCK FALSE
