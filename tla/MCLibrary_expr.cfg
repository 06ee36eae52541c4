SPECIFICATION PartsSpec
CONSTANTS
    Parts = {"expr"}
    NULL = NULL
    Memory <- Zeroed
CHECK_DEADLOCK FALSE
INVARIANT
    SimplifyKeepsValue
