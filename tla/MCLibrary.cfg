SPECIFICATION PartsSpec
CONSTANTS
    Parts = {"trie", "leb", "int", "tokens", "expr"}
    NULL = NULL
    Memory <- Zeroed
CHECK_DEADLOCK FALSE
INVARIANTS
    
    CalcExact
    
    KeepsValue
PROPERTIES
    ImplementsMap
    ImplementsQueue
