SPECIFICATION PartsSpec
CONSTANTS
    Parts = {"trie"}
    NULL = NULL
    Memory <- Stale
CHECK_DEADLOCK FALSE
INVARIANT
    NodeForms
