SPECIFICATION PartsSpec
CONSTANTS
    a = a
    b = b
    Base = {a, b}
    MaxSource = 4
    MaxSymVer = 0
SYMMETRY Symmetry
INVARIANTS
    TypeOK
    MapConsistent
    ExternCommonExclusive
    
    LinkerReads
    SymbolsBound
PROPERTIES
    DefinitionIsFinal
CHECK_DEADLOCK FALSE
