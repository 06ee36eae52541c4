SPECIFICATION Spec
CONSTANTS
    Programs <- Main
    Files <- Found
    MaxAllowedIncludeStackDepth = 4
CHECK_DEADLOCK FALSE
INVARIANTS
    
    StrayReported
    SectionsRestored
    LocalLabelsResolve
    
PROPERTIES
    ParsingEnds
