SPECIFICATION Spec
CONSTANTS
    Names <- Sects
    Attributes <- Attrs
    Lengths = {6}
    Origins <- Orgs
    MaxDirectives = 3
    None = None
    Complex = Complex
CHECK_DEADLOCK FALSE
INVARIANTS
    LoopsDetected
    FollowsHolds
    
    FileDisjoint
    NoVMAOverlap
PROPERTIES
    LinkEnds
