SPECIFICATION Spec
CONSTANTS
    Nil = Nil
    Root = Root
    Node = {n1, n2, n3, n4, n5}
    Interval <- Intervals
    Infinity = 99
SYMMETRY Addresses
INVARIANTS
    WellFormed
PROPERTIES
    ImplementsIntervalSet
