SPECIFICATION Spec
CONSTANTS
    Names = {"a", "b"}
    Addresses = {p1, p2}
    AllBounds <- AllDims
    Subscripts <- AllSubscripts
    Values = {0, 1}
    Initial = 0
    Top = 1
    MaxCalls = 2
    MaxSet = 1
    WellUsed = TRUE
INVARIANTS
    TypeOK
    ArraysSound
PROPERTIES
    ImplementsArrayStore
CHECK_DEADLOCK FALSE
