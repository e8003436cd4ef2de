CONSTANTS
    Names = {"a", "b"}
    Values = {0, 1}
    Procedures <- AllProcedures
    Depth = 3
    AliasFree = TRUE
SPECIFICATION Spec
INVARIANT TypeOK
INVARIANT ReferencesLive
PROPERTY ImplementsByReference
PROPERTY ConstantsStay
