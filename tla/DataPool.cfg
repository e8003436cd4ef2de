CONSTANTS
    IntBits = 4
    LongBits = 8
    WildLong <- Least32
    SingleBits = 6
    Exponents <- SingleRange
    Names = {"x"}
    Elements = {"a"}
    VarTypes = {"INTEGER", "SINGLE", "STRING"}
    Pool <- MCPool
    DataAt <- MCDataAt
    Lists <- MCLists
    LetValues <- MCLetValues
    Depth = 2
    WellTyped = TRUE
SPECIFICATION Spec
INVARIANTS
    TypeOK
    ItemsAccounted
    ReadExact
