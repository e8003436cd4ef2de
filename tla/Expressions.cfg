SPECIFICATION Spec
CONSTANTS
    IntBits = 4
    LongBits = 8
    WildLong <- Least32
    SingleBits = 6
    Exponents <- SingleRange
    Top = 3
    Sources <- Source
    LiteralValue <- Literals
    VariableValue <- Variables
    ArrayNames <- Dimensioned
    Functions_ <- FunctionNames
    ByVal <- ValueFunction
INVARIANTS
    TypeOK
    TreesAsWritten
    ExactResults
    CallsAsWritten
