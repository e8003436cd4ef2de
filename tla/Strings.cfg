CONSTANTS
    a = a
    b = b
    r1 = r1
    Vars <- TwoVars
    Records <- OneRecord
    nothing = nothing
    some = some
    Texts <- TwoTexts
    Empty = nothing
    FirstHolds <- OneRecordBlocks
    MaxStr = 5
    MaxTemps = 2
    MaxHolds = 3
SPECIFICATION Spec
SYMMETRY Symmetric
INVARIANT TypeOK
INVARIANT CountsExact
PROPERTY SoleWriter
