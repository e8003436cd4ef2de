CONSTANTS
    Char <- MCChar
    Formats <- MCFormats
    ValueLists <- MCValueLists
    NumberSize = 6
    FieldSize = 9
    MaxPasses = 4
SPECIFICATION Spec
INVARIANTS
    TypeOK
    
    AsPromised
    ColumnsKept
PROPERTIES
    Ends
CHECK_DEADLOCK FALSE
