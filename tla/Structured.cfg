CONSTANTS
    BlockNames <- Blocks
    Programs <- StructuredPrograms
    Vars <- Variables
    MAX_INTEGER = 9
    MAX_GOSUB_STACK = 2
    CALL_STACK_MAX = 2
    MaxScopes = 6
    InitialValues <- UpTo3
SPECIFICATION Spec
INVARIANT TypeOK
INVARIANT CallsMatch
PROPERTY PendingExitUnwinds
PROPERTY Terminates
