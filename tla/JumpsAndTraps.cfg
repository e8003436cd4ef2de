CONSTANTS
    BlockNames <- Blocks
    Programs <- JumpAndTrapPrograms
    Vars <- Variables
    MAX_INTEGER = 9
    MAX_GOSUB_STACK = 2
    CALL_STACK_MAX = 2
    MaxScopes = 4
    InitialValues <- UpTo2
SPECIFICATION Spec
INVARIANT ControlStaysDefined
INVARIANT SetHandlerCatches
PROPERTY GosubReturnsToNext
