CONSTANTS
    FileNames = {"f", "g"}
    MaxFiles = 2
    Vars = {"a", "b"}
    Byte = {"quote", "comma", "cr", "lf", "space", "nul", "unset", "1", "x"}
    RecLen = 2
    FieldSize = 3
    Programs <- EachKind
    Sharing = FALSE
SPECIFICATION Spec
INVARIANT TypeOK
INVARIANT ReadsBack
INVARIANT EofTellsInput
INVARIANT GetSeesFile
