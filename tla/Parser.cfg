CONSTANT
    Sources <- MCSources

SPECIFICATION Spec

INVARIANTS
    TypeOK
    ProgramAsWritten
    JumpTargetsExist

PROPERTY
    Decided
