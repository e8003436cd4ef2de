CONSTANTS
    MaxPieces = 3
    Sources <- MCSources
    Keywords <- MCKeywords

SPECIFICATION Spec

INVARIANTS
    TypeOK
    Tokenized
    TokensAsWritten
