CONSTANTS
    Byte = {LF, CR, D, Q}
    LF = LF
    CR = CR
    Delimiter = D
    QuoteCharacter = Q
    MaxSize = 6
    FirstRowIsHeader = TRUE
SPECIFICATION WalkSpec
INVARIANTS
    TypeOK
    FindsTheRecord
    WalksAgree
PROPERTIES
    StreamSpec
    WalksEnd
