\* Fields longer and shorter than the prefix and than a short field, under the
\* usual policy. In the arbitrary sources a carriage return is the byte that
\* stands for all others: record separators are ordinary bytes to the cell
\* scanner. A row that is written has at most two fields of two bytes. A number
\* of six bits is -32 to 31, or 0 to 63.
CONSTANTS
    Byte = {LF, CR, D, Q, X, Minus, 0, 1, 2, 3, 4, 6}
    LF = LF
    CR = CR
    Delimiter = D
    QuoteCharacter = Q
    DoubleQuote = Q
    MaxSize = 15
    PrefixSize = 2
    ShortSize = 4
    TrimPolicies = {{}, {Q}, {CR, LF}}
    SourceSize = 6
    SourceByte = {LF, CR, D, Q}
    NumberSize = 4
    NumberByte = {Q, X, Minus, 0, 1, 2, 3, 4, 6}
    Minus = Minus
    Digit = {0, 1, 2, 3, 4, 6}
    Width = 6
    Bases = {3, 10}
    FieldSize = 2
    FieldCount = 2
    FieldByte = {LF, CR, D, Q, X}
SPECIFICATION RoundTripSpec
INVARIANTS
    FindsTheCell
    SplitsAtRowDelimiters
    ReadersAgree
    ConvertsTheContent
    WrittenReadsBack
PROPERTY CellsEnd
