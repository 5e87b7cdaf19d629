CONSTANTS
    Byte = {LF, CR, Comma, Quote, Space, Other}
    LF = LF
    CR = CR
    Delimiter = Comma
    QuoteCharacter = Quote
    TrimPolicies = {{Space, Quote}}
    MaxSize = 5
SPECIFICATION ValidationSpec
INVARIANTS
    RejectsNonTrimContent
