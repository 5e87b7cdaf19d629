CONSTANTS
    Byte = {LF, CR, Comma, Quote, Space, Other}
    LF = LF
    CR = CR
    Delimiter = Comma
    QuoteCharacter = Quote
    TrimPolicies = {{Space}, {Space, LF, CR, Comma}, {Quote, LF, CR, Comma}}
    MaxSize = 5
SPECIFICATION ValidationSpec
INVARIANTS
    ReportsTheFirstError
PROPERTY Returns
