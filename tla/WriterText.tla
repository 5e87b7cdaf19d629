----------------------------- MODULE WriterText -----------------------------
(***************************************************************************)
(* The text that csv2::basic_writer (include/csv2/writer.hpp) puts out for *)
(* a row, under its two policies that quote.  A field is a sequence of     *)
(* bytes.  The writer has its own quote, which no policy changes.          *)
(***************************************************************************)
EXTENDS CsvBytes, SequencesExt

CONSTANT DoubleQuote     \* the quote of the writer

QuotePolicies == {"minimal", "always"}

\* Mutated form: a carriage return does not need quotes.
ShouldQuoteButCR(data, policy) ==
    \/ policy = "always"
    \/ \E n \in DOMAIN data : data[n] \in {Delimiter, DoubleQuote, LF}

ShouldQuote(data, policy) ==
    \/ policy = "always"
    \/ \E n \in DOMAIN data : data[n] \in {Delimiter, DoubleQuote, CR, LF}

\* Segments between quotes, each quote written twice.
EscapedChars(data) ==
    LET from[n \in 0 .. Len(data)] ==
            [segment \in 0 .. n |->
                IF n = Len(data) THEN SubSeq(data, segment + 1, n)
                ELSE IF data[n + 1] # DoubleQuote THEN from[n + 1][segment]
                ELSE SubSeq(data, segment + 1, n)
                        \o (<<DoubleQuote, DoubleQuote>> \o from[n + 1][n + 1])]
    IN  from[0][0]

WriteEscapedChars(data, policy) ==
    IF ShouldQuote(data, policy)
    THEN <<DoubleQuote>> \o EscapedChars(data) \o <<DoubleQuote>>
    ELSE data

\* write_row: a separator before every field but the first.
WriteRow(fields, policy) ==
    LET from[n \in 1 .. Len(fields) + 1] ==
            IF n > Len(fields) THEN <<LF>>
            ELSE (IF n = 1 THEN <<>> ELSE <<Delimiter>>)
                    \o WriteEscapedChars(fields[n], policy) \o from[n + 1]
    IN  from[1]
=============================================================================
