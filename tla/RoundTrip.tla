----------------------------- MODULE RoundTrip ------------------------------
(***************************************************************************)
(* The cell iterator on three kinds of sources: a row anywhere in a source *)
(* of any bytes, a row of what may be a number, and the first record of a  *)
(* source that a writer began with a row, whatever follows it.             *)
(***************************************************************************)
EXTENDS Conversion, WriterText

CONSTANTS
    SourceSize, SourceByte,    \* the arbitrary sources: bound and alphabet
    NumberSize, NumberByte,    \* the rows with a number: bound and alphabet
    FieldSize, FieldCount,     \* the rows written: bounds
    FieldByte                  \* and alphabet

\* The reader has the quote of the writer, and it is no separator.
ASSUME RoundTripAssumption ==
    /\ DoubleQuote = QuoteCharacter
    /\ QuoteCharacter \notin {LF, CR, Delimiter}
    /\ FieldByte \subseteq Byte
    /\ {FieldSize, FieldCount} \subseteq Nat

VARIABLE
    written      \* the row that the source starts with, and how it was quoted

allVars == <<vars, written>>

NotWritten == [fields |-> <<>>, policy |-> "none"]

AnySource ==
    /\ buffer_size \in 0 .. SourceSize
    /\ buffer \in [0 .. buffer_size - 1 -> SourceByte]
    /\ Init
    /\ written = NotWritten

NumberSource ==
    /\ buffer_size \in 0 .. NumberSize
    /\ buffer \in [0 .. buffer_size - 1 -> NumberByte]
    /\ row_start = 0
    /\ end = buffer_size
    /\ Init
    /\ written = NotWritten

\* The caller writes a row and goes on writing, at most one byte of it is here;
\* the reader asks for the first record, which RecordScan finds.
WrittenSource ==
    /\ written \in [fields : SeqOf(SeqOf(FieldByte, FieldSize), FieldCount), policy : QuotePolicies]
    /\ \E rest \in SeqOf(FieldByte, 1) :
          LET text == WriteRow(written.fields, written.policy) \o rest
          IN  /\ buffer_size = Len(text)
              /\ buffer = [k \in 0 .. Len(text) - 1 |-> text[k + 1]]
    /\ row_start = 0
    /\ end = Record(buffer, buffer_size, 0).content_end
    /\ Init

RoundTripInit == AnySource \/ NumberSource \/ WrittenSource

RoundTripNext == Next /\ UNCHANGED written

RoundTripSpec == RoundTripInit /\ [][RoundTripNext]_allVars /\ WF_allVars(Step /\ UNCHANGED written)

-----------------------------------------------------------------------------
\* What a quoting writer wrote is read back, field by field: the record ends
\* with the row whatever byte of a field comes next, the iterator cuts it where the writer
\* put its separators, and copy_content_to undoes the quoting.  Only a single
\* empty field with minimal quoting is read as a row without cells.
WrittenReadsBack ==
    /\ written # NotWritten =>
          Record(buffer, buffer_size, 0).next_start = Len(WriteRow(written.fields, written.policy))
    /\ pc = "at_end" /\ written # NotWritten =>
          LET fields == [n \in DOMAIN cells |-> CopyContentTo(cells[n], {})]
          IN  IF written = [fields |-> <<<<>>>>, policy |-> "minimal"]
              THEN fields = <<>>
              ELSE fields = written.fields
=============================================================================
