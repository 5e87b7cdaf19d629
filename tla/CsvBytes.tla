------------------------------ MODULE CsvBytes ------------------------------
(***************************************************************************)
(* The vocabulary shared by the scanners: a byte alphabet, the policy that *)
(* assigns roles to bytes, and the definition of a CSV record and of a CSV *)
(* cell against which the scanners of include/csv2/detail/scanner.hpp are  *)
(* checked.                                                                *)
(*                                                                         *)
(* A buffer is a function from its positions 0 .. size - 1 to bytes.  The  *)
(* only bytes the scanners tell apart are the line feed, the carriage      *)
(* return, the delimiter and the quote; every other byte is equivalent.    *)
(***************************************************************************)
EXTENDS Integers, FiniteSets, FiniteSetsExt

CONSTANTS
    Byte,             \* the alphabet
    LF, CR,           \* '\n' and '\r'
    Delimiter,        \* csv2::delimiter<c>::value
    QuoteCharacter    \* csv2::quote_character<c>::value

\* The quote policy may be any byte, even LF, CR or the delimiter; a delimiter
\* that is a record separator does not compile (parameters.hpp).
ASSUME PolicyAssumption ==
    /\ {LF, CR, Delimiter, QuoteCharacter} \subseteq Byte
    /\ LF # CR
    /\ Delimiter \notin {LF, CR}

Buffer(size) == [0 .. size - 1 -> Byte]

-----------------------------------------------------------------------------
(* Quotes.  Inside a quoted stretch two adjacent quotes stand for one and  *)
(* leave it open, which is what toggling twice does: a position is outside *)
(* quotes exactly when an even number of quotes precedes it.               *)

QuotesIn(buffer, from, to) == {j \in from .. to - 1 : buffer[j] = QuoteCharacter}

Balanced(buffer, from, to) == Cardinality(QuotesIn(buffer, from, to)) % 2 = 0

-----------------------------------------------------------------------------
(* The record that starts at a position: up to the first unquoted line     *)
(* feed, less the carriage return before it, or else all that is left.     *)

EndsRecord(buffer, from, i) ==
    /\ buffer[i] = LF
    /\ LF # QuoteCharacter
    /\ Balanced(buffer, from, i)

\* A carriage return that is itself the quote belongs to the record.
DropsCarriageReturn(buffer, from, i) ==
    /\ i > from
    /\ buffer[i - 1] = CR
    /\ CR # QuoteCharacter

RecordBounds(buffer, from, i) ==
    [start       |-> from,
     content_end |-> IF DropsCarriageReturn(buffer, from, i) THEN i - 1 ELSE i,
     next_start  |-> i + 1]

RestOfBuffer(size, from) ==
    [start |-> from, content_end |-> size, next_start |-> size]

Record(buffer, size, from) ==
    LET ends == {i \in from .. size - 1 : EndsRecord(buffer, from, i)}
    IN  IF ends = {} THEN RestOfBuffer(size, from)
                     ELSE RecordBounds(buffer, from, Min(ends))

-----------------------------------------------------------------------------
(* The cell that starts at a position of a record ending at end: up to the *)
(* first unquoted delimiter, or else all that is left.  It needs decoding  *)
(* when two quotes are adjacent in it.                                     *)

EndsCell(buffer, from, i) ==
    /\ buffer[i] = Delimiter
    /\ Delimiter # QuoteCharacter
    /\ Balanced(buffer, from, i)

HasAdjacentQuotes(buffer, from, to) ==
    \E j \in from .. to - 2 :
        /\ buffer[j] = QuoteCharacter
        /\ buffer[j + 1] = QuoteCharacter

Cell(buffer, end, from) ==
    LET ends == {i \in from .. end - 1 : EndsCell(buffer, from, i)}
        content_end == IF ends = {} THEN end ELSE Min(ends)
    IN  [start       |-> from,
         content_end |-> content_end,
         escaped     |-> HasAdjacentQuotes(buffer, from, content_end)]
=============================================================================
