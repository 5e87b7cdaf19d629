----------------------------- MODULE Validation -----------------------------
(***************************************************************************)
(* csv2::Reader::validate: detail::validate_csv and validate_cell          *)
(* (include/csv2/detail/validation.hpp).  It is a client of both scanners, *)
(* which are taken here by what RecordScan and CellScan establish: they    *)
(* return Record and Cell.  One step reads a record or a cell, and one     *)
(* validates a cell.                                                       *)
(***************************************************************************)
EXTENDS CsvGrammar

CONSTANTS
    TrimPolicies,    \* the sets of bytes that a trim policy may remove
    MaxSize          \* bound on the size of the source

ASSUME ValidationAssumption ==
    /\ TrimPolicies \subseteq SUBSET Byte
    /\ MaxSize \in Nat

VARIABLES
    buffer, size,               \* the source
    trim,                       \* the trim policy of the Reader
    pc,                         \* what is read next, or the verdict
    record, cell_start, cell_end,   \* the record and the cell under way
    row, column,                \* where they are, counted from one
    error                       \* the parse_error of the caller

sourceVars == <<buffer, size, trim>>
validationVars == <<sourceVars, pc, record, cell_start, cell_end, row, column, error>>

NoError == [code |-> "none", byte_offset |-> 0, row |-> 0, column |-> 0]

ErrorCodes == {"none", "unclosed_quote", "unexpected_quote", "invalid_doubled_quote",
               "characters_after_closing_quote", "bare_carriage_return"}

ValidationInit ==
    /\ size \in 0 .. MaxSize
    /\ buffer \in Buffer(size)
    /\ trim \in TrimPolicies
    /\ pc = IF size = 0 THEN "accepted" ELSE "record"
    /\ record = [start |-> 0, content_end |-> 0, next_start |-> 0]
    /\ cell_start = 0
    /\ cell_end = 0
    /\ row = 1
    /\ column = 1
    /\ error = NoError

-----------------------------------------------------------------------------
(* validate_cell.                                                          *)

IsQuote(k) == buffer[k] = QuoteCharacter

\* TrimPolicy::trim: the range without the bytes it removes at both ends.
Trim(start, end) ==
    LET kept == {k \in start .. end - 1 : buffer[k] \notin trim}
    IN  IF kept = {} THEN [first |-> end, second |-> end]
                     ELSE [first |-> Min(kept), second |-> Max(kept) + 1]

\* The policies of the library trim within the cell; a policy that does not is
\* left out.
TrimPreservingStructure(start, end) ==
    LET trimmed == Trim(start, end)
        before == {k \in start .. trimmed.first - 1 : buffer[k] \in Structural}
        after == {k \in trimmed.second .. end - 1 : buffer[k] \in Structural}
    IN  [first  |-> IF before = {} THEN trimmed.first ELSE Min(before),
         second |-> IF after = {} THEN trimmed.second ELSE Max(after) + 1]

BareCarriageReturn(k, end) ==
    /\ buffer[k] = CR
    /\ CR # QuoteCharacter
    /\ QuoteCharacter = LF \/ k + 1 >= end \/ buffer[k + 1] # LF

\* The quote that closes the one before k, or end.
ClosingQuote(from, end) ==
    LET closing[k \in from .. end] ==
            IF k = end THEN end
            ELSE IF ~ IsQuote(k) THEN closing[k + 1]
            ELSE IF k + 1 < end /\ IsQuote(k + 1) THEN closing[k + 2]
            ELSE k
    IN  closing[from]

Fault(code, k) == [code |-> code, offset |-> k]

NoFault == Fault("none", 0)

BareCell(start, end) ==
    LET bad == {k \in start .. end - 1 : IsQuote(k) \/ BareCarriageReturn(k, end)}
    IN  IF bad = {} THEN NoFault
        ELSE Fault(IF IsQuote(Min(bad)) THEN "unexpected_quote" ELSE "bare_carriage_return",
                   Min(bad))

\* What follows the closing quote, less what the policy trims, is at fault.
AfterQuote(first_suffix, second) ==
    LET suffix == TrimPreservingStructure(first_suffix, second)
        offending == IF suffix.first < suffix.second THEN suffix.first ELSE first_suffix
    IN  CASE BareCarriageReturn(offending, second) ->
                Fault("bare_carriage_return", offending)
          [] offending # first_suffix /\ IsQuote(offending) ->
                Fault("invalid_doubled_quote", offending)
          [] OTHER -> Fault("characters_after_closing_quote", offending)

ValidateCell(start, end) ==
    LET bounds == TrimPreservingStructure(start, end)
        closing == ClosingQuote(bounds.first + 1, bounds.second)
    IN  CASE bounds.first = bounds.second -> NoFault
          [] bounds.first # bounds.second /\ ~ IsQuote(bounds.first) -> BareCell(start, end)
          [] OTHER ->
                CASE closing = bounds.second -> Fault("unclosed_quote", bounds.first)
                  [] closing + 1 < bounds.second -> AfterQuote(closing + 1, bounds.second)
                  [] OTHER -> NoFault

-----------------------------------------------------------------------------
(* validate_csv.                                                           *)

ReadRecord ==
    /\ pc = "record"
    /\ record' = Record(buffer, size, IF row = 1 THEN 0 ELSE record.next_start)
    /\ cell_start' = record'.start
    /\ cell_end' = record'.start
    /\ column' = 1
    /\ pc' = "cell"
    /\ UNCHANGED <<row, error, sourceVars>>

ReadCell ==
    /\ pc = "cell"
    /\ cell_end' = Cell(buffer, record.content_end, cell_start).content_end
    /\ pc' = "validate"
    /\ UNCHANGED <<record, cell_start, row, column, error, sourceVars>>

Reject(fault) ==
    /\ fault # NoFault
    /\ error' = [code |-> fault.code, byte_offset |-> fault.offset,
                 row |-> row, column |-> column]
    /\ pc' = "rejected"
    /\ UNCHANGED <<record, cell_start, cell_end, row, column, sourceVars>>

\* Mutated form: the delimiter that ended the cell is read again.
NextCellAtDelimiter ==
    /\ cell_end < record.content_end
    /\ cell_start' = cell_end
    /\ pc' = "cell"
    /\ UNCHANGED <<cell_end, column, record, row, error, sourceVars>>

NextCell ==
    /\ cell_end < record.content_end
    /\ cell_start' = cell_end + 1
    /\ cell_end' = cell_end + 1
    /\ column' = column + 1
    /\ pc' = "cell"
    /\ UNCHANGED <<record, row, error, sourceVars>>

NextRecord ==
    /\ cell_end >= record.content_end
    /\ IF record.next_start >= size
       THEN pc' = "accepted" /\ UNCHANGED row
       ELSE pc' = "record" /\ row' = row + 1
    /\ UNCHANGED <<record, cell_start, cell_end, column, error, sourceVars>>

CheckCell ==
    /\ pc = "validate"
    /\ \E fault \in {ValidateCell(cell_start, cell_end)} :
          \/ Reject(fault)
          \/ fault = NoFault /\ (NextCell \/ NextRecord)

Step == ReadRecord \/ ReadCell \/ CheckCell

Verdict == pc \in {"accepted", "rejected"} /\ UNCHANGED validationVars

ValidationNext == Step \/ Verdict

\* One thread validates; nothing else has to happen for it to go on.
ValidationSpec == ValidationInit /\ [][ValidationNext]_validationVars /\ WF_validationVars(Step)

-----------------------------------------------------------------------------
\* Cutting the source into records and these into cells, trimming each and
\* looking at it alone accepts exactly the language of the automaton, and
\* otherwise reports the first byte at which the source can no longer be valid:
\* the kind of the error, its offset, its row and its column.
ReportsTheFirstError ==
    /\ pc = "accepted" => error = NoError /\ Errors(buffer, size, trim) = {}
    /\ pc = "rejected" => Errors(buffer, size, trim) = {error}

\* README.md: validate rejects "non-trim content after a closing quote". What it
\* rejects for that is not a byte that the policy trims.
RejectsNonTrimContent ==
    error.code = "characters_after_closing_quote" =>
        buffer[error.byte_offset] \notin Blank(trim)

\* validate() returns.
Returns == <>(pc \in {"accepted", "rejected"})
=============================================================================
