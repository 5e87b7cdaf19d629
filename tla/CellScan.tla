------------------------------ MODULE CellScan ------------------------------
(***************************************************************************)
(* Splitting a row into cells: detail::find_cell_bounds                    *)
(* (include/csv2/detail/scanner.hpp) and its only caller, the CellIterator *)
(* of csv2::basic_row (include/csv2/reader.hpp).  A field is looked at     *)
(* three ways: a short prefix byte by byte, what follows a quote-free      *)
(* prefix by memchr, and any field with a quote in the way by a loop, one  *)
(* step of this specification per iteration.                               *)
(***************************************************************************)
EXTENDS CsvBytes, Sequences

CONSTANTS
    MaxSize,       \* bound on the size of the buffer
    PrefixSize     \* bytes scanned before memchr is tried: 64 in the code

ASSUME SizesAssumption ==
    /\ MaxSize \in Nat
    /\ PrefixSize \in Nat \ {0}

VARIABLES
    buffer, buffer_size,       \* the source
    row_start, end,            \* the row; bytes may follow it
    pc,                        \* where find_cell_bounds, and its caller, are
    current,                   \* CellIterator::current_, the argument
    i, quote_opened, escaped,  \* the locals of the loop
    bounds,                    \* the cell found
    cells                      \* the cells the iterator was dereferenced at

rowVars == <<buffer, buffer_size, row_start, end>>
vars == <<rowVars, pc, current, i, quote_opened, escaped, bounds, cells>>

CellAt(size) == [start : 0 .. size, content_end : 0 .. size, escaped : BOOLEAN]

NoCell == [start |-> 0, content_end |-> 0, escaped |-> FALSE]

TypeOK ==
    /\ buffer_size \in 0 .. MaxSize
    /\ buffer \in Buffer(buffer_size)
    /\ end \in 0 .. buffer_size
    /\ row_start \in 0 .. buffer_size
    /\ pc \in {"enter", "loop", "return", "at_end"}
    /\ current \in 0 .. end \cup {row_start}
    /\ i \in 0 .. end
    /\ quote_opened \in BOOLEAN
    /\ escaped \in BOOLEAN
    /\ bounds \in CellAt(buffer_size)
    /\ cells \in Seq(CellAt(buffer_size))

\* CellIterator(buffer, start, end), for any row within the source.
Init ==
    /\ buffer_size \in 0 .. MaxSize
    /\ buffer \in Buffer(buffer_size)
    /\ end \in 0 .. buffer_size
    /\ row_start \in 0 .. end
    /\ pc = IF row_start >= end THEN "at_end" ELSE "enter"
    /\ current = row_start
    /\ i = 0
    /\ quote_opened = FALSE
    /\ escaped = FALSE
    /\ bounds = NoCell
    /\ cells = <<>>

-----------------------------------------------------------------------------
(* find_cell_bounds(buffer, current, end).                                 *)

IsQuote(k) == buffer[k] = QuoteCharacter
IsDelimiter(k) == buffer[k] = Delimiter

Plain(from, to) == \A k \in from .. to : ~ IsQuote(k) /\ ~ IsDelimiter(k)

PrefixEnd == IF end - current < PrefixSize THEN end ELSE current + PrefixSize

\* Mutated form: the look-ahead is bounded by the source, not by the row.
AdjacentPastRow(k) == IsQuote(k) /\ k + 1 < buffer_size /\ IsQuote(k + 1)

Adjacent(k) == IsQuote(k) /\ k + 1 < end /\ IsQuote(k + 1)

Return(content_end, is_escaped) ==
    /\ pc' = "return"
    /\ bounds' = [start |-> current, content_end |-> content_end, escaped |-> is_escaped]
    /\ i' = 0
    /\ quote_opened' = FALSE
    /\ escaped' = FALSE
    /\ UNCHANGED <<current, cells>>

\* The scalar loop from its first byte, or from after an opening quote.
EnterLoop(from, opened, is_escaped) ==
    /\ pc' = "loop"
    /\ i' = from
    /\ quote_opened' = opened
    /\ escaped' = is_escaped
    /\ UNCHANGED <<current, bounds, cells>>

PastEnd ==
    /\ current >= end
    /\ Return(end, FALSE)

OpeningQuote ==
    /\ current < end
    /\ IsQuote(current)
    /\ EnterLoop(current + 1, TRUE, Adjacent(current))

\* A quote or a delimiter within the prefix.
Prefix ==
    \E k \in current .. PrefixEnd - 1 :
        /\ ~ IsQuote(current)
        /\ Plain(current, k - 1)
        /\ \/ IsQuote(k) /\ EnterLoop(current, FALSE, FALSE)
           \/ ~ IsQuote(k) /\ IsDelimiter(k) /\ Return(k, FALSE)

PrefixIsAll ==
    /\ current < end
    /\ PrefixEnd = end
    /\ Plain(current, end - 1)
    /\ Return(end, FALSE)

\* d is what memchr finds in the tail, or the end when it finds nothing.
TailDelimiter(d) ==
    /\ d < end => IsDelimiter(d)
    /\ \A k \in PrefixEnd .. d - 1 : ~ IsDelimiter(k)

\* The quote probe includes the delimiter candidate, which may be a quote.
TailQuoteProbe(d) ==
    \E k \in PrefixEnd .. (IF d < end THEN d ELSE end - 1) : IsQuote(k)

MemchrTail ==
    /\ current < end
    /\ PrefixEnd < end
    /\ Plain(current, PrefixEnd - 1)
    /\ \E d \in PrefixEnd .. end :
          /\ TailDelimiter(d)
          /\ \/ ~ TailQuoteProbe(d) /\ Return(d, FALSE)
             \/ TailQuoteProbe(d) /\ EnterLoop(current, FALSE, FALSE)

Enter ==
    /\ pc = "enter"
    /\ PastEnd \/ OpeningQuote \/ Prefix \/ PrefixIsAll \/ MemchrTail
    /\ UNCHANGED rowVars

-----------------------------------------------------------------------------
(* The loop of both scalar functions.                                      *)

SkipDoubledQuote ==
    /\ IsQuote(i)
    /\ quote_opened
    /\ Adjacent(i)
    /\ escaped' = TRUE
    /\ i' = i + 2
    /\ UNCHANGED <<pc, current, quote_opened, bounds, cells>>

ClosesCell(k) == k + 1 < end => IsDelimiter(k + 1)

CloseCell ==
    /\ IsQuote(i)
    /\ quote_opened
    /\ ~ Adjacent(i)
    /\ ClosesCell(i)
    /\ Return(i + 1, escaped)

ToggleQuote ==
    /\ IsQuote(i)
    /\ quote_opened => ~ Adjacent(i) /\ ~ ClosesCell(i)
    /\ escaped' = (escaped \/ Adjacent(i))
    /\ quote_opened' = ~ quote_opened
    /\ i' = i + 1
    /\ UNCHANGED <<pc, current, bounds, cells>>

EndCell ==
    /\ ~ IsQuote(i)
    /\ IsDelimiter(i)
    /\ ~ quote_opened
    /\ Return(i, escaped)

\* Mutated form: an ordinary byte is not stepped over.
StuckContent ==
    /\ ~ IsQuote(i)
    /\ IsDelimiter(i) => quote_opened
    /\ UNCHANGED <<pc, current, i, quote_opened, escaped, bounds, cells>>

Content ==
    /\ ~ IsQuote(i)
    /\ IsDelimiter(i) => quote_opened
    /\ i' = i + 1
    /\ UNCHANGED <<pc, current, quote_opened, escaped, bounds, cells>>

Loop ==
    /\ pc = "loop"
    /\ i < end
    /\ SkipDoubledQuote \/ CloseCell \/ ToggleQuote \/ EndCell \/ Content
    /\ UNCHANGED rowVars

OutOfBytes ==
    /\ pc = "loop"
    /\ i >= end
    /\ Return(end, escaped)
    /\ UNCHANGED rowVars

-----------------------------------------------------------------------------
(* The iterator: dereference, then operator++.                             *)

\* Mutated form: a delimiter that ends the row hides the empty cell after it.
StepPastDelimiter(content_end) ==
    IF content_end + 1 < end
    THEN current' = content_end + 1 /\ pc' = "enter"
    ELSE current' = end /\ pc' = "at_end"

Increment(content_end) ==
    IF content_end < end
    THEN current' = content_end + 1 /\ pc' = "enter"
    ELSE current' = end /\ pc' = "at_end"

VisitCell ==
    /\ pc = "return"
    /\ cells' = Append(cells, bounds)
    /\ Increment(bounds.content_end)
    /\ bounds' = NoCell
    /\ UNCHANGED <<i, quote_opened, escaped, rowVars>>

AtEnd == pc = "at_end" /\ UNCHANGED vars

Step == Enter \/ Loop \/ OutOfBytes \/ VisitCell

Next == Step \/ AtEnd

\* One thread iterates; nothing else has to happen for it to go on.
Spec == Init /\ [][Next]_vars /\ WF_vars(Step)

-----------------------------------------------------------------------------
\* The loop, wherever it was entered, knows the parity of the quotes since the
\* start of the cell, has passed no delimiter that ends it, and has noticed
\* every pair of adjacent quotes up to the byte it is about to read.
LoopInvariant ==
    pc = "loop" =>
        /\ current <= i
        /\ quote_opened <=> ~ Balanced(buffer, current, i)
        /\ \A k \in current .. i - 1 : ~ EndsCell(buffer, current, k)
        /\ escaped <=> HasAdjacentQuotes(buffer, current, IF i < end THEN i + 1 ELSE end)

\* Prefix scan, memchr tail and loop find the cell of the definition, on every
\* buffer, whatever bytes follow the row, with the quote as delimiter too.
FindsTheCell == pc = "return" => bounds = Cell(buffer, end, current)

\* The iterator forgets all quoting between cells, yet it cuts the row exactly
\* at the delimiters that are unquoted counting from the start of the row; the
\* cells it yields leave out nothing else, and a final delimiter is followed
\* by an empty cell.
SplitsAtRowDelimiters ==
    pc = "at_end" =>
        LET cuts == {k \in row_start .. end - 1 : EndsCell(buffer, row_start, k)}
        IN  IF row_start >= end
            THEN cells = <<>>
            ELSE /\ Len(cells) = Cardinality(cuts) + 1
                 /\ cells[1].start = row_start
                 /\ cells[Len(cells)].content_end = end
                 /\ \A n \in 1 .. Len(cells) - 1 :
                       /\ cells[n].content_end \in cuts
                       /\ cells[n + 1].start = cells[n].content_end + 1

\* Iteration over any row ends.
CellsEnd == <>(pc = "at_end")
=============================================================================
