----------------------------- MODULE RecordScan -----------------------------
(***************************************************************************)
(* detail::find_record_bounds (include/csv2/detail/scanner.hpp): finds the *)
(* end of the CSV record that starts at a given position.  A record whose  *)
(* bytes up to and including the first line feed hold no quote is found by *)
(* two memchr calls; any other one by a loop over the bytes after the      *)
(* first quote, one step of this specification per iteration.              *)
(*                                                                         *)
(* The Reader, its iterator, rows() and RowIndex all call it (RowScan).    *)
(* Here it is called with every start, as the public RowIterator           *)
(* constructor allows, which is what RecordScanProofs proves about; RowScan *)
(* makes the calls of the walks.  A null buffer is the buffer of size 0.    *)
(***************************************************************************)
EXTENDS CsvBytes

CONSTANT MaxSize     \* bound on the size of the buffer

ASSUME MaxSizeAssumption == MaxSize \in Nat

VARIABLES
    buffer, buffer_size,    \* the source, which nothing here modifies
    pc,                     \* where the function is
    start,                  \* its argument
    i, quote_opened,        \* the locals of its loop
    bounds                  \* what it returned

sourceVars == <<buffer, buffer_size>>
scanVars == <<pc, start, i, quote_opened, bounds>>

Row(size) == [start : 0 .. size, content_end : 0 .. size, next_start : 0 .. size]

TypeOK ==
    /\ buffer_size \in 0 .. MaxSize
    /\ buffer \in Buffer(buffer_size)
    /\ pc \in {"idle", "enter", "loop", "return"}
    /\ start \in 0 .. buffer_size
    /\ i \in 0 .. buffer_size
    /\ quote_opened \in BOOLEAN
    /\ bounds \in Row(buffer_size)

Init ==
    /\ buffer_size \in 0 .. MaxSize
    /\ buffer \in Buffer(buffer_size)
    /\ pc = "idle"
    /\ start = 0
    /\ i = 0
    /\ quote_opened = FALSE
    /\ bounds = RestOfBuffer(buffer_size, 0)

-----------------------------------------------------------------------------
(* The steps of the function.                                              *)

IsQuote(k) == buffer[k] = QuoteCharacter

QuoteFree(from, to) == \A k \in from .. to : ~ IsQuote(k)

\* n is what memchr(buffer + start, '\n', remaining) finds.
FirstLineFeed(n) ==
    /\ buffer[n] = LF
    /\ \A k \in start .. n - 1 : buffer[k] # LF

NoLineFeed(from, to) == \A k \in from .. to : buffer[k] # LF

Call(from) ==
    /\ pc' = "enter"
    /\ start' = from
    /\ i' = 0
    /\ quote_opened' = FALSE
    /\ bounds' = RestOfBuffer(buffer_size, 0)

Return(result) ==
    /\ pc' = "return"
    /\ bounds' = result
    /\ UNCHANGED <<start, i, quote_opened>>

\* The caller takes the result, and the locals are gone.
Leave ==
    /\ pc' = "idle"
    /\ start' = 0
    /\ i' = 0
    /\ quote_opened' = FALSE
    /\ bounds' = RestOfBuffer(buffer_size, 0)

PastEnd ==
    /\ pc = "enter"
    /\ start >= buffer_size
    /\ Return(RestOfBuffer(buffer_size, start))

\* The quote probe includes the line feed: when that is the quote policy the
\* loop, which looks at quotes first, must decide.
FastRecord ==
    /\ pc = "enter"
    /\ \E n \in start .. buffer_size - 1 :
          /\ FirstLineFeed(n)
          /\ QuoteFree(start, n)
          /\ Return([start       |-> start,
                     content_end |-> IF n > start /\ buffer[n - 1] = CR THEN n - 1 ELSE n,
                     next_start  |-> n + 1])

FastRest ==
    /\ pc = "enter"
    /\ start < buffer_size
    /\ NoLineFeed(start, buffer_size - 1)
    /\ QuoteFree(start, buffer_size - 1)
    /\ Return(RestOfBuffer(buffer_size, start))

EnterLoop ==
    /\ pc = "enter"
    /\ \E q \in start .. buffer_size - 1 :
          /\ IsQuote(q)
          /\ QuoteFree(start, q - 1)
          /\ NoLineFeed(start, q - 1)
          /\ i' = q + 1
    /\ quote_opened' = TRUE
    /\ pc' = "loop"
    /\ UNCHANGED <<start, bounds>>

\* Mutated form: the last quote of the buffer counts as doubled.
UnboundedDoubledQuote(k) ==
    /\ quote_opened
    /\ k + 1 < buffer_size => IsQuote(k + 1)

DoubledQuote(k) ==
    /\ quote_opened
    /\ k + 1 < buffer_size
    /\ IsQuote(k + 1)

SkipDoubledQuote ==
    /\ pc = "loop"
    /\ i < buffer_size
    /\ IsQuote(i)
    /\ DoubledQuote(i)
    /\ i' = i + 2
    /\ UNCHANGED <<pc, start, quote_opened, bounds>>

ToggleQuote ==
    /\ pc = "loop"
    /\ i < buffer_size
    /\ IsQuote(i)
    /\ ~ DoubledQuote(i)
    /\ quote_opened' = ~ quote_opened
    /\ i' = i + 1
    /\ UNCHANGED <<pc, start, bounds>>

\* Mutated form: the carriage return before the line feed stays.
EndRecordKeepCR ==
    /\ pc = "loop"
    /\ i < buffer_size
    /\ ~ IsQuote(i)
    /\ buffer[i] = LF
    /\ ~ quote_opened
    /\ Return([start |-> start, content_end |-> i, next_start |-> i + 1])

EndRecord ==
    /\ pc = "loop"
    /\ i < buffer_size
    /\ ~ IsQuote(i)
    /\ buffer[i] = LF
    /\ ~ quote_opened
    /\ Return([start       |-> start,
               content_end |-> IF /\ QuoteCharacter # CR
                                  /\ i > start
                                  /\ buffer[i - 1] = CR
                               THEN i - 1 ELSE i,
               next_start  |-> i + 1])

\* Mutated form: an ordinary byte is not stepped over.
StuckContent ==
    /\ pc = "loop"
    /\ i < buffer_size
    /\ ~ IsQuote(i)
    /\ buffer[i] = LF => quote_opened
    /\ UNCHANGED scanVars

Content ==
    /\ pc = "loop"
    /\ i < buffer_size
    /\ ~ IsQuote(i)
    /\ buffer[i] = LF => quote_opened
    /\ i' = i + 1
    /\ UNCHANGED <<pc, start, quote_opened, bounds>>

OutOfBytes ==
    /\ pc = "loop"
    /\ i >= buffer_size
    /\ Return(RestOfBuffer(buffer_size, start))

FindRecordBounds ==
    /\ \/ PastEnd \/ FastRecord \/ FastRest \/ EnterLoop
       \/ SkipDoubledQuote \/ ToggleQuote \/ EndRecord \/ Content \/ OutOfBytes
    /\ UNCHANGED sourceVars

-----------------------------------------------------------------------------
(* A caller that asks for the record at any position, again and again.     *)

AnyCall ==
    /\ pc = "idle"
    /\ \E from \in 0 .. buffer_size : Call(from)
    /\ UNCHANGED sourceVars

TakeResult ==
    /\ pc = "return"
    /\ Leave
    /\ UNCHANGED sourceVars

Next == AnyCall \/ FindRecordBounds \/ TakeResult

vars == <<sourceVars, scanVars>>

\* The function is ordinary sequential code: once called, it keeps running.
Spec == Init /\ [][Next]_vars /\ WF_vars(FindRecordBounds)

-----------------------------------------------------------------------------
(* What it promises.                                                       *)

\* The loop's flag is the parity of the quotes read so far, although it never
\* counts them, starts after the first one and jumps over doubled ones; and no
\* byte it has passed ends the record (find_record_bounds, the quoted loop).
LoopInvariant ==
    pc = "loop" =>
        /\ start < i
        /\ quote_opened <=> ~ Balanced(buffer, start, i)
        /\ \A k \in start .. i - 1 : ~ EndsRecord(buffer, start, k)

\* Whichever path is taken, the function returns the record of the definition:
\* the memchr path and the loop agree on every buffer and every quote policy,
\* a line-feed or carriage-return quote included.
FindsTheRecord ==
    pc = "return" => bounds = Record(buffer, buffer_size, start)
=============================================================================
