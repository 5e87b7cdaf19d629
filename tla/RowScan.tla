------------------------------ MODULE RowScan -------------------------------
(***************************************************************************)
(* The record walks of csv2::Reader (include/csv2/reader.hpp): begin() and *)
(* RowIterator, rows() and index().  Each is a client of                   *)
(* find_record_bounds that advances by next_start.  One behaviour runs the *)
(* three walks, one after the other, over the same immutable source.       *)
(***************************************************************************)
EXTENDS RecordScan, Sequences

CONSTANT FirstRowIsHeader    \* csv2::first_row_is_header<b>::value

ASSUME HeaderAssumption == FirstRowIsHeader \in BOOLEAN

VARIABLES
    walk,            \* the walk under way
    phase,           \* what the pending call of find_record_bounds is for
    rows,            \* the rows the iterator was dereferenced at
    ignore_empty,    \* argument of rows() and index()
    count,           \* result of rows()
    row_index        \* RowIndex::rows_

walkVars == <<walk, phase, rows, ignore_empty, count, row_index>>

Walks == {"iterate", "rows", "index"}

Kept(r) == ~ ignore_empty \/ r.content_end # r.start

WalkInit ==
    /\ Init
    /\ walk = "iterate"
    /\ phase = "begin"
    /\ rows = <<>>
    /\ ignore_empty \in BOOLEAN
    /\ count = 0
    /\ row_index = <<>>

-----------------------------------------------------------------------------
NextWalk ==
    CASE walk = "iterate" -> "rows"
      [] walk = "rows"    -> "index"
      [] walk = "index"   -> "done"

\* The loop condition of each walk: look for the record at next, or stop.
\* RowIterator turns into end() when next is not inside the source.
Advance(next) ==
    IF next < buffer_size
    THEN /\ Call(next)
         /\ phase' = "row"
         /\ UNCHANGED walk
    ELSE /\ Leave
         /\ phase' = "begin"
         /\ walk' = NextWalk

\* begin(), or the entry of rows() and of index().
Begin ==
    /\ walk \in Walks
    /\ phase = "begin"
    /\ IF FirstRowIsHeader /\ buffer_size > 0
       THEN Call(0) /\ phase' = "header" /\ UNCHANGED walk
       ELSE Advance(0)
    /\ UNCHANGED <<rows, ignore_empty, count, row_index, sourceVars>>

\* Mutated form: the header is delivered as a row.
KeepHeader ==
    /\ pc = "return"
    /\ phase = "header"
    /\ Advance(0)
    /\ UNCHANGED <<rows, ignore_empty, count, row_index, sourceVars>>

SkipHeader ==
    /\ pc = "return"
    /\ phase = "header"
    /\ Advance(bounds.next_start)
    /\ UNCHANGED <<rows, ignore_empty, count, row_index, sourceVars>>

\* The caller dereferences the iterator and increments it.
VisitRow ==
    /\ pc = "return"
    /\ phase = "row"
    /\ walk = "iterate"
    /\ rows' = Append(rows, bounds)
    /\ Advance(bounds.next_start)
    /\ UNCHANGED <<ignore_empty, count, row_index, sourceVars>>

\* Mutated form: rows() counts the empty lines it was told to ignore.
CountEveryRow ==
    /\ pc = "return"
    /\ phase = "row"
    /\ walk = "rows"
    /\ count' = count + 1
    /\ Advance(bounds.next_start)
    /\ UNCHANGED <<rows, ignore_empty, row_index, sourceVars>>

CountRow ==
    /\ pc = "return"
    /\ phase = "row"
    /\ walk = "rows"
    /\ count' = IF Kept(bounds) THEN count + 1 ELSE count
    /\ Advance(bounds.next_start)
    /\ UNCHANGED <<rows, ignore_empty, row_index, sourceVars>>

IndexRow ==
    /\ pc = "return"
    /\ phase = "row"
    /\ walk = "index"
    /\ row_index' = IF Kept(bounds)
                    THEN Append(row_index, [start |-> bounds.start, end |-> bounds.content_end])
                    ELSE row_index
    /\ Advance(bounds.next_start)
    /\ UNCHANGED <<rows, ignore_empty, count, sourceVars>>

Scan == FindRecordBounds /\ UNCHANGED walkVars

Finished == walk = "done" /\ UNCHANGED <<sourceVars, scanVars, walkVars>>

Step == Begin \/ Scan \/ SkipHeader \/ VisitRow \/ CountRow \/ IndexRow

WalkNext == Step \/ Finished

allVars == <<sourceVars, scanVars, walkVars>>

\* One thread runs the walks; nothing else has to happen for it to go on.
WalkSpec == WalkInit /\ [][WalkNext]_allVars /\ WF_allVars(Step)

-----------------------------------------------------------------------------
\* How many of the first n rows are kept.
KeptUpTo(n) == Cardinality({k \in 1 .. n : Kept(rows[k])})

\* rows(), index() and the iterator find the same records: the count is the
\* length of the index, and the index holds the iterator's rows in their order,
\* less the empty ones when they are ignored.
WalksAgree ==
    walk = "done" =>
        /\ count = KeptUpTo(Len(rows))
        /\ Len(row_index) = count
        /\ \A k \in DOMAIN rows :
              Kept(rows[k]) =>
                  row_index[KeptUpTo(k)] = [start |-> rows[k].start, end |-> rows[k].content_end]

\* Iteration implements RowStream.
Stream == INSTANCE RowStream WITH ended <- walk # "iterate"
StreamSpec == Stream!Spec

\* Every walk ends.
WalksEnd == <>(walk = "done")
=============================================================================
