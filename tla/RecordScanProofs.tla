-------------------------- MODULE RecordScanProofs --------------------------
(***************************************************************************)
(* find_record_bounds returns the record of the definition, on every       *)
(* buffer of every size, under every quote policy; and the three walks     *)
(* that call it pass the same records: iteration implements RowStream,     *)
(* rows() and index() agree with it.                                       *)
(***************************************************************************)
EXTENDS RowScan, CsvBytesTheorems

\* The inductive invariant: the loop's flag is the parity of the quotes read,
\* nothing it has passed ends the record, and a returned result is right.
IInv == TypeOK /\ LoopInvariant /\ FindsTheRecord

\* A result built from a record's end is within the buffer.
LEMMA BoundsInBuffer ==
    ASSUME NEW size \in Nat, NEW from \in Nat, NEW k \in from .. size - 1, NEW b
    PROVE  RecordBounds(b, from, k) \in Row(size)
BY DEF RecordBounds, DropsCarriageReturn, Row

\* So is what is left of the buffer.
LEMMA RestInBuffer ==
    ASSUME NEW size \in Nat, NEW from \in 0 .. size
    PROVE  RestOfBuffer(size, from) \in Row(size)
BY DEF RestOfBuffer, Row

\* The invariant holds at the start.
LEMMA InitIInv == Init => IInv
<1> SUFFICES ASSUME Init PROVE IInv
    OBVIOUS
<1>0. buffer_size \in Nat
    BY MaxSizeAssumption DEF Init
<1>1. RestOfBuffer(buffer_size, 0) \in Row(buffer_size)
    BY <1>0, RestInBuffer
<1>2. TypeOK
    <2>1. quote_opened \in BOOLEAN
        BY DEF Init
    <2>2. bounds \in Row(buffer_size)
        BY <1>1 DEF Init
    <2>3. /\ start \in 0 .. buffer_size
          /\ i \in 0 .. buffer_size
          /\ pc \in {"idle", "enter", "loop", "return"}
        BY <1>0 DEF Init
    <2> QED
        BY <2>1, <2>2, <2>3 DEF Init, TypeOK
<1> QED
    BY <1>2 DEF Init, IInv, LoopInvariant, FindsTheRecord

\* One step per way of entering, looping and leaving the function.
LEMMA FunctionStep ==
    ASSUME IInv, FindRecordBounds
    PROVE  IInv'
<1> USE MaxSizeAssumption DEF IInv, TypeOK
<1>0. /\ buffer' = buffer
      /\ buffer_size' = buffer_size
      /\ buffer_size \in Nat
      /\ start \in Nat
    BY DEF FindRecordBounds, sourceVars
<1>1. CASE PastEnd
    <2>1. Record(buffer, buffer_size, start) = RestOfBuffer(buffer_size, start)
        BY <1>0, <1>1, RecordIsRest DEF PastEnd
    <2> QED
        BY <1>0, <1>1, <2>1, RestInBuffer
        DEF PastEnd, Return, LoopInvariant, FindsTheRecord
<1>2. CASE FastRecord
    <2>1. PICK n \in start .. buffer_size - 1 :
              /\ FirstLineFeed(n)
              /\ QuoteFree(start, n)
              /\ Return([start       |-> start,
                         content_end |-> IF n > start /\ buffer[n - 1] = CR
                                         THEN n - 1 ELSE n,
                         next_start  |-> n + 1])
        BY <1>2 DEF FastRecord
    <2>2. EndsRecord(buffer, start, n)
        <3>1. Balanced(buffer, start, n)
            BY <2>1, EmptyIsBalanced DEF QuoteFree, IsQuote
        <3> QED
            BY <2>1, <3>1 DEF EndsRecord, FirstLineFeed, QuoteFree, IsQuote
    <2>3. \A k \in start .. n - 1 : ~ EndsRecord(buffer, start, k)
        BY <2>1 DEF EndsRecord, FirstLineFeed
    <2>4. Record(buffer, buffer_size, start) = RecordBounds(buffer, start, n)
        BY <1>0, <2>2, <2>3, RecordEndsAt
    <2>5. bounds' = RecordBounds(buffer, start, n)
        BY <2>1 DEF Return, RecordBounds, DropsCarriageReturn, QuoteFree, IsQuote
    <2> QED
        BY <1>0, <1>2, <2>1, <2>4, <2>5, BoundsInBuffer
        DEF Return, LoopInvariant, FindsTheRecord
<1>3. CASE FastRest
    <2>1. Record(buffer, buffer_size, start) = RestOfBuffer(buffer_size, start)
        BY <1>0, <1>3, RecordIsRest DEF FastRest, NoLineFeed, EndsRecord
    <2> QED
        BY <1>0, <1>3, <2>1, RestInBuffer
        DEF FastRest, Return, LoopInvariant, FindsTheRecord
<1>4. CASE EnterLoop
    <2>1. PICK q \in start .. buffer_size - 1 :
              /\ IsQuote(q)
              /\ QuoteFree(start, q - 1)
              /\ NoLineFeed(start, q - 1)
              /\ i' = q + 1
        BY <1>4 DEF EnterLoop
    <2>2. Balanced(buffer, start, q)
        BY <2>1, EmptyIsBalanced DEF QuoteFree, IsQuote
    <2>3. ~ Balanced(buffer, start, q + 1)
        BY <2>1, <2>2, ParityStep DEF IsQuote
    <2>4. \A k \in start .. q : ~ EndsRecord(buffer, start, k)
        BY <2>1 DEF EndsRecord, NoLineFeed, IsQuote
    <2> QED
        BY <1>0, <1>4, <2>1, <2>3, <2>4 DEF EnterLoop, LoopInvariant, FindsTheRecord
<1>5. CASE SkipDoubledQuote
    <2>1. /\ ~ Balanced(buffer, start, i)
          /\ start < i
          /\ IsQuote(i) /\ IsQuote(i + 1)
          /\ i + 1 < buffer_size
        BY <1>5 DEF SkipDoubledQuote, DoubledQuote, LoopInvariant
    <2>2. Balanced(buffer, start, i + 1)
        BY <2>1, ParityStep DEF IsQuote
    <2>3. ~ Balanced(buffer, start, i + 2)
        <3>1. (i + 1) + 1 = i + 2
            OBVIOUS
        <3>2. ~ Balanced(buffer, start, (i + 1) + 1)
            BY <2>1, <2>2, ParityStep DEF IsQuote
        <3> QED
            BY <3>1, <3>2
    <2>4. ~ EndsRecord(buffer, start, i) /\ ~ EndsRecord(buffer, start, i + 1)
        BY <2>1 DEF EndsRecord, IsQuote
    <2> QED
        BY <1>0, <1>5, <2>1, <2>3, <2>4
        DEF SkipDoubledQuote, DoubledQuote, LoopInvariant, FindsTheRecord
<1>6. CASE ToggleQuote
    <2>1. start < i /\ IsQuote(i)
        BY <1>6 DEF ToggleQuote, LoopInvariant
    <2>2. Balanced(buffer, start, i + 1) <=> ~ Balanced(buffer, start, i)
        BY <2>1, ParityStep DEF IsQuote
    <2>3. ~ EndsRecord(buffer, start, i)
        BY <2>1 DEF EndsRecord, IsQuote
    <2>4. TypeOK' /\ pc' = "loop"
        BY <1>0, <1>6 DEF ToggleQuote
    <2>5. quote_opened' <=> ~ Balanced(buffer, start, i + 1)
        BY <1>6, <2>2 DEF ToggleQuote, LoopInvariant
    <2>6. \A k \in start .. i : ~ EndsRecord(buffer, start, k)
        BY <1>6, <2>3 DEF ToggleQuote, LoopInvariant
    <2> QED
        BY <1>0, <1>6, <2>1, <2>4, <2>5, <2>6 DEF ToggleQuote, LoopInvariant, FindsTheRecord
<1>7. CASE EndRecord
    <2>1. /\ EndsRecord(buffer, start, i)
          /\ \A k \in start .. i - 1 : ~ EndsRecord(buffer, start, k)
        BY <1>7 DEF EndRecord, EndsRecord, LoopInvariant, IsQuote
    <2>2. i \in start .. buffer_size - 1
        BY <1>7 DEF EndRecord, LoopInvariant
    <2>3. Record(buffer, buffer_size, start) = RecordBounds(buffer, start, i)
        BY <1>0, <2>1, <2>2, RecordEndsAt
    <2>4. bounds' = RecordBounds(buffer, start, i)
        BY <1>7 DEF EndRecord, Return, RecordBounds, DropsCarriageReturn
    <2> QED
        BY <1>0, <1>7, <2>2, <2>3, <2>4, BoundsInBuffer
        DEF EndRecord, Return, LoopInvariant, FindsTheRecord
<1>8. CASE Content
    <2>1. start < i /\ ~ IsQuote(i)
        BY <1>8 DEF Content, LoopInvariant
    <2>2. Balanced(buffer, start, i + 1) <=> Balanced(buffer, start, i)
        BY <2>1, ParityStep DEF IsQuote
    <2>3. ~ EndsRecord(buffer, start, i)
        BY <1>8 DEF Content, LoopInvariant, EndsRecord
    <2> QED
        BY <1>0, <1>8, <2>1, <2>2, <2>3 DEF Content, LoopInvariant, FindsTheRecord
<1>9. CASE OutOfBytes
    <2>1. Record(buffer, buffer_size, start) = RestOfBuffer(buffer_size, start)
        BY <1>0, <1>9, RecordIsRest DEF OutOfBytes, LoopInvariant
    <2> QED
        BY <1>0, <1>9, <2>1, RestInBuffer
        DEF OutOfBytes, Return, LoopInvariant, FindsTheRecord
<1> QED
    BY <1>1, <1>2, <1>3, <1>4, <1>5, <1>6, <1>7, <1>8, <1>9 DEF FindRecordBounds

\* A call starts the function afresh.
LEMMA CallStep ==
    ASSUME IInv, UNCHANGED sourceVars, NEW from \in 0 .. buffer_size, Call(from)
    PROVE  IInv'
<1>0. buffer_size \in Nat
    BY MaxSizeAssumption DEF IInv, TypeOK
<1>1. RestOfBuffer(buffer_size, 0) \in Row(buffer_size)
    BY <1>0, RestInBuffer
<1>2. buffer' = buffer /\ buffer_size' = buffer_size
    BY DEF sourceVars
<1>3. TypeOK'
    <2>1. quote_opened' \in BOOLEAN
        BY DEF Call
    <2>2. bounds' \in Row(buffer_size')
        BY <1>1, <1>2 DEF Call
    <2>3. buffer' \in Buffer(buffer_size') /\ buffer_size' \in 0 .. MaxSize
        BY <1>2 DEF IInv, TypeOK
    <2>4. /\ start' \in 0 .. buffer_size'
          /\ i' \in 0 .. buffer_size'
          /\ pc' \in {"idle", "enter", "loop", "return"}
        BY <1>0, <1>2 DEF Call
    <2> QED
        BY <2>1, <2>2, <2>3, <2>4 DEF TypeOK
<1> QED
    BY <1>3 DEF IInv, Call, LoopInvariant, FindsTheRecord

\* Leaving it forgets the locals.
LEMMA LeaveStep ==
    ASSUME IInv, UNCHANGED sourceVars, Leave
    PROVE  IInv'
<1>0. buffer_size \in Nat
    BY MaxSizeAssumption DEF IInv, TypeOK
<1>1. RestOfBuffer(buffer_size, 0) \in Row(buffer_size)
    BY <1>0, RestInBuffer
<1>2. buffer' = buffer /\ buffer_size' = buffer_size
    BY DEF sourceVars
<1>3. TypeOK'
    <2>1. quote_opened' \in BOOLEAN
        BY DEF Leave
    <2>2. bounds' \in Row(buffer_size')
        BY <1>1, <1>2 DEF Leave
    <2>3. buffer' \in Buffer(buffer_size') /\ buffer_size' \in 0 .. MaxSize
        BY <1>2 DEF IInv, TypeOK
    <2>4. /\ start' \in 0 .. buffer_size'
          /\ i' \in 0 .. buffer_size'
          /\ pc' \in {"idle", "enter", "loop", "return"}
        BY <1>0, <1>2 DEF Leave
    <2> QED
        BY <2>1, <2>2, <2>3, <2>4 DEF TypeOK
<1> QED
    BY <1>3 DEF IInv, Leave, LoopInvariant, FindsTheRecord

\* Every step of the function and of its caller keeps the invariant.
LEMMA NextIInv == IInv /\ [Next]_vars => IInv'
<1> SUFFICES ASSUME IInv, [Next]_vars PROVE IInv'
    OBVIOUS
<1>1. CASE AnyCall
    BY <1>1, CallStep DEF AnyCall
<1>2. CASE FindRecordBounds
    BY <1>2, FunctionStep
<1>3. CASE TakeResult
    BY <1>3, LeaveStep DEF TakeResult
<1>4. CASE UNCHANGED vars
    BY <1>4 DEF vars, scanVars, sourceVars, IInv, TypeOK, LoopInvariant, FindsTheRecord
<1> QED
    BY <1>1, <1>2, <1>3, <1>4 DEF Next

\* Positions never leave the buffer: TypeOK.
THEOREM ScanTypeCorrect == Spec => []TypeOK
<1>1. IInv => TypeOK
    BY DEF IInv
<1> QED
    BY InitIInv, NextIInv, <1>1, PTL DEF Spec

\* The parity invariant of the quoted loop.
THEOREM ScanLoopInvariant == Spec => []LoopInvariant
<1>1. IInv => LoopInvariant
    BY DEF IInv
<1> QED
    BY InitIInv, NextIInv, <1>1, PTL DEF Spec

\* Every result is the record of the definition: the memchr paths and the
\* quoted loop of find_record_bounds agree with it on every buffer.
THEOREM ScanFindsTheRecord == Spec => []FindsTheRecord
<1>1. IInv => FindsTheRecord
    BY DEF IInv
<1> QED
    BY InitIInv, NextIInv, <1>1, PTL DEF Spec

-----------------------------------------------------------------------------
(* The walks.                                                              *)

WalkTypeOK ==
    /\ walk \in Walks \cup {"done"}
    /\ phase \in {"begin", "header", "row"}
    /\ rows \in Seq(Row(buffer_size))
    /\ ignore_empty \in BOOLEAN

\* A walk waits for the record it asked for; the header is that at the beginning.
WalkCalls ==
    /\ pc = "idle" <=> phase = "begin"
    /\ walk = "done" => phase = "begin"
    /\ phase = "header" => start = 0 /\ FirstRowIsHeader /\ buffer_size > 0
    /\ phase = "row" => start < buffer_size

\* Where the record after the first k begins.
StartAfter(k) == IF k = 0 THEN Stream!FirstStart ELSE rows[k].next_start

\* The rows are the records one after the other, and while the caller iterates
\* the next one is the one looked for.
RowsAreRecords ==
    \A k \in DOMAIN rows :
        /\ StartAfter(k - 1) < buffer_size
        /\ rows[k] = Record(buffer, buffer_size, StartAfter(k - 1))

RowsInOrder ==
    /\ walk = "iterate" /\ phase # "row" => rows = <<>>
    /\ walk = "iterate" /\ phase = "row" => start = StartAfter(Len(rows))
    /\ walk # "iterate" => StartAfter(Len(rows)) >= buffer_size

WalkInv == IInv /\ WalkTypeOK /\ WalkCalls /\ RowsAreRecords /\ RowsInOrder

\* The walks begin with nothing delivered.
LEMMA WalkInvInit == WalkInit => WalkInv
BY InitIInv DEF WalkInit, Init, WalkInv, WalkTypeOK, WalkCalls, RowsAreRecords, RowsInOrder, Walks

\* Scanning leaves the walks alone, and a call stays under way until it returns.
LEMMA ScanIsInside ==
    ASSUME FindRecordBounds
    PROVE  pc # "idle" /\ pc' # "idle" /\ start' = start /\ UNCHANGED sourceVars
BY DEF FindRecordBounds, PastEnd, FastRecord, FastRest, EnterLoop, SkipDoubledQuote, ToggleQuote,
   EndRecord, Content, OutOfBytes, Return

\* The loop condition asks for the record at next, or ends the walk.
LEMMA AdvanceStep ==
    ASSUME IInv, NEW next \in 0 .. buffer_size, Advance(next), UNCHANGED sourceVars
    PROVE  /\ IInv' /\ buffer' = buffer /\ buffer_size' = buffer_size
           /\ \/ /\ next < buffer_size /\ start' = next
                 /\ phase' = "row" /\ walk' = walk /\ pc' = "enter"
              \/ /\ next >= buffer_size /\ phase' = "begin" /\ walk' = NextWalk /\ pc' = "idle"
<1>1. buffer' = buffer /\ buffer_size' = buffer_size
    BY DEF sourceVars
<1>2. CASE next < buffer_size
    BY <1>1, <1>2, CallStep DEF Advance, Call
<1>3. CASE ~ next < buffer_size
    <2>1. next >= buffer_size
        BY <1>3, MaxSizeAssumption DEF IInv, TypeOK
    <2>2. QED
        BY <1>1, <1>3, <2>1, LeaveStep DEF Advance, Leave
<1> QED
    BY <1>2, <1>3

\* What a call that has returned gave the walk.
LEMMA ResultIsRecord ==
    ASSUME WalkInv, pc = "return"
    PROVE  /\ bounds = Record(buffer, buffer_size, start)
           /\ bounds \in Row(buffer_size) /\ bounds.next_start \in 0 .. buffer_size
           /\ buffer_size \in Nat
BY MaxSizeAssumption DEF WalkInv, IInv, TypeOK, FindsTheRecord, Row

\* The abstract specification means the same record.
LEMMA SameRecord ==
    ASSUME NEW b, NEW size, NEW from
    PROVE  Stream!Record(b, size, from) = Record(b, size, from)
<1>1. \A x, to : Stream!QuotesIn(b, x, to) = QuotesIn(b, x, to)
    BY DEF Stream!QuotesIn, QuotesIn
<1>2. \A S : Stream!Cardinality(S) = Cardinality(S)
    BY DEF Stream!Cardinality, Cardinality
<1>3. \A x, to : Stream!Balanced(b, x, to) <=> Balanced(b, x, to)
    BY <1>1, <1>2 DEF Stream!Balanced, Balanced
<1>4. \A x : Stream!EndsRecord(b, from, x) <=> EndsRecord(b, from, x)
    BY <1>3 DEF Stream!EndsRecord, EndsRecord
<1>5. \A x : Stream!RecordBounds(b, from, x) = RecordBounds(b, from, x)
    BY DEF Stream!RecordBounds, RecordBounds, Stream!DropsCarriageReturn, DropsCarriageReturn
<1>6. Stream!RestOfBuffer(size, from) = RestOfBuffer(size, from)
    BY DEF Stream!RestOfBuffer, RestOfBuffer
<1>7. \A S : Stream!Min(S) = Min(S)
    BY DEF Stream!Min, Min
<1> QED
    BY <1>4, <1>5, <1>6, <1>7 DEF Stream!Record, Record

\* Nothing is delivered of an empty source.
LEMMA EmptySource ==
    ASSUME NEW b
    PROVE  Record(b, 0, 0).next_start = 0
<1>1. \A k \in 0 .. 0 - 1 : ~ EndsRecord(b, 0, k)
    OBVIOUS
<1>2. Record(b, 0, 0) = RestOfBuffer(0, 0)
    BY <1>1, RecordIsRest
<1> QED
    BY <1>2 DEF RestOfBuffer

\* The records behind the walk stay where they are.
LEMMA RecordsStay ==
    ASSUME buffer' = buffer, buffer_size' = buffer_size, rows' = rows
    PROVE  /\ \A k : StartAfter(k)' = StartAfter(k)
           /\ RowsAreRecords => RowsAreRecords'
<1>1. Stream!FirstStart' = Stream!FirstStart
    BY DEF Stream!FirstStart
<1>2. \A k : StartAfter(k)' = StartAfter(k)
    BY <1>1 DEF StartAfter
<1> QED
    BY <1>2 DEF RowsAreRecords

\* Advancing keeps the invariant, if the rows are the records up to next.
LEMMA AdvanceInv ==
    ASSUME WalkInv, walk \in Walks, NEW next \in 0 .. buffer_size, Advance(next),
           UNCHANGED sourceVars, ignore_empty' = ignore_empty,
           rows' \in Seq(Row(buffer_size)), RowsAreRecords',
           walk = "iterate" => StartAfter(Len(rows))' = next,
           walk # "iterate" => StartAfter(Len(rows))' >= buffer_size
    PROVE  /\ WalkInv'
           /\ walk' = IF next < buffer_size THEN walk ELSE NextWalk
           /\ walk # "iterate" => walk' # "iterate"
           /\ walk = "iterate" => (walk' # "iterate" <=> next >= buffer_size)
<1>1. IInv /\ buffer_size \in Nat /\ ignore_empty' \in BOOLEAN
    BY MaxSizeAssumption DEF WalkInv, WalkTypeOK, IInv, TypeOK
<1>2. /\ IInv' /\ buffer_size' = buffer_size
      /\ \/ /\ next < buffer_size /\ start' = next
            /\ phase' = "row" /\ walk' = walk /\ pc' = "enter"
         \/ /\ next >= buffer_size /\ phase' = "begin" /\ walk' = NextWalk /\ pc' = "idle"
    BY <1>1, AdvanceStep
<1>3. NextWalk \in {"rows", "index", "done"}
    BY DEF Walks, NextWalk
<1>4. CASE next < buffer_size
    <2>1. start' = next /\ phase' = "row" /\ walk' = walk /\ pc' = "enter" /\ ~ next >= buffer_size
        BY <1>1, <1>2, <1>4
    <2>2. WalkTypeOK'
        BY <1>1, <1>2, <2>1 DEF WalkTypeOK
    <2>3. WalkCalls'
        BY <1>2, <1>4, <2>1 DEF WalkCalls, Walks
    <2>4. RowsInOrder'
        BY <1>2, <2>1 DEF RowsInOrder
    <2> QED
        BY <1>2, <1>4, <2>1, <2>2, <2>3, <2>4 DEF WalkInv
<1>5. CASE next >= buffer_size
    <2>1. phase' = "begin" /\ walk' = NextWalk /\ pc' = "idle" /\ ~ next < buffer_size
        BY <1>1, <1>2, <1>5
    <2>2. WalkTypeOK'
        BY <1>1, <1>2, <1>3, <2>1 DEF WalkTypeOK, Walks
    <2>3. WalkCalls'
        BY <2>1 DEF WalkCalls
    <2>4. RowsInOrder'
        BY <1>2, <1>3, <1>5, <2>1 DEF RowsInOrder
    <2> QED
        BY <1>2, <1>3, <1>5, <2>1, <2>2, <2>3, <2>4 DEF WalkInv
<1> QED
    BY <1>1, <1>4, <1>5

\* A step that delivers nothing and leaves the iteration where it is.
LEMMA QuietStep ==
    ASSUME UNCHANGED sourceVars, rows' = rows,
           walk # "iterate" <=> walk' # "iterate"
    PROVE  UNCHANGED Stream!vars
BY DEF sourceVars, Stream!vars

\* Without a header to skip the first row is at the beginning.
LEMMA NoHeader ==
    ASSUME buffer_size \in Nat, ~ (FirstRowIsHeader /\ buffer_size > 0)
    PROVE  Stream!FirstStart = 0
<1>1. CASE ~ FirstRowIsHeader
    BY <1>1 DEF Stream!FirstStart
<1>2. CASE FirstRowIsHeader
    <2>1. buffer_size = 0
        BY <1>2
    <2>2. Record(buffer, buffer_size, 0).next_start = 0
        BY <2>1, EmptySource
    <2> QED
        BY <1>2, <2>2, SameRecord DEF Stream!FirstStart
<1> QED
    BY <1>1, <1>2

\* After the header comes the first row.
LEMMA HeaderIsFirst ==
    ASSUME WalkInv, pc = "return", phase = "header"
    PROVE  \E next \in 0 .. buffer_size : next = bounds.next_start /\ next = Stream!FirstStart
<1>1. start = 0 /\ FirstRowIsHeader
    BY DEF WalkInv, WalkCalls
<1>2. /\ bounds.next_start = Record(buffer, buffer_size, 0).next_start
      /\ bounds.next_start \in 0 .. buffer_size
    BY <1>1, ResultIsRecord
<1> QED
    BY <1>1, <1>2, SameRecord DEF Stream!FirstStart

\* The entry of a walk delivers nothing: it looks for the header or the first row,
\* or finds that there is none.
LEMMA BeginStep ==
    ASSUME WalkInv, Begin
    PROVE  WalkInv' /\ [Stream!Next]_(Stream!vars)
<1>1. IInv /\ buffer_size \in Nat /\ phase = "begin" /\ walk \in Walks
    BY MaxSizeAssumption DEF WalkInv, IInv, TypeOK, Begin
<1>2. /\ rows' = rows /\ ignore_empty' = ignore_empty /\ UNCHANGED sourceVars
      /\ buffer' = buffer /\ buffer_size' = buffer_size
    BY DEF Begin, sourceVars
<1>3. /\ rows \in Seq(Row(buffer_size)) /\ ignore_empty \in BOOLEAN
      /\ walk = "iterate" => rows = <<>>
      /\ walk # "iterate" => StartAfter(Len(rows)) >= buffer_size
    BY <1>1 DEF WalkInv, WalkTypeOK, RowsInOrder
<1>4. RowsAreRecords' /\ StartAfter(Len(rows))' = StartAfter(Len(rows))
    BY <1>2, RecordsStay DEF WalkInv
<1>5. CASE FirstRowIsHeader /\ buffer_size > 0
    <2>1. /\ pc' = "enter" /\ start' = 0 /\ phase' = "header" /\ walk' = walk
          /\ Call(0)
        BY <1>5 DEF Begin, Call
    <2>2. IInv'
        BY <1>1, <1>2, <2>1, CallStep
    <2>3. WalkTypeOK'
        BY <1>1, <1>2, <1>3, <2>1 DEF WalkTypeOK, Walks
    <2>4. WalkCalls'
        BY <1>1, <1>2, <1>5, <2>1 DEF WalkCalls, Walks
    <2>5. RowsInOrder'
        BY <1>2, <1>3, <1>4, <2>1 DEF RowsInOrder
    <2> QED
        BY <1>2, <1>4, <2>1, <2>2, <2>3, <2>4, <2>5, QuietStep DEF WalkInv
<1>6. CASE ~ (FirstRowIsHeader /\ buffer_size > 0)
    <2>1. Advance(0)
        BY <1>6 DEF Begin
    <2>2. Stream!FirstStart = 0
        BY <1>1, <1>6, NoHeader
    <2>3. walk = "iterate" => StartAfter(Len(rows)) = 0
        BY <1>3, <2>2 DEF StartAfter
    <2>4. /\ WalkInv'
          /\ walk # "iterate" => walk' # "iterate"
          /\ walk = "iterate" => (walk' # "iterate" <=> 0 >= buffer_size)
        BY <1>1, <1>2, <1>3, <1>4, <2>1, <2>3, AdvanceInv
    <2>5. CASE walk = "iterate" /\ walk' # "iterate"
        <3>1. Stream!NextStart = 0
            BY <1>3, <2>2, <2>5 DEF Stream!NextStart
        <3>2. Stream!NoRows
            BY <1>2, <2>4, <2>5, <3>1 DEF Stream!NoRows
        <3> QED
            BY <2>4, <3>2 DEF Stream!Next
    <2>6. CASE ~ (walk = "iterate" /\ walk' # "iterate")
        BY <1>2, <2>4, <2>6, QuietStep
    <2> QED
        BY <2>5, <2>6
<1> QED
    BY <1>5, <1>6

\* The header is passed over and not delivered.
LEMMA SkipHeaderStep ==
    ASSUME WalkInv, SkipHeader
    PROVE  WalkInv' /\ [Stream!Next]_(Stream!vars)
<1>1. /\ pc = "return" /\ phase = "header" /\ walk \in Walks
      /\ start = 0 /\ FirstRowIsHeader
      /\ rows' = rows /\ ignore_empty' = ignore_empty /\ UNCHANGED sourceVars
      /\ buffer' = buffer /\ buffer_size' = buffer_size
    BY DEF SkipHeader, WalkInv, WalkTypeOK, WalkCalls, sourceVars
<1>2. /\ rows \in Seq(Row(buffer_size)) /\ ignore_empty \in BOOLEAN
      /\ walk = "iterate" => rows = <<>>
      /\ walk # "iterate" => StartAfter(Len(rows)) >= buffer_size
    BY <1>1 DEF WalkInv, WalkTypeOK, RowsInOrder
<1>3. RowsAreRecords' /\ StartAfter(Len(rows))' = StartAfter(Len(rows))
    BY <1>1, RecordsStay DEF WalkInv
<1>4. PICK next \in 0 .. buffer_size : next = bounds.next_start /\ next = Stream!FirstStart
    BY <1>1, HeaderIsFirst
<1>5. buffer_size \in Nat
    BY <1>1, ResultIsRecord
<1>6. Stream!FirstStart = next
    BY <1>4
<1>7. walk = "iterate" => StartAfter(Len(rows)) = next
    BY <1>2, <1>6 DEF StartAfter
<1>8. Advance(next)
    BY <1>4 DEF SkipHeader
<1>9. /\ WalkInv'
      /\ walk # "iterate" => walk' # "iterate"
      /\ walk = "iterate" => (walk' # "iterate" <=> next >= buffer_size)
    BY <1>1, <1>2, <1>3, <1>7, <1>8, AdvanceInv
<1>10. CASE walk = "iterate" /\ walk' # "iterate"
    <2>1. Stream!NextStart = next
        BY <1>2, <1>6, <1>10 DEF Stream!NextStart
    <2>2. Stream!NoRows
        BY <1>1, <1>9, <1>10, <2>1 DEF Stream!NoRows
    <2> QED
        BY <1>9, <2>2 DEF Stream!Next
<1>11. CASE ~ (walk = "iterate" /\ walk' # "iterate")
    BY <1>1, <1>9, <1>11, QuietStep
<1> QED
    BY <1>10, <1>11

\* Dereferencing and incrementing the iterator delivers the next record.
LEMMA VisitRowStep ==
    ASSUME WalkInv, VisitRow
    PROVE  WalkInv' /\ [Stream!Next]_(Stream!vars)
<1>1. /\ pc = "return" /\ phase = "row" /\ walk = "iterate" /\ start < buffer_size
      /\ ignore_empty' = ignore_empty /\ UNCHANGED sourceVars
      /\ buffer' = buffer /\ buffer_size' = buffer_size
      /\ walk \in Walks
    BY DEF VisitRow, WalkInv, WalkCalls, sourceVars, Walks
<1>2. /\ rows \in Seq(Row(buffer_size))
      /\ start = StartAfter(Len(rows))
    BY <1>1 DEF WalkInv, WalkTypeOK, RowsInOrder
<1>3. PICK r \in Row(buffer_size) : r = bounds
    BY <1>1, ResultIsRecord
<1>4. /\ r = Record(buffer, buffer_size, start) /\ r.next_start \in 0 .. buffer_size
      /\ buffer_size \in Nat
    BY <1>1, <1>3, ResultIsRecord
<1>5. rows' = Append(rows, r) /\ Advance(r.next_start)
    BY <1>3 DEF VisitRow
<1>6. /\ rows' \in Seq(Row(buffer_size)) /\ Len(rows') = Len(rows) + 1 /\ Len(rows) \in Nat
      /\ \A k \in 1 .. Len(rows) : rows'[k] = rows[k]
      /\ rows'[Len(rows) + 1] = r
      /\ DOMAIN rows = 1 .. Len(rows) /\ DOMAIN rows' = 1 .. Len(rows) + 1
    BY <1>2, <1>5
<1>7. Stream!FirstStart' = Stream!FirstStart
    BY <1>1 DEF Stream!FirstStart
<1>8. RowsAreRecords'
    <2> SUFFICES ASSUME NEW k \in 1 .. Len(rows) + 1
                 PROVE  /\ StartAfter(k - 1)' < buffer_size
                        /\ rows'[k] = Record(buffer, buffer_size, StartAfter(k - 1)')
        BY <1>1, <1>6 DEF RowsAreRecords
    <2>1. StartAfter(k - 1)' = StartAfter(k - 1)
        <3>1. CASE k = 1
            BY <1>7, <3>1 DEF StartAfter
        <3>2. CASE k # 1
            <4>1. k - 1 \in 1 .. Len(rows) /\ k - 1 # 0
                BY <1>6, <3>2
            <4> QED
                BY <1>6, <4>1 DEF StartAfter
        <3> QED
            BY <3>1, <3>2
    <2>2. CASE k \in 1 .. Len(rows)
        BY <1>6, <2>1, <2>2 DEF WalkInv, RowsAreRecords
    <2>3. CASE k = Len(rows) + 1
        <3>1. k - 1 = Len(rows)
            BY <1>6, <2>3
        <3> QED
            BY <1>1, <1>2, <1>4, <1>6, <2>1, <2>3, <3>1
    <2> QED
        BY <1>6, <2>2, <2>3
<1>9. StartAfter(Len(rows))' = r.next_start
    BY <1>6 DEF StartAfter
<1>10. /\ WalkInv'
       /\ walk' # "iterate" <=> r.next_start >= buffer_size
    BY <1>1, <1>4, <1>5, <1>6, <1>8, <1>9, AdvanceInv
<1>11. Stream!NextStart = start
    <2>1. CASE rows = <<>>
        BY <1>2, <2>1 DEF Stream!NextStart, StartAfter
    <2>2. CASE rows # <<>>
        <3>1. Len(rows) # 0
            BY <1>2, <2>2
        <3> QED
            BY <1>2, <2>2, <3>1 DEF Stream!NextStart, StartAfter
    <2> QED
        BY <2>1, <2>2
<1>12. Stream!Deliver
    <2>1. (walk' # "iterate") = (r.next_start >= buffer_size)
        BY <1>10
    <2> QED
        BY <1>1, <1>4, <1>5, <1>11, <2>1, SameRecord DEF Stream!Deliver
<1> QED
    BY <1>10, <1>12 DEF Stream!Next

\* rows() and index() go over the records again and deliver nothing.
LEMMA OtherWalkStep ==
    ASSUME WalkInv, CountRow \/ IndexRow
    PROVE  WalkInv' /\ UNCHANGED Stream!vars
<1>1. /\ pc = "return" /\ phase = "row" /\ walk # "iterate" /\ walk \in Walks
      /\ rows' = rows /\ ignore_empty' = ignore_empty /\ UNCHANGED sourceVars
      /\ buffer' = buffer /\ buffer_size' = buffer_size
    BY DEF CountRow, IndexRow, sourceVars, Walks
<1>2. /\ rows \in Seq(Row(buffer_size))
      /\ StartAfter(Len(rows)) >= buffer_size
    BY <1>1 DEF WalkInv, WalkTypeOK, RowsInOrder
<1>3. RowsAreRecords' /\ StartAfter(Len(rows))' = StartAfter(Len(rows))
    BY <1>1, RecordsStay DEF WalkInv
<1>4. PICK next \in 0 .. buffer_size : next = bounds.next_start
    BY <1>1, ResultIsRecord
<1>5. Advance(next)
    BY <1>4 DEF CountRow, IndexRow
<1>6. WalkInv' /\ walk' # "iterate"
    BY <1>1, <1>2, <1>3, <1>5, AdvanceInv
<1> QED
    BY <1>1, <1>6, QuietStep

\* A step inside find_record_bounds delivers nothing.
LEMMA ScanStep ==
    ASSUME WalkInv, Scan
    PROVE  WalkInv' /\ UNCHANGED Stream!vars
<1>1. /\ FindRecordBounds /\ UNCHANGED walkVars
      /\ rows' = rows /\ walk' = walk /\ phase' = phase /\ ignore_empty' = ignore_empty
    BY DEF Scan, walkVars
<1>2. pc # "idle" /\ pc' # "idle" /\ start' = start /\ UNCHANGED sourceVars
    BY <1>1, ScanIsInside
<1>3. buffer' = buffer /\ buffer_size' = buffer_size
    BY <1>2 DEF sourceVars
<1>4. IInv'
    BY <1>1, FunctionStep DEF WalkInv
<1>5. WalkTypeOK'
    BY <1>1, <1>3 DEF WalkInv, WalkTypeOK
<1>6. WalkCalls'
    BY <1>1, <1>2, <1>3 DEF WalkInv, WalkCalls
<1>7. RowsAreRecords' /\ StartAfter(Len(rows))' = StartAfter(Len(rows))
    BY <1>1, <1>3, RecordsStay DEF WalkInv
<1>8. RowsInOrder'
    BY <1>1, <1>2, <1>3, <1>7 DEF WalkInv, RowsInOrder
<1> QED
    BY <1>1, <1>2, <1>4, <1>5, <1>6, <1>7, <1>8, QuietStep DEF WalkInv

\* Nor does standing still.
LEMMA StillStep ==
    ASSUME WalkInv, UNCHANGED allVars
    PROVE  WalkInv' /\ UNCHANGED Stream!vars
<1>1. /\ UNCHANGED <<buffer, buffer_size, pc, start, i, quote_opened, bounds>>
      /\ UNCHANGED <<walk, phase, rows, ignore_empty>>
    BY DEF allVars, sourceVars, scanVars, walkVars
<1>2. IInv'
    BY <1>1 DEF WalkInv, IInv, TypeOK, LoopInvariant, FindsTheRecord
<1>3. RowsAreRecords' /\ StartAfter(Len(rows))' = StartAfter(Len(rows))
    BY <1>1, RecordsStay DEF WalkInv
<1>4. WalkTypeOK' /\ RowsInOrder'
    BY <1>1, <1>3 DEF WalkInv, WalkTypeOK, RowsInOrder
<1>5. WalkCalls'
    BY <1>1 DEF WalkInv, WalkCalls
<1> QED
    BY <1>1, <1>2, <1>3, <1>4, <1>5 DEF WalkInv, Stream!vars

\* Every step of the walks keeps the invariant and is a step of the abstract stream.
LEMMA WalkStep == WalkInv /\ [WalkNext]_allVars => WalkInv' /\ [Stream!Next]_(Stream!vars)
<1> SUFFICES ASSUME WalkInv, [WalkNext]_allVars
             PROVE  WalkInv' /\ [Stream!Next]_(Stream!vars)
    OBVIOUS
<1>1. CASE Begin
    BY <1>1, BeginStep
<1>2. CASE Scan
    BY <1>2, ScanStep
<1>3. CASE SkipHeader
    BY <1>3, SkipHeaderStep
<1>4. CASE VisitRow
    BY <1>4, VisitRowStep
<1>5. CASE CountRow \/ IndexRow
    BY <1>5, OtherWalkStep
<1>6. CASE UNCHANGED allVars
    BY <1>6, StillStep
<1> QED
    BY <1>1, <1>2, <1>3, <1>4, <1>5, <1>6 DEF WalkNext, Step, Finished, allVars

\* The invariant of the walks.
LEMMA WalkInvariant == WalkSpec => []WalkInv
<1>1. WalkInv /\ [WalkNext]_allVars => WalkInv'
    BY WalkStep
<1> QED
    BY WalkInvInit, <1>1, PTL DEF WalkSpec

\* Every result the walks are given is the record of the definition.
THEOREM WalksAreGivenRecords == WalkSpec => []FindsTheRecord
<1>1. WalkInv => FindsTheRecord
    BY DEF WalkInv, IInv
<1> QED
    BY WalkInvariant, <1>1, PTL

\* Iterating over a Reader (begin(), RowIterator::operator++) delivers the records of
\* the source as RowStream defines them: in order, none skipped and none twice, the
\* header only when it is a row.  For every buffer, policy and size.
THEOREM IterationStreamsTheRecords == WalkSpec => StreamSpec
<1>1. WalkInit => Stream!Init
    BY DEF WalkInit, Init, Stream!Init, Buffer, Stream!Buffer
<1>2. WalkInv /\ [WalkNext]_allVars => [Stream!Next]_(Stream!vars)
    BY WalkStep
<1> QED
    BY WalkInvariant, <1>1, <1>2, PTL DEF WalkSpec, StreamSpec, Stream!Spec

-----------------------------------------------------------------------------
(* What rows() and index() find.                                           *)

\* What rows() has counted.
CountInv ==
    /\ walk = "iterate" \/ (walk = "rows" /\ phase # "row") => count = 0
    /\ walk = "rows" /\ phase = "row" =>
          \E n \in 0 .. Len(rows) : start = StartAfter(n) /\ count = KeptUpTo(n)
    /\ walk \in {"index", "done"} => count = KeptUpTo(Len(rows))

\* The index holds the kept ones of the first n rows.
Indexed(n) ==
    /\ row_index \in Seq([start : 0 .. buffer_size, end : 0 .. buffer_size])
    /\ Len(row_index) = KeptUpTo(n)
    /\ \A k \in 1 .. n :
          Kept(rows[k]) =>
              row_index[KeptUpTo(k)] = [start |-> rows[k].start, end |-> rows[k].content_end]

\* What index() has stored.
IndexInv ==
    /\ walk \in {"iterate", "rows"} \/ (walk = "index" /\ phase # "row") => row_index = <<>>
    /\ walk = "index" /\ phase = "row" =>
          \E n \in 0 .. Len(rows) : start = StartAfter(n) /\ Indexed(n)
    /\ walk = "done" => Indexed(Len(rows))

\* Counting one row further.
LEMMA KeptUpToNext ==
    ASSUME NEW n \in Nat
    PROVE  /\ KeptUpTo(n) \in Nat /\ KeptUpTo(0) = 0
           /\ KeptUpTo(n + 1) = IF Kept(rows[n + 1]) THEN KeptUpTo(n) + 1 ELSE KeptUpTo(n)
<1> DEFINE S(m) == {k \in 1 .. m : Kept(rows[k])}
<1>1. IsFiniteSet(S(n))
    <2>1. IsFiniteSet(1 .. n)
        BY FS_Interval
    <2> QED
        BY <2>1, FS_Subset
<1>2. Cardinality(S(n)) \in Nat
    BY <1>1, FS_CardinalityType
<1>3. S(0) = {}
    OBVIOUS
<1>4. Cardinality({}) = 0
    BY FS_EmptySet
<1>5. CASE Kept(rows[n + 1])
    <2>1. S(n + 1) = S(n) \cup {n + 1} /\ n + 1 \notin S(n)
        BY <1>5
    <2>2. Cardinality(S(n) \cup {n + 1}) = Cardinality(S(n)) + 1
        BY <1>1, <2>1, FS_AddElement
    <2> QED
        BY <1>2, <1>3, <1>4, <1>5, <2>1, <2>2 DEF KeptUpTo
<1>6. CASE ~ Kept(rows[n + 1])
    <2>1. S(n + 1) = S(n)
        BY <1>6
    <2> QED
        BY <1>2, <1>3, <1>4, <1>6, <2>1 DEF KeptUpTo
<1> QED
    BY <1>5, <1>6

\* A kept row has a place in the index of every longer prefix.
LEMMA KeptUpToPlace ==
    ASSUME NEW n \in Nat, NEW k \in 1 .. n, Kept(rows[k])
    PROVE  KeptUpTo(k) \in 1 .. KeptUpTo(n)
<1> DEFINE S(m) == {j \in 1 .. m : Kept(rows[j])}
<1>1. IsFiniteSet(1 .. n) /\ S(n) \subseteq 1 .. n
    BY FS_Interval
<1>2. IsFiniteSet(S(n))
    BY <1>1, FS_Subset
<1>3. S(k) \subseteq S(n) /\ {k} \subseteq S(k)
    OBVIOUS
<1>4. IsFiniteSet(S(k)) /\ Cardinality(S(k)) <= Cardinality(S(n))
    BY <1>2, <1>3, FS_Subset
<1>5. Cardinality(S(k)) # 0
    BY <1>3, <1>4, FS_EmptySet
<1>6. Cardinality(S(k)) \in Nat /\ Cardinality(S(n)) \in Nat
    BY <1>2, <1>4, FS_CardinalityType
<1> QED
    BY <1>4, <1>5, <1>6 DEF KeptUpTo

\* A walk that has passed n rows and finds nothing more has passed them all.
LEMMA NothingIsMissed ==
    ASSUME WalkInv, NEW n \in 0 .. Len(rows), StartAfter(n) \in Int,
           StartAfter(n) >= buffer_size
    PROVE  n = Len(rows)
<1>1. /\ rows \in Seq(Row(buffer_size)) /\ buffer_size \in Nat /\ Len(rows) \in Nat
      /\ DOMAIN rows = 1 .. Len(rows)
    BY MaxSizeAssumption DEF WalkInv, WalkTypeOK, IInv, TypeOK
<1>2. SUFFICES ASSUME n # Len(rows) PROVE FALSE
    OBVIOUS
<1>3. n + 1 \in 1 .. Len(rows) /\ (n + 1) - 1 = n
    <2> HIDE DEF WalkInv
    <2>1. n \in 0 .. Len(rows) /\ Len(rows) \in Nat /\ n # Len(rows)
        BY <1>1, <1>2
    <2> QED
        BY <2>1
<1>4. StartAfter(n) < buffer_size
    BY <1>1, <1>3 DEF WalkInv, RowsAreRecords
<1> QED
    BY <1>1, <1>4

\* The call under way in a later walk gives the row after the n it has passed.
LEMMA NextRow ==
    ASSUME WalkInv, pc = "return", phase = "row", walk # "iterate",
           NEW n \in 0 .. Len(rows), start = StartAfter(n)
    PROVE  /\ n + 1 \in 0 .. Len(rows) /\ n + 1 \in DOMAIN rows
           /\ bounds = rows[n + 1]
           /\ bounds.next_start = StartAfter(n + 1)
<1>1. /\ rows \in Seq(Row(buffer_size)) /\ buffer_size \in Nat /\ Len(rows) \in Nat
      /\ DOMAIN rows = 1 .. Len(rows)
      /\ start \in 0 .. buffer_size /\ start < buffer_size
      /\ StartAfter(Len(rows)) >= buffer_size
    BY MaxSizeAssumption DEF WalkInv, WalkTypeOK, WalkCalls, RowsInOrder, IInv, TypeOK
<1>2. n # Len(rows)
    <2>1. StartAfter(n) \in Int /\ buffer_size \in Int /\ StartAfter(n) < buffer_size
        BY <1>1
    <2>2. CASE n = Len(rows)
        <3>1. StartAfter(n) >= buffer_size
            BY <1>1, <2>2
        <3> QED
            BY <2>1, <3>1
    <2> QED
        BY <2>2
<1>3. n + 1 \in 1 .. Len(rows) /\ n + 1 \in 0 .. Len(rows) /\ (n + 1) - 1 = n /\ n + 1 # 0
    <2>1. n \in 0 .. Len(rows) /\ Len(rows) \in Nat /\ n # Len(rows)
        BY <1>1, <1>2
    <2> QED
        BY <2>1
<1>4. rows[n + 1] = Record(buffer, buffer_size, StartAfter(n))
    BY <1>1, <1>3 DEF WalkInv, RowsAreRecords
<1>5. bounds = rows[n + 1]
    BY <1>4, ResultIsRecord
<1> QED
    BY <1>1, <1>3, <1>5 DEF StartAfter

\* A later walk goes on to the row after the first n, or has passed them all.
LEMMA WalkOn ==
    ASSUME WalkInv, walk \in Walks, walk # "iterate", UNCHANGED sourceVars, rows' = rows,
           NEW n \in 0 .. Len(rows), NEW next \in 0 .. buffer_size, next = StartAfter(n),
           Advance(next)
    PROVE  /\ \A k : StartAfter(k)' = StartAfter(k)
           /\ \/ walk' = walk /\ phase' = "row" /\ start' = StartAfter(n)'
              \/ walk' = NextWalk /\ phase' = "begin" /\ n = Len(rows)
<1>1. IInv /\ buffer' = buffer /\ buffer_size' = buffer_size /\ buffer_size \in Nat
    BY MaxSizeAssumption DEF sourceVars, WalkInv, IInv, TypeOK
<1>2. \A k : StartAfter(k)' = StartAfter(k)
    BY <1>1, RecordsStay
<1>3. \/ next < buffer_size /\ start' = next /\ phase' = "row" /\ walk' = walk
      \/ next >= buffer_size /\ phase' = "begin" /\ walk' = NextWalk
    BY <1>1, AdvanceStep
<1>4. CASE next < buffer_size
    <2>1. start' = next /\ phase' = "row" /\ walk' = walk
        BY <1>1, <1>3, <1>4
    <2>2. start' = StartAfter(n)'
        BY <1>2, <2>1
    <2> QED
        BY <1>2, <2>1, <2>2
<1>5. CASE next >= buffer_size
    <2>1. phase' = "begin" /\ walk' = NextWalk
        BY <1>1, <1>3, <1>5
    <2>2. n = Len(rows)
        BY <1>5, NothingIsMissed
    <2> QED
        BY <1>2, <2>1, <2>2
<1> QED
    BY <1>1, <1>4, <1>5

\* What is counted of rows that stay is counted the same.
LEMMA CountsStay ==
    ASSUME rows' = rows, ignore_empty' = ignore_empty
    PROVE  /\ \A r : Kept(r)' <=> Kept(r)
           /\ \A n : KeptUpTo(n)' = KeptUpTo(n)
<1>1. \A r : Kept(r)' <=> Kept(r)
    BY DEF Kept
<1> QED
    BY <1>1 DEF KeptUpTo

\* What is indexed of rows that stay is indexed still.
LEMMA IndexedStays ==
    ASSUME rows' = rows, ignore_empty' = ignore_empty, row_index' = row_index,
           buffer_size' = buffer_size
    PROVE  \A n : Indexed(n) => Indexed(n)'
<1>1. \A n : KeptUpTo(n)' = KeptUpTo(n)
    BY CountsStay
<1>2. \A r : Kept(r)' <=> Kept(r)
    BY CountsStay
<1> QED
    BY <1>1, <1>2 DEF Indexed

\* Nothing is indexed of no rows.
LEMMA NothingIndexed ==
    ASSUME row_index = <<>>
    PROVE  Indexed(0)
<1>1. KeptUpTo(0) = 0
    BY KeptUpToNext
<1> QED
    BY <1>1 DEF Indexed

\* A step of a later walk that counts and stores nothing: Begin and SkipHeader.
LEMMA AtFirstRow ==
    ASSUME WalkInv, CountInv, IndexInv, walk \in Walks, phase # "row",
           UNCHANGED sourceVars, rows' = rows,
           ignore_empty' = ignore_empty, count' = count, row_index' = row_index,
           NEW next \in 0 .. buffer_size, next = Stream!FirstStart, Advance(next)
    PROVE  CountInv' /\ IndexInv'
<1>1. rows \in Seq(Row(buffer_size)) /\ Len(rows) \in Nat /\ 0 \in 0 .. Len(rows)
    BY DEF WalkInv, WalkTypeOK
<1>2. KeptUpTo(0) = 0
    BY KeptUpToNext
<1>3. \A n : KeptUpTo(n)' = KeptUpTo(n)
    BY CountsStay
<1>4. \A n : Indexed(n) => Indexed(n)'
    BY IndexedStays DEF sourceVars
<1>5. next = StartAfter(0)
    BY DEF StartAfter
<1>6. CASE walk = "iterate"
    <2>1. walk' \in {"iterate", "rows"} /\ (walk' = "rows" => phase' = "begin")
        BY <1>6 DEF Advance, NextWalk
    <2> QED
        BY <1>6, <2>1 DEF CountInv, IndexInv
<1>7. CASE walk # "iterate"
    <2>1. \/ walk' = walk /\ phase' = "row" /\ start' = StartAfter(0)'
          \/ walk' = NextWalk /\ phase' = "begin" /\ 0 = Len(rows)
        BY <1>1, <1>5, <1>7, WalkOn
    <2>2. CASE walk = "rows"
        <3>1. NextWalk = "index" /\ count = 0 /\ row_index = <<>>
            BY <2>2 DEF NextWalk, CountInv, IndexInv
        <3>2. CountInv'
            BY <1>1, <1>2, <1>3, <2>1, <2>2, <3>1 DEF CountInv
        <3>3. IndexInv'
            BY <2>1, <2>2, <3>1 DEF IndexInv
        <3> QED
            BY <3>2, <3>3
    <2>3. CASE walk = "index"
        <3>1. NextWalk = "done" /\ count = KeptUpTo(Len(rows)) /\ row_index = <<>>
            BY <2>3 DEF NextWalk, CountInv, IndexInv
        <3>2. CountInv'
            BY <1>3, <2>1, <2>3, <3>1 DEF CountInv
        <3>3. Indexed(0)'
            BY <1>4, <3>1, NothingIndexed
        <3>4. IndexInv'
            BY <1>1, <2>1, <2>3, <3>1, <3>3 DEF IndexInv
        <3> QED
            BY <3>2, <3>4
    <2> QED
        BY <1>7, <2>2, <2>3 DEF Walks
<1> QED
    BY <1>6, <1>7

\* Entering a walk counts nothing and stores nothing.
LEMMA CountingBegin ==
    ASSUME WalkInv, CountInv, IndexInv, Begin
    PROVE  CountInv' /\ IndexInv'
<1>1. /\ phase = "begin" /\ walk \in Walks /\ buffer_size \in Nat
      /\ rows' = rows /\ ignore_empty' = ignore_empty /\ count' = count
      /\ row_index' = row_index /\ UNCHANGED sourceVars
    BY MaxSizeAssumption DEF Begin, WalkInv, IInv, TypeOK
<1>2. CASE FirstRowIsHeader /\ buffer_size > 0
    <2>1. walk' = walk /\ phase' = "header"
        BY <1>2 DEF Begin
    <2>2. \A n : KeptUpTo(n)' = KeptUpTo(n)
        BY <1>1, CountsStay
    <2>3. CountInv'
        BY <1>1, <2>1, <2>2 DEF CountInv
    <2>4. IndexInv'
        BY <1>1, <2>1 DEF IndexInv, Walks
    <2> QED
        BY <2>3, <2>4
<1>3. CASE ~ (FirstRowIsHeader /\ buffer_size > 0)
    <2>1. Advance(0)
        BY <1>3 DEF Begin
    <2>2. Stream!FirstStart = 0
        BY <1>1, <1>3, NoHeader
    <2>3. 0 \in 0 .. buffer_size
        BY <1>1
    <2> QED
        BY <1>1, <2>1, <2>2, <2>3, AtFirstRow
<1> QED
    BY <1>2, <1>3

\* Nor does passing the header.
LEMMA CountingSkipHeader ==
    ASSUME WalkInv, CountInv, IndexInv, SkipHeader
    PROVE  CountInv' /\ IndexInv'
<1>1. /\ phase = "header" /\ walk \in Walks
      /\ rows' = rows /\ ignore_empty' = ignore_empty /\ count' = count
      /\ row_index' = row_index /\ UNCHANGED sourceVars
    BY DEF SkipHeader, WalkInv, WalkTypeOK, WalkCalls
<1>2. PICK next \in 0 .. buffer_size : next = bounds.next_start /\ next = Stream!FirstStart
    BY HeaderIsFirst DEF SkipHeader
<1>3. Advance(next)
    BY <1>2 DEF SkipHeader
<1> QED
    BY <1>1, <1>2, <1>3, AtFirstRow

\* Nor does the iterator.
LEMMA CountingVisit ==
    ASSUME WalkInv, CountInv, IndexInv, VisitRow
    PROVE  CountInv' /\ IndexInv'
<1>1. walk = "iterate" /\ count' = count /\ row_index' = row_index
    BY DEF VisitRow
<1>2. walk' \in {"iterate", "rows"} /\ (walk' = "rows" => phase' = "begin")
    BY <1>1 DEF VisitRow, Advance, NextWalk
<1> QED
    BY <1>1, <1>2 DEF CountInv, IndexInv

\* rows() counts the row it has found when it is kept.
LEMMA CountingCount ==
    ASSUME WalkInv, CountInv, IndexInv, CountRow
    PROVE  CountInv' /\ IndexInv'
<1>1. /\ pc = "return" /\ phase = "row" /\ walk = "rows" /\ walk \in Walks
      /\ rows' = rows /\ ignore_empty' = ignore_empty
      /\ row_index' = row_index /\ UNCHANGED sourceVars
    BY DEF CountRow, Walks
<1>2. PICK n \in 0 .. Len(rows) : start = StartAfter(n) /\ count = KeptUpTo(n)
    BY <1>1 DEF CountInv
<1>3. /\ n + 1 \in 0 .. Len(rows) /\ n \in Nat
      /\ bounds = rows[n + 1]
      /\ bounds.next_start = StartAfter(n + 1)
    <2>1. Len(rows) \in Nat
        BY DEF WalkInv, WalkTypeOK
    <2> QED
        BY <1>1, <1>2, <2>1, NextRow
<1>4. count' = KeptUpTo(n + 1)
    BY <1>2, <1>3, KeptUpToNext DEF CountRow
<1>5. PICK m \in 0 .. Len(rows) : m = n + 1
    BY <1>3
<1>6. PICK next \in 0 .. buffer_size : next = bounds.next_start
    BY <1>1, ResultIsRecord
<1>7. Advance(next)
    BY <1>6 DEF CountRow
<1>8. \/ walk' = walk /\ phase' = "row" /\ start' = StartAfter(m)'
      \/ walk' = NextWalk /\ phase' = "begin" /\ m = Len(rows)
    BY <1>1, <1>3, <1>5, <1>6, <1>7, WalkOn
<1>9. \A k : KeptUpTo(k)' = KeptUpTo(k)
    BY <1>1, CountsStay
<1>10. NextWalk = "index" /\ row_index = <<>>
    BY <1>1 DEF NextWalk, IndexInv
<1>11. CountInv'
    BY <1>1, <1>4, <1>5, <1>8, <1>9, <1>10 DEF CountInv
<1>12. IndexInv'
    BY <1>1, <1>8, <1>10 DEF IndexInv
<1> QED
    BY <1>11, <1>12

\* Storing the row after the first n.
LEMMA IndexOneMore ==
    ASSUME WalkInv, NEW n \in Nat, n + 1 \in DOMAIN rows, Indexed(n), bounds = rows[n + 1],
           rows' = rows, ignore_empty' = ignore_empty, UNCHANGED sourceVars,
           row_index' = IF Kept(bounds)
                        THEN Append(row_index,
                                    [start |-> bounds.start, end |-> bounds.content_end])
                        ELSE row_index
    PROVE  Indexed(n + 1)'
<1> DEFINE Entries == [start : 0 .. buffer_size, end : 0 .. buffer_size]
           entry(k) == [start |-> rows[k].start, end |-> rows[k].content_end]
<1>1. /\ buffer_size' = buffer_size /\ rows[n + 1] \in Row(buffer_size)
      /\ \A k : KeptUpTo(k)' = KeptUpTo(k)
      /\ \A r : Kept(r)' <=> Kept(r)
    BY CountsStay DEF sourceVars, WalkInv, WalkTypeOK
<1>2. /\ KeptUpTo(n) \in Nat
      /\ KeptUpTo(n + 1) = IF Kept(rows[n + 1]) THEN KeptUpTo(n) + 1 ELSE KeptUpTo(n)
    BY KeptUpToNext
<1>3. /\ row_index \in Seq(Entries) /\ Len(row_index) = KeptUpTo(n)
      /\ \A k \in 1 .. n : Kept(rows[k]) => row_index[KeptUpTo(k)] = entry(k)
    BY DEF Indexed
<1>4. entry(n + 1) \in Entries
    BY <1>1 DEF Row
<1>5. \A k \in 1 .. n : Kept(rows[k]) => KeptUpTo(k) \in 1 .. KeptUpTo(n)
    BY KeptUpToPlace
<1> HIDE DEF Entries
<1>6. SUFFICES /\ row_index' \in Seq(Entries)
               /\ Len(row_index') = KeptUpTo(n + 1)
               /\ \A k \in 1 .. n + 1 : Kept(rows[k]) => row_index'[KeptUpTo(k)] = entry(k)
    BY <1>1 DEF Indexed, Entries
<1>7. CASE Kept(rows[n + 1])
    <2>1. PICK e \in Entries : e = entry(n + 1)
        BY <1>4
    <2>2. row_index' = Append(row_index, e)
        BY <1>7, <2>1
    <2>3. /\ row_index' \in Seq(Entries) /\ Len(row_index') = KeptUpTo(n) + 1
          /\ \A k \in 1 .. KeptUpTo(n) : row_index'[k] = row_index[k]
          /\ row_index'[KeptUpTo(n) + 1] = e
        BY <1>2, <1>3, <2>2
    <2>4. KeptUpTo(n + 1) = KeptUpTo(n) + 1
        BY <1>2, <1>7
    <2>5. ASSUME NEW k \in 1 .. n + 1, Kept(rows[k])
          PROVE  row_index'[KeptUpTo(k)] = entry(k)
        <3>1. CASE k = n + 1
            BY <2>1, <2>3, <2>4, <3>1
        <3>2. CASE k # n + 1
            <4>1. k \in 1 .. n
                BY <3>2
            <4>2. row_index[KeptUpTo(k)] = entry(k) /\ KeptUpTo(k) \in 1 .. KeptUpTo(n)
                BY <1>3, <1>5, <2>5, <4>1
            <4> QED
                BY <2>3, <4>2
        <3> QED
            BY <3>1, <3>2
    <2> QED
        BY <2>3, <2>4, <2>5
<1>8. CASE ~ Kept(rows[n + 1])
    <2>1. row_index' = row_index /\ KeptUpTo(n + 1) = KeptUpTo(n)
        BY <1>2, <1>8
    <2>2. ASSUME NEW k \in 1 .. n + 1, Kept(rows[k])
          PROVE  row_index[KeptUpTo(k)] = entry(k)
        <3>1. k # n + 1
            BY <1>8, <2>2
        <3>2. k \in 1 .. n
            BY <3>1
        <3> QED
            BY <1>3, <2>2, <3>2
    <2> QED
        BY <1>3, <2>1, <2>2
<1> QED
    BY <1>7, <1>8

\* index() stores the row it has found when it is kept.
LEMMA CountingIndex ==
    ASSUME WalkInv, CountInv, IndexInv, IndexRow
    PROVE  CountInv' /\ IndexInv'
<1>1. /\ pc = "return" /\ phase = "row" /\ walk = "index" /\ walk \in Walks
      /\ rows' = rows /\ ignore_empty' = ignore_empty
      /\ count' = count /\ UNCHANGED sourceVars
    BY DEF IndexRow, Walks
<1>2. PICK n \in 0 .. Len(rows) : start = StartAfter(n) /\ Indexed(n)
    BY <1>1 DEF IndexInv
<1>3. /\ n + 1 \in 0 .. Len(rows) /\ n \in Nat /\ n + 1 \in DOMAIN rows
      /\ bounds = rows[n + 1]
      /\ bounds.next_start = StartAfter(n + 1)
    <2>1. Len(rows) \in Nat
        BY DEF WalkInv, WalkTypeOK
    <2> QED
        BY <1>1, <1>2, <2>1, NextRow
<1>4. Indexed(n + 1)'
    BY <1>1, <1>2, <1>3, IndexOneMore DEF IndexRow
<1>5. PICK m \in 0 .. Len(rows) : m = n + 1
    BY <1>3
<1>6. PICK next \in 0 .. buffer_size : next = bounds.next_start
    BY <1>1, ResultIsRecord
<1>7. Advance(next)
    BY <1>6 DEF IndexRow
<1>8. \/ walk' = walk /\ phase' = "row" /\ start' = StartAfter(m)'
      \/ walk' = NextWalk /\ phase' = "begin" /\ m = Len(rows)
    BY <1>1, <1>3, <1>5, <1>6, <1>7, WalkOn
<1>9. \A k : KeptUpTo(k)' = KeptUpTo(k)
    BY <1>1, CountsStay
<1>10. NextWalk = "done" /\ count = KeptUpTo(Len(rows))
    BY <1>1 DEF NextWalk, CountInv
<1>11. CountInv'
    BY <1>1, <1>8, <1>9, <1>10 DEF CountInv
<1>12. Indexed(m)'
    BY <1>4, <1>5
<1>13. IndexInv'
    BY <1>1, <1>8, <1>10, <1>12 DEF IndexInv
<1> QED
    BY <1>11, <1>13

\* A step that changes neither the walk nor what it has found.
LEMMA CountingStill ==
    ASSUME WalkInv, CountInv, IndexInv, UNCHANGED walkVars, UNCHANGED sourceVars, start' = start
    PROVE  CountInv' /\ IndexInv'
<1>1. /\ rows' = rows /\ walk' = walk /\ phase' = phase /\ ignore_empty' = ignore_empty
      /\ count' = count /\ row_index' = row_index
      /\ buffer' = buffer /\ buffer_size' = buffer_size
    BY DEF walkVars, sourceVars
<1>2. \A k : StartAfter(k)' = StartAfter(k)
    BY <1>1, RecordsStay
<1>3. \A k : KeptUpTo(k)' = KeptUpTo(k)
    BY <1>1, CountsStay
<1>4. \A k : Indexed(k) => Indexed(k)'
    BY <1>1, IndexedStays
<1>5. CountInv'
    BY <1>1, <1>2, <1>3 DEF CountInv
<1>6. IndexInv'
    BY <1>1, <1>2, <1>4 DEF IndexInv
<1> QED
    BY <1>5, <1>6

\* The whole invariant of the walks.
AllWalksInv == WalkInv /\ CountInv /\ IndexInv

\* Every step keeps the whole invariant.
LEMMA AllWalksStep == AllWalksInv /\ [WalkNext]_allVars => AllWalksInv'
<1> SUFFICES ASSUME WalkInv, CountInv, IndexInv, [WalkNext]_allVars
             PROVE  CountInv' /\ IndexInv'
    BY WalkStep DEF AllWalksInv
<1>1. CASE Begin
    BY <1>1, CountingBegin
<1>2. CASE Scan
    <2>1. UNCHANGED walkVars /\ UNCHANGED sourceVars /\ start' = start
        BY <1>2, ScanIsInside DEF Scan
    <2> QED
        BY <2>1, CountingStill
<1>3. CASE SkipHeader
    BY <1>3, CountingSkipHeader
<1>4. CASE VisitRow
    BY <1>4, CountingVisit
<1>5. CASE CountRow
    BY <1>5, CountingCount
<1>6. CASE IndexRow
    BY <1>6, CountingIndex
<1>7. CASE UNCHANGED allVars
    <2>1. UNCHANGED walkVars /\ UNCHANGED sourceVars /\ start' = start
        BY <1>7 DEF allVars, scanVars
    <2> QED
        BY <2>1, CountingStill
<1> QED
    BY <1>1, <1>2, <1>3, <1>4, <1>5, <1>6, <1>7 DEF WalkNext, Step, Finished, allVars

\* The whole invariant of the walks.
LEMMA AllWalksInvariant == WalkSpec => []AllWalksInv
<1>1. WalkInit => AllWalksInv
    <2>1. WalkInit => CountInv /\ IndexInv
        BY DEF WalkInit, CountInv, IndexInv
    <2> QED
        BY <2>1, WalkInvInit DEF AllWalksInv
<1> QED
    BY <1>1, AllWalksStep, PTL DEF WalkSpec

\* The number rows() returns is the length of the index, and the index holds the rows
\* the iterator visits, in their order, less the empty ones when they are ignored.
THEOREM AllWalksAgree == WalkSpec => []WalksAgree
<1>1. AllWalksInv => WalksAgree
    <2> SUFFICES ASSUME AllWalksInv, walk = "done" PROVE WalksAgree
        BY DEF WalksAgree
    <2>1. count = KeptUpTo(Len(rows)) /\ Indexed(Len(rows)) /\ DOMAIN rows = 1 .. Len(rows)
        BY DEF AllWalksInv, CountInv, IndexInv, WalkInv, WalkTypeOK
    <2> QED
        BY <2>1 DEF WalksAgree, Indexed
<1> QED
    BY AllWalksInvariant, <1>1, PTL
=============================================================================
