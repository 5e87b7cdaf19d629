----------------------------- MODULE CellProofs -----------------------------
(***************************************************************************)
(* find_cell_bounds returns the cell of the definition and notices every   *)
(* doubled quote in it, from every position of every row, for every prefix *)
(* size and every policy, a quote that is also the delimiter included.  So *)
(* the iterator cuts a row at its unquoted delimiters, every way of        *)
(* reading a cell folds its doubled quotes, a row that the quoting writer  *)
(* put first in a source is read back field by field, and a cell converts  *)
(* to the number that its content says.                                    *)
(***************************************************************************)
EXTENDS RoundTrip, CsvBytesTheorems

\* The inductive invariant: the loop's flags say what was read, nothing it has
\* passed ends the cell, and a returned cell is right.
IInv == TypeOK /\ LoopInvariant /\ FindsTheCell

LEMMA InitIInv == Init => IInv
<1> SUFFICES ASSUME Init PROVE IInv
    OBVIOUS
<1>1. NoCell \in CellAt(buffer_size)
    BY SizesAssumption DEF Init, NoCell, CellAt
<1>2. /\ escaped \in BOOLEAN
      /\ quote_opened \in BOOLEAN
    BY DEF Init
<1>3. /\ end \in 0 .. buffer_size
      /\ row_start \in 0 .. buffer_size
      /\ current \in 0 .. end
      /\ i \in 0 .. end
    BY SizesAssumption DEF Init
<1>4. pc \in {"enter", "at_end"}
    BY DEF Init
<1>5. cells \in Seq(CellAt(buffer_size))
    BY DEF Init
<1>6. TypeOK
    BY <1>1, <1>2, <1>3, <1>4, <1>5 DEF Init, TypeOK
<1> QED
    BY <1>4, <1>6 DEF IInv, LoopInvariant, FindsTheCell

\* Returning the right cell keeps the invariant.
LEMMA ReturnStep ==
    ASSUME IInv, UNCHANGED rowVars,
           NEW content_end \in 0 .. buffer_size, NEW is_escaped \in BOOLEAN,
           Return(content_end, is_escaped),
           Cell(buffer, end, current) =
             [start |-> current, content_end |-> content_end, escaped |-> is_escaped]
    PROVE  IInv'
<1>0. /\ buffer' = buffer /\ buffer_size' = buffer_size
      /\ row_start' = row_start /\ end' = end
      /\ current' = current /\ cells' = cells
    BY DEF rowVars, Return
<1>1. current \in 0 .. buffer_size
    BY SizesAssumption DEF IInv, TypeOK
<1>2. bounds' \in CellAt(buffer_size)
    BY <1>1 DEF Return, CellAt
<1>3. escaped' \in BOOLEAN /\ quote_opened' \in BOOLEAN
    BY DEF Return
<1>4. i' \in 0 .. end'
    BY <1>0, SizesAssumption DEF Return, IInv, TypeOK
<1>5. pc' = "return"
    BY DEF Return
<1>6. TypeOK'
    BY <1>0, <1>2, <1>3, <1>4, <1>5 DEF IInv, TypeOK
<1>7. FindsTheCell'
    BY <1>0 DEF Return, FindsTheCell
<1> QED
    BY <1>5, <1>6, <1>7 DEF IInv, LoopInvariant

\* What the loop has read up to its position, for one iteration or the entry.
Read(from, opened, is_escaped) ==
    /\ current <= from
    /\ opened <=> ~ Balanced(buffer, current, from)
    /\ \A k \in current .. from - 1 : ~ EndsCell(buffer, current, k)
    /\ is_escaped <=> HasAdjacentQuotes(buffer, current, IF from < end THEN from + 1 ELSE end)

\* Going to a position with the right flags keeps the invariant.
LEMMA LoopStep ==
    ASSUME IInv, UNCHANGED <<rowVars, current, bounds, cells>>, pc' = "loop",
           i' \in 0 .. end, quote_opened' \in BOOLEAN, escaped' \in BOOLEAN,
           Read(i', quote_opened', escaped')
    PROVE  IInv'
<1>0. /\ buffer' = buffer /\ buffer_size' = buffer_size
      /\ row_start' = row_start /\ end' = end
      /\ current' = current /\ cells' = cells /\ bounds' = bounds
    BY DEF rowVars
<1>1. TypeOK'
    BY <1>0 DEF IInv, TypeOK
<1>2. LoopInvariant'
    BY <1>0 DEF LoopInvariant, Read
<1> QED
    BY <1>1, <1>2 DEF IInv, FindsTheCell

LEMMA EnterStep ==
    ASSUME IInv, Enter
    PROVE  IInv'
<1>0. /\ UNCHANGED rowVars
      /\ buffer_size \in Nat /\ end \in Nat /\ current \in Nat
      /\ end <= buffer_size
      /\ PrefixSize \in Nat \ {0}
    BY SizesAssumption DEF Enter, IInv, TypeOK
<1>1. CASE PastEnd
    <2>1. \A k \in current .. end - 1 : FALSE
        BY <1>0, <1>1 DEF PastEnd
    <2>2. Cell(buffer, end, current) =
            [start |-> current, content_end |-> end, escaped |-> FALSE]
        BY <1>0, <2>1, CellIsRest, QuoteFreeIsUnescaped
    <2>3. end \in 0 .. buffer_size /\ FALSE \in BOOLEAN
        BY <1>0
    <2>4. Return(end, FALSE)
        BY <1>1 DEF PastEnd
    <2> QED
        BY <1>0, <2>2, <2>3, <2>4, ReturnStep
<1>2. CASE OpeningQuote
    <2>1. /\ current < end
          /\ buffer[current] = QuoteCharacter
          /\ EnterLoop(current + 1, TRUE, Adjacent(current))
        BY <1>2 DEF OpeningQuote, IsQuote
    <2>2. Balanced(buffer, current, current)
        BY <1>0, EmptyIsBalanced
    <2>3. ~ Balanced(buffer, current, current + 1)
        BY <1>0, <2>1, <2>2, ParityStep
    <2>4. ~ EndsCell(buffer, current, current)
        BY <2>1 DEF EndsCell
    <2>5. ~ HasAdjacentQuotes(buffer, current, current + 1)
        BY <1>0 DEF HasAdjacentQuotes
    <2>6. Adjacent(current) <=>
            HasAdjacentQuotes(buffer, current, IF current + 1 < end THEN current + 2 ELSE end)
        <3>1. CASE current + 1 < end
            BY <1>0, <2>1, <2>5, <3>1, AdjacencyStep DEF Adjacent, IsQuote
        <3>2. CASE ~ (current + 1 < end)
            <4>1. end = current + 1
                BY <1>0, <2>1, <3>2
            <4> QED
                BY <2>5, <3>2, <4>1 DEF Adjacent
        <3> QED
            BY <3>1, <3>2
    <2>7. Read(current + 1, TRUE, Adjacent(current))
        <3>1. (current + 1) + 1 = current + 2
            BY <1>0
        <3>2. \A k \in current .. (current + 1) - 1 : ~ EndsCell(buffer, current, k)
            BY <1>0, <2>4
        <3> QED
            BY <1>0, <2>3, <2>6, <3>1, <3>2 DEF Read
    <2>8. Adjacent(current) \in BOOLEAN
        BY DEF Adjacent, IsQuote
    <2> QED
        BY <1>0, <2>1, <2>7, <2>8, LoopStep DEF EnterLoop
<1>3. ASSUME current < end, EnterLoop(current, FALSE, FALSE)
      PROVE  IInv'
    <2>1. Balanced(buffer, current, current)
        BY <1>0, EmptyIsBalanced
    <2>2. ~ HasAdjacentQuotes(buffer, current, current + 1)
        BY <1>0 DEF HasAdjacentQuotes
    <2>3. Read(current, FALSE, FALSE)
        BY <1>0, <1>3, <2>1, <2>2 DEF Read
    <2>4. /\ pc' = "loop" /\ i' = current
          /\ quote_opened' = FALSE /\ escaped' = FALSE
          /\ UNCHANGED <<current, bounds, cells>>
        BY <1>3 DEF EnterLoop
    <2>5. i' \in 0 .. end
        BY <1>0, <1>3, <2>4
    <2>6. quote_opened' \in BOOLEAN /\ escaped' \in BOOLEAN
        BY <2>4
    <2>7. Read(i', quote_opened', escaped')
        BY <2>3, <2>4
    <2> QED
        BY <1>0, <2>4, <2>5, <2>6, <2>7, LoopStep
<1>4. ASSUME NEW d \in current .. end, Return(d, FALSE),
             \A k \in current .. d - 1 : ~ IsQuote(k) /\ ~ IsDelimiter(k),
             d < end => IsDelimiter(d) /\ ~ IsQuote(d)
      PROVE  IInv'
    <2>1. \A k \in current .. d - 1 : ~ EndsCell(buffer, current, k)
        BY <1>4 DEF EndsCell, IsDelimiter
    <2>2. ~ HasAdjacentQuotes(buffer, current, d)
        BY <1>0, <1>4, QuoteFreeIsUnescaped DEF IsQuote
    <2>3. CASE d < end
        <3>1. Balanced(buffer, current, d)
            BY <1>0, <1>4, EmptyIsBalanced DEF IsQuote
        <3>2. EndsCell(buffer, current, d)
            BY <1>4, <2>3, <3>1 DEF EndsCell, IsDelimiter, IsQuote
        <3>3. Cell(buffer, end, current) =
                [start |-> current, content_end |-> d, escaped |-> FALSE]
            BY <1>0, <2>1, <2>2, <2>3, <3>2, CellEndsAt
        <3>4. d \in 0 .. buffer_size /\ FALSE \in BOOLEAN
            BY <1>0, <1>4
        <3> QED
            BY <1>0, <1>4, <3>3, <3>4, ReturnStep
    <2>4. CASE d = end
        <3>1. Cell(buffer, end, current) =
                [start |-> current, content_end |-> d, escaped |-> FALSE]
            BY <1>0, <2>1, <2>2, <2>4, CellIsRest
        <3>2. d \in 0 .. buffer_size /\ FALSE \in BOOLEAN
            BY <1>0, <1>4
        <3> QED
            BY <1>0, <1>4, <3>1, <3>2, ReturnStep
    <2> QED
        BY <1>0, <2>3, <2>4
<1>5. CASE Prefix
    <2>1. PICK k \in current .. PrefixEnd - 1 :
              /\ ~ IsQuote(current)
              /\ Plain(current, k - 1)
              /\ \/ IsQuote(k) /\ EnterLoop(current, FALSE, FALSE)
                 \/ ~ IsQuote(k) /\ IsDelimiter(k) /\ Return(k, FALSE)
        BY <1>5 DEF Prefix
    <2>2. PrefixEnd \in Int /\ PrefixEnd <= end
        BY <1>0 DEF PrefixEnd
    <2>3. k \in current .. end /\ k < end /\ current < end
        BY <1>0, <2>1, <2>2
    <2>4. CASE IsQuote(k) /\ EnterLoop(current, FALSE, FALSE)
        BY <1>3, <2>3, <2>4
    <2>5. CASE ~ IsQuote(k) /\ IsDelimiter(k) /\ Return(k, FALSE)
        BY <1>4, <2>1, <2>3, <2>5 DEF Plain
    <2> QED
        BY <2>1, <2>4, <2>5
<1>6. CASE PrefixIsAll
    <2>1. end \in current .. end
        BY <1>0, <1>6 DEF PrefixIsAll
    <2>2. \A k \in current .. end - 1 : ~ IsQuote(k) /\ ~ IsDelimiter(k)
        BY <1>6 DEF PrefixIsAll, Plain
    <2>3. ~ (end < end)
        BY <1>0
    <2>4. Return(end, FALSE)
        BY <1>6 DEF PrefixIsAll
    <2> QED
        BY <1>4, <2>1, <2>2, <2>3, <2>4
<1>7. CASE MemchrTail
    <2>1. PICK d \in PrefixEnd .. end :
              /\ TailDelimiter(d)
              /\ \/ ~ TailQuoteProbe(d) /\ Return(d, FALSE)
                 \/ TailQuoteProbe(d) /\ EnterLoop(current, FALSE, FALSE)
        BY <1>7 DEF MemchrTail
    <2>2. PrefixEnd \in Int /\ current <= PrefixEnd /\ current < end
        BY <1>0, <1>7 DEF MemchrTail, PrefixEnd
    <2>3. CASE ~ TailQuoteProbe(d) /\ Return(d, FALSE)
        <3>1. d \in current .. end
            BY <1>0, <2>1, <2>2
        <3>2. \A k \in current .. PrefixEnd - 1 : ~ IsQuote(k) /\ ~ IsDelimiter(k)
            BY <1>7 DEF MemchrTail, Plain
        <3>3. \A k \in PrefixEnd .. d - 1 : ~ IsDelimiter(k)
            BY <2>1 DEF TailDelimiter
        <3>4. \A k \in PrefixEnd .. d - 1 : ~ IsQuote(k)
            BY <1>0, <2>1, <2>2, <2>3 DEF TailQuoteProbe
        <3>5. \A k \in current .. d - 1 : ~ IsQuote(k) /\ ~ IsDelimiter(k)
            BY <1>0, <2>1, <2>2, <3>2, <3>3, <3>4
        <3>6. d < end => IsDelimiter(d) /\ ~ IsQuote(d)
            BY <1>0, <2>1, <2>2, <2>3 DEF TailDelimiter, TailQuoteProbe
        <3> QED
            BY <1>4, <2>3, <3>1, <3>5, <3>6
    <2>4. CASE TailQuoteProbe(d) /\ EnterLoop(current, FALSE, FALSE)
        BY <1>3, <2>2, <2>4
    <2> QED
        BY <2>1, <2>3, <2>4
<1> QED
    BY <1>1, <1>2, <1>5, <1>6, <1>7 DEF Enter

LEMMA LoopIteration ==
    ASSUME IInv, Loop
    PROVE  IInv'
<1>0. /\ UNCHANGED rowVars
      /\ pc = "loop"
      /\ buffer_size \in Nat /\ end \in Nat /\ current \in Nat /\ i \in Nat
      /\ end <= buffer_size
      /\ current <= i /\ i < end
      /\ quote_opened \in BOOLEAN /\ escaped \in BOOLEAN
    <2>1. UNCHANGED rowVars /\ pc = "loop" /\ i < end
        BY DEF Loop
    <2>2. /\ buffer_size \in Nat /\ end \in Nat /\ current \in Nat /\ i \in Nat
          /\ end <= buffer_size
        BY SizesAssumption DEF IInv, TypeOK
    <2>3. current <= i
        BY <2>1 DEF IInv, LoopInvariant
    <2>4. quote_opened \in BOOLEAN /\ escaped \in BOOLEAN
        BY DEF IInv, TypeOK
    <2> QED
        BY <2>1, <2>2, <2>3, <2>4
<1>1. /\ quote_opened <=> ~ Balanced(buffer, current, i)
      /\ \A k \in current .. i - 1 : ~ EndsCell(buffer, current, k)
      /\ escaped <=> HasAdjacentQuotes(buffer, current, i + 1)
    BY <1>0 DEF IInv, LoopInvariant
<1>2. i + 1 < end =>
        (HasAdjacentQuotes(buffer, current, i + 2) <=> escaped \/ (IsQuote(i) /\ IsQuote(i + 1)))
    BY <1>0, <1>1, AdjacencyStep DEF IsQuote
<1>3. ~ (i + 1 < end) => end = i + 1
    BY <1>0
<1>4. (i + 1) + 1 = i + 2
    BY <1>0
<1>5. ASSUME NEW opened \in BOOLEAN, NEW is_escaped \in BOOLEAN,
             opened <=> ~ Balanced(buffer, current, i + 1),
             ~ EndsCell(buffer, current, i),
             is_escaped <=> escaped \/ Adjacent(i)
      PROVE  Read(i + 1, opened, is_escaped)
    <2>1. \A k \in current .. (i + 1) - 1 : ~ EndsCell(buffer, current, k)
        BY <1>0, <1>1, <1>5
    <2>2. is_escaped <=>
            HasAdjacentQuotes(buffer, current, IF i + 1 < end THEN (i + 1) + 1 ELSE end)
        <3>1. CASE i + 1 < end
            BY <1>2, <1>4, <1>5, <3>1 DEF Adjacent
        <3>2. CASE ~ (i + 1 < end)
            BY <1>1, <1>3, <1>5, <3>2 DEF Adjacent
        <3> QED
            BY <3>1, <3>2
    <2> QED
        BY <1>0, <1>5, <2>1, <2>2 DEF Read
<1>6. CASE SkipDoubledQuote
    <2>1. /\ buffer[i] = QuoteCharacter /\ buffer[i + 1] = QuoteCharacter
          /\ i + 1 < end
          /\ ~ Balanced(buffer, current, i)
        BY <1>1, <1>6 DEF SkipDoubledQuote, Adjacent, IsQuote
    <2>2. Balanced(buffer, current, i + 1)
        BY <1>0, <2>1, ParityStep
    <2>3. ~ Balanced(buffer, current, i + 2)
        <3>1. ~ Balanced(buffer, current, (i + 1) + 1)
            BY <1>0, <2>1, <2>2, ParityStep
        <3> QED
            BY <1>4, <3>1
    <2>4. ~ EndsCell(buffer, current, i) /\ ~ EndsCell(buffer, current, i + 1)
        BY <2>1 DEF EndsCell
    <2>5. \A k \in current .. (i + 2) - 1 : ~ EndsCell(buffer, current, k)
        BY <1>0, <1>1, <2>4
    <2>6. HasAdjacentQuotes(buffer, current, IF i + 2 < end THEN (i + 2) + 1 ELSE end)
        BY <1>0, <2>1 DEF HasAdjacentQuotes
    <2>7. Read(i + 2, TRUE, TRUE)
        BY <1>0, <2>3, <2>5, <2>6 DEF Read
    <2>8. /\ pc' = "loop" /\ i' = i + 2 /\ escaped' = TRUE /\ quote_opened' = TRUE
          /\ UNCHANGED <<current, bounds, cells>>
        BY <1>0, <1>6 DEF SkipDoubledQuote
    <2>9. i' \in 0 .. end
        BY <1>0, <2>1, <2>8
    <2> QED
        BY <1>0, <2>7, <2>8, <2>9, LoopStep
<1>7. CASE CloseCell
    <2>1. /\ buffer[i] = QuoteCharacter
          /\ ~ Balanced(buffer, current, i)
          /\ ~ Adjacent(i) /\ ClosesCell(i)
          /\ Return(i + 1, escaped)
        BY <1>1, <1>7 DEF CloseCell, IsQuote
    <2>2. Balanced(buffer, current, i + 1)
        BY <1>0, <2>1, ParityStep
    <2>3. ~ EndsCell(buffer, current, i)
        BY <2>1 DEF EndsCell
    <2>4. \A k \in current .. (i + 1) - 1 : ~ EndsCell(buffer, current, k)
        BY <1>0, <1>1, <2>3
    <2>5. CASE i + 1 < end
        <3>1. EndsCell(buffer, current, i + 1)
            BY <2>1, <2>2, <2>5 DEF EndsCell, Adjacent, ClosesCell, IsDelimiter, IsQuote
        <3>2. Cell(buffer, end, current) =
                [start |-> current, content_end |-> i + 1, escaped |-> escaped]
            <4>1. i + 1 \in current .. end - 1
                BY <1>0, <2>5
            <4>2. HasAdjacentQuotes(buffer, current, i + 1) = escaped
                BY <1>0, <1>1 DEF HasAdjacentQuotes
            <4> QED
                BY <1>0, <2>4, <3>1, <4>1, <4>2, CellEndsAt
        <3> QED
            BY <1>0, <2>1, <2>5, <3>2, ReturnStep
    <2>6. CASE ~ (i + 1 < end)
        <3>1. Cell(buffer, end, current) =
                [start |-> current, content_end |-> i + 1, escaped |-> escaped]
            <4>1. HasAdjacentQuotes(buffer, current, i + 1) = escaped
                BY <1>0, <1>1 DEF HasAdjacentQuotes
            <4> QED
                BY <1>0, <1>3, <2>4, <2>6, <4>1, CellIsRest
        <3> QED
            BY <1>0, <1>3, <2>1, <2>6, <3>1, ReturnStep
    <2> QED
        BY <2>5, <2>6
<1>8. CASE ToggleQuote
    <2>1. /\ buffer[i] = QuoteCharacter
          /\ escaped' = (escaped \/ Adjacent(i))
          /\ quote_opened' = ~ quote_opened
          /\ pc' = "loop" /\ i' = i + 1
          /\ UNCHANGED <<current, bounds, cells>>
        BY <1>0, <1>8 DEF ToggleQuote, IsQuote
    <2>2. Balanced(buffer, current, i + 1) <=> ~ Balanced(buffer, current, i)
        BY <1>0, <2>1, ParityStep
    <2>3. ~ EndsCell(buffer, current, i)
        BY <2>1 DEF EndsCell
    <2>4. escaped' \in BOOLEAN /\ quote_opened' \in BOOLEAN
        BY <2>1
    <2>5. Read(i + 1, quote_opened', escaped')
        BY <1>1, <1>5, <2>1, <2>2, <2>3, <2>4
    <2>6. i' \in 0 .. end
        BY <1>0, <2>1
    <2> QED
        BY <1>0, <2>1, <2>4, <2>5, <2>6, LoopStep
<1>9. CASE EndCell
    <2>1. /\ buffer[i] # QuoteCharacter /\ buffer[i] = Delimiter
          /\ Balanced(buffer, current, i)
          /\ Return(i, escaped)
        BY <1>1, <1>9 DEF EndCell, IsQuote, IsDelimiter
    <2>2. EndsCell(buffer, current, i)
        BY <2>1 DEF EndsCell
    <2>3. HasAdjacentQuotes(buffer, current, i) = escaped
        <3>1. HasAdjacentQuotes(buffer, current, i) <=> HasAdjacentQuotes(buffer, current, i + 1)
            BY <1>0, <2>1 DEF HasAdjacentQuotes
        <3> QED
            BY <1>0, <1>1, <3>1 DEF HasAdjacentQuotes
    <2>4. Cell(buffer, end, current) =
            [start |-> current, content_end |-> i, escaped |-> escaped]
        BY <1>0, <1>1, <2>2, <2>3, CellEndsAt
    <2> QED
        BY <1>0, <2>1, <2>4, ReturnStep
<1>10. CASE Content
    <2>1. /\ buffer[i] # QuoteCharacter
          /\ pc' = "loop" /\ i' = i + 1
          /\ escaped' = escaped /\ quote_opened' = quote_opened
          /\ UNCHANGED <<current, bounds, cells>>
        BY <1>0, <1>10 DEF Content, IsQuote
    <2>2. Balanced(buffer, current, i + 1) <=> Balanced(buffer, current, i)
        BY <1>0, <2>1, ParityStep
    <2>3. ~ EndsCell(buffer, current, i)
        BY <1>1, <1>10 DEF Content, EndsCell, IsDelimiter
    <2>4. ~ Adjacent(i)
        BY <2>1 DEF Adjacent, IsQuote
    <2>5. Read(i + 1, quote_opened', escaped')
        BY <1>0, <1>1, <1>5, <2>1, <2>2, <2>3, <2>4
    <2>6. i' \in 0 .. end
        BY <1>0, <2>1
    <2> QED
        BY <1>0, <2>1, <2>5, <2>6, LoopStep
<1> QED
    BY <1>6, <1>7, <1>8, <1>9, <1>10 DEF Loop

LEMMA OutOfBytesStep ==
    ASSUME IInv, OutOfBytes
    PROVE  IInv'
<1>1. /\ UNCHANGED rowVars
      /\ buffer_size \in Nat /\ end \in Nat /\ current \in Nat
      /\ end <= buffer_size /\ i = end
      /\ pc = "loop" /\ escaped \in BOOLEAN
      /\ Return(end, escaped)
    BY SizesAssumption DEF OutOfBytes, IInv, TypeOK
<1>2. /\ \A k \in current .. end - 1 : ~ EndsCell(buffer, current, k)
      /\ escaped <=> HasAdjacentQuotes(buffer, current, end)
    BY <1>1 DEF IInv, LoopInvariant
<1>3. Cell(buffer, end, current) =
        [start |-> current, content_end |-> end, escaped |-> escaped]
    <2>1. HasAdjacentQuotes(buffer, current, end) = escaped
        BY <1>1, <1>2 DEF HasAdjacentQuotes
    <2> QED
        BY <1>1, <1>2, <2>1, CellIsRest
<1> QED
    BY <1>1, <1>3, ReturnStep

\* The iterator goes on behind the delimiter, never out of the row.
LEMMA VisitStep ==
    ASSUME IInv, VisitCell
    PROVE  IInv'
<1>0. /\ buffer' = buffer /\ buffer_size' = buffer_size
      /\ row_start' = row_start /\ end' = end
      /\ i' = i /\ quote_opened' = quote_opened /\ escaped' = escaped
      /\ bounds' = NoCell
      /\ cells' = Append(cells, bounds)
      /\ Increment(bounds.content_end)
    BY DEF VisitCell, rowVars
<1>1. bounds.content_end \in 0 .. buffer_size /\ end \in 0 .. buffer_size /\ buffer_size \in Nat
    BY SizesAssumption DEF IInv, TypeOK, CellAt
<1>2. current' \in 0 .. end' /\ pc' \in {"enter", "at_end"}
    BY <1>0, <1>1 DEF Increment
<1>3. bounds' \in CellAt(buffer_size')
    BY <1>0, <1>1 DEF NoCell, CellAt
<1>4. cells' \in Seq(CellAt(buffer_size'))
    BY <1>0 DEF IInv, TypeOK
<1>5. TypeOK'
    BY <1>0, <1>2, <1>3, <1>4 DEF IInv, TypeOK
<1> QED
    BY <1>2, <1>5 DEF IInv, LoopInvariant, FindsTheCell

LEMMA NextIInv == IInv /\ [Next]_vars => IInv'
<1> SUFFICES ASSUME IInv, [Next]_vars PROVE IInv'
    OBVIOUS
<1>1. CASE Enter
    BY <1>1, EnterStep
<1>2. CASE Loop
    BY <1>2, LoopIteration
<1>3. CASE OutOfBytes
    BY <1>3, OutOfBytesStep
<1>4. CASE VisitCell
    BY <1>4, VisitStep
<1>5. CASE UNCHANGED vars
    BY <1>5 DEF vars, rowVars, IInv, TypeOK, LoopInvariant, FindsTheCell
<1> QED
    BY <1>1, <1>2, <1>3, <1>4, <1>5 DEF Next, Step, AtEnd

\* Positions never leave the row, nor cells the buffer: TypeOK.
THEOREM CellScanTypeCorrect == Spec => []TypeOK
<1>1. IInv => TypeOK
    BY DEF IInv
<1> QED
    BY InitIInv, NextIInv, <1>1, PTL DEF Spec

\* The flags of the scalar loops say what was read, wherever they were entered.
THEOREM CellScanLoopInvariant == Spec => []LoopInvariant
<1>1. IInv => LoopInvariant
    BY DEF IInv
<1> QED
    BY InitIInv, NextIInv, <1>1, PTL DEF Spec

\* Every result is the cell of the definition: the prefix, the memchr tail and
\* the loops of find_cell_bounds agree with it on every row.
THEOREM CellScanFindsTheCell == Spec => []FindsTheCell
<1>1. IInv => FindsTheCell
    BY DEF IInv
<1> QED
    BY InitIInv, NextIInv, <1>1, PTL DEF Spec

-----------------------------------------------------------------------------
(* The cells and the row.  Between two cells the iterator stands where the *)
(* quotes of the row so far are balanced, so that counting them anew from  *)
(* there, as it does, finds the ends that counting from the start finds.   *)

\* A step either visits a cell or stays within one.
LEMMA StepKinds ==
    ASSUME [Next]_vars
    PROVE  \/ VisitCell
           \/ UNCHANGED vars
           \/ pc # "at_end" /\ pc' # "at_end" /\ UNCHANGED <<rowVars, current, cells>>
<1>1. CASE Enter
    BY <1>1 DEF Enter, PastEnd, OpeningQuote, Prefix, PrefixIsAll, MemchrTail, Return, EnterLoop
<1>2. CASE Loop
    BY <1>2 DEF Loop, SkipDoubledQuote, CloseCell, ToggleQuote, EndCell, Content, Return
<1>3. CASE OutOfBytes
    BY <1>3 DEF OutOfBytes, Return
<1> QED
    BY <1>1, <1>2, <1>3 DEF Next, Step, AtEnd

\* The delimiters that cut the row before a position.
RowCuts(to) == {k \in row_start .. to - 1 : EndsCell(buffer, row_start, k)}

\* The cells visited so far are the row up to the position of the iterator.
SplitSoFar ==
    /\ row_start <= current
    /\ Balanced(buffer, row_start, current)
    /\ Len(cells) = Cardinality(RowCuts(current))
    /\ IF cells = <<>> THEN current = row_start
                       ELSE /\ cells[1].start = row_start
                            /\ cells[Len(cells)].content_end + 1 = current
    /\ \A n \in 1 .. Len(cells) : cells[n].content_end \in RowCuts(current)
    /\ \A n \in 1 .. Len(cells) - 1 : cells[n + 1].start = cells[n].content_end + 1

SplitInv ==
    /\ IInv
    /\ pc # "at_end" => row_start < end /\ SplitSoFar
    /\ SplitsAtRowDelimiters

LEMMA CutsFinite ==
    ASSUME NEW to \in Int, row_start \in Int
    PROVE  IsFiniteSet(RowCuts(to)) /\ Cardinality(RowCuts(to)) \in Nat
<1>1. IsFiniteSet(row_start .. to - 1)
    BY FS_Interval
<1>2. RowCuts(to) \subseteq row_start .. to - 1
    BY DEF RowCuts
<1> QED
    BY <1>1, <1>2, FS_Subset, FS_CardinalityType

LEMMA InitSplitInv == Init => SplitInv
<1> SUFFICES ASSUME Init PROVE SplitInv
    OBVIOUS
<1>1. IInv
    BY InitIInv
<1>2. row_start \in Int /\ end \in Int /\ cells = <<>> /\ current = row_start
    BY SizesAssumption DEF Init
<1>3. pc # "at_end" <=> row_start < end
    BY <1>2 DEF Init
<1>4. SplitSoFar
    <2>1. RowCuts(row_start) = {}
        BY <1>2 DEF RowCuts
    <2>2. Cardinality(RowCuts(row_start)) = 0
        BY <2>1, FS_EmptySet
    <2>3. Balanced(buffer, row_start, row_start)
        BY <1>2, EmptyIsBalanced
    <2> QED
        BY <1>2, <2>2, <2>3 DEF SplitSoFar
<1>5. SplitsAtRowDelimiters
    BY <1>2, <1>3 DEF SplitsAtRowDelimiters
<1> QED
    BY <1>1, <1>3, <1>4, <1>5 DEF SplitInv

\* What happens within a cell leaves the cells and the position alone.
LEMMA WithinCell ==
    ASSUME SplitInv, pc # "at_end", IInv',
           UNCHANGED <<rowVars, current, cells>>, pc' # "at_end"
    PROVE  SplitInv'
BY DEF SplitInv, SplitSoFar, SplitsAtRowDelimiters, RowCuts, rowVars

\* The cell found ends where the row is cut next, or with the row.
LEMMA FoundInRow ==
    ASSUME SplitInv, VisitCell
    PROVE  LET c == bounds.content_end
           IN  /\ bounds.start = current
               /\ c \in current .. end
               /\ c < end => /\ RowCuts(c + 1) = RowCuts(current) \cup {c}
                             /\ Balanced(buffer, row_start, c + 1)
               /\ c = end => RowCuts(end) = RowCuts(current)
<1> DEFINE c == bounds.content_end
<1>0. pc = "return"
    BY DEF VisitCell
<1>1. /\ row_start \in Nat /\ current \in Nat /\ end \in Nat
      /\ row_start <= current /\ current <= end
      /\ Balanced(buffer, row_start, current)
    BY <1>0, SizesAssumption DEF SplitInv, SplitSoFar, IInv, TypeOK
<1>2. /\ bounds.start = current
      /\ c \in current .. end
      /\ c < end => EndsCell(buffer, current, c)
      /\ \A k \in current .. c - 1 : ~ EndsCell(buffer, current, k)
    <2>1. bounds = Cell(buffer, end, current)
        BY <1>0 DEF SplitInv, IInv, FindsTheCell
    <2> QED
        BY <1>1, <2>1, CellIsFirst
<1> HIDE DEF c
<1>3. \A k \in current .. c - 1 : ~ EndsCell(buffer, row_start, k)
    <2> TAKE k \in current .. c - 1
    <2>1. k \in Int /\ current <= k
        BY <1>1
    <2> QED
        BY <1>1, <1>2, <2>1, CellEndsInRow
<1>4. RowCuts(c) = RowCuts(current)
    BY <1>1, <1>2, <1>3 DEF RowCuts
<1>5. ASSUME c < end
      PROVE  /\ RowCuts(c + 1) = RowCuts(current) \cup {c}
             /\ Balanced(buffer, row_start, c + 1)
    <2>1. c \in Int /\ current <= c /\ row_start <= c
        BY <1>1, <1>2
    <2>2. EndsCell(buffer, row_start, c)
        BY <1>1, <1>2, <1>5, <2>1, CellEndsInRow
    <2>3. RowCuts(c + 1) = RowCuts(c) \cup {c}
        BY <1>1, <2>1, <2>2 DEF RowCuts
    <2>4. Balanced(buffer, row_start, c) /\ buffer[c] # QuoteCharacter
        BY <2>2 DEF EndsCell
    <2> QED
        BY <1>1, <1>4, <2>1, <2>3, <2>4, ParityStep
<1> QED
    BY <1>2, <1>4, <1>5 DEF c

LEMMA VisitKeepsSplit ==
    ASSUME SplitInv, VisitCell
    PROVE  SplitInv'
<1> DEFINE c == bounds.content_end
<1>0. /\ pc = "return" /\ IInv'
      /\ buffer' = buffer /\ row_start' = row_start /\ end' = end
      /\ cells' = Append(cells, bounds)
      /\ Increment(c)
    BY VisitStep DEF VisitCell, rowVars, SplitInv
<1>1. /\ row_start \in Nat /\ current \in Nat /\ end \in Nat
      /\ row_start < end
      /\ cells \in Seq(CellAt(buffer_size)) /\ bounds \in CellAt(buffer_size)
      /\ SplitSoFar
    BY <1>0, SizesAssumption DEF SplitInv, IInv, TypeOK
<1>2. /\ bounds.start = current
      /\ c \in current .. end
      /\ c < end => /\ RowCuts(c + 1) = RowCuts(current) \cup {c}
                    /\ Balanced(buffer, row_start, c + 1)
      /\ c = end => RowCuts(end) = RowCuts(current)
    BY FoundInRow
<1> HIDE DEF c
<1>3. /\ Len(cells) \in Nat
      /\ Len(cells') = Len(cells) + 1
      /\ \A n \in 1 .. Len(cells) : cells'[n] = cells[n]
      /\ cells'[Len(cells) + 1] = bounds
    BY <1>0, <1>1
<1>4. cells'[1].start = row_start
    <2>1. CASE cells = <<>>
        BY <1>1, <1>2, <1>3, <2>1 DEF SplitSoFar
    <2>2. CASE cells # <<>>
        <3>1. 1 \in 1 .. Len(cells)
            BY <1>1, <1>3, <2>2
        <3> QED
            BY <1>1, <1>3, <2>2, <3>1 DEF SplitSoFar
    <2> QED
        BY <2>1, <2>2
<1>5. \A n \in 1 .. Len(cells) : cells'[n].content_end \in RowCuts(current)
    BY <1>1, <1>3 DEF SplitSoFar
<1>6. \A n \in 1 .. Len(cells) : cells'[n + 1].start = cells'[n].content_end + 1
    <2> TAKE n \in 1 .. Len(cells)
    <2>1. CASE n = Len(cells)
        <3>1. cells # <<>>
            BY <1>3, <2>1
        <3>2. cells[n].content_end + 1 = current
            BY <1>1, <2>1, <3>1 DEF SplitSoFar
        <3> QED
            BY <1>2, <1>3, <2>1, <3>2
    <2>2. CASE n # Len(cells)
        <3>1. n \in 1 .. Len(cells) - 1 /\ n + 1 \in 1 .. Len(cells)
            BY <1>3, <2>2
        <3> QED
            BY <1>1, <1>3, <3>1 DEF SplitSoFar
    <2> QED
        BY <2>1, <2>2
<1>7. cells' # <<>>
    BY <1>0, <1>1
<1>8. Len(cells) = Cardinality(RowCuts(current))
    BY <1>1 DEF SplitSoFar
<1>9. CASE c < end
    <2>1. current' = c + 1 /\ pc' = "enter"
        BY <1>0, <1>9 DEF Increment
    <2>2. RowCuts(current)' = RowCuts(current) \cup {c}
        BY <1>0, <1>2, <1>9, <2>1 DEF RowCuts
    <2>3. c \notin RowCuts(current)
        BY <1>1, <1>2 DEF RowCuts
    <2>4. Len(cells') = Cardinality(RowCuts(current)')
        <3>1. IsFiniteSet(RowCuts(current))
            BY <1>1, CutsFinite
        <3>2. Cardinality(RowCuts(current) \cup {c}) = Cardinality(RowCuts(current)) + 1
            BY <2>3, <3>1, FS_AddElement
        <3> QED
            BY <1>3, <1>8, <2>2, <3>2
    <2>5. \A n \in 1 .. Len(cells') : cells'[n].content_end \in RowCuts(current)'
        <3> TAKE n \in 1 .. Len(cells')
        <3>1. CASE n = Len(cells) + 1
            BY <1>3, <2>2, <3>1 DEF c
        <3>2. CASE n # Len(cells) + 1
            <4>1. n \in 1 .. Len(cells)
                BY <1>3, <3>2
            <4> QED
                BY <1>5, <2>2, <4>1
        <3> QED
            BY <3>1, <3>2
    <2>6. cells'[Len(cells')].content_end + 1 = current'
        BY <1>3, <2>1 DEF c
    <2>7. \A n \in 1 .. Len(cells') - 1 : cells'[n + 1].start = cells'[n].content_end + 1
        BY <1>3, <1>6
    <2>8. row_start' <= current' /\ Balanced(buffer', row_start', current')
        <3>1. row_start <= c + 1
            BY <1>1, <1>2 DEF SplitSoFar
        <3> QED
            BY <1>0, <1>2, <1>9, <2>1, <3>1
    <2>9. SplitSoFar'
        BY <1>0, <1>4, <1>7, <2>4, <2>5, <2>6, <2>7, <2>8 DEF SplitSoFar
    <2> QED
        BY <1>0, <1>1, <2>1, <2>9 DEF SplitInv, SplitsAtRowDelimiters
<1>10. CASE c = end
    <2>1. pc' = "at_end"
        BY <1>0, <1>1, <1>10 DEF Increment
    <2>2. RowCuts(end)' = RowCuts(current)
        BY <1>0, <1>2, <1>10 DEF RowCuts
    <2>3. Len(cells') = Cardinality(RowCuts(end)') + 1
        BY <1>3, <1>8, <2>2
    <2>4. cells'[Len(cells')].content_end = end'
        BY <1>0, <1>3, <1>10 DEF c
    <2>5. \A n \in 1 .. Len(cells') - 1 :
              /\ cells'[n].content_end \in RowCuts(end)'
              /\ cells'[n + 1].start = cells'[n].content_end + 1
        BY <1>3, <1>5, <1>6, <2>2
    <2>6. RowCuts(end)' = {k \in row_start' .. end' - 1 : EndsCell(buffer', row_start', k)}
        BY DEF RowCuts
    <2>7. ~ (row_start' >= end')
        BY <1>0, <1>1
    <2>8. SplitsAtRowDelimiters'
        BY <1>0, <1>4, <2>3, <2>4, <2>5, <2>6, <2>7 DEF SplitsAtRowDelimiters
    <2> QED
        BY <1>0, <2>1, <2>8 DEF SplitInv
<1> QED
    BY <1>1, <1>2, <1>9, <1>10

LEMMA NextSplitInv == SplitInv /\ [Next]_vars => SplitInv'
<1> SUFFICES ASSUME SplitInv, [Next]_vars PROVE SplitInv'
    OBVIOUS
<1>0. IInv'
    BY NextIInv DEF SplitInv
<1>1. CASE VisitCell
    BY <1>1, VisitKeepsSplit
<1>2. CASE UNCHANGED vars
    BY <1>0, <1>2 DEF vars, rowVars, SplitInv, SplitSoFar, SplitsAtRowDelimiters, RowCuts
<1>3. CASE pc # "at_end" /\ pc' # "at_end" /\ UNCHANGED <<rowVars, current, cells>>
    BY <1>0, <1>3, WithinCell
<1> QED
    BY <1>1, <1>2, <1>3, StepKinds

\* A row is cut into cells exactly at its unquoted delimiters: the iterator of
\* basic_row loses no byte of it, invents no cell and keeps the empty last one,
\* though it forgets between two cells how many quotes it has passed.
THEOREM CellsSplitTheRow == Spec => []SplitsAtRowDelimiters
<1>1. SplitInv => SplitsAtRowDelimiters
    BY DEF SplitInv
<1> QED
    BY InitSplitInv, NextSplitInv, <1>1, PTL DEF Spec

-----------------------------------------------------------------------------
(* Enumerating a finite set of positions in ascending order.               *)

Below(S, k) == {m \in S : m < k}

Nth(S, n) == CHOOSE k \in S : Cardinality(Below(S, k)) = n - 1

\* There is a position for every number up to the cardinality: were there a set
\* without one, there would be one of least cardinality.
LEMMA NthExists ==
    ASSUME NEW S \in SUBSET Nat, IsFiniteSet(S), NEW n \in 1 .. Cardinality(S)
    PROVE  \E k \in S : Cardinality(Below(S, k)) = n - 1
<1> DEFINE Lacks(T, j) == \A k \in T : Cardinality(Below(T, k)) # j - 1
           Short == {c \in Nat : \E T \in SUBSET Nat :
                        /\ IsFiniteSet(T) /\ Cardinality(T) = c
                        /\ \E j \in 1 .. c : Lacks(T, j)}
<1>1. SUFFICES ASSUME Short # {} PROVE FALSE
    <2>1. Cardinality(S) \in Nat
        BY FS_CardinalityType
    <2> QED
        BY <1>1, <2>1
<1>2. Short \in SUBSET Nat
    OBVIOUS
<1>3. \E c \in Short : \A d \in Short : c <= d
    BY <1>1, <1>2, LeastExists
<1>4. PICK c \in Nat : c \in Short /\ \A d \in Short : c <= d
    BY <1>2, <1>3
<1>5. PICK T \in SUBSET Nat : /\ IsFiniteSet(T) /\ Cardinality(T) = c
                              /\ \E j \in 1 .. c : Lacks(T, j)
    BY <1>4
<1>6. PICK j \in 1 .. c : Lacks(T, j)
    BY <1>5
<1>7. T # {}
    BY <1>4, <1>5, <1>6, FS_EmptySet
<1>8. PICK m \in T : \A k \in T : m <= k
    BY <1>5, <1>7, LeastExists
<1> DEFINE U == T \ {m}
<1>9. IsFiniteSet(U) /\ Cardinality(U) = c - 1
    BY <1>5, <1>8, FS_RemoveElement
<1>10. Below(T, m) = {}
    <2>1. \A k \in T : k \in Nat /\ m \in Nat /\ ~ (k < m)
        BY <1>5, <1>8
    <2> QED
        BY <2>1 DEF Below
<1>11. j # 1
    BY <1>6, <1>8, <1>10, FS_EmptySet
<1>12. c - 1 \in Nat /\ c - 1 < c /\ j - 1 \in 1 .. c - 1
    BY <1>4, <1>6, <1>11
<1>13. c - 1 \notin Short
    BY <1>4, <1>12
<1>14. ~ Lacks(U, j - 1)
    BY <1>9, <1>12, <1>13
<1>15. PICK k \in U : Cardinality(Below(U, k)) = (j - 1) - 1
    BY <1>14
<1>16. Below(T, k) = Below(U, k) \cup {m} /\ m \notin Below(U, k)
    BY <1>5, <1>8, <1>15 DEF Below
<1>17. IsFiniteSet(Below(U, k))
    BY <1>9, FS_Subset DEF Below
<1>18. Cardinality(Below(T, k)) = Cardinality(Below(U, k)) + 1
    BY <1>16, <1>17, FS_AddElement
<1> QED
    BY <1>6, <1>12, <1>15, <1>18

\* There is no second one.
LEMMA NthUnique ==
    ASSUME NEW S \in SUBSET Nat, IsFiniteSet(S), NEW k \in S, NEW m \in S,
           Cardinality(Below(S, k)) = Cardinality(Below(S, m))
    PROVE  k = m
<1>1. ASSUME NEW x \in S, NEW y \in S, x < y
      PROVE  Cardinality(Below(S, x)) # Cardinality(Below(S, y))
    <2>1. Below(S, x) \cup {x} \subseteq Below(S, y) /\ x \notin Below(S, x)
        <3>1. \A z \in S : z \in Nat
            OBVIOUS
        <3>2. \A z \in S : z < x => z < y
            BY <1>1, <3>1
        <3>3. ~ (x < x)
            BY <3>1
        <3> QED
            BY <1>1, <3>2, <3>3 DEF Below
    <2>2. IsFiniteSet(Below(S, x)) /\ IsFiniteSet(Below(S, y))
        BY FS_Subset DEF Below
    <2>3. Cardinality(Below(S, x) \cup {x}) = Cardinality(Below(S, x)) + 1
        BY <2>1, <2>2, FS_AddElement
    <2>4. Cardinality(Below(S, x) \cup {x}) <= Cardinality(Below(S, y))
        BY <2>1, <2>2, FS_Subset
    <2>5. Cardinality(Below(S, x)) \in Nat /\ Cardinality(Below(S, y)) \in Nat
        BY <2>2, FS_CardinalityType
    <2> QED
        BY <2>3, <2>4, <2>5
<1>2. k \in Nat /\ m \in Nat
    OBVIOUS
<1> QED
    BY <1>1, <1>2

\* So a position with that many below it is the one.
LEMMA NthIs ==
    ASSUME NEW S \in SUBSET Nat, IsFiniteSet(S), NEW k \in S, NEW n \in Int,
           Cardinality(Below(S, k)) = n - 1
    PROVE  Nth(S, n) = k
<1>1. Nth(S, n) \in S /\ Cardinality(Below(S, Nth(S, n))) = n - 1
    BY DEF Nth
<1> QED
    BY <1>1, NthUnique

\* A position before all others is enumerated first.
LEMMA NthStep ==
    ASSUME NEW S \in SUBSET Nat, IsFiniteSet(S), NEW m \in Nat,
           \A k \in S : m < k
    PROVE  /\ Cardinality({m} \cup S) = Cardinality(S) + 1
           /\ Nth({m} \cup S, 1) = m
           /\ \A n \in 1 .. Cardinality(S) :
                 /\ Nth(S, n) \in S
                 /\ Nth({m} \cup S, n + 1) = Nth(S, n)
<1> DEFINE M == {m} \cup S
<1>1. m \notin S
    OBVIOUS
<1>2. IsFiniteSet(M) /\ Cardinality(M) = Cardinality(S) + 1
    <2>1. M = S \cup {m}
        OBVIOUS
    <2> QED
        BY <1>1, <2>1, FS_AddElement
<1>3. Nth(M, 1) = m
    <2>1. Below(M, m) = {}
        <3>1. \A k \in M : ~ (k < m)
            OBVIOUS
        <3> HIDE DEF M
        <3> QED
            BY <3>1 DEF Below
    <2>2. Cardinality(Below(M, m)) = 1 - 1
        BY <2>1, FS_EmptySet
    <2>3. M \in SUBSET Nat /\ m \in M
        OBVIOUS
    <2> HIDE DEF M
    <2> QED
        BY <1>2, <2>2, <2>3, NthIs
<1>4. ASSUME NEW n \in 1 .. Cardinality(S)
      PROVE  Nth(S, n) \in S /\ Nth(M, n + 1) = Nth(S, n)
    <2>1. PICK k \in S : Cardinality(Below(S, k)) = n - 1
        BY NthExists
    <2>2. Cardinality(S) \in Nat /\ n \in Int
        BY FS_CardinalityType
    <2>3. Nth(S, n) = k
        BY <2>1, <2>2, NthIs
    <2>4. Below(M, k) = Below(S, k) \cup {m} /\ m \notin Below(S, k)
        BY DEF Below
    <2>5. IsFiniteSet(Below(S, k))
        BY FS_Subset DEF Below
    <2>6. Cardinality(Below(M, k)) = (n + 1) - 1
        <3>1. Cardinality(Below(M, k)) = Cardinality(Below(S, k)) + 1
            BY <2>4, <2>5, FS_AddElement
        <3> QED
            BY <2>1, <2>2, <3>1
    <2>7. M \in SUBSET Nat /\ k \in M
        OBVIOUS
    <2> HIDE DEF M
    <2>8. Nth(M, n + 1) = k
        BY <1>2, <2>2, <2>6, <2>7, NthIs
    <2> QED
        BY <2>3, <2>8
<1> QED
    BY <1>2, <1>3, <1>4
-----------------------------------------------------------------------------
(* Folding by its definition, one step further to the left.                *)

\* The positions from which only quotes stand before k.
Run(first, k) == {m \in first .. k - 1 : \A n \in m .. k - 1 : IsQuote(n)}

\* The bytes that folding keeps.
Kept(first, last) ==
    {k \in first .. last - 1 : IsQuote(k) => Cardinality(Run(first, k)) % 2 = 0}

LEMMA FoldedIs ==
    ASSUME NEW first, NEW last
    PROVE  Folded(first, last) =
             [n \in 1 .. Cardinality(Kept(first, last)) |-> buffer[Nth(Kept(first, last), n)]]
BY Zenon DEF Folded, Kept, Run, Nth, Below

LEMMA RunFinite ==
    ASSUME NEW first \in Nat, NEW k \in Nat
    PROVE  IsFiniteSet(Run(first, k)) /\ Cardinality(Run(first, k)) \in Nat
<1>1. IsFiniteSet(first .. k - 1)
    BY FS_Interval
<1>2. Run(first, k) \subseteq first .. k - 1
    BY DEF Run
<1> QED
    BY <1>1, <1>2, FS_Subset, FS_CardinalityType

LEMMA KeptFinite ==
    ASSUME NEW first \in Nat, NEW last \in Nat
    PROVE  /\ Kept(first, last) \in SUBSET Nat
           /\ IsFiniteSet(Kept(first, last))
           /\ Cardinality(Kept(first, last)) \in Nat
           /\ \A k \in Kept(first, last) : first <= k /\ k < last
<1>1. IsFiniteSet(first .. last - 1)
    BY FS_Interval
<1>2. Kept(first, last) \subseteq first .. last - 1
    BY DEF Kept
<1>3. IsFiniteSet(Kept(first, last))
    BY <1>1, <1>2, FS_Subset
<1>4. first .. last - 1 \subseteq Nat
    OBVIOUS
<1> QED
    BY <1>2, <1>3, <1>4, FS_CardinalityType

\* Where the loops of the decoders go on.
Further(k, last) == IF Pair(k, last) THEN k + 2 ELSE k + 1

\* Of a pair at the start the second is left out, and the runs behind it are
\* longer by two or as long as they would be without it.
LEMMA KeptStep ==
    ASSUME NEW first \in Nat, NEW last \in Nat, first < last
    PROVE  /\ Further(first, last) \in first + 1 .. last
           /\ Kept(first, last) = {first} \cup Kept(Further(first, last), last)
<1> DEFINE next == Further(first, last)
<1>1. next \in first + 1 .. last
    BY DEF Further, Pair
<1>2. first \in Kept(first, last)
    <2>1. Run(first, first) = {}
        BY DEF Run
    <2> QED
        BY <2>1, FS_EmptySet DEF Kept
<1>3. ASSUME NEW k \in next .. last - 1, IsQuote(k)
      PROVE  Cardinality(Run(first, k)) % 2 = 0 <=> Cardinality(Run(next, k)) % 2 = 0
    <2>0. next \in Nat /\ k \in Nat /\ next <= k /\ first < k /\ k < last
        BY <1>1
    <2>1. CASE ~ Pair(first, last)
        <3>1. next = first + 1
            BY <2>1 DEF Further
        <3>2. first \notin Run(first, k)
            <4>1. SUFFICES ASSUME \A n \in first .. k - 1 : IsQuote(n) PROVE FALSE
                BY DEF Run
            <4>2. IsQuote(first)
                BY <2>0, <4>1
            <4>3. IsQuote(first + 1) /\ first + 1 < last
                BY <1>3, <2>0, <4>1
            <4> QED
                BY <2>1, <4>2, <4>3 DEF Pair
        <3>3. Run(first, k) = Run(next, k)
            BY <2>0, <3>1, <3>2 DEF Run
        <3> QED
            BY <3>3
    <2>2. CASE Pair(first, last)
        <3>1. next = first + 2 /\ IsQuote(first) /\ IsQuote(first + 1)
            BY <2>2 DEF Further, Pair
        <3>2. CASE \A n \in next .. k - 1 : IsQuote(n)
            <4>1. \A n \in first .. k - 1 : IsQuote(n)
                BY <2>0, <3>1, <3>2
            <4>2. Run(first, k) = (Run(next, k) \cup {first}) \cup {first + 1}
                <5>1. Run(first, k) = first .. k - 1
                    BY <4>1 DEF Run
                <5>2. Run(next, k) = next .. k - 1
                    BY <3>1, <3>2 DEF Run
                <5> QED
                    BY <2>0, <3>1, <5>1, <5>2
            <4>3. /\ first \notin Run(next, k)
                  /\ first + 1 \notin Run(next, k) \cup {first}
                BY <2>0, <3>1 DEF Run
            <4>4. /\ IsFiniteSet(Run(next, k))
                  /\ Cardinality(Run(next, k)) \in Nat
                BY <2>0, RunFinite
            <4>5. /\ IsFiniteSet(Run(next, k) \cup {first})
                  /\ Cardinality(Run(next, k) \cup {first}) = Cardinality(Run(next, k)) + 1
                BY <4>3, <4>4, FS_AddElement
            <4>6. Cardinality(Run(first, k)) = (Cardinality(Run(next, k)) + 1) + 1
                BY <4>2, <4>3, <4>5, FS_AddElement
            <4> QED
                BY <4>4, <4>6
        <3>3. CASE ~ \A n \in next .. k - 1 : IsQuote(n)
            <4>1. PICK n \in next .. k - 1 : ~ IsQuote(n)
                BY <3>3
            <4>2. \A m \in first .. k - 1 : m \in Run(first, k) => n < m
                BY <2>0, <4>1 DEF Run
            <4>3. Run(first, k) = Run(next, k)
                BY <2>0, <3>1, <4>1, <4>2 DEF Run
            <4> QED
                BY <4>3
        <3> QED
            BY <3>2, <3>3
    <2> QED
        BY <2>1, <2>2
<1>4. ASSUME Pair(first, last)
      PROVE  first + 1 \notin Kept(first, last)
    <2>1. IsQuote(first) /\ IsQuote(first + 1)
        BY <1>4 DEF Pair
    <2>2. Run(first, first + 1) = {first}
        BY <2>1 DEF Run
    <2>3. Cardinality(Run(first, first + 1)) = 1
        BY <2>2, FS_Singleton
    <2> QED
        BY <2>1, <2>3 DEF Kept
<1>5. first .. last - 1 = {first} \cup (IF Pair(first, last) THEN {first + 1} ELSE {})
                            \cup (next .. last - 1)
    BY <1>1 DEF Further, Pair
<1> HIDE DEF next
<1>6. \A k \in next .. last - 1 : k \in Kept(first, last) <=> k \in Kept(next, last)
    <2> TAKE k \in next .. last - 1
    <2>1. k \in first .. last - 1
        BY <1>1
    <2> QED
        BY <1>3, <2>1 DEF Kept
<1>7. Kept(first, last) \subseteq first .. last - 1 /\ Kept(next, last) \subseteq next .. last - 1
    BY DEF Kept
<1>8. Kept(first, last) = {first} \cup Kept(next, last)
    <2>1. CASE Pair(first, last)
        BY <1>2, <1>4, <1>5, <1>6, <1>7, <2>1
    <2>2. CASE ~ Pair(first, last)
        BY <1>2, <1>5, <1>6, <1>7, <2>2
    <2> QED
        BY <2>1, <2>2
<1> QED
    BY <1>1, <1>8 DEF next

LEMMA FoldedEmpty ==
    ASSUME NEW last \in Nat
    PROVE  Folded(last, last) = <<>>
<1>1. Kept(last, last) = {}
    BY DEF Kept
<1>2. Cardinality(Kept(last, last)) = 0
    BY <1>1, FS_EmptySet
<1> QED
    BY <1>2, FoldedIs

LEMMA FoldedStep ==
    ASSUME NEW first \in Nat, NEW last \in Nat, first < last
    PROVE  Folded(first, last) = <<buffer[first]>> \o Folded(Further(first, last), last)
<1> DEFINE K == Kept(Further(first, last), last)
           c == Cardinality(K)
<1>1. /\ Further(first, last) \in Nat
      /\ first < Further(first, last)
      /\ Kept(first, last) = {first} \cup K
    BY KeptStep
<1>2. K \in SUBSET Nat /\ IsFiniteSet(K) /\ c \in Nat /\ \A k \in K : first < k
    <2>1. /\ K \in SUBSET Nat /\ IsFiniteSet(K) /\ c \in Nat
          /\ \A k \in K : Further(first, last) <= k
        BY <1>1, KeptFinite
    <2> HIDE DEF K
    <2>2. \A k \in K : k \in Nat
        BY <2>1
    <2> QED
        BY <1>1, <2>1, <2>2
<1> HIDE DEF K
<1>3. /\ Cardinality({first} \cup K) = c + 1
      /\ Nth({first} \cup K, 1) = first
      /\ \A n \in 1 .. c : Nth({first} \cup K, n + 1) = Nth(K, n)
    BY <1>2, NthStep
<1>4. Folded(first, last) = [n \in 1 .. c + 1 |-> buffer[Nth({first} \cup K, n)]]
    BY <1>1, <1>3, FoldedIs
<1>5. Folded(Further(first, last), last) = [n \in 1 .. c |-> buffer[Nth(K, n)]]
    BY FoldedIs DEF K
<1> HIDE DEF c
<1>6. <<buffer[first]>> \o [n \in 1 .. c |-> buffer[Nth(K, n)]]
        = [n \in 1 .. c + 1 |-> IF n = 1 THEN buffer[first] ELSE buffer[Nth(K, n - 1)]]
    BY <1>2
<1>7. \A n \in 1 .. c + 1 :
        buffer[Nth({first} \cup K, n)] = IF n = 1 THEN buffer[first] ELSE buffer[Nth(K, n - 1)]
    <2> TAKE n \in 1 .. c + 1
    <2>1. CASE n = 1
        BY <1>3, <2>1
    <2>2. CASE n # 1
        <3>1. n - 1 \in 1 .. c /\ (n - 1) + 1 = n
            BY <1>2, <2>2
        <3> QED
            BY <1>3, <2>2, <3>1
    <2> QED
        BY <2>1, <2>2
<1> QED
    BY <1>4, <1>5, <1>6, <1>7
-----------------------------------------------------------------------------
(* Slices, and the text of a fold.                                         *)

\* The source, as far as the lemmas need its type.
Typed == buffer_size \in Nat /\ buffer \in Buffer(buffer_size)

LEMMA SliceIsText ==
    ASSUME Typed, NEW first \in 0 .. buffer_size, NEW last \in first .. buffer_size
    PROVE  /\ Slice(first, last) \in Seq(Byte)
           /\ Len(Slice(first, last)) = last - first
           /\ \A n \in 1 .. last - first : Slice(first, last)[n] = buffer[first + n - 1]
<1>1. \A n \in 1 .. last - first : buffer[first + n - 1] \in Byte
    <2> TAKE n \in 1 .. last - first
    <2>1. first + n - 1 \in 0 .. buffer_size - 1
        BY DEF Typed
    <2> QED
        BY <2>1 DEF Typed, Buffer
<1>2. last - first \in Nat
    BY DEF Typed
<1>3. Slice(first, last) \in [1 .. last - first -> Byte]
    BY <1>1 DEF Slice
<1> QED
    BY <1>2, <1>3 DEF Slice

LEMMA SlicesJoin ==
    ASSUME Typed, NEW first \in 0 .. buffer_size, NEW mid \in first .. buffer_size,
           NEW last \in mid .. buffer_size
    PROVE  Slice(first, mid) \o Slice(mid, last) = Slice(first, last)
<1>0. /\ mid \in 0 .. buffer_size
      /\ last \in first .. buffer_size
      /\ first \in Nat /\ mid \in Nat /\ last \in Nat
      /\ first <= mid /\ mid <= last
    BY DEF Typed
<1> DEFINE L == Slice(first, mid)
           R == Slice(mid, last)
           W == Slice(first, last)
<1>1. /\ L \in Seq(Byte) /\ Len(L) = mid - first
      /\ R \in Seq(Byte) /\ Len(R) = last - mid
      /\ W \in Seq(Byte) /\ Len(W) = last - first
      /\ \A n \in 1 .. mid - first : L[n] = buffer[first + n - 1]
      /\ \A n \in 1 .. last - mid : R[n] = buffer[mid + n - 1]
      /\ \A n \in 1 .. last - first : W[n] = buffer[first + n - 1]
    BY <1>0, SliceIsText
<1> HIDE DEF L, R, W
<1>2. /\ L \o R \in Seq(Byte)
      /\ Len(L \o R) = last - first
      /\ \A n \in 1 .. last - first :
            (L \o R)[n] = IF n <= mid - first THEN L[n] ELSE R[n - (mid - first)]
    <2>1. Len(L) + Len(R) = last - first
        BY <1>0, <1>1
    <2>2. /\ L \o R \in Seq(Byte)
          /\ Len(L \o R) = Len(L) + Len(R)
          /\ \A n \in 1 .. Len(L) + Len(R) :
                (L \o R)[n] = IF n <= Len(L) THEN L[n] ELSE R[n - Len(L)]
        BY <1>1, ConcatProperties
    <2> QED
        BY <1>1, <2>1, <2>2
<1>3. ASSUME NEW n \in 1 .. last - first
      PROVE  (L \o R)[n] = W[n]
    <2>1. CASE n <= mid - first
        <3>1. n \in 1 .. mid - first
            BY <1>0, <2>1
        <3> QED
            BY <1>1, <1>2, <2>1, <3>1
    <2>2. CASE ~ (n <= mid - first)
        <3>1. /\ n - (mid - first) \in 1 .. last - mid
              /\ mid + (n - (mid - first)) - 1 = first + n - 1
            BY <1>0, <2>2
        <3> QED
            BY <1>1, <1>2, <2>2, <3>1
    <2> QED
        BY <2>1, <2>2
<1>4. L \o R = W
    BY <1>1, <1>2, <1>3, SeqEqual
<1> QED
    BY <1>4 DEF L, R, W

LEMMA SliceOfOne ==
    ASSUME Typed, NEW k \in 0 .. buffer_size - 1
    PROVE  Slice(k, k + 1) = <<buffer[k]>>
<1>1. (k + 1) - k = 1 /\ k + 1 - 1 = k
    BY DEF Typed
<1>2. Slice(k, k + 1) = [n \in 1 .. 1 |-> buffer[k + n - 1]]
    BY <1>1, Zenon DEF Slice
<1> QED
    BY <1>1, <1>2

LEMMA FoldedIsText ==
    ASSUME Typed, NEW first \in 0 .. buffer_size, NEW last \in first .. buffer_size
    PROVE  Folded(first, last) \in Seq(Byte)
<1> DEFINE K == Kept(first, last)
           c == Cardinality(K)
<1>0. first \in Nat /\ last \in Nat /\ last <= buffer_size
    BY DEF Typed
<1>1. /\ K \in SUBSET Nat /\ IsFiniteSet(K) /\ c \in Nat
      /\ \A k \in K : first <= k /\ k < last
    BY <1>0, KeptFinite
<1>2. Folded(first, last) = [n \in 1 .. c |-> buffer[Nth(K, n)]]
    BY FoldedIs
<1> HIDE DEF K
<1>3. \A n \in 1 .. c : Nth(K, n) \in K
    <2> TAKE n \in 1 .. c
    <2>1. PICK k \in K : Cardinality(Below(K, k)) = n - 1
        BY <1>1, NthExists
    <2> QED
        BY <2>1 DEF Nth
<1>4. \A k \in K : k \in 0 .. buffer_size - 1
    BY <1>0, <1>1 DEF Typed
<1>5. \A n \in 1 .. c : buffer[Nth(K, n)] \in Byte
    BY <1>3, <1>4 DEF Typed, Buffer
<1> HIDE DEF c
<1> QED
    BY <1>1, <1>2, <1>5
-----------------------------------------------------------------------------
(* The two decoders.                                                       *)

DecodesBytes(from, first, last) ==
    from = [k \in first .. last |->
               IF k = last THEN <<>>
               ELSE <<buffer[k]>> \o from[IF Pair(k, last) THEN k + 2 ELSE k + 1]]

LEMMA DecodeBytesFolds ==
    ASSUME Typed, NEW first \in 0 .. buffer_size, NEW last \in first .. buffer_size
    PROVE  DecodeBytes(first, last) = Folded(first, last)
<1>0. first \in Nat /\ last \in Nat /\ first <= last
    BY DEF Typed
<1> DEFINE folded == [k \in first .. last |-> Folded(k, last)]
           from == CHOOSE f : DecodesBytes(f, first, last)
<1>1. DecodesBytes(folded, first, last)
    <2>1. ASSUME NEW k \in first .. last
          PROVE  Folded(k, last) =
                    IF k = last THEN <<>>
                    ELSE <<buffer[k]>> \o folded[IF Pair(k, last) THEN k + 2 ELSE k + 1]
        <3>1. CASE k = last
            BY <1>0, <3>1, FoldedEmpty
        <3>2. CASE k # last
            <4>1. k \in Nat /\ k < last
                BY <1>0, <3>2
            <4>2. /\ Further(k, last) \in first .. last
                  /\ Folded(k, last) = <<buffer[k]>> \o Folded(Further(k, last), last)
                <5>1. Further(k, last) \in k + 1 .. last
                    BY <1>0, <4>1, KeptStep
                <5>2. Folded(k, last) = <<buffer[k]>> \o Folded(Further(k, last), last)
                    BY <1>0, <4>1, FoldedStep
                <5>3. Further(k, last) \in first .. last
                    BY <1>0, <4>1, <5>1
                <5> QED
                    BY <5>2, <5>3
            <4>3. folded[Further(k, last)] = Folded(Further(k, last), last)
                BY <4>2
            <4> QED
                BY <3>2, <4>2, <4>3, Zenon DEF Further
        <3> QED
            BY <3>1, <3>2
    <2> HIDE DEF folded
    <2>2. folded = [k \in first .. last |->
                      IF k = last THEN <<>>
                      ELSE <<buffer[k]>> \o folded[IF Pair(k, last) THEN k + 2 ELSE k + 1]]
        BY <2>1, Zenon DEF folded
    <2> QED
        BY <2>2, Zenon DEF DecodesBytes
<1>2. DecodesBytes(from, first, last)
    BY <1>1, Zenon
<1>3. DecodeBytes(first, last) = from[first]
    BY Zenon DEF DecodeBytes, DecodesBytes
<1> HIDE DEF from
<1>4. /\ from[last] = <<>>
      /\ \A k \in first .. last - 1 : from[k] = <<buffer[k]>> \o from[Further(k, last)]
    <2>1. \A k \in first .. last :
            from[k] = IF k = last THEN <<>>
                      ELSE <<buffer[k]>> \o from[IF Pair(k, last) THEN k + 2 ELSE k + 1]
        BY <1>2, Zenon DEF DecodesBytes
    <2>2. last \in first .. last
        BY <1>0
    <2>3. \A k \in first .. last - 1 : k \in first .. last /\ k # last
        BY <1>0
    <2> QED
        BY <2>1, <2>2, <2>3, Zenon DEF Further
<1> DEFINE Good == {k \in first .. last : from[k] = Folded(k, last)}
<1>5. last \in Good
    BY <1>0, <1>4, FoldedEmpty
<1>6. ASSUME NEW k \in first .. last - 1, \A m \in k + 1 .. last : m \in Good
      PROVE  k \in Good
    <2>1. k \in Nat /\ k < last /\ k \in first .. last
        BY <1>0
    <2>2. Further(k, last) \in k + 1 .. last
        BY <1>0, <2>1, KeptStep
    <2>3. from[Further(k, last)] = Folded(Further(k, last), last)
        BY <1>6, <2>2
    <2>4. Folded(k, last) = <<buffer[k]>> \o Folded(Further(k, last), last)
        BY <1>0, <2>1, FoldedStep
    <2> QED
        BY <1>4, <2>1, <2>3, <2>4
<1>7. \A k \in first .. last : k \in Good
    <2> HIDE DEF Good
    <2> QED
        BY <1>0, <1>5, <1>6, Downwards
<1> QED
    BY <1>0, <1>3, <1>7
\* A segment that is under way has been read as folding reads it.
Pending(first, k, last) == Slice(first, k) \o Folded(k, last)

\* One byte goes from what is ahead to the segment.
LEMMA PendingStep ==
    ASSUME Typed, NEW first \in 0 .. buffer_size, NEW k \in first .. buffer_size,
           NEW last \in k + 1 .. buffer_size
    PROVE  Pending(first, k, last) =
             Slice(first, k + 1) \o Folded(Further(k, last), last)
<1>0. /\ k \in Nat /\ last \in Nat /\ k < last
      /\ k \in 0 .. buffer_size /\ k \in 0 .. buffer_size - 1
      /\ k + 1 \in k .. buffer_size /\ k + 1 \in 0 .. buffer_size
    BY DEF Typed
<1>1. /\ Folded(k, last) = <<buffer[k]>> \o Folded(Further(k, last), last)
      /\ Further(k, last) \in k + 1 .. last
    BY <1>0, FoldedStep, KeptStep
<1>2. <<buffer[k]>> = Slice(k, k + 1)
    BY <1>0, SliceOfOne
<1>3. Slice(first, k) \in Seq(Byte) /\ Slice(k, k + 1) \in Seq(Byte)
    BY <1>0, SliceIsText
<1>4. Folded(Further(k, last), last) \in Seq(Byte)
    <2>1. /\ Further(k, last) \in 0 .. buffer_size
          /\ last \in Further(k, last) .. buffer_size
        BY <1>0, <1>1 DEF Typed
    <2> QED
        BY <2>1, FoldedIsText
<1>5. Slice(first, k) \o (Slice(k, k + 1) \o Folded(Further(k, last), last))
        = (Slice(first, k) \o Slice(k, k + 1)) \o Folded(Further(k, last), last)
    <2>1. \A t, u, v \in Seq(Byte) : t \o (u \o v) = (t \o u) \o v
        BY ConcatAssociative
    <2> QED
        BY <1>3, <1>4, <2>1, Zenon
<1>6. Slice(first, k) \o Slice(k, k + 1) = Slice(first, k + 1)
    BY <1>0, SlicesJoin
<1> QED
    BY <1>1, <1>2, <1>5, <1>6, Zenon DEF Pending

\* Nothing is pending where a segment begins, and nothing is ahead at the end.
LEMMA PendingEnds ==
    ASSUME Typed, NEW first \in 0 .. buffer_size, NEW last \in first .. buffer_size
    PROVE  /\ Pending(first, first, last) = Folded(first, last)
           /\ Pending(first, last, last) = Slice(first, last)
<1>0. /\ first \in Nat /\ last \in Nat /\ last \in 0 .. buffer_size
      /\ first \in first .. buffer_size /\ last \in last .. buffer_size
    BY DEF Typed
<1>1. Slice(first, first) = <<>>
    <2>1. 1 .. first - first = {}
        BY <1>0
    <2> QED
        BY <2>1 DEF Slice
<1>2. Folded(last, last) = <<>>
    BY <1>0, FoldedEmpty
<1>3. Folded(first, last) \in Seq(Byte) /\ Slice(first, last) \in Seq(Byte)
    BY <1>0, FoldedIsText, SliceIsText
<1> QED
    BY <1>1, <1>2, <1>3, ConcatEmptySeq DEF Pending

DecodesSegments(from, first, last) ==
    from = [k \in first .. last |->
               [segment_start \in first .. k |->
                   IF k = last THEN Slice(segment_start, last)
                   ELSE IF Pair(k, last)
                        THEN Slice(segment_start, k + 1) \o from[k + 2][k + 2]
                        ELSE from[k + 1][segment_start]]]

LEMMA DecodeSegmentsFolds ==
    ASSUME Typed, NEW first \in 0 .. buffer_size, NEW last \in first .. buffer_size
    PROVE  DecodeSegments(first, last) = Folded(first, last)
<1>0. /\ first \in Nat /\ last \in Nat /\ first <= last /\ last <= buffer_size
      /\ buffer_size \in Nat
    BY DEF Typed
<1> DEFINE pending == [k \in first .. last |->
                         [segment_start \in first .. k |-> Pending(segment_start, k, last)]]
           from == CHOOSE f : DecodesSegments(f, first, last)
\* What is pending at a position, from what is pending further on.
<1>1. ASSUME NEW k \in first .. last, NEW s \in first .. k
      PROVE  /\ k = last => Pending(s, k, last) = Slice(s, last)
             /\ k # last /\ Pair(k, last) =>
                  /\ k + 2 \in k + 1 .. last
                  /\ Pending(s, k, last) = Slice(s, k + 1) \o Pending(k + 2, k + 2, last)
             /\ k # last /\ ~ Pair(k, last) =>
                  /\ k + 1 \in k + 1 .. last
                  /\ Pending(s, k, last) = Pending(s, k + 1, last)
    <2>0. /\ s \in 0 .. buffer_size /\ k \in s .. buffer_size /\ k \in Nat
          /\ last \in s .. buffer_size
        BY <1>0, <1>1
    <2>1. k = last => Pending(s, k, last) = Slice(s, last)
        BY <2>0, PendingEnds
    <2>2. ASSUME k # last
          PROVE  Pending(s, k, last) = Slice(s, k + 1) \o Folded(Further(k, last), last)
        <3>1. last \in k + 1 .. buffer_size
            BY <1>0, <2>0, <2>2
        <3> QED
            BY <2>0, <3>1, PendingStep
    <2>3. ASSUME k # last, Pair(k, last)
          PROVE  /\ k + 2 \in k + 1 .. last
                 /\ Folded(Further(k, last), last) = Pending(k + 2, k + 2, last)
        <3>1. Further(k, last) = k + 2 /\ k + 2 \in k + 1 .. last
            BY <1>0, <2>0, <2>3 DEF Further, Pair
        <3>2. k + 2 \in 0 .. buffer_size /\ last \in k + 2 .. buffer_size
            BY <1>0, <2>0, <3>1
        <3> QED
            BY <3>1, <3>2, PendingEnds
    <2>4. ASSUME k # last, ~ Pair(k, last)
          PROVE  /\ k + 1 \in k + 1 .. last
                 /\ Further(k, last) = k + 1
        BY <1>0, <2>0, <2>4 DEF Further
    <2> QED
        BY <2>1, <2>2, <2>3, <2>4 DEF Pending
<1>2. DecodesSegments(pending, first, last)
    <2>1. ASSUME NEW k \in first .. last, NEW s \in first .. k
          PROVE  Pending(s, k, last) =
                    IF k = last THEN Slice(s, last)
                    ELSE IF Pair(k, last)
                         THEN Slice(s, k + 1) \o pending[k + 2][k + 2]
                         ELSE pending[k + 1][s]
        <3>1. CASE k = last
            BY <1>1, <3>1
        <3>2. CASE k # last /\ Pair(k, last)
            <4>1. k + 2 \in first .. last /\ k + 2 \in first .. k + 2
                BY <1>0, <1>1, <3>2
            <4>2. pending[k + 2][k + 2] = Pending(k + 2, k + 2, last)
                BY <4>1, Zenon
            <4> QED
                BY <1>1, <3>2, <4>2
        <3>3. CASE k # last /\ ~ Pair(k, last)
            <4>1. k + 1 \in first .. last /\ s \in first .. k + 1
                BY <1>0, <1>1, <3>3
            <4>2. pending[k + 1][s] = Pending(s, k + 1, last)
                BY <4>1, Zenon
            <4> QED
                BY <1>1, <3>3, <4>2
        <3> QED
            BY <3>1, <3>2, <3>3
    <2> HIDE DEF pending
    <2>2. ASSUME NEW k \in first .. last
          PROVE  [s \in first .. k |-> Pending(s, k, last)] =
                 [s \in first .. k |->
                    IF k = last THEN Slice(s, last)
                    ELSE IF Pair(k, last)
                         THEN Slice(s, k + 1) \o pending[k + 2][k + 2]
                         ELSE pending[k + 1][s]]
        BY <2>1, Zenon
    <2>3. pending = [k \in first .. last |->
                       [s \in first .. k |->
                          IF k = last THEN Slice(s, last)
                          ELSE IF Pair(k, last)
                               THEN Slice(s, k + 1) \o pending[k + 2][k + 2]
                               ELSE pending[k + 1][s]]]
        BY <2>2, Zenon DEF pending
    <2> QED
        BY <2>3, Zenon DEF DecodesSegments
<1>3. DecodesSegments(from, first, last)
    BY <1>2, Zenon
<1>4. DecodeSegments(first, last) = from[first][first]
    BY Zenon DEF DecodeSegments, DecodesSegments
<1> HIDE DEF from
<1>5. \A k \in first .. last : \A s \in first .. k :
        from[k][s] = IF k = last THEN Slice(s, last)
                     ELSE IF Pair(k, last)
                          THEN Slice(s, k + 1) \o from[k + 2][k + 2]
                          ELSE from[k + 1][s]
    <2> TAKE k \in first .. last
    <2>1. from[k] = [s \in first .. k |->
                        IF k = last THEN Slice(s, last)
                        ELSE IF Pair(k, last)
                             THEN Slice(s, k + 1) \o from[k + 2][k + 2]
                             ELSE from[k + 1][s]]
        BY <1>3, Zenon DEF DecodesSegments
    <2> QED
        BY <2>1, Zenon
<1> DEFINE Good == {k \in first .. last :
                      \A s \in first .. k : from[k][s] = Pending(s, k, last)}
<1>6. last \in Good
    <2>1. last \in first .. last
        BY <1>0
    <2>2. ASSUME NEW s \in first .. last PROVE from[last][s] = Pending(s, last, last)
        BY <1>1, <1>5, <2>1
    <2> QED
        BY <2>1, <2>2
<1>7. ASSUME NEW k \in first .. last - 1, \A m \in k + 1 .. last : m \in Good
      PROVE  k \in Good
    <2>1. k \in first .. last /\ k # last
        BY <1>0
    <2>2. ASSUME NEW s \in first .. k PROVE from[k][s] = Pending(s, k, last)
        <3>1. CASE Pair(k, last)
            <4>1. /\ k + 2 \in Good /\ k + 2 \in first .. k + 2
                  /\ Pending(s, k, last) = Slice(s, k + 1) \o Pending(k + 2, k + 2, last)
                BY <1>0, <1>1, <1>7, <2>1, <3>1
            <4>2. from[k + 2][k + 2] = Pending(k + 2, k + 2, last)
                BY <4>1
            <4>3. from[k][s] = Slice(s, k + 1) \o from[k + 2][k + 2]
                BY <1>5, <2>1, <3>1
            <4> QED
                BY <4>1, <4>2, <4>3
        <3>2. CASE ~ Pair(k, last)
            <4>1. /\ k + 1 \in Good /\ s \in first .. k + 1
                  /\ Pending(s, k, last) = Pending(s, k + 1, last)
                BY <1>0, <1>1, <1>7, <2>1, <3>2
            <4>2. from[k + 1][s] = Pending(s, k + 1, last)
                BY <4>1
            <4>3. from[k][s] = from[k + 1][s]
                BY <1>5, <2>1, <3>2
            <4> QED
                BY <4>1, <4>2, <4>3
        <3> QED
            BY <3>1, <3>2
    <2> QED
        BY <2>1, <2>2
<1>8. \A k \in first .. last : k \in Good
    <2> HIDE DEF Good
    <2> QED
        BY <1>0, <1>6, <1>7, Downwards
<1>9. from[first][first] = Pending(first, first, last)
    <2>1. first \in first .. last /\ first \in first .. first
        BY <1>0
    <2> QED
        BY <1>8, <2>1
<1> QED
    BY <1>4, <1>9, PendingEnds
\* Without two adjacent quotes there is nothing to fold.
LEMMA FoldedUnpaired ==
    ASSUME Typed, NEW first \in 0 .. buffer_size, NEW last \in first .. buffer_size,
           ~ HasAdjacentQuotes(buffer, first, last)
    PROVE  Folded(first, last) = Slice(first, last)
<1>0. /\ first \in Nat /\ last \in Nat /\ first <= last /\ last <= buffer_size
      /\ buffer_size \in Nat
    BY DEF Typed
<1> DEFINE Good == {k \in first .. last : Folded(k, last) = Slice(k, last)}
<1>1. last \in Good
    <2>1. last \in 0 .. buffer_size /\ last \in last .. buffer_size /\ last \in first .. last
        BY <1>0
    <2> QED
        BY <2>1, PendingEnds
<1>2. ASSUME NEW k \in first .. last - 1, \A m \in k + 1 .. last : m \in Good
      PROVE  k \in Good
    <2>1. /\ k \in Nat /\ k < last /\ k \in first .. last
          /\ k \in 0 .. buffer_size /\ k \in 0 .. buffer_size - 1
          /\ k + 1 \in k .. buffer_size /\ last \in k + 1 .. buffer_size
          /\ k + 1 \in k + 1 .. last
        BY <1>0
    <2>2. ~ Pair(k, last)
        BY <1>0, <2>1 DEF HasAdjacentQuotes, Pair, IsQuote
    <2>3. Folded(k, last) = <<buffer[k]>> \o Folded(k + 1, last)
        BY <1>0, <2>1, <2>2, FoldedStep DEF Further
    <2>4. Folded(k + 1, last) = Slice(k + 1, last)
        BY <1>2, <2>1
    <2>5. <<buffer[k]>> = Slice(k, k + 1)
        BY <2>1, SliceOfOne
    <2>6. Slice(k, k + 1) \o Slice(k + 1, last) = Slice(k, last)
        BY <2>1, SlicesJoin
    <2> QED
        BY <2>1, <2>3, <2>4, <2>5, <2>6
<1>3. \A k \in first .. last : k \in Good
    <2> HIDE DEF Good
    <2> QED
        BY <1>0, <1>1, <1>2, Downwards
<1> QED
    BY <1>0, <1>3

-----------------------------------------------------------------------------
(* Reading a cell that the iterator found.                                 *)

\* Trimming leaves a stretch of the cell.
LEMMA TrimWithin ==
    ASSUME NEW trimmed, NEW last \in Nat, NEW first \in 0 .. last
    PROVE  LET trim == Trim(trimmed, first, last)
           IN  trim.first \in first .. last /\ trim.last \in trim.first .. last
<1> DEFINE kept == {k \in first .. last - 1 : buffer[k] \notin trimmed}
<1>1. CASE kept = {}
    BY <1>1 DEF Trim
<1>2. CASE kept # {}
    <2>1. kept \in SUBSET Nat /\ kept \in SUBSET (0 .. last) /\ kept \subseteq first .. last - 1
        OBVIOUS
    <2>2. Trim(trimmed, first, last) = [first |-> Min(kept), last |-> Max(kept) + 1]
        BY <1>2, Zenon DEF Trim
    <2> HIDE DEF kept
    <2>3. Min(kept) \in kept /\ \A k \in kept : Min(kept) <= k
        <3>1. \E m \in kept : \A k \in kept : m <= k
            BY <1>2, <2>1, LeastExists
        <3> QED
            BY <3>1, Zenon DEF Min
    <2>4. Max(kept) \in kept
        <3>1. \E m \in kept : \A k \in kept : m >= k
            BY <1>2, <2>1, GreatestExists
        <3> QED
            BY <3>1, Zenon DEF Max
    <2>5. /\ Min(kept) \in first .. last - 1 /\ Max(kept) \in first .. last - 1
          /\ Min(kept) <= Max(kept)
        BY <2>1, <2>3, <2>4
    <2> QED
        BY <2>2, <2>5
<1> QED
    BY <1>1, <1>2

LEMMA AccessAgrees == SplitInv => ReadersAgree
<1> SUFFICES ASSUME SplitInv, pc = "return", NEW trimmed \in TrimPolicies
    PROVE  LET trim == Trim(trimmed, bounds.start, bounds.content_end)
               folded == Folded(trim.first, trim.last)
           IN  /\ \A supports_push_back \in BOOLEAN :
                     ReadValue(bounds, trimmed, supports_push_back) = folded
               /\ DecodeTo(bounds, trimmed) = folded
    BY DEF ReadersAgree
<1>1. /\ Typed /\ end \in Nat /\ end <= buffer_size /\ buffer_size \in Nat
      /\ current \in 0 .. end
      /\ bounds = Cell(buffer, end, current)
    BY SizesAssumption DEF SplitInv, SplitSoFar, IInv, TypeOK, FindsTheCell, Typed
<1>2. /\ bounds.start = current
      /\ bounds.content_end \in current .. end
      /\ bounds.escaped = HasAdjacentQuotes(buffer, current, bounds.content_end)
    BY <1>1, CellIsFirst DEF Cell
<1> DEFINE first == Trim(trimmed, bounds.start, bounds.content_end).first
           last == Trim(trimmed, bounds.start, bounds.content_end).last
<1>3. first \in current .. bounds.content_end /\ last \in first .. bounds.content_end
    <2>1. bounds.content_end \in Nat /\ bounds.start \in 0 .. bounds.content_end
        BY <1>1, <1>2
    <2> QED
        BY <1>2, <2>1, TrimWithin
<1> HIDE DEF first, last
<1>4. first \in 0 .. buffer_size /\ last \in first .. buffer_size
    BY <1>1, <1>2, <1>3
<1>5. DecodeBytes(first, last) = Folded(first, last)
    BY <1>1, <1>4, DecodeBytesFolds
<1>6. DecodeSegments(first, last) = Folded(first, last)
    BY <1>1, <1>4, DecodeSegmentsFolds
<1>7. ~ bounds.escaped => Slice(first, last) = Folded(first, last)
    <2>1. ASSUME ~ bounds.escaped PROVE ~ HasAdjacentQuotes(buffer, first, last)
        <3>1. ~ HasAdjacentQuotes(buffer, current, bounds.content_end)
            BY <1>2, <2>1
        <3>2. first .. last - 2 \subseteq current .. bounds.content_end - 2
            BY <1>1, <1>2, <1>3
        <3> QED
            BY <3>1, <3>2, Zenon DEF HasAdjacentQuotes
    <2> QED
        BY <1>1, <1>4, <2>1, FoldedUnpaired
<1>8. \A supports_push_back \in BOOLEAN :
        ReadValue(bounds, trimmed, supports_push_back) = Folded(first, last)
    BY <1>5, <1>6, <1>7 DEF ReadValue, AppendDecoded, first, last
<1>9. DecodeTo(bounds, trimmed) = Folded(first, last)
    BY <1>5 DEF DecodeTo, first, last
<1> QED
    BY <1>8, <1>9 DEF first, last

\* However a cell is read, its pairs of quotes are folded: the decoder byte by
\* byte, the one of whole segments, and none where the flag of find_cell_bounds
\* says that there is nothing to decode, agree on every cell of every row.
THEOREM EveryReaderFolds == Spec => []ReadersAgree
BY InitSplitInv, NextSplitInv, AccessAgrees, PTL DEF Spec

-----------------------------------------------------------------------------
(* What write_escaped_chars_ puts out, without its segments.               *)

\* A text cut at a position, one byte further.
LEMMA PiecesOfData ==
    ASSUME NEW data \in Seq(Byte), NEW s \in Nat, NEW n \in Nat, s <= n, n <= Len(data)
    PROVE  /\ SubSeq(data, s + 1, n) \in Seq(Byte)
           /\ SubSeq(data, n + 1, n) = <<>>
           /\ n < Len(data) =>
                /\ data[n + 1] \in Byte
                /\ SubSeq(data, s + 1, n) \o <<data[n + 1]>> = SubSeq(data, s + 1, n + 1)
                /\ <<data[n + 1]>> \o SubSeq(data, n + 2, Len(data))
                     = SubSeq(data, n + 1, Len(data))
<1>0. Len(data) \in Nat /\ \A j \in 1 .. Len(data) : data[j] \in Byte
    OBVIOUS
<1>1. SubSeq(data, s + 1, n) \in Seq(Byte) /\ SubSeq(data, n + 1, n) = <<>>
    BY <1>0
<1>2. ASSUME n < Len(data)
      PROVE  /\ data[n + 1] \in Byte
             /\ SubSeq(data, s + 1, n) \o <<data[n + 1]>> = SubSeq(data, s + 1, n + 1)
             /\ <<data[n + 1]>> \o SubSeq(data, n + 2, Len(data))
                  = SubSeq(data, n + 1, Len(data))
    <2>1. n + 1 \in 1 .. Len(data) /\ n + 2 = (n + 1) + 1
        BY <1>0, <1>2
    <2>2. SubSeq(data, n + 1, n + 1) = <<data[n + 1]>>
        <3> DEFINE one == SubSeq(data, n + 1, n + 1)
        <3>1. one \in Seq(Byte) /\ Len(one) = 1 /\ one[1] = data[n + 1]
            BY <1>0, <2>1
        <3>2. <<data[n + 1]>> \in Seq(Byte) /\ Len(<<data[n + 1]>>) = 1
            BY <1>0, <2>1
        <3> HIDE DEF one
        <3>3. \A j \in 1 .. 1 : one[j] = <<data[n + 1]>>[j]
            BY <3>1
        <3> QED
            BY <3>1, <3>2, <3>3, SeqEqual DEF one
    <2>3. /\ s + 1 \in 1 .. Len(data) + 1 /\ n \in (s + 1) - 1 .. Len(data)
          /\ n + 1 \in n .. Len(data)
        BY <1>0, <1>2
    <2>4. SubSeq(data, s + 1, n) \o SubSeq(data, n + 1, n + 1) = SubSeq(data, s + 1, n + 1)
        BY <2>3, ConcatAdjacentSubSeq
    <2>5. /\ n + 1 \in 1 .. Len(data) + 1 /\ n + 1 \in (n + 1) - 1 .. Len(data)
          /\ Len(data) \in n + 1 .. Len(data)
        BY <1>0, <1>2
    <2>6. SubSeq(data, n + 1, n + 1) \o SubSeq(data, (n + 1) + 1, Len(data))
            = SubSeq(data, n + 1, Len(data))
        BY <2>5, ConcatAdjacentSubSeq
    <2> QED
        BY <1>0, <2>1, <2>2, <2>4, <2>6
<1> QED
    BY <1>1, <1>2

\* How one byte of a quoted field is written.
Doubled(byte) == IF byte = DoubleQuote THEN <<DoubleQuote, DoubleQuote>> ELSE <<byte>>

DoubledBytes(data) == [n \in 0 .. Len(data) - 1 |-> Doubled(data[n + 1])]

IsDoubled(tails, data) == IsTails(tails, DoubledBytes(data), <<>>, 0, Len(data))

LEMMA DoubledTails ==
    ASSUME NEW data \in Seq(Byte), NEW tails, IsDoubled(tails, data)
    PROVE  /\ tails[Len(data)] = <<>>
           /\ \A n \in 0 .. Len(data) - 1 : tails[n] = Doubled(data[n + 1]) \o tails[n + 1]
           /\ \A n \in 0 .. Len(data) : tails[n] \in Seq(Byte)
           /\ \A n \in 0 .. Len(data) - 1 : Doubled(data[n + 1]) \in Seq(Byte)
<1>0. Len(data) \in Nat /\ 0 <= Len(data) /\ <<>> \in Seq(Byte)
    OBVIOUS
<1>1. DoubleQuote \in Byte
    BY RoundTripAssumption, PolicyAssumption
<1>2. \A n \in 0 .. Len(data) - 1 : Doubled(data[n + 1]) \in Seq(Byte)
    <2> TAKE n \in 0 .. Len(data) - 1
    <2>1. data[n + 1] \in Byte
        BY <1>0
    <2>2. \A b \in Byte : <<b>> \in Seq(Byte) /\ <<DoubleQuote, DoubleQuote>> \in Seq(Byte)
        BY <1>1
    <2> QED
        BY <2>1, <2>2 DEF Doubled
<1>3. \A n \in 0 .. Len(data) - 1 : DoubledBytes(data)[n] = Doubled(data[n + 1])
    BY Zenon DEF DoubledBytes
<1>4. \A n \in 0 .. Len(data) - 1 : DoubledBytes(data)[n] \in Seq(Byte)
    BY <1>2, <1>3
<1>5. /\ tails[Len(data)] = <<>>
      /\ \A n \in 0 .. Len(data) - 1 : tails[n] = DoubledBytes(data)[n] \o tails[n + 1]
      /\ \A n \in 0 .. Len(data) : tails[n] \in Seq(Byte)
    BY <1>0, <1>4, TailsAre DEF IsDoubled
<1> QED
    BY <1>2, <1>3, <1>5

EscapesSegments(from, data) ==
    from = [n \in 0 .. Len(data) |->
               [segment \in 0 .. n |->
                   IF n = Len(data) THEN SubSeq(data, segment + 1, n)
                   ELSE IF data[n + 1] # DoubleQuote THEN from[n + 1][segment]
                   ELSE SubSeq(data, segment + 1, n)
                           \o (<<DoubleQuote, DoubleQuote>> \o from[n + 1][n + 1])]]

\* The segment under way and what is ahead, from one byte to the next.
Segment(data, tails, n, s) ==
    IF n = Len(data) THEN SubSeq(data, s + 1, n)
    ELSE IF data[n + 1] # DoubleQuote THEN SubSeq(data, s + 1, n + 1) \o tails[n + 1]
    ELSE SubSeq(data, s + 1, n)
            \o (<<DoubleQuote, DoubleQuote>>
                   \o (SubSeq(data, (n + 1) + 1, n + 1) \o tails[n + 1]))

LEMMA SegmentStep ==
    ASSUME NEW data \in Seq(Byte), NEW tails, IsDoubled(tails, data),
           NEW n \in 0 .. Len(data), NEW s \in 0 .. n
    PROVE  SubSeq(data, s + 1, n) \o tails[n] = Segment(data, tails, n, s)
<1>0. /\ Len(data) \in Nat /\ n \in Nat /\ s \in Nat /\ s <= n /\ n <= Len(data)
      /\ n # Len(data) => n < Len(data) /\ n \in 0 .. Len(data) - 1
                          /\ n + 1 \in 0 .. Len(data) /\ n + 1 \in Nat /\ n + 1 <= Len(data)
    OBVIOUS
<1>1. /\ tails[Len(data)] = <<>>
      /\ n # Len(data) => /\ tails[n] = Doubled(data[n + 1]) \o tails[n + 1]
                          /\ tails[n + 1] \in Seq(Byte)
    BY <1>0, DoubledTails
<1>2. SubSeq(data, s + 1, n) \in Seq(Byte)
    BY <1>0, PiecesOfData
<1>3. CASE n = Len(data)
    BY <1>1, <1>2, <1>3, ConcatEmptySeq DEF Segment
<1>4. CASE n # Len(data) /\ data[n + 1] # DoubleQuote
    <2>1. /\ <<data[n + 1]>> \in Seq(Byte)
          /\ SubSeq(data, s + 1, n) \o <<data[n + 1]>> = SubSeq(data, s + 1, n + 1)
        BY <1>0, <1>4, PiecesOfData
    <2>2. \A t, u, v \in Seq(Byte) : t \o (u \o v) = (t \o u) \o v
        BY ConcatAssociative
    <2>3. tails[n] = <<data[n + 1]>> \o tails[n + 1]
        BY <1>1, <1>4 DEF Doubled
    <2>4. SubSeq(data, s + 1, n) \o (<<data[n + 1]>> \o tails[n + 1])
            = (SubSeq(data, s + 1, n) \o <<data[n + 1]>>) \o tails[n + 1]
        BY <1>1, <1>2, <1>4, <2>1, <2>2, Zenon
    <2> QED
        BY <1>4, <2>1, <2>3, <2>4, Zenon DEF Segment
<1>5. CASE n # Len(data) /\ data[n + 1] = DoubleQuote
    <2>1. SubSeq(data, (n + 1) + 1, n + 1) = <<>>
        BY <1>0, <1>5, PiecesOfData
    <2>2. SubSeq(data, (n + 1) + 1, n + 1) \o tails[n + 1] = tails[n + 1]
        BY <1>1, <1>5, <2>1, ConcatEmptySeq
    <2>3. tails[n] = <<DoubleQuote, DoubleQuote>> \o tails[n + 1]
        BY <1>1, <1>5 DEF Doubled
    <2> QED
        BY <1>5, <2>2, <2>3, Zenon DEF Segment
<1> QED
    BY <1>3, <1>4, <1>5

\* Segment by segment or byte by byte, the same text comes out.
LEMMA EscapedIsDoubled ==
    ASSUME NEW data \in Seq(Byte), NEW tails, IsDoubled(tails, data)
    PROVE  EscapedChars(data) = tails[0]
<1>0. /\ Len(data) \in Nat /\ 0 \in 0 .. Len(data) /\ Len(data) \in 0 .. Len(data)
      /\ \A n \in 0 .. Len(data) : n # Len(data) =>
            n + 1 \in 0 .. Len(data) /\ n + 1 \in 0 .. n + 1 /\ 0 .. n \subseteq 0 .. n + 1
    OBVIOUS
<1> DEFINE pending == [n \in 0 .. Len(data) |->
                          [s \in 0 .. n |-> SubSeq(data, s + 1, n) \o tails[n]]]
           from == CHOOSE f : EscapesSegments(f, data)
<1>1. EscapesSegments(pending, data)
    <2>1. ASSUME NEW n \in 0 .. Len(data), NEW s \in 0 .. n
          PROVE  SubSeq(data, s + 1, n) \o tails[n] =
                   IF n = Len(data) THEN SubSeq(data, s + 1, n)
                   ELSE IF data[n + 1] # DoubleQuote THEN pending[n + 1][s]
                   ELSE SubSeq(data, s + 1, n)
                           \o (<<DoubleQuote, DoubleQuote>> \o pending[n + 1][n + 1])
        <3>1. ASSUME n # Len(data)
              PROVE  /\ pending[n + 1][s] = SubSeq(data, s + 1, n + 1) \o tails[n + 1]
                     /\ pending[n + 1][n + 1] = SubSeq(data, (n + 1) + 1, n + 1) \o tails[n + 1]
            <4>1. n + 1 \in 0 .. Len(data) /\ s \in 0 .. n + 1 /\ n + 1 \in 0 .. n + 1
                BY <1>0, <3>1
            <4> QED
                BY <4>1, Zenon
        <3> HIDE DEF pending
        <3>2. SubSeq(data, s + 1, n) \o tails[n] = Segment(data, tails, n, s)
            BY SegmentStep
        <3> QED
            BY <3>1, <3>2, Zenon DEF Segment
    <2> HIDE DEF pending
    <2>2. ASSUME NEW n \in 0 .. Len(data)
          PROVE  [s \in 0 .. n |-> SubSeq(data, s + 1, n) \o tails[n]] =
                 [s \in 0 .. n |->
                    IF n = Len(data) THEN SubSeq(data, s + 1, n)
                    ELSE IF data[n + 1] # DoubleQuote THEN pending[n + 1][s]
                    ELSE SubSeq(data, s + 1, n)
                            \o (<<DoubleQuote, DoubleQuote>> \o pending[n + 1][n + 1])]
        BY <2>1, Zenon
    <2>3. pending = [n \in 0 .. Len(data) |->
                       [s \in 0 .. n |->
                          IF n = Len(data) THEN SubSeq(data, s + 1, n)
                          ELSE IF data[n + 1] # DoubleQuote THEN pending[n + 1][s]
                          ELSE SubSeq(data, s + 1, n)
                                 \o (<<DoubleQuote, DoubleQuote>> \o pending[n + 1][n + 1])]]
        BY <2>2, Zenon DEF pending
    <2> QED
        BY <2>3, Zenon DEF EscapesSegments
<1>2. EscapesSegments(from, data)
    BY <1>1, Zenon
<1>3. EscapedChars(data) = from[0][0]
    BY Zenon DEF EscapedChars, EscapesSegments
<1> HIDE DEF from
<1>4. \A n \in 0 .. Len(data) : \A s \in 0 .. n :
        from[n][s] = IF n = Len(data) THEN SubSeq(data, s + 1, n)
                     ELSE IF data[n + 1] # DoubleQuote THEN from[n + 1][s]
                     ELSE SubSeq(data, s + 1, n)
                             \o (<<DoubleQuote, DoubleQuote>> \o from[n + 1][n + 1])
    <2> TAKE n \in 0 .. Len(data)
    <2>1. from[n] = [s \in 0 .. n |->
                        IF n = Len(data) THEN SubSeq(data, s + 1, n)
                        ELSE IF data[n + 1] # DoubleQuote THEN from[n + 1][s]
                        ELSE SubSeq(data, s + 1, n)
                                \o (<<DoubleQuote, DoubleQuote>> \o from[n + 1][n + 1])]
        BY <1>2, Zenon DEF EscapesSegments
    <2> QED
        BY <2>1, Zenon
<1> DEFINE Good == {n \in 0 .. Len(data) :
                      \A s \in 0 .. n : from[n][s] = SubSeq(data, s + 1, n) \o tails[n]}
<1>5. Len(data) \in Good
    <2>1. ASSUME NEW s \in 0 .. Len(data)
          PROVE  from[Len(data)][s] = SubSeq(data, s + 1, Len(data)) \o tails[Len(data)]
        <3>1. from[Len(data)][s] = SubSeq(data, s + 1, Len(data))
            BY <1>0, <1>4, Zenon
        <3>2. SubSeq(data, s + 1, Len(data)) \o tails[Len(data)]
                = Segment(data, tails, Len(data), s)
            BY <1>0, SegmentStep
        <3> QED
            BY <3>1, <3>2, Zenon DEF Segment
    <2> QED
        BY <1>0, <2>1
<1>6. ASSUME NEW n \in 0 .. Len(data) - 1, \A m \in n + 1 .. Len(data) : m \in Good
      PROVE  n \in Good
    <2>1. n \in 0 .. Len(data) /\ n # Len(data) /\ n + 1 \in n + 1 .. Len(data)
        BY <1>0
    <2>2. \A s \in 0 .. n + 1 : from[n + 1][s] = SubSeq(data, s + 1, n + 1) \o tails[n + 1]
        BY <1>6, <2>1
    <2>3. ASSUME NEW s \in 0 .. n PROVE from[n][s] = SubSeq(data, s + 1, n) \o tails[n]
        <3>1. s \in 0 .. n + 1 /\ n + 1 \in 0 .. n + 1
            BY <1>0, <2>1
        <3>2. /\ from[n + 1][s] = SubSeq(data, s + 1, n + 1) \o tails[n + 1]
              /\ from[n + 1][n + 1] = SubSeq(data, (n + 1) + 1, n + 1) \o tails[n + 1]
            BY <2>2, <3>1
        <3>3. from[n][s] = IF data[n + 1] # DoubleQuote THEN from[n + 1][s]
                           ELSE SubSeq(data, s + 1, n)
                                  \o (<<DoubleQuote, DoubleQuote>> \o from[n + 1][n + 1])
            BY <1>4, <2>1, Zenon
        <3>4. SubSeq(data, s + 1, n) \o tails[n] = Segment(data, tails, n, s)
            BY <2>1, SegmentStep
        <3> HIDE DEF Good
        <3> QED
            BY <2>1, <3>2, <3>3, <3>4, Zenon DEF Segment
    <2> QED
        BY <2>1, <2>3
<1>7. \A n \in 0 .. Len(data) : n \in Good
    <2> HIDE DEF Good
    <2> QED
        BY <1>0, <1>5, <1>6, Downwards
<1>8. from[0][0] = SubSeq(data, 0 + 1, 0) \o tails[0]
    <2>1. 0 \in 0 .. 0
        OBVIOUS
    <2> QED
        BY <1>0, <1>7, <2>1
<1>9. SubSeq(data, 0 + 1, 0) = <<>> /\ tails[0] \in Seq(Byte)
    <2>1. 0 \in Nat /\ 0 <= 0 /\ 0 <= Len(data)
        BY <1>0
    <2>2. SubSeq(data, 0 + 1, 0) = <<>>
        BY <2>1, PiecesOfData
    <2> QED
        BY <1>0, <2>2, DoubledTails
<1> QED
    BY <1>3, <1>8, <1>9, ConcatEmptySeq
-----------------------------------------------------------------------------
(* Texts in the source, and what is read of them.                          *)

Holds(text, p) ==
    /\ p + Len(text) <= buffer_size
    /\ \A k \in 1 .. Len(text) : buffer[p + k - 1] = text[k]

\* Two texts, one after the other, are each where they are.
LEMMA HoldsParts ==
    ASSUME Typed, NEW s \in Seq(Byte), NEW t \in Seq(Byte), NEW p \in Nat, Holds(s \o t, p)
    PROVE  /\ Holds(s, p) /\ Holds(t, p + Len(s))
           /\ Len(s \o t) = Len(s) + Len(t)
<1>1. /\ Len(s \o t) = Len(s) + Len(t)
      /\ \A k \in 1 .. Len(s) + Len(t) : (s \o t)[k] = IF k <= Len(s) THEN s[k] ELSE t[k - Len(s)]
    BY ConcatProperties
<1>2. Len(s) \in Nat /\ Len(t) \in Nat /\ buffer_size \in Nat
    BY DEF Typed
<1>3. /\ p + (Len(s) + Len(t)) <= buffer_size
      /\ \A k \in 1 .. Len(s) + Len(t) :
            buffer[p + k - 1] = IF k <= Len(s) THEN s[k] ELSE t[k - Len(s)]
    BY <1>1 DEF Holds
<1>4. Holds(s, p)
    BY <1>2, <1>3 DEF Holds
<1>5. Holds(t, p + Len(s))
    <2>1. (p + Len(s)) + Len(t) <= buffer_size
        BY <1>2, <1>3
    <2>2. ASSUME NEW k \in 1 .. Len(t)
          PROVE  buffer[(p + Len(s)) + k - 1] = t[k]
        <3>1. /\ Len(s) + k \in 1 .. Len(s) + Len(t) /\ ~ (Len(s) + k <= Len(s))
              /\ (Len(s) + k) - Len(s) = k
              /\ (p + Len(s)) + k - 1 = p + (Len(s) + k) - 1
            BY <1>2
        <3> QED
            BY <1>3, <3>1
    <2> QED
        BY <2>1, <2>2 DEF Holds
<1> QED
    BY <1>1, <1>4, <1>5

LEMMA HeldIsSlice ==
    ASSUME Typed, NEW text \in Seq(Byte), NEW p \in Nat, Holds(text, p)
    PROVE  Slice(p, p + Len(text)) = text
<1> DEFINE held == Slice(p, p + Len(text))
<1>0. /\ p \in 0 .. buffer_size /\ p + Len(text) \in p .. buffer_size
      /\ (p + Len(text)) - p = Len(text) /\ Len(text) \in Nat
    BY DEF Holds, Typed
<1>1. /\ held \in Seq(Byte) /\ Len(held) = Len(text)
      /\ \A n \in 1 .. Len(text) : held[n] = buffer[p + n - 1]
    BY <1>0, SliceIsText
<1> HIDE DEF held
<1>2. \A n \in 1 .. Len(text) : held[n] = text[n]
    BY <1>1 DEF Holds
<1> QED
    BY <1>1, <1>2, SeqEqual DEF held

\* A stretch that folds to a text, with every byte of that text but quotes
\* outside of quotes counting from its start.
Reads(p, e, data) ==
    /\ Folded(p, e) = data
    /\ Balanced(buffer, p, e)
    /\ \A k \in p .. e - 1 : buffer[k] # QuoteCharacter => Balanced(buffer, p, k)

\* One byte, or one pair of quotes, before a stretch that reads so.
LEMMA ReadsFurther ==
    ASSUME Typed, NEW p \in Nat, NEW q \in Nat, NEW e \in Nat, p < q, q <= e,
           q = Further(p, e), NEW rest, Reads(q, e, rest),
           IsQuote(p) => Pair(p, e)
    PROVE  Reads(p, e, <<buffer[p]>> \o rest)
<1>1. Folded(p, e) = <<buffer[p]>> \o rest
    <2>1. p < e
        OBVIOUS
    <2> QED
        BY <2>1, FoldedStep DEF Reads
<1>2. Balanced(buffer, p, p)
    BY EmptyIsBalanced
<1>3. /\ Balanced(buffer, p, q)
      /\ \A k \in p .. q - 1 : buffer[k] # QuoteCharacter => Balanced(buffer, p, k)
    <2>1. CASE IsQuote(p)
        <3>1. /\ Pair(p, e) /\ q = p + 2 /\ p + 1 \in Int /\ p <= p + 1
              /\ buffer[p] = QuoteCharacter /\ buffer[p + 1] = QuoteCharacter
            BY <2>1 DEF Further, Pair, IsQuote
        <3>2. ~ Balanced(buffer, p, p + 1)
            BY <1>2, <3>1, ParityStep
        <3>3. Balanced(buffer, p, (p + 1) + 1)
            BY <3>1, <3>2, ParityStep
        <3>4. (p + 1) + 1 = q /\ \A k \in p .. q - 1 : k = p \/ k = p + 1
            BY <3>1
        <3> QED
            BY <3>1, <3>3, <3>4
    <2>2. CASE ~ IsQuote(p)
        <3>1. q = p + 1 /\ buffer[p] # QuoteCharacter
            BY <2>2 DEF Further, Pair, IsQuote
        <3>2. Balanced(buffer, p, p + 1)
            BY <1>2, <3>1, ParityStep
        <3>3. \A k \in p .. q - 1 : k = p
            BY <3>1
        <3> QED
            BY <1>2, <3>1, <3>2, <3>3
    <2> QED
        BY <2>1, <2>2
<1>4. ASSUME NEW k \in q .. e
      PROVE  Balanced(buffer, p, k) <=> Balanced(buffer, q, k)
    BY <1>3, ParityJoins
<1>5. Balanced(buffer, p, e)
    BY <1>4 DEF Reads
<1>6. ASSUME NEW k \in p .. e - 1, buffer[k] # QuoteCharacter
      PROVE  Balanced(buffer, p, k)
    <2>1. CASE k < q
        <3>1. k \in p .. q - 1
            BY <2>1
        <3> QED
            BY <1>3, <1>6, <3>1
    <2>2. CASE ~ (k < q)
        <3>1. k \in q .. e /\ k \in q .. e - 1
            BY <2>2
        <3> QED
            BY <1>4, <1>6, <3>1 DEF Reads
    <2> QED
        BY <2>1, <2>2
<1> QED
    BY <1>1, <1>5, <1>6 DEF Reads

\* Doubling is what folding undoes.
LEMMA DoubledReads ==
    ASSUME Typed, NEW data \in Seq(Byte), NEW tails, IsDoubled(tails, data),
           NEW p \in Nat, Holds(tails[0], p)
    PROVE  Reads(p, p + Len(tails[0]), data)
<1>0. Len(data) \in Nat /\ 0 \in 0 .. Len(data) /\ Len(data) \in 0 .. Len(data)
    OBVIOUS
<1>1. /\ tails[Len(data)] = <<>>
      /\ \A n \in 0 .. Len(data) - 1 : tails[n] = Doubled(data[n + 1]) \o tails[n + 1]
      /\ \A n \in 0 .. Len(data) : tails[n] \in Seq(Byte)
      /\ \A n \in 0 .. Len(data) - 1 : Doubled(data[n + 1]) \in Seq(Byte)
    BY DoubledTails
<1> DEFINE Good == {n \in 0 .. Len(data) : \A q \in Nat : Holds(tails[n], q) =>
                       Reads(q, q + Len(tails[n]), SubSeq(data, n + 1, Len(data)))}
<1>2. Len(data) \in Good
    <2>1. ASSUME NEW q \in Nat
          PROVE  Reads(q, q + Len(tails[Len(data)]), SubSeq(data, Len(data) + 1, Len(data)))
        <3>1. q + Len(tails[Len(data)]) = q
            BY <1>1
        <3>2. SubSeq(data, Len(data) + 1, Len(data)) = <<>>
            BY <1>0, PiecesOfData
        <3>3. Folded(q, q) = <<>> /\ Balanced(buffer, q, q) /\ \A k \in q .. q - 1 : FALSE
            BY FoldedEmpty, EmptyIsBalanced
        <3> QED
            BY <3>1, <3>2, <3>3 DEF Reads
    <2> QED
        BY <1>0, <2>1
<1>3. ASSUME NEW n \in 0 .. Len(data) - 1, \A m \in n + 1 .. Len(data) : m \in Good
      PROVE  n \in Good
    <2>0. /\ n \in 0 .. Len(data) /\ n \in Nat /\ n < Len(data)
          /\ n + 1 \in n + 1 .. Len(data) /\ n + 1 \in 0 .. Len(data)
          /\ (n + 1) + 1 = n + 2
        BY <1>0
    <2>1. /\ tails[n] = Doubled(data[n + 1]) \o tails[n + 1]
          /\ tails[n + 1] \in Seq(Byte) /\ Doubled(data[n + 1]) \in Seq(Byte)
        BY <1>1, <2>0
    <2>2. ASSUME NEW q \in Nat, Holds(tails[n], q)
          PROVE  Reads(q, q + Len(tails[n]), SubSeq(data, n + 1, Len(data)))
        <3> DEFINE piece == Doubled(data[n + 1])
                   next == q + Len(piece)
                   e == q + Len(tails[n])
        <3>1. /\ Holds(piece, q) /\ Holds(tails[n + 1], next)
              /\ Len(tails[n]) = Len(piece) + Len(tails[n + 1])
            BY <2>1, <2>2, HoldsParts
        <3>2. Len(piece) \in Nat /\ Len(tails[n + 1]) \in Nat
            BY <2>1
        <3>3. next \in Nat /\ next + Len(tails[n + 1]) = e /\ e \in Nat /\ next <= e
            <4> DEFINE a == Len(piece)
                       b == Len(tails[n + 1])
            <4>1. Len(tails[n]) = a + b /\ a \in Nat /\ b \in Nat /\ q \in Nat
                BY <2>2, <3>1, <3>2
            <4> HIDE DEF a, b
            <4>2. q + a \in Nat /\ (q + a) + b = q + (a + b) /\ q + (a + b) \in Nat
                  /\ q + a <= q + (a + b)
                BY <4>1
            <4> QED
                BY <4>1, <4>2 DEF a, b
        <3>4. Reads(next, e, SubSeq(data, n + 2, Len(data)))
            <4>1. n + 1 \in Good
                BY <1>3, <2>0
            <4> HIDE DEF next, e
            <4> QED
                BY <2>0, <3>1, <3>3, <4>1
        <3>5. <<data[n + 1]>> \o SubSeq(data, n + 2, Len(data)) = SubSeq(data, n + 1, Len(data))
            BY <2>0, PiecesOfData
        <3>6. CASE data[n + 1] = DoubleQuote
            <4>1. piece = <<DoubleQuote, DoubleQuote>> /\ Len(piece) = 2
                BY <3>6 DEF Doubled
            <4>2. /\ buffer[q + 1 - 1] = QuoteCharacter
                  /\ buffer[q + 2 - 1] = QuoteCharacter
                BY <3>1, <4>1, RoundTripAssumption DEF Holds
            <4>3. q + 1 - 1 = q /\ q + 2 - 1 = q + 1 /\ q + 1 < e /\ next = q + 2
                BY <3>3, <4>1
            <4>4. Pair(q, e) /\ next = Further(q, e) /\ buffer[q] = data[n + 1]
                BY <3>6, <4>2, <4>3, RoundTripAssumption DEF Pair, Further, IsQuote
            <4> HIDE DEF next, e
            <4>5. Reads(q, e, <<buffer[q]>> \o SubSeq(data, n + 2, Len(data)))
                BY <3>3, <3>4, <4>3, <4>4, ReadsFurther
            <4> QED
                BY <3>5, <4>4, <4>5 DEF e
        <3>7. CASE data[n + 1] # DoubleQuote
            <4>1. piece = <<data[n + 1]>> /\ Len(piece) = 1
                BY <3>7 DEF Doubled
            <4>2. buffer[q + 1 - 1] = data[n + 1]
                BY <3>1, <4>1 DEF Holds
            <4>3. q + 1 - 1 = q /\ next = q + 1
                BY <4>1
            <4>4. ~ IsQuote(q) /\ next = Further(q, e) /\ buffer[q] = data[n + 1]
                BY <3>7, <4>2, <4>3, RoundTripAssumption DEF Pair, Further, IsQuote
            <4> HIDE DEF next, e
            <4>5. Reads(q, e, <<buffer[q]>> \o SubSeq(data, n + 2, Len(data)))
                BY <3>3, <3>4, <4>3, <4>4, ReadsFurther
            <4> QED
                BY <3>5, <4>4, <4>5 DEF e
        <3> QED
            BY <3>6, <3>7
    <2> QED
        BY <2>0, <2>2
<1>4. \A n \in 0 .. Len(data) : n \in Good
    <2> HIDE DEF Good
    <2> QED
        BY <1>0, <1>2, <1>3, Downwards
<1>5. Reads(p, p + Len(tails[0]), SubSeq(data, 0 + 1, Len(data)))
    BY <1>0, <1>4
<1>6. SubSeq(data, 0 + 1, Len(data)) = data
    OBVIOUS
<1> QED
    BY <1>5, <1>6
-----------------------------------------------------------------------------
(* A field in the source is read back.                                     *)

LEMMA TrimsNothing ==
    ASSUME NEW p \in Nat, NEW e \in Nat, p <= e
    PROVE  Trim({}, p, e) = [first |-> p, last |-> e]
<1> DEFINE kept == {k \in p .. e - 1 : buffer[k] \notin {}}
<1>1. kept = p .. e - 1
    OBVIOUS
<1>2. CASE p = e
    <2>1. kept = {}
        BY <1>1, <1>2
    <2> QED
        BY <1>2, <2>1 DEF Trim
<1>3. CASE p < e
    <2>1. kept # {} /\ p \in kept /\ e - 1 \in kept
        BY <1>1, <1>3
    <2>2. Trim({}, p, e) = [first |-> Min(kept), last |-> Max(kept) + 1]
        BY <2>1, Zenon DEF Trim
    <2> HIDE DEF kept
    <2>3. Min(kept) = p /\ Max(kept) = e - 1
        <3>1. \A k \in kept : p <= k /\ e - 1 >= k
            BY <1>1
        <3>2. Min(kept) \in kept /\ \A k \in kept : Min(kept) <= k
            BY <2>1, <3>1 DEF Min
        <3>3. Max(kept) \in kept /\ \A k \in kept : Max(kept) >= k
            BY <2>1, <3>1 DEF Max
        <3> QED
            BY <1>1, <2>1, <3>2, <3>3
    <2> QED
        BY <2>2, <2>3
<1> QED
    BY <1>2, <1>3

\* A field that is written is a text.
LEMMA WordIsText ==
    ASSUME NEW data \in Seq(Byte), NEW policy
    PROVE  WriteEscapedChars(data, policy) \in Seq(Byte)
<1>0. Len(data) \in Nat /\ 0 <= Len(data) /\ 0 \in 0 .. Len(data)
    OBVIOUS
<1>1. PICK tails : IsDoubled(tails, data)
    BY <1>0, TailsExist DEF IsDoubled
<1>2. EscapedChars(data) \in Seq(Byte)
    BY <1>0, <1>1, EscapedIsDoubled, DoubledTails
<1>3. <<DoubleQuote>> \in Seq(Byte)
    BY RoundTripAssumption, PolicyAssumption
<1>4. \A s, t \in Seq(Byte) : s \o t \in Seq(Byte)
    BY ConcatProperties
<1> QED
    BY <1>2, <1>3, <1>4 DEF WriteEscapedChars

\* A stretch with quotes in pairs, and its separators between two of them.
Word(p, e, separators) ==
    /\ Balanced(buffer, p, e)
    /\ \A k \in p .. e - 1 : buffer[k] \in separators => ~ Balanced(buffer, p, k)

CopiesTo(p, e, data) ==
    \A is_escaped : CopyContentTo([start |-> p, content_end |-> e, escaped |-> is_escaped], {}) = data

\* Quotes around a text, in the source.
LEMMA QuotedHolds ==
    ASSUME Typed, NEW inner \in Seq(Byte), NEW p \in Nat,
           Holds(<<DoubleQuote>> \o inner \o <<DoubleQuote>>, p)
    PROVE  /\ Holds(inner, p + 1)
           /\ buffer[p] = QuoteCharacter /\ buffer[(p + 1) + Len(inner)] = QuoteCharacter
           /\ Len(<<DoubleQuote>> \o inner \o <<DoubleQuote>>) = Len(inner) + 2
<1> DEFINE one == <<DoubleQuote>>
<1>1. one \in Seq(Byte) /\ Len(one) = 1 /\ one[1] = QuoteCharacter
    BY RoundTripAssumption, PolicyAssumption
<1>2. Holds((one \o inner) \o one, p)
    OBVIOUS
<1> HIDE DEF one
<1>3. one \o inner \in Seq(Byte)
    BY <1>1, ConcatProperties
<1>4. /\ Holds(one \o inner, p) /\ Holds(one, p + Len(one \o inner))
      /\ Len((one \o inner) \o one) = Len(one \o inner) + Len(one)
    BY <1>1, <1>2, <1>3, HoldsParts
<1>5. /\ Holds(one, p) /\ Holds(inner, p + Len(one))
      /\ Len(one \o inner) = Len(one) + Len(inner)
    BY <1>1, <1>4, HoldsParts
<1>6. /\ buffer[p + 1 - 1] = QuoteCharacter
      /\ buffer[(p + Len(one \o inner)) + 1 - 1] = QuoteCharacter
    BY <1>1, <1>4, <1>5 DEF Holds
<1>7. Len(inner) \in Nat
    OBVIOUS
<1>8. /\ p + 1 - 1 = p /\ (p + Len(one \o inner)) + 1 - 1 = (p + 1) + Len(inner)
      /\ Len((one \o inner) \o one) = Len(inner) + 2
    BY <1>1, <1>4, <1>5, <1>7
<1> QED
    BY <1>1, <1>5, <1>6, <1>8 DEF one

\* Between its quotes a field is read.
LEMMA QuotedReads ==
    ASSUME Typed, NEW data, NEW p \in Nat, NEW z \in Nat, p < z, z < buffer_size,
           Reads(p + 1, z, data),
           buffer[p] = QuoteCharacter, buffer[z] = QuoteCharacter
    PROVE  Word(p, z + 1, {LF, Delimiter}) /\ CopiesTo(p, z + 1, data)
<1> DEFINE q == p + 1
           e == z + 1
<1>1. /\ q \in Nat /\ e \in Nat /\ q <= z /\ e - 1 = z /\ p <= e /\ e - p >= 2
      /\ buffer_size \in Nat /\ q \in 0 .. buffer_size /\ z \in q .. buffer_size
    BY DEF Typed
<1>2. ~ Balanced(buffer, p, q)
    <2>1. Balanced(buffer, p, p)
        BY EmptyIsBalanced
    <2> QED
        BY <2>1, ParityStep
<1>3. \A k \in q .. z : Balanced(buffer, p, k) <=> ~ Balanced(buffer, q, k)
    BY <1>1, <1>2, ParityJoins
<1>4. Word(p, e, {LF, Delimiter})
    <2>1. ~ Balanced(buffer, p, z)
        BY <1>1, <1>3 DEF Reads
    <2>2. Balanced(buffer, p, e)
        BY <1>1, <2>1, ParityStep
    <2>3. ASSUME NEW k \in p .. e - 1, buffer[k] \in {LF, Delimiter}
          PROVE  ~ Balanced(buffer, p, k)
        <3>1. buffer[k] # QuoteCharacter
            BY <2>3, RoundTripAssumption
        <3>2. k # p /\ k # z
            BY <3>1
        <3>3. k \in q .. z - 1 /\ k \in q .. z
            BY <1>1, <3>2
        <3> QED
            BY <1>3, <3>1, <3>3 DEF Reads
    <2> QED
        BY <2>2, <2>3 DEF Word
<1>5. CopiesTo(p, e, data)
    <2>1. SUFFICES ASSUME NEW is_escaped
          PROVE  CopyContentTo([start |-> p, content_end |-> e, escaped |-> is_escaped], {}) = data
        BY DEF CopiesTo
    <2> DEFINE cell == [start |-> p, content_end |-> e, escaped |-> is_escaped]
    <2>2. Trim({}, p, e) = [first |-> p, last |-> e]
        BY <1>1, TrimsNothing
    <2>3. ContentBounds(cell, {}) = [first |-> q, last |-> z]
        <3>1. IsQuote(p) /\ IsQuote(e - 1)
            BY <1>1 DEF IsQuote
        <3> QED
            BY <1>1, <2>2, <3>1 DEF ContentBounds
    <2>4. DecodeBytes(q, z) = Folded(q, z)
        BY <1>1, DecodeBytesFolds
    <2> QED
        BY <2>3, <2>4 DEF CopyContentTo, Reads
<1> QED
    BY <1>4, <1>5

\* A field without special bytes is read as it stands.
LEMMA UnquotedReads ==
    ASSUME Typed, NEW data \in Seq(Byte), NEW p \in Nat, NEW e \in Nat,
           Holds(data, p), e = p + Len(data),
           \A n \in DOMAIN data : data[n] \notin {Delimiter, DoubleQuote, CR, LF}
    PROVE  /\ Word(p, e, {LF, Delimiter}) /\ CopiesTo(p, e, data)
           /\ p < e => buffer[e - 1] # CR
<1>0. /\ Len(data) \in Nat /\ p <= e /\ e <= buffer_size /\ buffer_size \in Nat
      /\ p \in 0 .. buffer_size /\ e \in p .. buffer_size
    BY DEF Holds, Typed
<1>1. \A k \in p .. e - 1 : buffer[k] \notin {Delimiter, QuoteCharacter, CR, LF}
    <2> TAKE k \in p .. e - 1
    <2>1. /\ k - p + 1 \in 1 .. Len(data) /\ p + (k - p + 1) - 1 = k
          /\ k - p + 1 \in DOMAIN data
        BY <1>0
    <2>2. buffer[k] = data[k - p + 1]
        BY <2>1 DEF Holds
    <2> QED
        BY <2>1, <2>2, RoundTripAssumption
<1>2. Word(p, e, {LF, Delimiter})
    <2>1. Balanced(buffer, p, e)
        BY <1>1, EmptyIsBalanced
    <2> QED
        BY <1>1, <2>1 DEF Word
<1>3. CopiesTo(p, e, data)
    <2>1. Trim({}, p, e) = [first |-> p, last |-> e]
        BY <1>0, TrimsNothing
    <2>2. SUFFICES ASSUME NEW is_escaped
          PROVE  CopyContentTo([start |-> p, content_end |-> e, escaped |-> is_escaped], {}) = data
        BY DEF CopiesTo
    <2> DEFINE cell == [start |-> p, content_end |-> e, escaped |-> is_escaped]
    <2>3. ContentBounds(cell, {}) = [first |-> p, last |-> e]
        <3>1. ~ (e - p >= 2 /\ IsQuote(p))
            BY <1>0, <1>1 DEF IsQuote
        <3> QED
            BY <2>1, <3>1 DEF ContentBounds
    <2>4. DecodeBytes(p, e) = Folded(p, e)
        BY <1>0, DecodeBytesFolds
    <2>5. ~ HasAdjacentQuotes(buffer, p, e)
        BY <1>1, QuoteFreeIsUnescaped
    <2>6. Folded(p, e) = data
        BY <1>0, <2>5, FoldedUnpaired, HeldIsSlice
    <2> QED
        BY <2>3, <2>4, <2>6 DEF CopyContentTo
<1> QED
    <2>1. p < e => e - 1 \in p .. e - 1
        BY <1>0
    <2> QED
        BY <1>1, <1>2, <1>3, <2>1

\* So a field that was written is read, quoted or not.
LEMMA FieldReads ==
    ASSUME Typed, NEW data \in Seq(Byte), NEW policy \in QuotePolicies,
           NEW p \in Nat, NEW e \in Nat,
           Holds(WriteEscapedChars(data, policy), p),
           e = p + Len(WriteEscapedChars(data, policy))
    PROVE  /\ Word(p, e, {LF, Delimiter}) /\ CopiesTo(p, e, data)
           /\ p <= e /\ e <= buffer_size
           /\ p < e => buffer[e - 1] # CR
           /\ p = e => data = <<>> /\ policy = "minimal"
<1>0. p <= e /\ e <= buffer_size
    <2>1. Len(WriteEscapedChars(data, policy)) \in Nat
        BY WordIsText
    <2> QED
        BY <2>1 DEF Holds
<1>1. CASE ShouldQuote(data, policy)
    <2> DEFINE inner == EscapedChars(data)
    <2>1. WriteEscapedChars(data, policy) = <<DoubleQuote>> \o inner \o <<DoubleQuote>>
        BY <1>1, Zenon DEF WriteEscapedChars
    <2>2. PICK tails : IsDoubled(tails, data)
        <3>1. 0 \in Nat /\ Len(data) \in Nat /\ 0 <= Len(data)
            OBVIOUS
        <3> QED
            BY <3>1, TailsExist DEF IsDoubled
    <2>3. inner = tails[0] /\ inner \in Seq(Byte)
        <3>1. 0 \in 0 .. Len(data)
            OBVIOUS
        <3> QED
            BY <2>2, <3>1, EscapedIsDoubled, DoubledTails
    <2> HIDE DEF inner
    <2>4. /\ Holds(inner, p + 1)
          /\ buffer[p] = QuoteCharacter /\ buffer[(p + 1) + Len(inner)] = QuoteCharacter
          /\ Len(WriteEscapedChars(data, policy)) = Len(inner) + 2
        BY <2>1, <2>3, QuotedHolds
    <2> DEFINE z == (p + 1) + Len(inner)
    <2>5. z \in Nat /\ p < z /\ z < buffer_size /\ e = z + 1 /\ p + 1 \in Nat
        <3>1. Len(inner) \in Nat /\ buffer_size \in Nat
            BY <2>3 DEF Typed
        <3> QED
            BY <1>0, <2>4, <3>1
    <2>6. Reads(p + 1, z, data)
        BY <2>2, <2>3, <2>4, <2>5, DoubledReads
    <2> HIDE DEF z
    <2>7. Word(p, e, {LF, Delimiter}) /\ CopiesTo(p, e, data)
        BY <2>4, <2>5, <2>6, QuotedReads DEF z
    <2>8. p < e /\ buffer[e - 1] # CR
        <3>1. e - 1 = z /\ p < e
            BY <2>5
        <3>2. buffer[z] = QuoteCharacter
            BY <2>4 DEF z
        <3> QED
            BY <3>1, <3>2, RoundTripAssumption
    <2> QED
        BY <1>0, <2>7, <2>8
<1>2. CASE ~ ShouldQuote(data, policy)
    <2>1. /\ WriteEscapedChars(data, policy) = data /\ policy = "minimal"
          /\ \A n \in DOMAIN data : data[n] \notin {Delimiter, DoubleQuote, CR, LF}
        BY <1>2 DEF WriteEscapedChars, ShouldQuote, QuotePolicies
    <2>2. p = e => data = <<>>
        BY <2>1
    <2>3. /\ Word(p, e, {LF, Delimiter}) /\ CopiesTo(p, e, data)
          /\ p < e => buffer[e - 1] # CR
        BY <2>1, UnquotedReads
    <2> QED
        BY <1>0, <2>1, <2>2, <2>3
<1> QED
    BY <1>1, <1>2

-----------------------------------------------------------------------------
(* A row in the source.                                                    *)

Separator(n) == IF n = 1 THEN <<>> ELSE <<Delimiter>>

Piece(n, word) == Separator(n) \o word

\* A separator, a field and what follows.
Begins(n, word, rest, all) == all = Piece(n, word) \o rest

Separated(fields, policy) ==
    [n \in 1 .. Len(fields) |-> Piece(n, WriteEscapedChars(fields[n], policy))]

IsRow(tails, fields, policy) ==
    IsTails(tails, Separated(fields, policy), <<LF>>, 1, Len(fields) + 1)

\* write_row puts a row together from such pieces.
LEMMA RowHasTails ==
    ASSUME NEW fields \in Seq(Seq(Byte)), NEW policy
    PROVE  \E tails : IsRow(tails, fields, policy) /\ WriteRow(fields, policy) = tails[1]
<1> DEFINE last == Len(fields) + 1
           WritesRow(from) ==
              from = [n \in 1 .. last |->
                        IF n > Len(fields) THEN <<LF>>
                        ELSE (IF n = 1 THEN <<>> ELSE <<Delimiter>>)
                                \o WriteEscapedChars(fields[n], policy) \o from[n + 1]]
<1>0. last \in Nat /\ 1 \in Nat /\ 1 <= last /\ Len(fields) \in Nat
    OBVIOUS
<1>1. ASSUME NEW from PROVE WritesRow(from) <=> IsRow(from, fields, policy)
    <2>1. ASSUME NEW n \in 1 .. last
          PROVE  /\ n > Len(fields) <=> n = last
                 /\ n # last => Separated(fields, policy)[n]
                      = (IF n = 1 THEN <<>> ELSE <<Delimiter>>)
                           \o WriteEscapedChars(fields[n], policy)
        <3>1. n > Len(fields) <=> n = last
            BY <1>0
        <3>2. n # last => n \in 1 .. Len(fields)
            BY <1>0
        <3> QED
            BY <3>1, <3>2, Zenon DEF Separated, Piece, Separator
    <2> HIDE DEF last
    <2>2. [n \in 1 .. last |->
              IF n > Len(fields) THEN <<LF>>
              ELSE (IF n = 1 THEN <<>> ELSE <<Delimiter>>)
                      \o WriteEscapedChars(fields[n], policy) \o from[n + 1]]
            = [n \in 1 .. last |->
                  IF n = last THEN <<LF>> ELSE Separated(fields, policy)[n] \o from[n + 1]]
        BY <2>1, Zenon
    <2> QED
        BY <2>2, Zenon DEF IsRow, IsTails, last
<1>2. \E from : WritesRow(from)
    <2>1. \E tails : IsRow(tails, fields, policy)
        BY <1>0, TailsExist DEF IsRow
    <2> HIDE DEF WritesRow
    <2> QED
        BY <1>1, <2>1
<1> DEFINE from == CHOOSE f : WritesRow(f)
<1>3. WriteRow(fields, policy) = from[1]
    BY Zenon DEF WriteRow
<1> HIDE DEF WritesRow
<1>4. WritesRow(from)
    BY <1>2
<1> QED
    BY <1>1, <1>3, <1>4

LEMMA RowTails ==
    ASSUME NEW fields \in Seq(Seq(Byte)), NEW policy, NEW tails, IsRow(tails, fields, policy)
    PROVE  /\ Len(fields) \in Nat
           /\ tails[Len(fields) + 1] = <<LF>>
           /\ \A n \in 1 .. Len(fields) :
                /\ fields[n] \in Seq(Byte)
                /\ WriteEscapedChars(fields[n], policy) \in Seq(Byte)
                /\ Begins(n, WriteEscapedChars(fields[n], policy), tails[n + 1], tails[n])
           /\ \A n \in 1 .. Len(fields) + 1 : tails[n] \in Seq(Byte) /\ Len(tails[n]) \in Nat
<1> DEFINE last == Len(fields) + 1
<1>0. /\ last \in Nat /\ 1 \in Nat /\ 1 <= last /\ Len(fields) \in Nat /\ last - 1 = Len(fields)
      /\ \A n \in 1 .. Len(fields) : fields[n] \in Seq(Byte)
    OBVIOUS
<1>1. <<LF>> \in Seq(Byte) /\ <<Delimiter>> \in Seq(Byte) /\ <<>> \in Seq(Byte)
    BY PolicyAssumption
<1>2. \A n : Separator(n) \in Seq(Byte)
    BY <1>1 DEF Separator
<1>3. \A s, t \in Seq(Byte) : s \o t \in Seq(Byte)
    BY ConcatProperties
<1>4. \A n \in 1 .. Len(fields) :
        /\ WriteEscapedChars(fields[n], policy) \in Seq(Byte)
        /\ Separated(fields, policy)[n] = Piece(n, WriteEscapedChars(fields[n], policy))
        /\ Separated(fields, policy)[n] \in Seq(Byte)
    <2> TAKE n \in 1 .. Len(fields)
    <2>1. WriteEscapedChars(fields[n], policy) \in Seq(Byte)
        BY <1>0, WordIsText
    <2>2. Separated(fields, policy)[n] = Piece(n, WriteEscapedChars(fields[n], policy))
        BY Zenon DEF Separated
    <2> QED
        BY <1>2, <1>3, <2>1, <2>2 DEF Piece
<1>5. /\ tails[last] = <<LF>>
      /\ \A n \in 1 .. last - 1 : tails[n] = Separated(fields, policy)[n] \o tails[n + 1]
      /\ \A n \in 1 .. last : tails[n] \in Seq(Byte)
    <2>1. \A n \in 1 .. last - 1 : Separated(fields, policy)[n] \in Seq(Byte)
        BY <1>0, <1>4
    <2>2. IsTails(tails, Separated(fields, policy), <<LF>>, 1, last)
        BY DEF IsRow
    <2> HIDE DEF last
    <2> QED
        BY <1>0, <1>1, <2>1, <2>2, TailsAre
<1>6. \A n \in 1 .. Len(fields) + 1 : tails[n] \in Seq(Byte) /\ Len(tails[n]) \in Nat
    BY <1>5
<1>7. \A n \in 1 .. Len(fields) :
        Begins(n, WriteEscapedChars(fields[n], policy), tails[n + 1], tails[n])
    BY <1>0, <1>4, <1>5 DEF Begins
<1> QED
    BY <1>0, <1>4, <1>5, <1>6, <1>7

\* Where the field starts that is written after a separator at p.
Start(n, p) == IF n = 1 THEN p ELSE p + 1

\* A separator, a field and what follows, in the source.
LEMMA PieceHolds ==
    ASSUME Typed, NEW word \in Seq(Byte), NEW rest \in Seq(Byte), NEW n \in Nat,
           NEW all, Begins(n, word, rest, all),
           NEW p \in Nat, Holds(all, p)
    PROVE  /\ Start(n, p) \in Nat /\ p <= Start(n, p)
           /\ Holds(word, Start(n, p)) /\ Holds(rest, Start(n, p) + Len(word))
           /\ p + Len(all) = (Start(n, p) + Len(word)) + Len(rest)
           /\ n # 1 => buffer[p] = Delimiter
<1> DEFINE sep == Separator(n)
           s == Start(n, p)
<1>1. /\ sep \in Seq(Byte) /\ Len(sep) = (IF n = 1 THEN 0 ELSE 1)
      /\ n # 1 => sep[1] = Delimiter
    BY PolicyAssumption DEF Separator
<1>2. all = (sep \o word) \o rest
    BY DEF Piece, Begins
<1>3. Len(word) \in Nat /\ Len(rest) \in Nat
    OBVIOUS
<1> HIDE DEF sep
<1>4. Holds((sep \o word) \o rest, p)
    BY <1>2
<1>5. sep \o word \in Seq(Byte)
    BY <1>1, ConcatProperties
<1>6. /\ Holds(sep \o word, p) /\ Holds(rest, p + Len(sep \o word))
      /\ Len((sep \o word) \o rest) = Len(sep \o word) + Len(rest)
    BY <1>4, <1>5, HoldsParts
<1>7. /\ Holds(sep, p) /\ Holds(word, p + Len(sep))
      /\ Len(sep \o word) = Len(sep) + Len(word)
    BY <1>1, <1>6, HoldsParts
<1>8. n # 1 => buffer[p + 1 - 1] = Delimiter
    BY <1>1, <1>7 DEF Holds
<1>9. p + 1 - 1 = p /\ p + Len(sep) = s /\ s \in Nat /\ p <= s
    BY <1>1 DEF Start
<1> HIDE DEF s
<1>10. /\ p + Len(sep \o word) = s + Len(word)
       /\ p + Len((sep \o word) \o rest) = (s + Len(word)) + Len(rest)
    <2> DEFINE a == Len(sep)
               b == Len(word)
               c == Len(rest)
               d == Len(sep \o word)
               f == Len((sep \o word) \o rest)
    <2>1. /\ a \in Nat /\ b \in Nat /\ c \in Nat
          /\ f = d + c /\ d = a + b /\ p + a = s
        BY <1>1, <1>3, <1>6, <1>7, <1>9
    <2> HIDE DEF a, b, c, d, f
    <2>2. p + d = s + b /\ p + f = (s + b) + c
        BY <2>1
    <2> QED
        BY <2>2 DEF b, c, d, f
<1> QED
    BY <1>2, <1>6, <1>7, <1>8, <1>9, <1>10 DEF s

\* Where a separator goes, where the field after it starts.
At(tails, n) == Len(tails[1]) - Len(tails[n])

FieldAt(tails, n) == Start(n, At(tails, n))

\* One piece after the other.
LEMMA RowPiece ==
    ASSUME NEW fields \in Seq(Seq(Byte)), NEW policy,
           NEW tails, IsRow(tails, fields, policy),
           NEW n \in 1 .. Len(fields)
    PROVE  /\ WriteEscapedChars(fields[n], policy) \in Seq(Byte)
           /\ tails[n + 1] \in Seq(Byte)
           /\ Begins(n, WriteEscapedChars(fields[n], policy), tails[n + 1], tails[n])
           /\ Len(tails[1]) \in Nat /\ Len(tails[n]) \in Nat /\ Len(tails[n + 1]) \in Nat
<1>1. /\ Len(fields) \in Nat /\ n + 1 \in 1 .. Len(fields) + 1
      /\ n \in 1 .. Len(fields) + 1 /\ 1 \in 1 .. Len(fields) + 1
    OBVIOUS
<1>2. Begins(n, WriteEscapedChars(fields[n], policy), tails[n + 1], tails[n])
    BY RowTails
<1>3. WriteEscapedChars(fields[n], policy) \in Seq(Byte)
    BY RowTails
<1>4. \A m \in 1 .. Len(fields) + 1 : tails[m] \in Seq(Byte) /\ Len(tails[m]) \in Nat
    BY RowTails
<1> QED
    BY <1>1, <1>2, <1>3, <1>4

LEMMA RowStep ==
    ASSUME Typed, NEW fields \in Seq(Seq(Byte)), NEW policy,
           NEW tails, IsRow(tails, fields, policy),
           NEW n \in 1 .. Len(fields),
           At(tails, n) \in Nat, Holds(tails[n], At(tails, n))
    PROVE  /\ At(tails, n + 1) \in Nat /\ Holds(tails[n + 1], At(tails, n + 1))
           /\ FieldAt(tails, n) \in Nat /\ FieldAt(tails, n) <= At(tails, n + 1)
           /\ At(tails, n) <= FieldAt(tails, n)
           /\ At(tails, n + 1) = FieldAt(tails, n) + Len(WriteEscapedChars(fields[n], policy))
           /\ Holds(WriteEscapedChars(fields[n], policy), FieldAt(tails, n))
           /\ n # 1 => buffer[At(tails, n)] = Delimiter
<1> DEFINE word == WriteEscapedChars(fields[n], policy)
           p == At(tails, n)
           s == Start(n, p)
<1>1. /\ word \in Seq(Byte) /\ tails[n + 1] \in Seq(Byte)
      /\ Begins(n, word, tails[n + 1], tails[n])
      /\ Len(tails[1]) \in Nat /\ Len(tails[n]) \in Nat /\ Len(tails[n + 1]) \in Nat
    BY RowPiece
<1>2. n \in Nat
    OBVIOUS
<1>3. /\ s \in Nat /\ p <= s /\ Holds(word, s) /\ Holds(tails[n + 1], s + Len(word))
      /\ p + Len(tails[n]) = (s + Len(word)) + Len(tails[n + 1])
      /\ n # 1 => buffer[p] = Delimiter
    <2> HIDE DEF word
    <2> QED
        BY <1>1, <1>2, PieceHolds
<1>4. At(tails, n + 1) = s + Len(word) /\ s + Len(word) \in Nat /\ s <= s + Len(word)
    <2>1. p = Len(tails[1]) - Len(tails[n]) /\ At(tails, n + 1) = Len(tails[1]) - Len(tails[n + 1])
        BY DEF At
    <2> DEFINE a == Len(tails[1])
               b == Len(tails[n])
               c == Len(tails[n + 1])
               d == Len(word)
    <2>2. /\ a \in Nat /\ b \in Nat /\ c \in Nat /\ d \in Nat /\ s \in Nat
          /\ p + b = (s + d) + c /\ p = a - b
        <3>1. d \in Nat
            BY <1>1
        <3> HIDE DEF word, p, s
        <3> QED
            BY <1>1, <1>3, <2>1, <3>1, Zenon
    <2> HIDE DEF word, p, s, a, b, c, d
    <2>3. a - c = s + d /\ s + d \in Nat /\ s <= s + d
        BY <2>2
    <2> QED
        BY <2>1, <2>3 DEF a, c, d
<1> QED
    BY <1>3, <1>4 DEF FieldAt

\* A row as it lies in the source, from its first byte on.
RowHeld(tails, fields, policy) ==
    /\ At(tails, 1) = 0
    /\ Len(tails[1]) = At(tails, Len(fields) + 1) + 1
    /\ At(tails, Len(fields) + 1) < buffer_size
    /\ buffer[At(tails, Len(fields) + 1)] = LF
    /\ \A n \in 1 .. Len(fields) + 1 : At(tails, n) \in 0 .. At(tails, Len(fields) + 1)
    /\ \A n \in 1 .. Len(fields) :
          /\ FieldAt(tails, n) \in At(tails, n) .. At(tails, n + 1)
          /\ At(tails, n + 1) = FieldAt(tails, n) + Len(WriteEscapedChars(fields[n], policy))
          /\ Holds(WriteEscapedChars(fields[n], policy), FieldAt(tails, n))
          /\ n # 1 => buffer[At(tails, n)] = Delimiter

LEMMA RowLayout ==
    ASSUME Typed, NEW fields \in Seq(Seq(Byte)), NEW policy,
           NEW tails, IsRow(tails, fields, policy), Holds(tails[1], 0)
    PROVE  RowHeld(tails, fields, policy)
<1> DEFINE N == Len(fields)
           Good == {n \in 1 .. N + 1 : At(tails, n) \in Nat /\ Holds(tails[n], At(tails, n))}
<1>0. N \in Nat /\ N + 1 \in Nat /\ 1 \in Nat /\ 1 \in 1 .. N + 1 /\ N + 1 \in 1 .. N + 1
    OBVIOUS
<1>1. \A n \in 1 .. N + 1 : tails[n] \in Seq(Byte) /\ Len(tails[n]) \in Nat
    BY RowTails
<1>2. At(tails, 1) = 0
    BY <1>0, <1>1 DEF At
<1>3. 1 \in Good
    BY <1>0, <1>2
<1>4. \A k \in 1 .. (N + 1) - 1 : k \in Good => k + 1 \in Good
    <2> TAKE k \in 1 .. (N + 1) - 1
    <2>1. k \in 1 .. N /\ k + 1 \in 1 .. N + 1
        BY <1>0
    <2> QED
        BY <2>1, RowStep
<1>5. \A n \in 1 .. N + 1 : n \in Good
    <2> HIDE DEF Good, N
    <2> QED
        BY <1>0, <1>3, <1>4, Upwards
<1>6. \A n \in 1 .. N :
        /\ FieldAt(tails, n) \in Nat /\ FieldAt(tails, n) <= At(tails, n + 1)
        /\ At(tails, n) <= FieldAt(tails, n)
        /\ At(tails, n + 1) = FieldAt(tails, n) + Len(WriteEscapedChars(fields[n], policy))
        /\ Holds(WriteEscapedChars(fields[n], policy), FieldAt(tails, n))
        /\ n # 1 => buffer[At(tails, n)] = Delimiter
    <2> TAKE n \in 1 .. N
    <2>1. n \in 1 .. N + 1
        BY <1>0
    <2>2. At(tails, n) \in Nat /\ Holds(tails[n], At(tails, n))
        BY <1>5, <2>1
    <2> QED
        BY <2>2, RowStep
<1>7. \A n \in 1 .. N : FieldAt(tails, n) \in At(tails, n) .. At(tails, n + 1)
    <2> TAKE n \in 1 .. N
    <2>1. n \in 1 .. N + 1 /\ n + 1 \in 1 .. N + 1
        BY <1>0
    <2>2. At(tails, n) \in Nat /\ At(tails, n + 1) \in Nat
        BY <1>5, <2>1
    <2> QED
        BY <1>6, <2>2 DEF FieldAt
<1> DEFINE NotBeyond == {n \in 1 .. N + 1 : At(tails, n) <= At(tails, N + 1)}
<1>8. \A n \in 1 .. N + 1 : n \in NotBeyond
    <2>1. N + 1 \in NotBeyond
        BY <1>0, <1>5
    <2>2. ASSUME NEW k \in 1 .. (N + 1) - 1, \A m \in k + 1 .. N + 1 : m \in NotBeyond
          PROVE  k \in NotBeyond
        <3>1. k \in 1 .. N /\ k + 1 \in k + 1 .. N + 1 /\ k \in 1 .. N + 1 /\ k + 1 \in 1 .. N + 1
            BY <1>0
        <3>2. /\ At(tails, k) \in Nat /\ At(tails, k + 1) \in Nat /\ At(tails, N + 1) \in Nat
            BY <1>0, <1>5, <3>1
        <3>3. At(tails, k) <= At(tails, k + 1) /\ At(tails, k + 1) <= At(tails, N + 1)
            <4>1. /\ FieldAt(tails, k) \in Nat /\ At(tails, k) <= FieldAt(tails, k)
                  /\ FieldAt(tails, k) <= At(tails, k + 1)
                BY <1>6, <3>1
            <4>2. At(tails, k + 1) <= At(tails, N + 1)
                BY <2>2, <3>1
            <4> QED
                BY <3>2, <4>1, <4>2
        <3> QED
            BY <3>1, <3>2, <3>3
    <2> HIDE DEF NotBeyond, N
    <2> QED
        BY <1>0, <2>1, <2>2, Downwards
<1>9. \A n \in 1 .. N + 1 : At(tails, n) \in 0 .. At(tails, N + 1)
    BY <1>0, <1>5, <1>8
<1>10. /\ Len(tails[1]) = At(tails, N + 1) + 1
       /\ At(tails, N + 1) < buffer_size
       /\ buffer[At(tails, N + 1)] = LF
    <2> DEFINE e == At(tails, N + 1)
    <2>1. tails[N + 1] = <<LF>> /\ Len(tails[N + 1]) = 1 /\ tails[N + 1][1] = LF
        <3>1. tails[N + 1] = <<LF>>
            BY RowTails
        <3> QED
            BY <3>1
    <2>2. e \in Nat /\ Holds(tails[N + 1], e)
        BY <1>0, <1>5
    <2>3. e = Len(tails[1]) - 1 /\ Len(tails[1]) \in Nat
        BY <1>0, <1>1, <2>1 DEF At
    <2> HIDE DEF e
    <2>4. buffer[e + 1 - 1] = LF /\ e + 1 <= buffer_size
        BY <2>1, <2>2 DEF Holds
    <2>5. e + 1 - 1 = e /\ buffer_size \in Nat
        BY <2>2 DEF Typed
    <2>6. e < buffer_size /\ Len(tails[1]) = e + 1
        BY <2>2, <2>3, <2>4, <2>5
    <2> QED
        BY <2>4, <2>5, <2>6 DEF e
<1> QED
    BY <1>2, <1>6, <1>7, <1>9, <1>10 DEF RowHeld

\* A row in the source has the fields it was written with.
LEMMA RowField ==
    ASSUME Typed, NEW fields \in Seq(Seq(Byte)), NEW policy \in QuotePolicies,
           NEW tails, RowHeld(tails, fields, policy), NEW n \in 1 .. Len(fields)
    PROVE  /\ FieldAt(tails, n) \in Nat /\ At(tails, n + 1) \in Nat /\ At(tails, n) \in Nat
           /\ FieldAt(tails, n) <= At(tails, n + 1)
           /\ At(tails, n + 1) <= At(tails, Len(fields) + 1)
           /\ At(tails, Len(fields) + 1) \in Nat
           /\ Word(FieldAt(tails, n), At(tails, n + 1), {LF, Delimiter})
           /\ CopiesTo(FieldAt(tails, n), At(tails, n + 1), fields[n])
           /\ FieldAt(tails, n) < At(tails, n + 1) => buffer[At(tails, n + 1) - 1] # CR
           /\ FieldAt(tails, n) = At(tails, n + 1) => fields[n] = <<>> /\ policy = "minimal"
<1>1. /\ fields[n] \in Seq(Byte) /\ Len(fields) \in Nat
      /\ n \in 1 .. Len(fields) + 1 /\ n + 1 \in 1 .. Len(fields) + 1
    OBVIOUS
<1> DEFINE last == At(tails, Len(fields) + 1)
           p == FieldAt(tails, n)
           e == At(tails, n + 1)
<1>2. /\ At(tails, n) \in 0 .. last /\ e \in 0 .. last
      /\ p \in At(tails, n) .. e
      /\ e = p + Len(WriteEscapedChars(fields[n], policy))
      /\ Holds(WriteEscapedChars(fields[n], policy), p)
    BY <1>1, Zenon DEF RowHeld
<1>3. last \in Nat
    <2>1. Len(fields) + 1 \in 1 .. Len(fields) + 1 /\ 1 \in 1 .. Len(fields) + 1
        BY <1>1
    <2>2. At(tails, 1) = 0 /\ At(tails, 1) \in 0 .. last /\ last \in 0 .. last
        BY <2>1, Zenon DEF RowHeld
    <2> HIDE DEF last
    <2> QED
        BY <2>2
<1> HIDE DEF last, p, e
<1>4. p \in Nat /\ e \in Nat /\ At(tails, n) \in Nat /\ p <= e /\ e <= last
    BY <1>2, <1>3
<1>5. /\ Word(p, e, {LF, Delimiter}) /\ CopiesTo(p, e, fields[n])
      /\ p < e => buffer[e - 1] # CR
      /\ p = e => fields[n] = <<>> /\ policy = "minimal"
    BY <1>1, <1>2, <1>4, FieldReads
<1> QED
    BY <1>3, <1>4, <1>5 DEF last, p, e

\* Two such stretches make one.
LEMMA WordsJoin ==
    ASSUME NEW p \in Nat, NEW q \in Nat, NEW e \in Nat, p <= q, q <= e, NEW separators,
           Word(p, q, separators), Word(q, e, separators)
    PROVE  Word(p, e, separators)
<1>1. \A k \in q .. e : Balanced(buffer, p, k) <=> Balanced(buffer, q, k)
    BY ParityJoins DEF Word
<1>2. Balanced(buffer, p, e)
    BY <1>1 DEF Word
<1>3. ASSUME NEW k \in p .. e - 1, buffer[k] \in separators
      PROVE  ~ Balanced(buffer, p, k)
    <2>1. CASE k < q
        BY <1>3, <2>1 DEF Word
    <2>2. CASE ~ (k < q)
        <3>1. k \in q .. e /\ k \in q .. e - 1
            BY <2>2
        <3> QED
            BY <1>1, <1>3, <3>1 DEF Word
    <2> QED
        BY <2>1, <2>2
<1> QED
    BY <1>2, <1>3 DEF Word

\* No line feed of a row but the last stands outside of quotes.
LEMMA RowIsOneRecord ==
    ASSUME Typed, NEW fields \in Seq(Seq(Byte)), NEW policy \in QuotePolicies,
           NEW tails, RowHeld(tails, fields, policy)
    PROVE  Word(0, At(tails, Len(fields) + 1), {LF})
<1> DEFINE N == Len(fields)
           last == At(tails, N + 1)
           Good == {n \in 1 .. N + 1 : Word(At(tails, n), last, {LF})}
<1>0. /\ N \in Nat /\ N + 1 \in Nat /\ 1 \in Nat /\ 1 \in 1 .. N + 1 /\ N + 1 \in 1 .. N + 1
      /\ 1 <= N + 1
    OBVIOUS
<1>1. last \in Nat /\ At(tails, 1) = 0
    BY <1>0 DEF RowHeld
<1>2. N + 1 \in Good
    <2>1. \A k \in last .. last - 1 : FALSE
        BY <1>1
    <2>2. Balanced(buffer, last, last)
        BY <1>1, <2>1, EmptyIsBalanced
    <2> QED
        BY <1>0, <2>1, <2>2 DEF Word
<1>3. ASSUME NEW k \in 1 .. (N + 1) - 1, \A m \in k + 1 .. N + 1 : m \in Good
      PROVE  k \in Good
    <2> DEFINE p == At(tails, k)
               s == FieldAt(tails, k)
               q == At(tails, k + 1)
    <2>1. k \in 1 .. N /\ k \in 1 .. N + 1 /\ k + 1 \in k + 1 .. N + 1
        BY <1>0
    <2>2. /\ s \in Nat /\ q \in Nat /\ p \in Nat /\ s <= q /\ q <= last
          /\ Word(s, q, {LF, Delimiter})
        BY <2>1, RowField
    <2>3. Word(q, last, {LF})
        BY <1>3, <2>1
    <2>4. k # 1 => buffer[p] = Delimiter
        BY <2>1 DEF RowHeld
    <2>5. p = s \/ (s = p + 1 /\ buffer[p] = Delimiter)
        BY <2>4 DEF FieldAt, Start
    <2> HIDE DEF p, s, q, last, N
    <2>6. Word(s, q, {LF})
        BY <2>2 DEF Word
    <2>7. Word(s, last, {LF})
        BY <1>1, <2>2, <2>3, <2>6, WordsJoin
    <2>8. Word(p, last, {LF})
        <3>1. CASE p = s
            BY <2>7, <3>1
        <3>2. CASE s = p + 1 /\ buffer[p] = Delimiter
            <4>1. \A j \in p .. s - 1 : j = p
                BY <2>2, <3>2
            <4>2. buffer[p] # QuoteCharacter /\ buffer[p] # LF
                BY <3>2, RoundTripAssumption, PolicyAssumption
            <4>3. Balanced(buffer, p, s)
                <5>1. p \in Int /\ s \in Int /\ \A j \in p .. s - 1 : buffer[j] # QuoteCharacter
                    BY <2>2, <4>1, <4>2
                <5> QED
                    BY <5>1, EmptyIsBalanced
            <4>4. Word(p, s, {LF})
                BY <4>1, <4>2, <4>3 DEF Word
            <4>5. p <= s /\ s <= last
                BY <1>1, <2>2, <3>2
            <4> QED
                BY <1>1, <2>2, <2>7, <4>4, <4>5, WordsJoin
        <3> QED
            BY <2>5, <3>1, <3>2
    <2> QED
        BY <2>1, <2>8 DEF p
<1>4. \A n \in 1 .. N + 1 : n \in Good
    <2> HIDE DEF Good, N
    <2> QED
        BY <1>0, <1>2, <1>3, Downwards
<1> QED
    BY <1>0, <1>1, <1>4

\* A reader finds the row that was written first, and nothing after it.
LEMMA RowIsFirstRecord ==
    ASSUME Typed, NEW fields \in Seq(Seq(Byte)), NEW policy \in QuotePolicies,
           NEW tails, RowHeld(tails, fields, policy)
    PROVE  Record(buffer, buffer_size, 0) =
             [start |-> 0, content_end |-> At(tails, Len(fields) + 1),
              next_start |-> Len(tails[1])]
<1> DEFINE N == Len(fields)
           last == At(tails, N + 1)
<1>0. /\ N \in Nat /\ N + 1 \in 1 .. N + 1 /\ last \in Nat /\ last < buffer_size
      /\ buffer_size \in Nat /\ buffer[last] = LF /\ At(tails, 1) = 0
      /\ Len(tails[1]) = last + 1
    <2>1. N \in Nat /\ N + 1 \in 1 .. N + 1
        OBVIOUS
    <2>2. /\ last \in 0 .. last /\ last < buffer_size /\ buffer[last] = LF
          /\ Len(tails[1]) = last + 1 /\ At(tails, 1) = 0 /\ At(tails, 1) \in 0 .. last
        <3>1. 1 \in 1 .. N + 1
            BY <2>1
        <3> QED
            BY <2>1, <3>1, Zenon DEF RowHeld
    <2> HIDE DEF last
    <2> QED
        BY <2>1, <2>2 DEF Typed
<1>1. Word(0, last, {LF})
    BY RowIsOneRecord
<1>2. ~ DropsCarriageReturn(buffer, 0, last)
    <2>1. SUFFICES ASSUME last > 0 PROVE buffer[last - 1] # CR
        BY DEF DropsCarriageReturn
    <2>2. N # 0 /\ N \in 1 .. N
        BY <1>0, <2>1
    <2> DEFINE s == FieldAt(tails, N)
    <2>3. /\ s \in Nat /\ s <= last /\ At(tails, N) \in Nat
          /\ s < last => buffer[last - 1] # CR
        BY <2>2, RowField
    <2>4. CASE s < last
        BY <2>3, <2>4
    <2>5. CASE s = last
        <3>1. N # 1
            <4>1. FieldAt(tails, 1) = 0
                BY <1>0 DEF FieldAt, Start
            <4>2. FieldAt(tails, N) > 0
                BY <2>1, <2>5
            <4> HIDE DEF N
            <4> QED
                BY <4>1, <4>2
        <3>2. s = At(tails, N) + 1
            BY <3>1 DEF FieldAt, Start
        <3>3. buffer[At(tails, N)] = Delimiter
            BY <2>2, <3>1 DEF RowHeld
        <3>4. last - 1 = At(tails, N)
            BY <2>3, <2>5, <3>2
        <3> QED
            BY <3>3, <3>4, PolicyAssumption
    <2> QED
        BY <1>0, <2>3, <2>4, <2>5
<1> HIDE DEF last, N
<1>3. EndsRecord(buffer, 0, last)
    BY <1>0, <1>1, RoundTripAssumption DEF EndsRecord, Word
<1>4. \A k \in 0 .. last - 1 : ~ EndsRecord(buffer, 0, k)
    BY <1>1 DEF EndsRecord, Word
<1>5. Record(buffer, buffer_size, 0) = RecordBounds(buffer, 0, last)
    <2>1. last \in 0 .. buffer_size - 1 /\ 0 \in Nat
        BY <1>0
    <2> QED
        BY <1>0, <1>3, <1>4, <2>1, RecordEndsAt
<1>6. RecordBounds(buffer, 0, last)
        = [start |-> 0, content_end |-> last, next_start |-> last + 1]
    BY <1>2 DEF RecordBounds
<1> QED
    BY <1>0, <1>5, <1>6 DEF last, N

\* And it finds the cells of the row where its fields are.
LEMMA RowCell ==
    ASSUME Typed, NEW fields \in Seq(Seq(Byte)), NEW policy \in QuotePolicies,
           NEW tails, RowHeld(tails, fields, policy), NEW n \in 1 .. Len(fields)
    PROVE  Cell(buffer, At(tails, Len(fields) + 1), FieldAt(tails, n)).content_end
             = At(tails, n + 1)
<1> DEFINE last == At(tails, Len(fields) + 1)
           s == FieldAt(tails, n)
           e == At(tails, n + 1)
<1>1. /\ s \in Nat /\ e \in Nat /\ s <= e /\ e <= last /\ last \in Nat
      /\ Word(s, e, {LF, Delimiter})
    BY RowField
<1>2. n = Len(fields) => e = last
    OBVIOUS
<1>3. n # Len(fields) => buffer[e] = Delimiter /\ e < last
    <2>1. ASSUME n # Len(fields) PROVE buffer[e] = Delimiter /\ e < last
        <3>1. n + 1 \in 1 .. Len(fields) /\ n + 1 # 1
            BY <2>1
        <3>2. buffer[e] = Delimiter
            BY <3>1 DEF RowHeld
        <3>3. /\ FieldAt(tails, n + 1) \in Nat /\ FieldAt(tails, n + 1) <= At(tails, (n + 1) + 1)
              /\ At(tails, (n + 1) + 1) <= last /\ At(tails, (n + 1) + 1) \in Nat
            BY <3>1, RowField
        <3>4. FieldAt(tails, n + 1) = e + 1
            BY <3>1 DEF FieldAt, Start
        <3> QED
            BY <1>1, <3>2, <3>3, <3>4
    <2> QED
        BY <2>1
<1> HIDE DEF last, s, e
<1>4. \A k \in s .. e - 1 : ~ EndsCell(buffer, s, k)
    BY <1>1 DEF EndsCell, Word
<1>5. Cell(buffer, last, s).content_end = e
    <2>1. CASE n = Len(fields)
        <3>1. Cell(buffer, last, s)
                = [start |-> s, content_end |-> last,
                   escaped |-> HasAdjacentQuotes(buffer, s, last)]
            BY <1>1, <1>2, <1>4, <2>1, CellIsRest
        <3> QED
            BY <1>2, <2>1, <3>1
    <2>2. CASE n # Len(fields)
        <3>1. EndsCell(buffer, s, e)
            BY <1>1, <1>3, <2>2, RoundTripAssumption DEF EndsCell, Word
        <3>2. e \in s .. last - 1
            BY <1>1, <1>3, <2>2
        <3>3. Cell(buffer, last, s)
                = [start |-> s, content_end |-> e,
                   escaped |-> HasAdjacentQuotes(buffer, s, e)]
            BY <1>1, <1>4, <3>1, <3>2, CellEndsAt
        <3> QED
            BY <3>3
    <2> QED
        BY <2>1, <2>2
<1> QED
    BY <1>5 DEF last, s, e

-----------------------------------------------------------------------------
(* The iterator on a row that was written.                                 *)

\* The cells visited so far are the fields that come first; an iterator that
\* has not ended stands at the next one.
FieldsSoFar(tails, fields) ==
    /\ end = At(tails, Len(fields) + 1)
    /\ \A n \in 1 .. Len(cells) : /\ cells[n].start = FieldAt(tails, n)
                                  /\ cells[n].content_end = At(tails, n + 1)
    /\ Len(cells) <= Len(fields)
    /\ pc # "at_end" => Len(cells) < Len(fields) /\ current = FieldAt(tails, Len(cells) + 1)
    /\ pc = "at_end" => end = 0 \/ Len(cells) = Len(fields)
    /\ end = 0 => pc = "at_end" /\ cells = <<>>

WrittenRow(tails) ==
    /\ WriteRow(written.fields, written.policy) = tails[1]
    /\ RowHeld(tails, written.fields, written.policy)
    /\ FieldsSoFar(tails, written.fields)

WrittenInv ==
    /\ IInv
    /\ written # NotWritten =>
          /\ written \in [fields : Seq(Seq(Byte)), policy : QuotePolicies]
          /\ \E tails : WrittenRow(tails)

LEMMA SeqOfIsSeq ==
    ASSUME NEW S, NEW T, S \subseteq T, NEW m \in Nat, NEW s \in SeqOf(S, m)
    PROVE  s \in Seq(T)
<1>1. PICK k \in 0 .. m : s \in [1 .. k -> S]
    BY DEF SeqOf
<1>2. s \in [1 .. k -> T] /\ k \in Nat
    BY <1>1
<1> QED
    BY <1>2

LEMMA InitWrittenInv == RoundTripInit => WrittenInv
<1> SUFFICES ASSUME RoundTripInit PROVE WrittenInv
    OBVIOUS
<1>1. Init
    BY DEF RoundTripInit, AnySource, NumberSource, WrittenSource
<1>2. IInv
    BY <1>1, InitIInv
<1>3. ASSUME WrittenSource
      PROVE  /\ written \in [fields : Seq(Seq(Byte)), policy : QuotePolicies]
             /\ \E tails : WrittenRow(tails)
    <2> DEFINE fields == written.fields
               policy == written.policy
    <2>1. /\ fields \in SeqOf(SeqOf(FieldByte, FieldSize), FieldCount)
          /\ policy \in QuotePolicies
          /\ written = [fields |-> fields, policy |-> policy]
        BY <1>3 DEF WrittenSource
    <2>2. PICK rest \in SeqOf(FieldByte, 1) :
              LET text == WriteRow(fields, policy) \o rest
              IN  /\ buffer_size = Len(text)
                  /\ buffer = [k \in 0 .. Len(text) - 1 |-> text[k + 1]]
        BY <1>3 DEF WrittenSource
    <2>3. row_start = 0 /\ end = Record(buffer, buffer_size, 0).content_end
        BY <1>3 DEF WrittenSource
    <2>4. fields \in Seq(Seq(Byte)) /\ rest \in Seq(Byte)
        <3>1. SeqOf(FieldByte, FieldSize) \subseteq Seq(Byte)
            BY RoundTripAssumption, SeqOfIsSeq
        <3>2. 1 \in Nat /\ FieldByte \subseteq Byte /\ FieldCount \in Nat
            BY RoundTripAssumption
        <3> QED
            BY <2>1, <3>1, <3>2, SeqOfIsSeq
    <2>5. Typed
        BY <1>1, SizesAssumption DEF Init, Typed
    <2> HIDE DEF fields, policy
    <2>6. PICK tails : IsRow(tails, fields, policy) /\ WriteRow(fields, policy) = tails[1]
        BY <2>4, RowHasTails
    <2>7. tails[1] \in Seq(Byte)
        <3>1. 1 \in 1 .. Len(fields) + 1
            BY <2>4
        <3> QED
            BY <2>4, <2>6, <3>1, RowTails
    <2>8. Holds(tails[1], 0)
        <3> DEFINE text == tails[1] \o rest
        <3>1. text \in Seq(Byte)
            BY <2>4, <2>7, ConcatProperties
        <3>2. buffer_size = Len(text) /\ buffer = [k \in 0 .. Len(text) - 1 |-> text[k + 1]]
            BY <2>2, <2>6
        <3> HIDE DEF text
        <3>3. Holds(text, 0)
            BY <3>1, <3>2 DEF Holds
        <3>4. Holds(tails[1] \o rest, 0)
            BY <3>3 DEF text
        <3> QED
            BY <2>4, <2>5, <2>7, <3>4, HoldsParts
    <2>9. RowHeld(tails, fields, policy)
        BY <2>4, <2>5, <2>6, <2>8, RowLayout
    <2>10. end = At(tails, Len(fields) + 1)
        BY <2>1, <2>3, <2>4, <2>5, <2>9, RowIsFirstRecord
    <2>11. FieldsSoFar(tails, fields)
        <3>1. cells = <<>> /\ Len(cells) = 0 /\ Len(fields) \in Nat /\ current = 0
              /\ pc = (IF 0 >= end THEN "at_end" ELSE "enter")
              /\ end \in Nat
            BY <1>1, <2>3, <2>4, SizesAssumption DEF Init
        <3>2. FieldAt(tails, 1) = 0 /\ At(tails, 1) = 0
            BY <2>9 DEF RowHeld, FieldAt, Start
        <3>3. Len(fields) = 0 => end = 0
            BY <2>10, <3>2
        <3> QED
            BY <2>10, <3>1, <3>2, <3>3 DEF FieldsSoFar
    <2>12. WrittenRow(tails)
        BY <2>6, <2>9, <2>11 DEF WrittenRow, fields, policy
    <2>13. written \in [fields : Seq(Seq(Byte)), policy : QuotePolicies]
        BY <2>1, <2>4
    <2> QED
        BY <2>12, <2>13
<1>4. written # NotWritten => WrittenSource
    BY DEF RoundTripInit, AnySource, NumberSource
<1> QED
    BY <1>2, <1>3, <1>4 DEF WrittenInv

\* The cell that is found is the next field.
LEMMA VisitNextField ==
    ASSUME IInv, VisitCell, NEW fields \in Seq(Seq(Byte)), NEW policy \in QuotePolicies,
           NEW tails, RowHeld(tails, fields, policy), FieldsSoFar(tails, fields)
    PROVE  FieldsSoFar(tails, fields)'
<1>1. /\ pc = "return" /\ end' = end /\ cells' = Append(cells, bounds)
      /\ Increment(bounds.content_end)
    BY DEF VisitCell, rowVars
<1>2. /\ Typed /\ end \in Nat
      /\ cells \in Seq(CellAt(buffer_size)) /\ bounds \in CellAt(buffer_size)
      /\ bounds = Cell(buffer, end, current)
    BY <1>1, SizesAssumption DEF IInv, TypeOK, FindsTheCell, Typed
<1> DEFINE n == Len(cells) + 1
           last == At(tails, Len(fields) + 1)
<1>3. /\ n \in 1 .. Len(fields) /\ current = FieldAt(tails, n) /\ end = last /\ end # 0
      /\ Len(fields) \in Nat /\ Len(cells) \in Nat
    BY <1>1, <1>2 DEF FieldsSoFar
<1>4. bounds.start = FieldAt(tails, n)
    <2>1. /\ FieldAt(tails, n) \in Nat /\ At(tails, n + 1) \in Nat
          /\ FieldAt(tails, n) <= At(tails, n + 1) /\ At(tails, n + 1) <= last
        BY <1>2, <1>3, RowField
    <2>2. current \in 0 .. end
        BY <1>2, <1>3, <2>1
    <2> QED
        BY <1>2, <1>3, <2>2, CellIsFirst
<1>5. bounds.content_end = At(tails, n + 1)
    BY <1>2, <1>3, RowCell
<1>6. /\ Len(cells') = n
      /\ \A m \in 1 .. n - 1 : cells'[m] = cells[m]
      /\ cells'[n] = bounds
    BY <1>1, <1>2
<1>7. \A m \in 1 .. Len(cells') : /\ cells'[m].start = FieldAt(tails, m)
                                  /\ cells'[m].content_end = At(tails, m + 1)
    <2> TAKE m \in 1 .. Len(cells')
    <2>1. CASE m = n
        BY <1>4, <1>5, <1>6, <2>1
    <2>2. CASE m # n
        <3>1. m \in 1 .. Len(cells) /\ m \in 1 .. n - 1
            BY <1>3, <1>6, <2>2
        <3> QED
            BY <1>6, <3>1 DEF FieldsSoFar
    <2> QED
        BY <2>1, <2>2
<1>8. CASE n = Len(fields)
    <2>1. bounds.content_end = end
        BY <1>3, <1>5, <1>8
    <2>2. pc' = "at_end"
        BY <1>1, <1>2, <2>1 DEF Increment
    <2> QED
        BY <1>1, <1>3, <1>6, <1>7, <1>8, <2>2 DEF FieldsSoFar
<1>9. CASE n # Len(fields)
    <2>1. n + 1 \in 1 .. Len(fields) /\ n + 1 # 1
        BY <1>3, <1>9
    <2>2. At(tails, n + 1) < end /\ FieldAt(tails, n + 1) = At(tails, n + 1) + 1
        <3>1. /\ FieldAt(tails, n + 1) \in Nat /\ At(tails, n + 1) \in Nat
              /\ FieldAt(tails, n + 1) <= At(tails, (n + 1) + 1)
              /\ At(tails, (n + 1) + 1) <= last /\ At(tails, (n + 1) + 1) \in Nat /\ last \in Nat
            BY <1>2, <2>1, RowField
        <3>2. FieldAt(tails, n + 1) = At(tails, n + 1) + 1
            BY <2>1 DEF FieldAt, Start
        <3> HIDE DEF n, last
        <3> QED
            BY <1>3, <3>1, <3>2
    <2>3. pc' = "enter" /\ current' = FieldAt(tails, n + 1)
        BY <1>1, <1>5, <2>2 DEF Increment
    <2> QED
        BY <1>1, <1>3, <1>6, <1>7, <2>1, <2>3 DEF FieldsSoFar
<1> QED
    BY <1>8, <1>9

LEMMA NextWrittenInv == WrittenInv /\ [RoundTripNext]_allVars => WrittenInv'
<1> SUFFICES ASSUME WrittenInv, [RoundTripNext]_allVars PROVE WrittenInv'
    OBVIOUS
<1>1. [Next]_vars /\ written' = written
    BY DEF RoundTripNext, allVars
<1>2. IInv /\ IInv'
    BY <1>1, NextIInv DEF WrittenInv
<1>3. rowVars' = rowVars
    BY <1>1, StepKinds DEF vars, VisitCell
<1> SUFFICES ASSUME written # NotWritten
             PROVE  /\ written \in [fields : Seq(Seq(Byte)), policy : QuotePolicies]
                    /\ \E tails : WrittenRow(tails)'
    BY <1>1, <1>2 DEF WrittenInv, NotWritten
<1>4. /\ written \in [fields : Seq(Seq(Byte)), policy : QuotePolicies]
      /\ \E tails : WrittenRow(tails)
    BY DEF WrittenInv
<1>5. PICK fields, policy, tails :
          fields = written.fields /\ policy = written.policy /\ WrittenRow(tails)
    BY <1>4
<1>6. /\ fields \in Seq(Seq(Byte)) /\ policy \in QuotePolicies
      /\ fields = written'.fields /\ policy = written'.policy
      /\ WriteRow(fields, policy) = tails[1]
      /\ RowHeld(tails, fields, policy) /\ FieldsSoFar(tails, fields)
    BY <1>1, <1>4, <1>5 DEF WrittenRow
<1>7. RowHeld(tails, fields, policy)'
    BY <1>3, <1>6 DEF RowHeld, rowVars, Holds
<1>8. FieldsSoFar(tails, fields)'
    <2>1. CASE VisitCell
        BY <1>2, <1>6, <2>1, VisitNextField
    <2>2. CASE UNCHANGED vars
        BY <1>6, <2>2 DEF FieldsSoFar, vars, rowVars
    <2>3. CASE pc # "at_end" /\ pc' # "at_end" /\ UNCHANGED <<rowVars, current, cells>>
        BY <1>6, <2>3 DEF FieldsSoFar, rowVars
    <2> QED
        BY <1>1, <2>1, <2>2, <2>3, StepKinds
<1>9. WrittenRow(tails)'
    BY <1>6, <1>7, <1>8 DEF WrittenRow
<1> QED
    BY <1>1, <1>4, <1>9

LEMMA WrittenIsRead == WrittenInv => WrittenReadsBack
<1> SUFFICES ASSUME WrittenInv, written # NotWritten
             PROVE  /\ Record(buffer, buffer_size, 0).next_start
                         = Len(WriteRow(written.fields, written.policy))
                    /\ pc = "at_end" =>
                         LET fields == [n \in DOMAIN cells |-> CopyContentTo(cells[n], {})]
                         IN  IF written = [fields |-> <<<<>>>>, policy |-> "minimal"]
                             THEN fields = <<>>
                             ELSE fields = written.fields
    BY DEF WrittenReadsBack
<1> DEFINE fields == written.fields
           policy == written.policy
           N == Len(fields)
<1>1. /\ fields \in Seq(Seq(Byte)) /\ policy \in QuotePolicies /\ N \in Nat
      /\ written = [fields |-> fields, policy |-> policy]
    <2>1. written \in [fields : Seq(Seq(Byte)), policy : QuotePolicies]
        BY DEF WrittenInv
    <2> QED
        BY <2>1
<1>2. PICK tails : WrittenRow(tails)
    BY DEF WrittenInv
<1>3. /\ WriteRow(fields, policy) = tails[1]
      /\ RowHeld(tails, fields, policy) /\ FieldsSoFar(tails, fields)
    BY <1>2 DEF WrittenRow
<1>4. /\ Typed /\ cells \in Seq(CellAt(buffer_size))
    BY SizesAssumption DEF WrittenInv, IInv, TypeOK, Typed
<1> HIDE DEF fields, policy
<1>5. Record(buffer, buffer_size, 0).next_start = Len(WriteRow(fields, policy))
    BY <1>1, <1>3, <1>4, RowIsFirstRecord
<1>6. ASSUME NEW n \in 1 .. Len(cells)
      PROVE  n \in 1 .. N /\ CopyContentTo(cells[n], {}) = fields[n]
    <2>1. n \in 1 .. N
        BY <1>1, <1>3, <1>4, <1>6 DEF FieldsSoFar
    <2>2. CopiesTo(FieldAt(tails, n), At(tails, n + 1), fields[n])
        BY <1>1, <1>3, <1>4, <2>1, RowField
    <2>3. cells[n].start = FieldAt(tails, n) /\ cells[n].content_end = At(tails, n + 1)
        BY <1>3, <1>6 DEF FieldsSoFar
    <2>4. cells[n] \in CellAt(buffer_size)
        BY <1>4, <1>6
    <2>5. cells[n] = [start |-> FieldAt(tails, n), content_end |-> At(tails, n + 1),
                      escaped |-> cells[n].escaped]
        BY <2>3, <2>4 DEF CellAt
    <2> QED
        BY <2>1, <2>2, <2>5, Zenon DEF CopiesTo
<1> DEFINE read == [n \in DOMAIN cells |-> CopyContentTo(cells[n], {})]
<1>7. ASSUME pc = "at_end"
      PROVE  IF fields = <<<<>>>> /\ policy = "minimal" THEN read = <<>> ELSE read = fields
    <2>1. CASE fields = <<<<>>>> /\ policy = "minimal"
        <3>1. N = 1 /\ fields[1] = <<>> /\ 1 \in 1 .. N
            BY <2>1
        <3>2. WriteEscapedChars(fields[1], policy) = <<>>
            <4>1. ~ ShouldQuote(<<>>, "minimal")
                BY DEF ShouldQuote
            <4> QED
                BY <2>1, <3>1, <4>1 DEF WriteEscapedChars
        <3>3. At(tails, 1) = 0 /\ At(tails, 2) = FieldAt(tails, 1) + 0
            BY <1>3, <3>1, <3>2 DEF RowHeld
        <3>4. end = 0
            BY <1>3, <3>1, <3>3 DEF FieldsSoFar, FieldAt, Start
        <3> QED
            BY <1>3, <2>1, <3>4 DEF FieldsSoFar
    <2>2. CASE ~ (fields = <<<<>>>> /\ policy = "minimal")
        <3>1. CASE end = 0
            <4>1. cells = <<>>
                BY <1>3, <3>1 DEF FieldsSoFar
            <4>2. N = 0
                <5>1. SUFFICES ASSUME N # 0 PROVE FALSE
                    OBVIOUS
                <5>2. /\ 1 \in 1 .. N /\ At(tails, 1) = 0 /\ At(tails, N + 1) = 0
                    BY <1>1, <1>3, <3>1, <5>1 DEF RowHeld, FieldsSoFar
                <5>3. FieldAt(tails, 1) = 0 /\ At(tails, 2) = 0
                    <6>1. /\ At(tails, 2) \in Nat /\ At(tails, 2) <= 0
                        BY <1>1, <1>3, <1>4, <5>2, RowField
                    <6> QED
                        BY <5>2, <6>1 DEF FieldAt, Start
                <5>4. fields[1] = <<>> /\ policy = "minimal"
                    BY <1>1, <1>3, <1>4, <5>2, <5>3, RowField
                <5>5. CASE N = 1
                    <6>1. fields = <<<<>>>>
                        BY <1>1, <5>4, <5>5
                    <6> QED
                        BY <2>2, <5>4, <6>1
                <5>6. CASE N # 1
                    <6>1. 2 \in 1 .. N
                        <7>1. N \in Nat
                            BY <1>1
                        <7> HIDE DEF N
                        <7> QED
                            BY <5>1, <5>6, <7>1
                    <6>2. /\ FieldAt(tails, 2) <= At(tails, 2 + 1) /\ At(tails, 2 + 1) <= 0
                          /\ FieldAt(tails, 2) \in Nat /\ At(tails, 2 + 1) \in Nat
                        BY <1>1, <1>3, <1>4, <5>2, <6>1, RowField
                    <6>3. FieldAt(tails, 2) = 1
                        BY <5>3 DEF FieldAt, Start
                    <6> QED
                        BY <6>2, <6>3
                <5> QED
                    BY <5>5, <5>6
            <4>3. fields = <<>>
                BY <1>1, <4>2
            <4> QED
                BY <2>2, <4>1, <4>3
        <3>2. CASE end # 0
            <4>1. Len(cells) = N
                BY <1>3, <1>7, <3>2 DEF FieldsSoFar
            <4>2. DOMAIN cells = 1 .. N
                BY <1>4, <4>1
            <4>3. read = [n \in 1 .. N |-> fields[n]]
                BY <1>6, <4>1, <4>2, Zenon
            <4>4. fields = [n \in 1 .. N |-> fields[n]]
                BY <1>1
            <4> QED
                BY <2>2, <4>3, <4>4, Zenon
        <3> QED
            BY <3>1, <3>2
    <2> QED
        BY <2>1, <2>2
<1>8. written = [fields |-> <<<<>>>>, policy |-> "minimal"] <=> fields = <<<<>>>> /\ policy = "minimal"
    BY <1>1
<1> QED
    BY <1>5, <1>7, <1>8 DEF fields, policy

\* Quoting is undone by reading, for every row of every bytes under either policy
\* that quotes, whatever byte of a field follows: write_escaped_chars_ and write_row put
\* their quotes and separators where find_record_bounds, find_cell_bounds and
\* copy_content_to look for them.
THEOREM QuotingIsUndone == RoundTripSpec => []WrittenReadsBack
BY InitWrittenInv, NextWrittenInv, WrittenIsRead, PTL DEF RoundTripSpec

-----------------------------------------------------------------------------
(* Loops whose result is a function of the one before.                     *)

IsSteps(results, step, base, first, last) ==
    results = [k \in first .. last |-> IF k = first THEN base ELSE step[k][results[k - 1]]]

\* Steps on a set of results can be taken one after the other.
LEMMA StepsExist ==
    ASSUME NEW S, NEW base \in S, NEW first \in Nat, NEW last \in Nat, first <= last,
           NEW step \in [first + 1 .. last -> [S -> S]]
    PROVE  \E results \in [first .. last -> S] : IsSteps(results, step, base, first, last)
<1> DEFINE Good == {n \in first .. last :
                      \E results \in [first .. n -> S] : IsSteps(results, step, base, first, n)}
<1>1. first \in Good
    <2> DEFINE one == [k \in first .. first |-> base]
    <2>1. one \in [first .. first -> S]
        OBVIOUS
    <2>2. \A k \in first .. first : k = first
        OBVIOUS
    <2> HIDE DEF one
    <2>3. one = [k \in first .. first |-> base]
        BY Zenon DEF one
    <2>4. [k \in first .. first |-> base]
            = [k \in first .. first |-> IF k = first THEN base ELSE step[k][one[k - 1]]]
        BY <2>2, Zenon
    <2>5. IsSteps(one, step, base, first, first)
        BY <2>3, <2>4, Zenon DEF IsSteps
    <2>6. first \in first .. last
        OBVIOUS
    <2> QED
        BY <2>1, <2>5, <2>6, Zenon
<1>2. ASSUME NEW n \in first .. last - 1, n \in Good
      PROVE  n + 1 \in Good
    <2>1. PICK before \in [first .. n -> S] : IsSteps(before, step, base, first, n)
        BY <1>2
    <2> DEFINE next == step[n + 1][before[n]]
               all == [k \in first .. n + 1 |-> IF k = n + 1 THEN next ELSE before[k]]
    <2>2. next \in S
        <3>1. n + 1 \in first + 1 .. last /\ n \in first .. n
            OBVIOUS
        <3>2. step[n + 1] \in [S -> S] /\ before[n] \in S
            BY <3>1
        <3> QED
            BY <3>2
    <2>3. all \in [first .. n + 1 -> S]
        <3>1. \A k \in first .. n + 1 : k # n + 1 => k \in first .. n
            OBVIOUS
        <3> HIDE DEF next
        <3> QED
            BY <2>2, <3>1
    <2>4. ASSUME NEW k \in first .. n + 1
          PROVE  all[k] = IF k = first THEN base ELSE step[k][all[k - 1]]
        <3>1. k # first => all[k - 1] = before[k - 1]
            <4>1. ASSUME k # first PROVE k - 1 \in first .. n + 1 /\ k - 1 # n + 1
                BY <4>1
            <4> HIDE DEF next
            <4> QED
                BY <4>1
        <3>2. CASE k = n + 1
            <4>1. k # first /\ k - 1 = n
                BY <3>2
            <4>2. all[k] = next
                BY <3>2
            <4> HIDE DEF all
            <4> QED
                BY <3>1, <3>2, <4>1, <4>2
        <3>3. CASE k # n + 1
            <4>1. k \in first .. n
                BY <3>3
            <4>2. before[k] = IF k = first THEN base ELSE step[k][before[k - 1]]
                BY <2>1, <4>1, Zenon DEF IsSteps
            <4>3. all[k] = before[k]
                BY <3>3
            <4> HIDE DEF all
            <4> QED
                BY <3>1, <4>2, <4>3, Zenon
        <3> QED
            BY <3>2, <3>3
    <2>5. all = [k \in first .. n + 1 |-> all[k]]
        OBVIOUS
    <2> HIDE DEF all, next
    <2>6. [k \in first .. n + 1 |-> all[k]]
            = [k \in first .. n + 1 |-> IF k = first THEN base ELSE step[k][all[k - 1]]]
        BY <2>4, Zenon
    <2>7. IsSteps(all, step, base, first, n + 1)
        BY <2>5, <2>6, Zenon DEF IsSteps
    <2>8. n + 1 \in first .. last
        OBVIOUS
    <2> QED
        BY <2>3, <2>7, <2>8, Zenon
<1>3. \A n \in first .. last : n \in Good
    <2> HIDE DEF Good
    <2> QED
        BY <1>1, <1>2, Upwards
<1>4. last \in first .. last
    OBVIOUS
<1> QED
    BY <1>3, <1>4

-----------------------------------------------------------------------------
(* The range of the type.                                                  *)

IsTwoTo(power) == power = [n \in 0 .. Width |-> IF n = 0 THEN 1 ELSE 2 * power[n - 1]]

\* TwoTo has the powers of two, and the range of the type is twice its half.
LEMMA Powers ==
    /\ TwoTo[Width - 1] \in Nat \ {0}
    /\ TwoTo[Width] = 2 * TwoTo[Width - 1]
<1>1. Width \in Nat \ {0}
    BY ConversionAssumption
<1>2. \E power : IsTwoTo(power)
    <2> DEFINE step == [k \in 0 + 1 .. Width |-> [x \in Nat |-> 2 * x]]
    <2>1. step \in [0 + 1 .. Width -> [Nat -> Nat]] /\ 1 \in Nat /\ 0 \in Nat /\ 0 <= Width
        BY <1>1
    <2>2. \A k \in 1 .. Width : \A x \in Nat : step[k][x] = 2 * x
        BY <1>1
    <2> HIDE DEF step
    <2>3. PICK power \in [0 .. Width -> Nat] : IsSteps(power, step, 1, 0, Width)
        BY <1>1, <2>1, StepsExist
    <2>4. ASSUME NEW k \in 0 .. Width
          PROVE  (IF k = 0 THEN 1 ELSE step[k][power[k - 1]])
                    = IF k = 0 THEN 1 ELSE 2 * power[k - 1]
        <3>1. k # 0 => k \in 1 .. Width /\ k - 1 \in 0 .. Width
            BY <1>1
        <3> QED
            BY <2>2, <3>1
    <2>5. [k \in 0 .. Width |-> IF k = 0 THEN 1 ELSE step[k][power[k - 1]]]
            = [k \in 0 .. Width |-> IF k = 0 THEN 1 ELSE 2 * power[k - 1]]
        BY <2>4, Zenon
    <2> QED
        BY <2>3, <2>5, Zenon DEF IsSteps, IsTwoTo
<1>3. IsTwoTo(TwoTo)
    <2>1. TwoTo = CHOOSE power : IsTwoTo(power)
        BY Zenon DEF TwoTo, IsTwoTo
    <2> QED
        BY <1>2, <2>1, Zenon
<1>4. \A n \in 0 .. Width : TwoTo[n] = IF n = 0 THEN 1 ELSE 2 * TwoTo[n - 1]
    BY <1>3, Zenon DEF IsTwoTo
<1> DEFINE Good == {n \in 0 .. Width : TwoTo[n] \in Nat \ {0}}
<1>5. 0 \in Good
    BY <1>1, <1>4
<1>6. ASSUME NEW n \in 0 .. Width - 1, n \in Good PROVE n + 1 \in Good
    <2>1. n + 1 \in 0 .. Width /\ n + 1 # 0 /\ (n + 1) - 1 = n
        BY <1>1
    <2>2. TwoTo[n + 1] = 2 * TwoTo[n]
        BY <1>4, <2>1
    <2> QED
        BY <1>6, <2>1, <2>2
<1>7. \A n \in 0 .. Width : n \in Good
    <2> HIDE DEF Good
    <2> QED
        BY <1>1, <1>5, <1>6, Upwards
<1>8. Width - 1 \in 0 .. Width /\ Width \in 0 .. Width /\ Width # 0
    BY <1>1
<1> QED
    BY <1>4, <1>7, <1>8

\* The largest magnitude is that of one end of the type, it is no less than any
\* digit, and what is no larger is not wrapped.
LEMMA Limits ==
    ASSUME NEW signed \in BOOLEAN, NEW negative \in BOOLEAN, negative => signed,
           NEW limit, limit = Limit(negative, signed)
    PROVE  /\ limit \in Nat
           /\ ~ negative => limit = Largest(signed)
           /\ negative => limit = - Smallest(signed)
           /\ Smallest(signed) \in Int /\ Smallest(signed) <= 0
           /\ Largest(signed) \in Int /\ 0 <= Largest(signed)
           /\ ~ signed => Smallest(signed) = 0
           /\ \A digit \in Digit : digit \in 0 .. limit
           /\ \A n \in 0 .. limit : Wrapped(n) = n
<1>1. PICK half : half = TwoTo[Width - 1]
    OBVIOUS
<1>2. half \in Nat \ {0} /\ TwoTo[Width] = 2 * half
    BY <1>1, Powers
<1>3. /\ Largest(signed) = IF signed THEN half - 1 ELSE 2 * half - 1
      /\ Smallest(signed) = IF signed THEN - half ELSE 0
      /\ limit = (Largest(signed) + IF negative THEN 1 ELSE 0) % (2 * half)
      /\ \A n : Wrapped(n) = n % (2 * half)
    BY <1>1, <1>2 DEF Largest, Smallest, Limit, Wrapped
<1>4. limit = Largest(signed) + IF negative THEN 1 ELSE 0
    <2>1. (Largest(signed) + IF negative THEN 1 ELSE 0) \in 0 .. 2 * half - 1
        BY <1>2, <1>3
    <2>2. \A n \in 0 .. 2 * half - 1 : n % (2 * half) = n
        BY <1>2
    <2> QED
        BY <1>3, <2>1, <2>2
<1>5. \A digit \in Digit : digit \in 0 .. half - 1
    BY <1>1, ConversionAssumption
<1>6. limit \in Nat /\ limit < 2 * half /\ half - 1 <= limit
    BY <1>2, <1>3, <1>4
<1>7. \A n \in 0 .. limit : Wrapped(n) = n
    BY <1>2, <1>3, <1>6
<1> QED
    BY <1>2, <1>3, <1>4, <1>5, <1>6, <1>7

-----------------------------------------------------------------------------
(* The loop over the digits.                                               *)

Results == [magnitude : Nat, overflow : BOOLEAN]

NextMagnitude(before, digit, limit, base) ==
    IF before.overflow \/ before.magnitude > Wrapped((limit - digit) \div base)
    THEN [before EXCEPT !.overflow = TRUE]
    ELSE [before EXCEPT !.magnitude = Wrapped(@ * base + digit)]

IsAfter(after, digits_begin, cursor, limit, base) ==
    after = [k \in digits_begin .. cursor |->
                IF k = digits_begin THEN [magnitude |-> 0, overflow |-> FALSE]
                ELSE NextMagnitude(after[k - 1], buffer[k - 1], limit, base)]

\* What one digit does: the test divides so that the product cannot wrap around.
LEMMA MagnitudeStep ==
    ASSUME NEW limit \in Nat, NEW base \in Nat \ {0}, NEW digit \in 0 .. limit,
           \A n \in 0 .. limit : Wrapped(n) = n,
           NEW before \in Results, NEW value \in Nat,
           before.overflow <=> value > limit,
           ~ before.overflow => before.magnitude = value,
           NEW next, next = NextMagnitude(before, digit, limit, base)
    PROVE  /\ next \in Results
           /\ value * base + digit \in Nat
           /\ next.overflow <=> value * base + digit > limit
           /\ ~ next.overflow => next.magnitude = value * base + digit
<1>1. value * base + digit \in Nat /\ value * base + digit >= value
    OBVIOUS
<1>2. (limit - digit) \div base \in 0 .. limit
    <2>1. \A n \in Nat : n \div base \in 0 .. n
        OBVIOUS
    <2>2. limit - digit \in Nat /\ limit - digit <= limit
        OBVIOUS
    <2>3. (limit - digit) \div base \in 0 .. limit - digit
        BY <2>1, <2>2
    <2> QED
        BY <2>2, <2>3
<1>3. value > (limit - digit) \div base <=> value * base + digit > limit
    OBVIOUS
<1>4. Wrapped((limit - digit) \div base) = (limit - digit) \div base
    BY <1>2
<1>5. CASE before.overflow
    <2>1. next = [before EXCEPT !.overflow = TRUE]
        BY <1>5 DEF NextMagnitude
    <2>2. value * base + digit > limit
        BY <1>1, <1>5
    <2>3. next \in Results /\ next.overflow
        BY <2>1 DEF Results
    <2> QED
        BY <1>1, <2>2, <2>3
<1>6. CASE ~ before.overflow /\ value * base + digit > limit
    <2>1. next = [before EXCEPT !.overflow = TRUE]
        BY <1>3, <1>4, <1>6 DEF NextMagnitude
    <2> QED
        BY <1>1, <1>6, <2>1 DEF Results
<1>7. CASE ~ before.overflow /\ ~ (value * base + digit > limit)
    <2>1. next = [before EXCEPT !.magnitude = Wrapped(before.magnitude * base + digit)]
        BY <1>3, <1>4, <1>7 DEF NextMagnitude
    <2>2. Wrapped(value * base + digit) = value * base + digit
        BY <1>1, <1>7
    <2> QED
        BY <1>1, <1>7, <2>1, <2>2 DEF Results
<1> QED
    BY <1>5, <1>6, <1>7

\* Values of the first digits, one after the other.
Accumulates(value, digits_begin, cursor, base) ==
    /\ value[0] = 0
    /\ \A n \in 0 .. cursor - digits_begin - 1 :
          value[n + 1] = value[n] * base + buffer[digits_begin + n]

DigitsFit(digits_begin, cursor, limit) ==
    /\ \A n \in 0 .. limit : Wrapped(n) = n
    /\ \A k \in digits_begin .. cursor - 1 : buffer[k] \in 0 .. limit

\* So the loop has the value of the digits, unless that is more than the limit.
LEMMA MagnitudeIs ==
    ASSUME NEW limit \in Nat, NEW base \in Nat \ {0},
           NEW digits_begin \in Nat, NEW cursor \in Nat, digits_begin <= cursor,
           DigitsFit(digits_begin, cursor, limit),
           NEW value, Accumulates(value, digits_begin, cursor, base),
           NEW result, result = Magnitude(digits_begin, cursor, limit, base)
    PROVE  /\ value[cursor - digits_begin] \in Nat
           /\ result.overflow <=> value[cursor - digits_begin] > limit
           /\ ~ result.overflow => result.magnitude = value[cursor - digits_begin]
<1> DEFINE first == [magnitude |-> 0, overflow |-> FALSE]
<1>1. first \in Results
    BY DEF Results
<1>2. ASSUME NEW digit \in 0 .. limit, NEW before \in Results
      PROVE  NextMagnitude(before, digit, limit, base) \in Results
    <2>1. \A n \in Int : Wrapped(n) \in Nat
        BY Powers DEF Wrapped
    <2>2. before.magnitude * base + digit \in Int
        BY DEF Results
    <2> QED
        BY <2>1, <2>2 DEF NextMagnitude, Results
<1>3. \E after : IsAfter(after, digits_begin, cursor, limit, base)
    <2> DEFINE step == [k \in digits_begin + 1 .. cursor |->
                          [before \in Results |->
                              NextMagnitude(before, buffer[k - 1], limit, base)]]
    <2>1. \A k \in digits_begin + 1 .. cursor : buffer[k - 1] \in 0 .. limit
        <3> TAKE k \in digits_begin + 1 .. cursor
        <3>1. k - 1 \in digits_begin .. cursor - 1
            OBVIOUS
        <3> QED
            BY <3>1 DEF DigitsFit
    <2>2. step \in [digits_begin + 1 .. cursor -> [Results -> Results]]
        BY <1>2, <2>1
    <2>3. \A k \in digits_begin + 1 .. cursor : \A before \in Results :
             step[k][before] = NextMagnitude(before, buffer[k - 1], limit, base)
        OBVIOUS
    <2> HIDE DEF step, first
    <2>4. PICK after \in [digits_begin .. cursor -> Results] :
             IsSteps(after, step, first, digits_begin, cursor)
        BY <1>1, <2>2, StepsExist
    <2>5. ASSUME NEW k \in digits_begin .. cursor
          PROVE  (IF k = digits_begin THEN first ELSE step[k][after[k - 1]])
                    = IF k = digits_begin THEN first
                      ELSE NextMagnitude(after[k - 1], buffer[k - 1], limit, base)
        <3>1. k # digits_begin =>
                 k \in digits_begin + 1 .. cursor /\ k - 1 \in digits_begin .. cursor
            OBVIOUS
        <3> QED
            BY <2>3, <3>1
    <2>6. [k \in digits_begin .. cursor |->
             IF k = digits_begin THEN first ELSE step[k][after[k - 1]]]
            = [k \in digits_begin .. cursor |->
                 IF k = digits_begin THEN first
                 ELSE NextMagnitude(after[k - 1], buffer[k - 1], limit, base)]
        BY <2>5, Zenon
    <2> QED
        BY <2>4, <2>6, Zenon DEF IsSteps, IsAfter, first
<1>4. PICK after : after = CHOOSE f : IsAfter(f, digits_begin, cursor, limit, base)
    OBVIOUS
<1>5. IsAfter(after, digits_begin, cursor, limit, base)
    BY <1>3, <1>4, Zenon
<1>6. result = after[cursor]
    BY <1>4, Zenon DEF Magnitude, IsAfter, NextMagnitude
<1>7. \A k \in digits_begin .. cursor :
         after[k] = IF k = digits_begin THEN first
                    ELSE NextMagnitude(after[k - 1], buffer[k - 1], limit, base)
    BY <1>5, Zenon DEF IsAfter
<1> DEFINE Agrees(k) ==
              /\ after[k] \in Results /\ value[k - digits_begin] \in Nat
              /\ after[k].overflow <=> value[k - digits_begin] > limit
              /\ ~ after[k].overflow => after[k].magnitude = value[k - digits_begin]
           Good == {k \in digits_begin .. cursor : Agrees(k)}
<1>8. digits_begin \in Good
    <2>1. digits_begin \in digits_begin .. cursor /\ digits_begin - digits_begin = 0
        OBVIOUS
    <2>2. after[digits_begin] = first
        BY <1>7, <2>1
    <2> QED
        BY <1>1, <2>1, <2>2 DEF Accumulates
<1>9. ASSUME NEW k \in digits_begin .. cursor - 1, k \in Good PROVE k + 1 \in Good
    <2>1. /\ k + 1 \in digits_begin .. cursor /\ k + 1 # digits_begin /\ (k + 1) - 1 = k
          /\ k - digits_begin \in 0 .. cursor - digits_begin - 1
          /\ (k + 1) - digits_begin = (k - digits_begin) + 1
          /\ digits_begin + (k - digits_begin) = k
        OBVIOUS
    <2>2. after[k + 1] = NextMagnitude(after[k], buffer[k], limit, base)
        BY <1>7, <2>1
    <2>3. value[(k + 1) - digits_begin] = value[k - digits_begin] * base + buffer[k]
        BY <2>1 DEF Accumulates
    <2>4. buffer[k] \in 0 .. limit /\ \A n \in 0 .. limit : Wrapped(n) = n
        BY DEF DigitsFit
    <2>5. Agrees(k)
        BY <1>9
    <2>6. /\ after[k + 1] \in Results
          /\ value[k - digits_begin] * base + buffer[k] \in Nat
          /\ after[k + 1].overflow <=> value[k - digits_begin] * base + buffer[k] > limit
          /\ ~ after[k + 1].overflow =>
                after[k + 1].magnitude = value[k - digits_begin] * base + buffer[k]
        BY <2>2, <2>4, <2>5, MagnitudeStep
    <2> QED
        BY <2>1, <2>3, <2>6
<1>10. \A k \in digits_begin .. cursor : k \in Good
    <2> HIDE DEF Good
    <2> QED
        BY <1>8, <1>9, Upwards
<1>11. Agrees(cursor)
    <2>1. cursor \in digits_begin .. cursor
        OBVIOUS
    <2> QED
        BY <1>10, <2>1
<1> QED
    BY <1>6, <1>11

-----------------------------------------------------------------------------
(* A text and what it says.                                                *)

IsValue(value, text, sign, base, digits) ==
    value = [n \in 0 .. digits |-> IF n = 0 THEN 0 ELSE value[n - 1] * base + text[sign + n]]

\* Its digits have a value.
LEMMA ValueExists ==
    ASSUME NEW text, NEW sign \in Nat, NEW base \in Nat, NEW digits \in Nat,
           \A n \in 1 .. digits : text[sign + n] \in Nat
    PROVE  \E value : IsValue(value, text, sign, base, digits)
<1> DEFINE Following(n, x) == x * base + text[sign + n]
           step == [n \in 0 + 1 .. digits |-> [x \in Nat |-> Following(n, x)]]
<1>1. step \in [0 + 1 .. digits -> [Nat -> Nat]] /\ 0 \in Nat /\ 0 <= digits
    <2>1. ASSUME NEW n \in 0 + 1 .. digits, NEW x \in Nat PROVE Following(n, x) \in Nat
        <3>1. PICK digit \in Nat : digit = text[sign + n]
            OBVIOUS
        <3>2. \A y, z \in Nat : y * z \in Nat
            OBVIOUS
        <3>3. x * base \in Nat
            BY <3>2
        <3> QED
            BY <3>1, <3>3
    <2> HIDE DEF Following
    <2> QED
        BY <2>1
<1>2. \A n \in 1 .. digits : \A x \in Nat : step[n][x] = x * base + text[sign + n]
    <2>1. \A n \in 1 .. digits : n \in 0 + 1 .. digits
        OBVIOUS
    <2>2. \A n \in 0 + 1 .. digits : \A x \in Nat : step[n][x] = Following(n, x)
        <3> HIDE DEF Following
        <3> QED
            OBVIOUS
    <2> HIDE DEF step
    <2> QED
        BY <2>1, <2>2, Zenon
<1> HIDE DEF step
<1>3. PICK value \in [0 .. digits -> Nat] : IsSteps(value, step, 0, 0, digits)
    BY <1>1, StepsExist
<1>4. ASSUME NEW n \in 0 .. digits
      PROVE  (IF n = 0 THEN 0 ELSE step[n][value[n - 1]])
                = IF n = 0 THEN 0 ELSE value[n - 1] * base + text[sign + n]
    <2>1. n # 0 => n \in 1 .. digits /\ n - 1 \in 0 .. digits
        OBVIOUS
    <2> QED
        BY <1>2, <2>1
<1>5. [n \in 0 .. digits |-> IF n = 0 THEN 0 ELSE step[n][value[n - 1]]]
        = [n \in 0 .. digits |-> IF n = 0 THEN 0 ELSE value[n - 1] * base + text[sign + n]]
    BY <1>4, Zenon
<1> QED
    BY <1>3, <1>5, Zenon DEF IsSteps, IsValue

SignOf(text, signed) == IF signed /\ text # <<>> /\ Head(text) = Minus THEN 1 ELSE 0

DigitsOf(text, sign, base) ==
    {n \in 0 .. Len(text) - sign : \A k \in 1 .. n : IsDigit(text[sign + k], base)}

\* What a text says, by the number of its digits and their values.
LEMMA SaidIs ==
    ASSUME NEW text, NEW signed, NEW base \in Nat,
           NEW sign, sign = SignOf(text, signed),
           NEW digits, digits = Max(DigitsOf(text, sign, base)),
           digits \in Nat, \A n \in 1 .. digits : text[sign + n] \in Nat
    PROVE  \E value :
              /\ value[0] = 0
              /\ \A n \in 0 .. digits - 1 : value[n + 1] = value[n] * base + text[sign + (n + 1)]
              /\ Said(text, signed, base) =
                    LET number == IF sign = 1 THEN - value[digits] ELSE value[digits]
                    IN  IF digits = 0 THEN Failure("invalid_argument", 0)
                        ELSE IF number \notin Smallest(signed) .. Largest(signed)
                        THEN Failure("result_out_of_range", sign + digits)
                        ELSE IF sign + digits # Len(text)
                        THEN Failure("trailing_characters", sign + digits)
                        ELSE Converted(number)
<1>1. sign \in Nat
    BY DEF SignOf
<1>2. PICK value : value = CHOOSE f : IsValue(f, text, sign, base, digits)
    OBVIOUS
<1>3. IsValue(value, text, sign, base, digits)
    BY <1>1, <1>2, ValueExists, Zenon
<1>4. \A n \in 0 .. digits :
         value[n] = IF n = 0 THEN 0 ELSE value[n - 1] * base + text[sign + n]
    BY <1>3, Zenon DEF IsValue
<1>5. value[0] = 0
    BY <1>4
<1>6. \A n \in 0 .. digits - 1 : value[n + 1] = value[n] * base + text[sign + (n + 1)]
    <2> TAKE n \in 0 .. digits - 1
    <2>1. n + 1 \in 0 .. digits /\ n + 1 # 0 /\ (n + 1) - 1 = n
        OBVIOUS
    <2> QED
        BY <1>4, <2>1
<1>7. Said(text, signed, base) =
        LET number == IF sign = 1 THEN - value[digits] ELSE value[digits]
        IN  IF digits = 0 THEN Failure("invalid_argument", 0)
            ELSE IF number \notin Smallest(signed) .. Largest(signed)
            THEN Failure("result_out_of_range", sign + digits)
            ELSE IF sign + digits # Len(text)
            THEN Failure("trailing_characters", sign + digits)
            ELSE Converted(number)
    <2> DEFINE s == SignOf(text, signed)
               d == Max(DigitsOf(text, s, base))
               val == CHOOSE f : IsValue(f, text, s, base, d)
    <2>1. Said(text, signed, base) =
            IF d = 0 THEN Failure("invalid_argument", 0)
            ELSE IF (IF s = 1 THEN - val[d] ELSE val[d]) \notin Smallest(signed) .. Largest(signed)
            THEN Failure("result_out_of_range", s + d)
            ELSE IF s + d # Len(text)
            THEN Failure("trailing_characters", s + d)
            ELSE Converted(IF s = 1 THEN - val[d] ELSE val[d])
        BY Zenon DEF Said, SignOf, DigitsOf, IsValue
    <2>2. s = sign
        OBVIOUS
    <2>3. d = digits
        BY <2>2, Zenon
    <2>4. val = value
        BY <1>2, <2>2, <2>3, Zenon
    <2> HIDE DEF s, d, val
    <2> QED
        BY <2>1, <2>2, <2>3, <2>4, Zenon
<1> QED
    BY <1>5, <1>6, <1>7, Zenon

\* The conversion of a range of the source is what its bytes say.
LEMMA ConversionSays ==
    ASSUME Typed, NEW first \in 0 .. buffer_size, NEW last \in first .. buffer_size,
           NEW signed \in BOOLEAN, NEW base \in Bases
    PROVE  ParseIntegerFallback(first, last, signed, base) =
              Said(Slice(first, last), signed, base)
<1>1. /\ first \in Nat /\ last \in Nat /\ first <= last /\ last - first \in Nat
      /\ base \in Nat \ {0} /\ Digit \subseteq Nat
    BY ConversionAssumption, Limits DEF Typed
<1>2. PICK text : text = Slice(first, last)
    OBVIOUS
<1>3. /\ text \in Seq(Byte) /\ Len(text) = last - first
      /\ \A n \in 1 .. last - first : text[n] = buffer[first + n - 1]
    BY <1>2, SliceIsText
<1>4. PICK negative \in BOOLEAN :
         negative = (signed /\ first < last /\ buffer[first] = Minus)
    OBVIOUS
<1>5. PICK sign \in {0, 1} : sign = IF negative THEN 1 ELSE 0
    OBVIOUS
<1>6. sign = SignOf(text, signed) /\ first + sign \in first .. last
    <2>1. text # <<>> <=> first < last
        BY <1>1, <1>3
    <2>2. first < last => Head(text) = buffer[first]
        <3> SUFFICES ASSUME first < last PROVE Head(text) = buffer[first]
            OBVIOUS
        <3>1. Head(text) = text[1] /\ 1 \in 1 .. last - first /\ first + 1 - 1 = first
            BY <1>1, <1>3
        <3> QED
            BY <1>3, <3>1
    <2>3. (signed /\ text # <<>> /\ Head(text) = Minus) <=> negative
        BY <1>4, <2>1, <2>2, Zenon
    <2>4. sign = SignOf(text, signed)
        BY <1>5, <2>3, Zenon DEF SignOf
    <2>5. negative => first < last
        BY <1>4
    <2>6. first + sign \in first .. last
        BY <1>1, <1>5, <2>5
    <2> QED
        BY <2>4, <2>6
<1>7. PICK limit : limit = Limit(negative, signed)
    OBVIOUS
<1>8. /\ limit \in Nat
      /\ ~ negative => limit = Largest(signed)
      /\ negative => limit = - Smallest(signed)
      /\ Smallest(signed) \in Int /\ Smallest(signed) <= 0
      /\ Largest(signed) \in Int /\ 0 <= Largest(signed)
      /\ \A digit \in Digit : digit \in 0 .. limit
      /\ \A n \in 0 .. limit : Wrapped(n) = n
    BY <1>4, <1>7, Limits
<1>9. PICK digits_begin : digits_begin = first + sign
    OBVIOUS
<1>10. digits_begin \in first .. last /\ digits_begin \in Nat
    BY <1>1, <1>6, <1>9
<1> DEFINE stops == {k \in digits_begin .. last - 1 : ~ IsDigit(buffer[k], base)} \cup {last}
<1>11. PICK cursor : cursor = Min(stops)
    OBVIOUS
<1>12. /\ cursor \in digits_begin .. last
       /\ \A k \in digits_begin .. cursor - 1 : IsDigit(buffer[k], base)
       /\ cursor # last => ~ IsDigit(buffer[cursor], base)
    <2>1. stops \in SUBSET (digits_begin .. last) /\ stops # {}
        BY <1>1, <1>10
    <2>2. cursor \in stops /\ \A k \in stops : cursor <= k
        <3> HIDE DEF stops
        <3> QED
            BY <1>1, <1>10, <1>11, <2>1, ExtremesExist
    <2> QED
        BY <1>1, <1>10, <2>2
<1>13. PICK digits : digits = cursor - digits_begin
    OBVIOUS
<1>14. /\ digits \in Nat /\ cursor \in Nat
       /\ \A n \in 1 .. last - digits_begin : text[sign + n] = buffer[digits_begin + n - 1]
    <2>1. digits \in Nat /\ cursor \in Nat
        BY <1>1, <1>10, <1>12, <1>13
    <2>2. ASSUME NEW n \in 1 .. last - digits_begin
          PROVE  text[sign + n] = buffer[digits_begin + n - 1]
        <3>1. sign + n \in 1 .. last - first /\ first + (sign + n) - 1 = digits_begin + n - 1
            BY <1>1, <1>9, <1>10
        <3> QED
            BY <1>3, <3>1
    <2> QED
        BY <2>1, <2>2
<1>15. digits = Max(DigitsOf(text, sign, base))
    <2> DEFINE counts == DigitsOf(text, sign, base)
    <2>1. counts \in SUBSET (0 .. last - first)
        BY <1>1, <1>3 DEF DigitsOf
    <2>2. digits \in counts
        <3>1. digits \in 0 .. Len(text) - sign
            BY <1>1, <1>3, <1>9, <1>10, <1>12, <1>13, <1>14
        <3>2. ASSUME NEW k \in 1 .. digits PROVE IsDigit(text[sign + k], base)
            <4>1. k \in 1 .. last - digits_begin /\ digits_begin + k - 1 \in digits_begin .. cursor - 1
                BY <1>1, <1>10, <1>12, <1>13
            <4> QED
                BY <1>12, <1>14, <4>1
        <3> QED
            BY <3>1, <3>2 DEF DigitsOf
    <2>3. ASSUME NEW n \in counts PROVE n <= digits
        <3>1. /\ n \in 0 .. (last - first) - sign
              /\ \A k \in 1 .. n : IsDigit(text[sign + k], base)
            BY <1>3 DEF DigitsOf
        <3> SUFFICES ASSUME n > digits PROVE FALSE
            BY <1>14, <3>1
        <3>2. /\ digits + 1 \in 1 .. n /\ digits + 1 \in 1 .. last - digits_begin
              /\ digits_begin + (digits + 1) - 1 = cursor /\ cursor # last
            BY <1>1, <1>9, <1>10, <1>12, <1>13, <1>14, <3>1
        <3>3. text[sign + (digits + 1)] = buffer[cursor]
            BY <1>14, <3>2
        <3> QED
            BY <1>12, <3>1, <3>2, <3>3
    <2>4. Max(counts) \in counts /\ \A k \in counts : k <= Max(counts)
        <3>1. counts # {} /\ last - first \in Nat /\ 0 \in Nat
            BY <1>1, <2>2
        <3> HIDE DEF counts
        <3> QED
            BY <2>1, <3>1, ExtremesExist
    <2>5. Max(counts) \in Int
        BY <2>1, <2>4
    <2> HIDE DEF counts
    <2>6. Max(counts) <= digits /\ digits <= Max(counts)
        BY <2>2, <2>3, <2>4
    <2> QED
        BY <1>14, <2>5, <2>6 DEF counts
<1>16. \A n \in 1 .. digits : text[sign + n] \in Nat
    <2> TAKE n \in 1 .. digits
    <2>1. n \in 1 .. last - digits_begin /\ digits_begin + n - 1 \in digits_begin .. cursor - 1
        BY <1>1, <1>10, <1>12, <1>13
    <2> QED
        BY <1>1, <1>12, <1>14, <2>1 DEF IsDigit
<1>17. PICK value :
          /\ value[0] = 0
          /\ \A n \in 0 .. digits - 1 : value[n + 1] = value[n] * base + text[sign + (n + 1)]
          /\ Said(text, signed, base) =
                LET number == IF sign = 1 THEN - value[digits] ELSE value[digits]
                IN  IF digits = 0 THEN Failure("invalid_argument", 0)
                    ELSE IF number \notin Smallest(signed) .. Largest(signed)
                    THEN Failure("result_out_of_range", sign + digits)
                    ELSE IF sign + digits # Len(text)
                    THEN Failure("trailing_characters", sign + digits)
                    ELSE Converted(number)
    BY <1>1, <1>6, <1>14, <1>15, <1>16, SaidIs
<1>18. PICK result : result = Magnitude(digits_begin, cursor, limit, base)
    OBVIOUS
<1>19. /\ value[digits] \in Nat
       /\ result.overflow <=> value[digits] > limit
       /\ ~ result.overflow => result.magnitude = value[digits]
    <2>1. \A n \in 0 .. cursor - digits_begin - 1 :
             value[n + 1] = value[n] * base + buffer[digits_begin + n]
        <3> TAKE n \in 0 .. cursor - digits_begin - 1
        <3>1. /\ n \in 0 .. digits - 1
              /\ n + 1 \in 1 .. last - digits_begin
              /\ digits_begin + (n + 1) - 1 = digits_begin + n
            BY <1>1, <1>10, <1>12, <1>13
        <3>2. text[sign + (n + 1)] = buffer[digits_begin + n]
            BY <1>14, <3>1
        <3> QED
            BY <1>17, <3>1, <3>2
    <2>2. \A k \in digits_begin .. cursor - 1 : buffer[k] \in 0 .. limit
        BY <1>8, <1>12 DEF IsDigit
    <2>3. digits_begin <= cursor
        BY <1>1, <1>10, <1>12
    <2> QED
        <3>1. Accumulates(value, digits_begin, cursor, base)
            BY <1>17, <2>1 DEF Accumulates
        <3>2. /\ value[cursor - digits_begin] \in Nat
              /\ result.overflow <=> value[cursor - digits_begin] > limit
              /\ ~ result.overflow => result.magnitude = value[cursor - digits_begin]
            <4>1. /\ limit \in Nat /\ base \in Nat \ {0}
                  /\ digits_begin \in Nat /\ cursor \in Nat
                BY <1>1, <1>8, <1>10, <1>14
            <4>2. DigitsFit(digits_begin, cursor, limit)
                BY <1>8, <2>2 DEF DigitsFit
            <4> QED
                BY <1>18, <2>3, <3>1, <4>1, <4>2, MagnitudeIs
        <3> QED
            BY <1>13, <3>2
<1>20. PICK v \in Nat : v = value[digits]
    BY <1>19
<1>21. Said(text, signed, base) =
          IF digits = 0 THEN Failure("invalid_argument", 0)
          ELSE IF (IF sign = 1 THEN - v ELSE v) \notin Smallest(signed) .. Largest(signed)
          THEN Failure("result_out_of_range", sign + digits)
          ELSE IF sign + digits # Len(text)
          THEN Failure("trailing_characters", sign + digits)
          ELSE Converted(IF sign = 1 THEN - v ELSE v)
    BY <1>17, <1>20, Zenon
<1>22. ParseIntegerFallback(first, last, signed, base) =
          CASE cursor = digits_begin -> Failure("invalid_argument", 0)
            [] cursor # digits_begin /\ result.overflow ->
                  Failure("result_out_of_range", cursor - first)
            [] cursor # digits_begin /\ ~ result.overflow /\ cursor # last ->
                  Failure("trailing_characters", cursor - first)
            [] cursor # digits_begin /\ ~ result.overflow /\ cursor = last ->
                  Converted(IF ~ negative THEN result.magnitude
                            ELSE IF result.magnitude = limit THEN Smallest(signed)
                            ELSE - result.magnitude)
    <2>1. digits_begin = IF negative THEN first + 1 ELSE first
        BY <1>1, <1>5, <1>9
    <2> QED
        BY <1>4, <1>7, <1>11, <1>18, <2>1, Zenon DEF ParseIntegerFallback
<1>23. /\ cursor = digits_begin <=> digits = 0
       /\ cursor - first = sign + digits
       /\ cursor = last <=> sign + digits = Len(text)
       /\ result.overflow <=>
             (IF sign = 1 THEN - v ELSE v) \notin Smallest(signed) .. Largest(signed)
    <2>1. /\ cursor = digits_begin <=> digits = 0
          /\ cursor - first = sign + digits
          /\ cursor = last <=> sign + digits = Len(text)
        <3>1. cursor \in Nat /\ digits_begin \in Nat
            BY <1>10, <1>14
        <3>2. sign \in Nat /\ Len(text) = last - first
            BY <1>3, <1>5
        <3>3. cursor = digits_begin <=> digits = 0
            BY <1>13, <3>1
        <3>4. cursor - first = sign + digits
            BY <1>1, <1>9, <1>13, <3>1, <3>2
        <3>5. cursor = last <=> cursor - first = last - first
            BY <1>1, <3>1
        <3> QED
            BY <3>2, <3>3, <3>4, <3>5
    <2>2. v > limit <=>
             (IF sign = 1 THEN - v ELSE v) \notin Smallest(signed) .. Largest(signed)
        BY <1>5, <1>8
    <2> QED
        BY <1>19, <1>20, <2>1, <2>2
<1>24. ~ result.overflow =>
          (IF ~ negative THEN result.magnitude
           ELSE IF result.magnitude = limit THEN Smallest(signed)
           ELSE - result.magnitude) = IF sign = 1 THEN - v ELSE v
    BY <1>5, <1>8, <1>19, <1>20
<1> QED
    BY <1>2, <1>21, <1>22, <1>23, <1>24

\* What has a number in it is made of a sign and digits.
LEMMA NumbersAreDigits ==
    ASSUME NEW text \in Seq(Byte), NEW signed \in BOOLEAN, NEW base \in Bases,
           Said(text, signed, base).code = "none"
    PROVE  Len(text) # 0 /\ \A n \in 1 .. Len(text) : text[n] \in Digit \cup {Minus}
<1>1. base \in Nat /\ Digit \subseteq Nat
    BY ConversionAssumption, Limits
<1>2. PICK sign : sign = SignOf(text, signed)
    OBVIOUS
<1>3. PICK size : size = Len(text)
    OBVIOUS
<1>4. size \in Nat /\ sign \in {0, 1} /\ (sign = 1 => size # 0 /\ text[1] = Minus)
    BY <1>2, <1>3 DEF SignOf
<1>5. PICK counts : counts = DigitsOf(text, sign, base)
    OBVIOUS
<1>6. /\ counts \in SUBSET (0 .. size) /\ 0 \in counts
      /\ \A n \in counts : n <= size - sign /\ \A k \in 1 .. n : text[sign + k] \in Digit
    <2>1. 0 \in 0 .. size - sign
        BY <1>4
    <2>2. \A n \in 0 .. size - sign : n \in 0 .. size /\ n <= size - sign
        BY <1>4
    <2>3. \A k \in 1 .. 0 : IsDigit(text[sign + k], base)
        OBVIOUS
    <2> QED
        BY <1>3, <1>5, <2>1, <2>2, <2>3 DEF DigitsOf, IsDigit
<1>7. PICK digits : digits = Max(counts)
    OBVIOUS
<1>8. digits \in counts /\ digits \in Nat
    <2>1. counts # {} /\ 0 \in Nat
        BY <1>6
    <2>2. Max(counts) \in counts
        BY <1>4, <1>6, <2>1, ExtremesExist
    <2>3. \A n \in 0 .. size : n \in Nat
        BY <1>4
    <2>4. digits \in 0 .. size
        BY <1>6, <1>7, <2>2
    <2> QED
        BY <1>7, <2>2, <2>3, <2>4
<1>9. \A n \in 1 .. digits : text[sign + n] \in Nat
    BY <1>1, <1>6, <1>8
<1>10. PICK value :
          Said(text, signed, base) =
             LET number == IF sign = 1 THEN - value[digits] ELSE value[digits]
             IN  IF digits = 0 THEN Failure("invalid_argument", 0)
                 ELSE IF number \notin Smallest(signed) .. Largest(signed)
                 THEN Failure("result_out_of_range", sign + digits)
                 ELSE IF sign + digits # Len(text)
                 THEN Failure("trailing_characters", sign + digits)
                 ELSE Converted(number)
    BY <1>1, <1>2, <1>5, <1>7, <1>8, <1>9, SaidIs
<1>11. digits # 0 /\ sign + digits = size
    <2>1. /\ \A offset : Failure("invalid_argument", offset).code # "none"
          /\ \A offset : Failure("result_out_of_range", offset).code # "none"
          /\ \A offset : Failure("trailing_characters", offset).code # "none"
        BY DEF Failure
    <2> QED
        BY <1>3, <1>10, <2>1, Zenon
<1>12. ASSUME NEW n \in 1 .. size PROVE text[n] \in Digit \cup {Minus}
    <2>1. CASE n <= sign
        <3>1. sign = 1 /\ n = 1
            BY <1>4, <2>1
        <3> QED
            BY <1>4, <3>1
    <2>2. CASE n > sign
        <3>1. n - sign \in 1 .. digits /\ sign + (n - sign) = n
            BY <1>4, <1>8, <1>11, <2>2
        <3>2. text[sign + (n - sign)] \in Digit
            BY <1>6, <1>8, <3>1
        <3> QED
            BY <3>1, <3>2
    <2> QED
        BY <1>4, <2>1, <2>2
<1> QED
    BY <1>3, <1>4, <1>8, <1>11, <1>12

-----------------------------------------------------------------------------
(* A flagged cell has a quote in its content, or nothing.                  *)

HasQuote(text) == \E n \in 1 .. Len(text) : text[n] = QuoteCharacter

\* Of the quotes of a range at least the first one is put out.
LEMMA FoldedKeepsQuotes ==
    ASSUME Typed, NEW first \in 0 .. buffer_size, NEW last \in first .. buffer_size,
           NEW quote \in first .. last - 1, IsQuote(quote)
    PROVE  HasQuote(Folded(first, last))
<1>0. /\ first \in Nat /\ last \in Nat /\ first <= last /\ last <= buffer_size
      /\ buffer_size \in Nat
    BY DEF Typed
<1> DEFINE Good == {k \in first .. last :
                      (\E m \in k .. last - 1 : IsQuote(m)) => HasQuote(Folded(k, last))}
<1>1. last \in Good
    BY <1>0
<1>2. ASSUME NEW k \in first .. last - 1, \A m \in k + 1 .. last : m \in Good
      PROVE  k \in Good
    <2>1. /\ k \in Nat /\ k < last /\ k \in first .. last
          /\ k + 1 \in 0 .. buffer_size /\ last \in k + 1 .. buffer_size
          /\ k + 1 \in k + 1 .. last
          /\ k + 2 \in 0 .. buffer_size + 1
        BY <1>0
    <2> SUFFICES ASSUME NEW m \in k .. last - 1, IsQuote(m)
                 PROVE  HasQuote(Folded(k, last))
        BY <2>1
    <2>2. PICK next : next = Further(k, last)
        OBVIOUS
    <2>3. next \in 0 .. buffer_size /\ last \in next .. buffer_size
        BY <1>0, <2>1, <2>2 DEF Further, Pair
    <2>4. PICK rest : rest = Folded(next, last)
        OBVIOUS
    <2>5. rest \in Seq(Byte)
        BY <2>3, <2>4, FoldedIsText
    <2>6. Folded(k, last) = <<buffer[k]>> \o rest
        BY <1>0, <2>1, <2>2, <2>4, FoldedStep
    <2>7. /\ Len(<<buffer[k]>> \o rest) = Len(rest) + 1
          /\ (<<buffer[k]>> \o rest)[1] = buffer[k]
          /\ \A n \in 1 .. Len(rest) : (<<buffer[k]>> \o rest)[n + 1] = rest[n]
        BY <2>5
    <2>8. Len(rest) \in Nat
        BY <2>5
    <2>9. CASE IsQuote(k)
        <3>1. 1 \in 1 .. Len(rest) + 1
            BY <2>8
        <3> QED
            BY <2>6, <2>7, <2>9, <3>1 DEF HasQuote, IsQuote
    <2>10. CASE ~ IsQuote(k)
        <3>1. m # k
            BY <2>10
        <3>2. next = k + 1 /\ m \in k + 1 .. last - 1
            BY <2>1, <2>2, <2>10, <3>1 DEF Further, Pair
        <3>3. HasQuote(rest)
            BY <1>2, <2>1, <2>4, <3>2
        <3>4. PICK n \in 1 .. Len(rest) : rest[n] = QuoteCharacter
            BY <3>3 DEF HasQuote
        <3>5. n + 1 \in 1 .. Len(rest) + 1
            BY <2>8
        <3> QED
            BY <2>6, <2>7, <3>4, <3>5 DEF HasQuote
    <2> QED
        BY <2>9, <2>10
<1>3. \A k \in first .. last : k \in Good
    <2> HIDE DEF Good
    <2> QED
        BY <1>0, <1>1, <1>2, Downwards
<1>4. first \in first .. last
    BY <1>0
<1> QED
    BY <1>3, <1>4

\* Content bounds lie within the cell.
LEMMA ContentWithin ==
    ASSUME NEW cell, NEW trimmed, cell.content_end \in Nat, cell.start \in 0 .. cell.content_end
    PROVE  /\ ContentBounds(cell, trimmed).first \in cell.start .. cell.content_end
           /\ ContentBounds(cell, trimmed).last
                 \in ContentBounds(cell, trimmed).first .. cell.content_end
<1>1. PICK trim : trim = Trim(trimmed, cell.start, cell.content_end)
    OBVIOUS
<1>2. trim.first \in cell.start .. cell.content_end /\ trim.last \in trim.first .. cell.content_end
    BY <1>1, TrimWithin
<1>3. PICK content : content = ContentBounds(cell, trimmed)
    OBVIOUS
<1>4. \/ content = trim
      \/ /\ trim.last - trim.first >= 2
         /\ content = [first |-> trim.first + 1, last |-> trim.last - 1]
    BY <1>1, <1>3 DEF ContentBounds
<1>5. content.first \in cell.start .. cell.content_end
      /\ content.last \in content.first .. cell.content_end
    BY <1>2, <1>4
<1> QED
    BY <1>3, <1>5

\* No number is said by a cell in which two quotes are adjacent, when the quotes
\* are not trimmed: one of the two is left in its content, or nothing is.
LEMMA FlaggedSaysNothing ==
    ASSUME Typed, NEW cell, NEW trimmed, NEW signed \in BOOLEAN, NEW base \in Bases,
           cell.content_end \in 0 .. buffer_size, cell.start \in 0 .. cell.content_end,
           HasAdjacentQuotes(buffer, cell.start, cell.content_end),
           QuoteCharacter \notin trimmed \cup Digit \cup {Minus}
    PROVE  Said(CopyContentTo(cell, trimmed), signed, base).code # "none"
<1>0. buffer_size \in Nat /\ cell.content_end \in Nat /\ cell.start \in Nat
    BY DEF Typed
<1>1. PICK trim : trim = Trim(trimmed, cell.start, cell.content_end)
    OBVIOUS
<1>2. PICK content : content = ContentBounds(cell, trimmed)
    OBVIOUS
<1>3. /\ content.first \in 0 .. buffer_size /\ content.last \in content.first .. buffer_size
      /\ trim.first \in 0 .. buffer_size /\ trim.last \in 0 .. buffer_size
    <2>1. /\ content.first \in cell.start .. cell.content_end
          /\ content.last \in content.first .. cell.content_end
        BY <1>0, <1>2, ContentWithin
    <2>2. /\ trim.first \in cell.start .. cell.content_end
          /\ trim.last \in trim.first .. cell.content_end
        BY <1>0, <1>1, TrimWithin
    <2> QED
        BY <1>0, <2>1, <2>2
<1>4. PICK quote \in cell.start .. cell.content_end - 2 : IsQuote(quote) /\ IsQuote(quote + 1)
    BY DEF HasAdjacentQuotes, IsQuote
<1>5. quote \in Nat /\ trim.first <= quote /\ quote + 1 < trim.last
    <2> DEFINE kept == {k \in cell.start .. cell.content_end - 1 : buffer[k] \notin trimmed}
    <2>1. quote \in kept /\ quote + 1 \in kept
        BY <1>0, <1>4 DEF IsQuote
    <2>2. kept \in SUBSET (0 .. cell.content_end) /\ kept \subseteq Nat
        BY <1>0
    <2>3. kept # {} => trim = [first |-> Min(kept), last |-> Max(kept) + 1]
        BY <1>1, Zenon DEF Trim
    <2> HIDE DEF kept
    <2>4. /\ Min(kept) \in kept /\ \A k \in kept : Min(kept) <= k
          /\ Max(kept) \in kept /\ \A k \in kept : k <= Max(kept)
        BY <1>0, <2>1, <2>2, ExtremesExist
    <2>5. /\ trim.first = Min(kept) /\ trim.last = Max(kept) + 1
          /\ Min(kept) \in Nat /\ Max(kept) \in Nat
        <3>1. trim = [first |-> Min(kept), last |-> Max(kept) + 1]
            BY <2>1, <2>3
        <3>2. \A k \in kept : k \in Nat
            BY <2>2
        <3> QED
            BY <2>4, <3>1, <3>2
    <2>6. Min(kept) <= quote /\ quote + 1 <= Max(kept) /\ quote \in Nat
        BY <2>1, <2>2, <2>4
    <2> QED
        BY <2>5, <2>6
<1>6. \/ content.first = content.last
      \/ \E k \in content.first .. content.last - 1 : IsQuote(k)
    <2>1. CASE content = trim
        <3>1. quote \in content.first .. content.last - 1
            BY <1>3, <1>5, <2>1
        <3> QED
            BY <1>4, <3>1
    <2>2. CASE content = [first |-> trim.first + 1, last |-> trim.last - 1]
        <3>1. \/ quote \in content.first .. content.last - 1
              \/ quote + 1 \in content.first .. content.last - 1
              \/ content.first = content.last
            BY <1>3, <1>5, <2>2
        <3> QED
            BY <1>4, <3>1
    <2>3. \/ content = trim
          \/ content = [first |-> trim.first + 1, last |-> trim.last - 1]
        BY <1>1, <1>2 DEF ContentBounds
    <2> QED
        BY <2>1, <2>2, <2>3
<1>7. PICK text : text = CopyContentTo(cell, trimmed)
    OBVIOUS
<1>8. text = Folded(content.first, content.last)
    BY <1>2, <1>3, <1>7, DecodeBytesFolds DEF CopyContentTo
<1>9. text \in Seq(Byte)
    BY <1>3, <1>8, FoldedIsText
<1>10. Len(text) = 0 \/ HasQuote(text)
    <2>1. CASE content.first = content.last
        BY <1>0, <1>3, <1>8, <2>1, FoldedEmpty
    <2>2. CASE \E k \in content.first .. content.last - 1 : IsQuote(k)
        BY <1>3, <1>8, <2>2, FoldedKeepsQuotes
    <2> QED
        BY <1>6, <2>1, <2>2
<1> QED
    BY <1>7, <1>9, <1>10, NumbersAreDigits DEF HasQuote

-----------------------------------------------------------------------------

LEMMA ConversionAgrees == SplitInv => ConvertsTheContent
<1> SUFFICES ASSUME SplitInv, pc = "return",
                    NEW trimmed \in TrimPolicies, NEW signed \in BOOLEAN, NEW base \in Bases,
                    NEW said, said = Said(CopyContentTo(bounds, trimmed), signed, base)
             PROVE  IF bounds.escaped
                    THEN QuoteCharacter \notin trimmed \cup Digit \cup {Minus} =>
                            said.code # "none"
                    ELSE TryParse(bounds, trimmed, signed, base) = said
    BY DEF ConvertsTheContent
<1>1. /\ Typed /\ end \in Nat /\ end <= buffer_size /\ buffer_size \in Nat
      /\ current \in 0 .. end
      /\ bounds = Cell(buffer, end, current)
    BY SizesAssumption DEF SplitInv, SplitSoFar, IInv, TypeOK, FindsTheCell, Typed
<1>2. /\ bounds.start = current
      /\ bounds.content_end \in current .. end
      /\ bounds.escaped = HasAdjacentQuotes(buffer, current, bounds.content_end)
    BY <1>1, CellIsFirst DEF Cell
<1>3. bounds.content_end \in 0 .. buffer_size /\ bounds.start \in 0 .. bounds.content_end
    BY <1>1, <1>2
<1>4. CASE bounds.escaped
    BY <1>1, <1>2, <1>3, <1>4, FlaggedSaysNothing
<1>5. CASE ~ bounds.escaped
    <2>1. PICK content : content = ContentBounds(bounds, trimmed)
        OBVIOUS
    <2>2. /\ content.first \in bounds.start .. bounds.content_end
          /\ content.last \in content.first .. bounds.content_end
        BY <1>1, <1>3, <2>1, ContentWithin
    <2>3. content.first \in 0 .. buffer_size /\ content.last \in content.first .. buffer_size
        BY <1>1, <1>3, <2>2
    <2>4. ~ HasAdjacentQuotes(buffer, content.first, content.last)
        <3>1. content.first .. content.last - 2 \subseteq current .. bounds.content_end - 2
            BY <1>1, <1>2, <2>2
        <3>2. ~ HasAdjacentQuotes(buffer, current, bounds.content_end)
            BY <1>2, <1>5
        <3> QED
            BY <3>1, <3>2, Zenon DEF HasAdjacentQuotes
    <2>5. CopyContentTo(bounds, trimmed) = Slice(content.first, content.last)
        <3>1. CopyContentTo(bounds, trimmed) = DecodeBytes(content.first, content.last)
            BY <2>1 DEF CopyContentTo
        <3>2. DecodeBytes(content.first, content.last) = Folded(content.first, content.last)
            BY <1>1, <2>3, DecodeBytesFolds
        <3> QED
            BY <1>1, <2>3, <2>4, <3>1, <3>2, FoldedUnpaired
    <2>6. TryParse(bounds, trimmed, signed, base)
            = ParseIntegerFallback(content.first, content.last, signed, base)
        BY <1>5, <2>1 DEF TryParse
    <2>7. ParseIntegerFallback(content.first, content.last, signed, base)
            = Said(Slice(content.first, content.last), signed, base)
        BY <1>1, <2>3, ConversionSays
    <2> QED
        BY <1>5, <2>5, <2>6, <2>7
<1> QED
    BY <1>4, <1>5

\* The conversion has the number that the content of the cell says, up to both
\* ends of the type, or its first error: the test before each digit stops the
\* accumulator before it wraps around, in every base and at every width.
THEOREM ContentIsConverted == Spec => []ConvertsTheContent
BY InitSplitInv, NextSplitInv, ConversionAgrees, PTL DEF Spec
=============================================================================
