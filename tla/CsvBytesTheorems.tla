-------------------------- MODULE CsvBytesTheorems --------------------------
(***************************************************************************)
(* Facts about positions, quotes, records and cells that the proofs about  *)
(* the scanners and the decoders rest on.                                  *)
(***************************************************************************)
EXTENDS CsvBytes, SequenceTheorems, FiniteSetTheorems, WellFoundedInduction, TLAPS

\* There are finitely many quotes between two positions.
LEMMA QuotesFinite ==
    ASSUME NEW buffer, NEW from \in Int, NEW to \in Int
    PROVE  /\ IsFiniteSet(QuotesIn(buffer, from, to))
           /\ Cardinality(QuotesIn(buffer, from, to)) \in Nat
<1>1. IsFiniteSet(from .. to - 1)
    BY FS_Interval
<1>2. QuotesIn(buffer, from, to) \subseteq from .. to - 1
    BY DEF QuotesIn
<1> QED
    BY <1>1, <1>2, FS_Subset, FS_CardinalityType

\* No quote is read over an empty stretch, so it is balanced.
LEMMA EmptyIsBalanced ==
    ASSUME NEW buffer, NEW from \in Int, NEW to \in Int,
           \A k \in from .. to - 1 : buffer[k] # QuoteCharacter
    PROVE  Balanced(buffer, from, to)
<1>1. QuotesIn(buffer, from, to) = {}
    BY DEF QuotesIn
<1>2. Cardinality(QuotesIn(buffer, from, to)) = 0
    BY <1>1, FS_EmptySet
<1> QED
    BY <1>2 DEF Balanced

\* A quote toggles the parity and any other byte keeps it.
LEMMA ParityStep ==
    ASSUME NEW buffer, NEW from \in Int, NEW k \in Int, from <= k
    PROVE  /\ buffer[k] = QuoteCharacter =>
                (Balanced(buffer, from, k + 1) <=> ~ Balanced(buffer, from, k))
           /\ buffer[k] # QuoteCharacter =>
                (Balanced(buffer, from, k + 1) <=> Balanced(buffer, from, k))
<1> DEFINE Q == QuotesIn(buffer, from, k)
<1>1. /\ IsFiniteSet(Q)
      /\ Cardinality(Q) \in Nat
    BY QuotesFinite
<1>2. CASE buffer[k] = QuoteCharacter
    <2>1. QuotesIn(buffer, from, k + 1) = Q \cup {k}
        BY <1>2 DEF QuotesIn
    <2>2. k \notin Q
        BY DEF QuotesIn
    <2>3. Cardinality(QuotesIn(buffer, from, k + 1)) = Cardinality(Q) + 1
        BY <1>1, <2>1, <2>2, FS_AddElement
    <2> QED
        BY <1>1, <1>2, <2>3 DEF Balanced
<1>3. CASE buffer[k] # QuoteCharacter
    <2>1. QuotesIn(buffer, from, k + 1) = Q
        BY <1>3 DEF QuotesIn
    <2> QED
        BY <1>3, <2>1 DEF Balanced
<1> QED
    BY <1>2, <1>3

\* The first position that ends a record decides its bounds.
LEMMA RecordEndsAt ==
    ASSUME NEW buffer, NEW size \in Nat, NEW from \in Nat, NEW i \in from .. size - 1,
           EndsRecord(buffer, from, i),
           \A k \in from .. i - 1 : ~ EndsRecord(buffer, from, k)
    PROVE  Record(buffer, size, from) = RecordBounds(buffer, from, i)
<1> DEFINE ends == {k \in from .. size - 1 : EndsRecord(buffer, from, k)}
<1>1. i \in ends /\ \A k \in ends : i <= k
    OBVIOUS
<1>2. Min(ends) \in ends /\ \A k \in ends : Min(ends) <= k
    BY <1>1 DEF Min
<1>3. Min(ends) = i
    BY <1>1, <1>2
<1> HIDE DEF ends
<1>4. ends # {}
    BY <1>1
<1> QED
    BY <1>3, <1>4 DEF Record, ends

\* Where no position ends a record, it is all that is left.
LEMMA RecordIsRest ==
    ASSUME NEW buffer, NEW size \in Nat, NEW from \in Nat,
           \A k \in from .. size - 1 : ~ EndsRecord(buffer, from, k)
    PROVE  Record(buffer, size, from) = RestOfBuffer(size, from)
BY DEF Record

\* The first position that ends a cell decides its end.
LEMMA CellEndsAt ==
    ASSUME NEW buffer, NEW end \in Nat, NEW from \in Nat, NEW i \in from .. end - 1,
           EndsCell(buffer, from, i),
           \A k \in from .. i - 1 : ~ EndsCell(buffer, from, k)
    PROVE  Cell(buffer, end, from) =
             [start |-> from, content_end |-> i,
              escaped |-> HasAdjacentQuotes(buffer, from, i)]
<1> DEFINE ends == {k \in from .. end - 1 : EndsCell(buffer, from, k)}
<1>1. i \in ends /\ \A k \in ends : i <= k
    OBVIOUS
<1>2. Min(ends) \in ends /\ \A k \in ends : Min(ends) <= k
    BY <1>1 DEF Min
<1>3. Min(ends) = i
    BY <1>1, <1>2
<1> HIDE DEF ends
<1>4. ends # {}
    BY <1>1
<1> QED
    BY <1>3, <1>4 DEF Cell, ends

\* Where no position ends a cell, it is all that is left.
LEMMA CellIsRest ==
    ASSUME NEW buffer, NEW end \in Nat, NEW from \in Nat,
           \A k \in from .. end - 1 : ~ EndsCell(buffer, from, k)
    PROVE  Cell(buffer, end, from) =
             [start |-> from, content_end |-> end,
              escaped |-> HasAdjacentQuotes(buffer, from, end)]
BY DEF Cell

\* A stretch with no quote has no two adjacent ones.
LEMMA QuoteFreeIsUnescaped ==
    ASSUME NEW buffer, NEW from \in Int, NEW to \in Int,
           \A k \in from .. to - 1 : buffer[k] # QuoteCharacter
    PROVE  ~ HasAdjacentQuotes(buffer, from, to)
BY DEF HasAdjacentQuotes

\* The parity of two adjacent stretches together.
LEMMA ParityJoins ==
    ASSUME NEW buffer, NEW from \in Int, NEW mid \in Int, NEW to \in Int,
           from <= mid, mid <= to
    PROVE  Balanced(buffer, from, to) <=>
             (Balanced(buffer, from, mid) <=> Balanced(buffer, mid, to))
<1> DEFINE A == QuotesIn(buffer, from, mid)
           B == QuotesIn(buffer, mid, to)
<1>1. /\ IsFiniteSet(A) /\ Cardinality(A) \in Nat
      /\ IsFiniteSet(B) /\ Cardinality(B) \in Nat
    BY QuotesFinite
<1>2. QuotesIn(buffer, from, to) = A \cup B
    BY DEF QuotesIn
<1>3. A \cap B = {}
    BY DEF QuotesIn
<1> HIDE DEF A, B
<1>4. Cardinality(A \cup B) = Cardinality(A) + Cardinality(B)
    <2>1. Cardinality(A \cup B) = Cardinality(A) + Cardinality(B) - Cardinality(A \cap B)
        BY <1>1, FS_Union
    <2>2. Cardinality(A \cap B) = 0
        BY <1>3, FS_EmptySet
    <2> QED
        BY <1>1, <2>1, <2>2
<1>5. (Cardinality(A) + Cardinality(B)) % 2 = 0
        <=> (Cardinality(A) % 2 = 0 <=> Cardinality(B) % 2 = 0)
    BY <1>1
<1> QED
    BY <1>2, <1>4, <1>5 DEF Balanced, A, B

\* So a cell ends where it would if the row were read from its start.
LEMMA CellEndsInRow ==
    ASSUME NEW buffer, NEW from \in Int, NEW mid \in Int, NEW k \in Int,
           from <= mid, mid <= k,
           Balanced(buffer, from, mid)
    PROVE  EndsCell(buffer, from, k) <=> EndsCell(buffer, mid, k)
BY ParityJoins DEF EndsCell

\* A set of positions that is not empty has a first one.
LEMMA LeastExists ==
    ASSUME NEW S \in SUBSET Nat, S # {}
    PROVE  \E m \in S : \A k \in S : m <= k
<1>1. \E m \in S : \A k \in S : ~ (<<k, m>> \in OpToRel(<, Nat))
    BY NatLessThanWellFounded, WFMin
<1>2. \A m, k \in S : ~ (<<k, m>> \in OpToRel(<, Nat)) => m <= k
    BY DEF OpToRel
<1> QED
    BY <1>1, <1>2

\* And one below a bound has a last one.
LEMMA GreatestExists ==
    ASSUME NEW bound \in Nat, NEW S \in SUBSET (0 .. bound), S # {}
    PROVE  \E m \in S : \A k \in S : m >= k
<1> DEFINE T == {d \in 0 .. bound : bound - d \in S}
<1>1. T \in SUBSET Nat
    OBVIOUS
<1>2. T # {}
    <2>1. PICK k \in S : TRUE
        OBVIOUS
    <2>2. bound - k \in 0 .. bound /\ bound - (bound - k) = k
        BY <2>1
    <2> QED
        BY <2>1, <2>2
<1>3. PICK d \in T : \A e \in T : d <= e
    BY <1>1, <1>2, LeastExists
<1>4. \A k \in S : bound - d >= k
    <2> TAKE k \in S
    <2>1. /\ k \in 0 .. bound
          /\ bound - k \in 0 .. bound /\ bound - (bound - k) = k
        OBVIOUS
    <2>2. d <= bound - k
        BY <1>3, <2>1
    <2> QED
        BY <1>3, <2>1, <2>2
<1> QED
    BY <1>3, <1>4

\* The first and the last of some positions.
LEMMA ExtremesExist ==
    ASSUME NEW from \in Nat, NEW end \in Nat, NEW S \in SUBSET (from .. end), S # {}
    PROVE  /\ Min(S) \in S /\ \A k \in S : Min(S) <= k
           /\ Max(S) \in S /\ \A k \in S : k <= Max(S)
<1>1. S \in SUBSET Nat /\ S \in SUBSET (0 .. end)
    OBVIOUS
<1>2. \E m \in S : \A k \in S : m <= k
    BY <1>1, LeastExists
<1>3. \E m \in S : \A k \in S : m >= k
    BY <1>1, GreatestExists
<1>4. Min(S) \in S /\ \A k \in S : Min(S) <= k
    BY <1>2 DEF Min
<1>5. Max(S) \in S /\ \A k \in S : Max(S) >= k
    BY <1>3 DEF Max
<1> QED
    BY <1>1, <1>4, <1>5

\* Positions are taken from the last one downwards.
LEMMA Downwards ==
    ASSUME NEW first \in Nat, NEW last \in Nat, NEW Good, last \in Good,
           \A k \in first .. last - 1 : (\A m \in k + 1 .. last : m \in Good) => k \in Good
    PROVE  \A k \in first .. last : k \in Good
<1> DEFINE Bad == {d \in 0 .. last - first : last - d \notin Good}
<1>1. CASE Bad = {}
    <2> TAKE k \in first .. last
    <2>1. last - k \in 0 .. last - first /\ last - (last - k) = k
        OBVIOUS
    <2>2. \A d \in 0 .. last - first : last - d \in Good
        BY <1>1
    <2>3. last - (last - k) \in Good
        BY <2>1, <2>2
    <2> QED
        BY <2>1, <2>3
<1>2. CASE Bad # {}
    <2>1. Bad \in SUBSET Nat
        OBVIOUS
    <2>2. PICK d \in Bad : \A e \in Bad : d <= e
        BY <1>2, <2>1, LeastExists
    <2>3. /\ d \in 0 .. last - first /\ last - d \notin Good
          /\ \A e \in 0 .. last - first : e < d => last - e \in Good
        BY <2>2
    <2>4. d # 0
        BY <2>3
    <2>5. last - d \in first .. last - 1
        BY <2>3, <2>4
    <2>6. \A m \in (last - d) + 1 .. last : m \in Good
        <3> TAKE m \in (last - d) + 1 .. last
        <3>1. /\ last - m \in 0 .. last - first /\ last - m < d
              /\ last - (last - m) = m
            BY <2>3
        <3> QED
            BY <2>3, <3>1
    <2> QED
        BY <2>3, <2>5, <2>6
<1> QED
    BY <1>1, <1>2

\* Or from the first one upwards.
LEMMA Upwards ==
    ASSUME NEW first \in Nat, NEW last \in Nat, NEW Good, first \in Good,
           \A k \in first .. last - 1 : k \in Good => k + 1 \in Good
    PROVE  \A k \in first .. last : k \in Good
<1> DEFINE Bad == {k \in first .. last : k \notin Good}
<1>1. CASE Bad = {}
    BY <1>1
<1>2. CASE Bad # {}
    <2>1. Bad \in SUBSET Nat
        OBVIOUS
    <2>2. PICK k \in Bad : \A m \in Bad : k <= m
        BY <1>2, <2>1, LeastExists
    <2>3. k # first /\ k - 1 \in first .. last - 1 /\ (k - 1) + 1 = k
        BY <2>2
    <2>4. k - 1 \in Good
        BY <2>2, <2>3
    <2> QED
        BY <2>2, <2>3, <2>4
<1> QED
    BY <1>1, <1>2

\* The definition of a cell ends it at the first position where it can end.
LEMMA CellIsFirst ==
    ASSUME NEW buffer, NEW end \in Nat, NEW from \in 0 .. end
    PROVE  LET cell == Cell(buffer, end, from)
           IN  /\ cell.start = from
               /\ cell.content_end \in from .. end
               /\ cell.content_end < end => EndsCell(buffer, from, cell.content_end)
               /\ \A k \in from .. cell.content_end - 1 : ~ EndsCell(buffer, from, k)
<1> DEFINE ends == {k \in from .. end - 1 : EndsCell(buffer, from, k)}
<1>1. CASE ends = {}
    <2>1. Cell(buffer, end, from).content_end = end /\ Cell(buffer, end, from).start = from
        BY <1>1 DEF Cell
    <2>2. \A k \in from .. end - 1 : ~ EndsCell(buffer, from, k)
        BY <1>1
    <2> QED
        BY <2>1, <2>2
<1>2. CASE ends # {}
    <2>1. ends \in SUBSET Nat
        OBVIOUS
    <2>2. \E m \in ends : \A k \in ends : m <= k
        BY <1>2, <2>1, LeastExists
    <2>3. PICK m \in from .. end - 1 :
              /\ EndsCell(buffer, from, m)
              /\ \A k \in from .. end - 1 : EndsCell(buffer, from, k) => m <= k
        BY <2>2
    <2>4. \A k \in from .. m - 1 : ~ EndsCell(buffer, from, k)
        BY <2>3
    <2>5. Cell(buffer, end, from) =
            [start |-> from, content_end |-> m,
             escaped |-> HasAdjacentQuotes(buffer, from, m)]
        BY <2>3, <2>4, CellEndsAt
    <2>6. m \in from .. end
        BY <2>3
    <2> QED
        BY <2>3, <2>4, <2>5, <2>6
<1> QED
    BY <1>1, <1>2

\* One more byte adds at most the pair that ends with it.
LEMMA AdjacencyStep ==
    ASSUME NEW buffer, NEW from \in Int, NEW k \in Int, from <= k
    PROVE  HasAdjacentQuotes(buffer, from, k + 2) <=>
             \/ HasAdjacentQuotes(buffer, from, k + 1)
             \/ buffer[k] = QuoteCharacter /\ buffer[k + 1] = QuoteCharacter
BY DEF HasAdjacentQuotes

-----------------------------------------------------------------------------
(* Texts put together from their ends.                                     *)

IsTails(tails, pieces, base, first, last) ==
    tails = [n \in first .. last |->
                IF n = last THEN base ELSE pieces[n] \o tails[n + 1]]

\* There is such a function, from every position on.
LEMMA TailsExist ==
    ASSUME NEW first \in Nat, NEW last \in Nat, first <= last, NEW pieces, NEW base
    PROVE  \E tails : IsTails(tails, pieces, base, first, last)
<1> DEFINE Good == {n \in first .. last : \E tails : IsTails(tails, pieces, base, n, last)}
<1>1. last \in Good
    <2> DEFINE one == [n \in last .. last |-> base]
    <2>1. one = [n \in last .. last |-> IF n = last THEN base ELSE pieces[n] \o one[n + 1]]
        <3>1. \A n \in last .. last : n = last
            OBVIOUS
        <3> HIDE DEF one
        <3>2. one = [n \in last .. last |-> base]
            BY Zenon DEF one
        <3>3. [n \in last .. last |-> base]
                = [n \in last .. last |-> IF n = last THEN base ELSE pieces[n] \o one[n + 1]]
            BY <3>1, Zenon
        <3> QED
            BY <3>2, <3>3, Zenon
    <2>2. IsTails(one, pieces, base, last, last)
        BY <2>1, Zenon DEF IsTails
    <2>3. last \in first .. last
        OBVIOUS
    <2> QED
        BY <2>2, <2>3, Zenon
<1>2. ASSUME NEW k \in first .. last - 1, \A m \in k + 1 .. last : m \in Good
      PROVE  k \in Good
    <2>1. /\ k + 1 \in k + 1 .. last /\ k \in first .. last /\ k # last
          /\ \A n \in k .. last : n # k => n \in k + 1 .. last
          /\ \A n \in k + 1 .. last : n \in k .. last /\ n # k
          /\ \A n \in k .. last : n # last => n + 1 \in k + 1 .. last
        OBVIOUS
    <2>2. PICK rest : IsTails(rest, pieces, base, k + 1, last)
        BY <1>2, <2>1
    <2> DEFINE all == [n \in k .. last |-> IF n = k THEN pieces[k] \o rest[k + 1] ELSE rest[n]]
    <2>3. ASSUME NEW n \in k .. last
          PROVE  all[n] = IF n = last THEN base ELSE pieces[n] \o all[n + 1]
        <3>1. n # last => all[n + 1] = rest[n + 1]
            <4>1. ASSUME n # last PROVE n + 1 \in k .. last /\ n + 1 # k
                BY <2>1, <4>1
            <4> QED
                BY <4>1
        <3>2. CASE n = k
            BY <2>1, <3>1, <3>2
        <3>3. CASE n # k
            <4>1. n \in k + 1 .. last
                BY <2>1, <3>3
            <4>2. rest[n] = IF n = last THEN base ELSE pieces[n] \o rest[n + 1]
                BY <2>2, <4>1, Zenon DEF IsTails
            <4>3. all[n] = rest[n]
                BY <3>3
            <4> HIDE DEF all
            <4> QED
                BY <3>1, <4>2, <4>3, Zenon
        <3> QED
            BY <3>2, <3>3
    <2>4. all = [n \in k .. last |-> all[n]]
        OBVIOUS
    <2> HIDE DEF all
    <2>5. [n \in k .. last |-> all[n]]
            = [n \in k .. last |-> IF n = last THEN base ELSE pieces[n] \o all[n + 1]]
        BY <2>3, Zenon
    <2>6. IsTails(all, pieces, base, k, last)
        BY <2>4, <2>5, Zenon DEF IsTails
    <2> QED
        BY <2>1, <2>6, Zenon
<1>3. \A k \in first .. last : k \in Good
    <2> HIDE DEF Good
    <2> QED
        BY <1>1, <1>2, Downwards
<1> QED
    BY <1>3

\* A tail is a text, and what it is from one piece to the next.
LEMMA TailsAre ==
    ASSUME NEW first \in Nat, NEW last \in Nat, first <= last, NEW pieces, NEW base,
           NEW tails, IsTails(tails, pieces, base, first, last),
           base \in Seq(Byte), \A n \in first .. last - 1 : pieces[n] \in Seq(Byte)
    PROVE  /\ tails[last] = base
           /\ \A n \in first .. last - 1 : tails[n] = pieces[n] \o tails[n + 1]
           /\ \A n \in first .. last : tails[n] \in Seq(Byte)
<1>1. \A n \in first .. last : tails[n] = IF n = last THEN base ELSE pieces[n] \o tails[n + 1]
    BY Zenon DEF IsTails
<1>2. last \in first .. last /\ \A n \in first .. last - 1 : n \in first .. last /\ n # last
    OBVIOUS
<1>3. /\ tails[last] = base
      /\ \A n \in first .. last - 1 : tails[n] = pieces[n] \o tails[n + 1]
    BY <1>1, <1>2, Zenon
<1> DEFINE Good == {n \in first .. last : tails[n] \in Seq(Byte)}
<1>4. last \in Good
    BY <1>2, <1>3
<1>5. ASSUME NEW k \in first .. last - 1, \A m \in k + 1 .. last : m \in Good
      PROVE  k \in Good
    <2>1. k + 1 \in Good
        BY <1>5
    <2>2. \A s, t \in Seq(Byte) : s \o t \in Seq(Byte)
        BY ConcatProperties
    <2> QED
        BY <1>2, <1>3, <2>1, <2>2
<1>6. \A k \in first .. last : k \in Good
    <2> HIDE DEF Good
    <2> QED
        BY <1>4, <1>5, Downwards
<1> QED
    BY <1>3, <1>6
=============================================================================
