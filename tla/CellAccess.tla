----------------------------- MODULE CellAccess -----------------------------
(***************************************************************************)
(* Reading a cell: csv2::basic_cell (include/csv2/reader.hpp) with the     *)
(* decoders of include/csv2/detail/output.hpp and the trim policies of     *)
(* include/csv2/parameters.hpp.  The functions are pure; a text is the     *)
(* sequence of bytes they append.  What they do depends on the length of   *)
(* the cell, on the container, and on the flag that the scanner set.       *)
(***************************************************************************)
EXTENDS CellScan

CONSTANTS
    ShortSize,       \* decoded byte by byte below it: 64 in the code
    TrimPolicies     \* the bytes that a policy trims; none for no_trimming

ASSUME AccessAssumption ==
    /\ ShortSize \in Nat
    /\ TrimPolicies \subseteq SUBSET Byte

\* The bytes from first to before last.
Slice(first, last) == [n \in 1 .. last - first |-> buffer[first + n - 1]]

Trim(trimmed, first, last) ==
    LET kept == {k \in first .. last - 1 : buffer[k] \notin trimmed}
    IN  IF kept = {} THEN [first |-> last, last |-> last]
        ELSE [first |-> Min(kept), last |-> Max(kept) + 1]

Pair(k, last) == IsQuote(k) /\ k + 1 < last /\ IsQuote(k + 1)

\* The loop that puts out every byte and steps over the second of a pair.
DecodeBytes(first, last) ==
    LET from[k \in first .. last] ==
            IF k = last THEN <<>>
            ELSE <<buffer[k]>> \o from[IF Pair(k, last) THEN k + 2 ELSE k + 1]
    IN  from[first]

\* Mutated form: the next segment starts at the second of the pair.
DecodeSegmentsTwice(first, last) ==
    LET from[k \in first .. last] ==
            [segment_start \in first .. k |->
                IF k = last THEN Slice(segment_start, last)
                ELSE IF Pair(k, last)
                     THEN Slice(segment_start, k + 1) \o from[k + 2][k + 1]
                     ELSE from[k + 1][segment_start]]
    IN  from[first][first]

\* append_decoded_segments: whole segments, each up to the first of a pair.
DecodeSegments(first, last) ==
    LET from[k \in first .. last] ==
            [segment_start \in first .. k |->
                IF k = last THEN Slice(segment_start, last)
                ELSE IF Pair(k, last)
                     THEN Slice(segment_start, k + 1) \o from[k + 2][k + 2]
                     ELSE from[k + 1][segment_start]]
    IN  from[first][first]

AppendDecoded(first, last, supports_push_back) ==
    IF supports_push_back /\ last - first < ShortSize
    THEN DecodeBytes(first, last)
    ELSE DecodeSegments(first, last)

\* basic_cell::read_value, which decodes only what the scanner flagged.
ReadValue(cell, trimmed, supports_push_back) ==
    LET trim == Trim(trimmed, cell.start, cell.content_end)
    IN  IF cell.escaped THEN AppendDecoded(trim.first, trim.last, supports_push_back)
                        ELSE Slice(trim.first, trim.last)

\* basic_cell::decode_to, which always decodes.
DecodeTo(cell, trimmed) ==
    LET trim == Trim(trimmed, cell.start, cell.content_end)
    IN  DecodeBytes(trim.first, trim.last)

ContentBounds(cell, trimmed) ==
    LET trim == Trim(trimmed, cell.start, cell.content_end)
    IN  IF /\ trim.last - trim.first >= 2
           /\ IsQuote(trim.first)
           /\ IsQuote(trim.last - 1)
        THEN [first |-> trim.first + 1, last |-> trim.last - 1]
        ELSE trim

CopyContentTo(cell, trimmed) ==
    LET bounds_ == ContentBounds(cell, trimmed)
    IN  DecodeBytes(bounds_.first, bounds_.last)

-----------------------------------------------------------------------------
\* What folding means without a loop: a quote is left out when an odd number of
\* quotes stands right before it.
Folded(first, last) ==
    LET before(k) == {m \in first .. k - 1 : \A n \in m .. k - 1 : IsQuote(n)}
        kept == {k \in first .. last - 1 : IsQuote(k) => Cardinality(before(k)) % 2 = 0}
        nth(n) == CHOOSE k \in kept : Cardinality({m \in kept : m < k}) = n - 1
    IN  [n \in 1 .. Cardinality(kept) |-> buffer[nth(n)]]

\* Every way of reading a cell gives the trimmed bytes with pairs of quotes
\* folded: short or long, into a container with push_back or without, through
\* an iterator, and when the decoder is skipped because find_cell_bounds, with
\* its three scanners, did not flag the cell.
ReadersAgree ==
    pc = "return" =>
        \A trimmed \in TrimPolicies :
            LET trim == Trim(trimmed, bounds.start, bounds.content_end)
                folded == Folded(trim.first, trim.last)
            IN  /\ \A supports_push_back \in BOOLEAN :
                      ReadValue(bounds, trimmed, supports_push_back) = folded
                /\ DecodeTo(bounds, trimmed) = folded
=============================================================================
