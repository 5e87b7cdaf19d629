------------------------------ MODULE RowStream -----------------------------
(***************************************************************************)
(* What a Reader promises to whoever iterates over it: the records of the  *)
(* source, each exactly as defined, in order, none skipped and none twice, *)
(* then the end.  The header, when the policy says so, is the first record *)
(* and is not delivered.                                                   *)
(***************************************************************************)
EXTENDS CsvBytes, Sequences

CONSTANTS MaxSize, FirstRowIsHeader

VARIABLES buffer, buffer_size, rows, ended

vars == <<buffer, buffer_size, rows, ended>>

FirstStart ==
    IF FirstRowIsHeader THEN Record(buffer, buffer_size, 0).next_start ELSE 0

NextStart == IF rows = <<>> THEN FirstStart ELSE rows[Len(rows)].next_start

Init ==
    /\ buffer_size \in 0 .. MaxSize
    /\ buffer \in Buffer(buffer_size)
    /\ rows = <<>>
    /\ ended = FALSE

\* The caller takes one row and moves on, to the next one or to the end.
Deliver ==
    /\ ~ ended
    /\ NextStart < buffer_size
    /\ LET r == Record(buffer, buffer_size, NextStart)
       IN  /\ rows' = Append(rows, r)
           /\ ended' = (r.next_start >= buffer_size)
    /\ UNCHANGED <<buffer, buffer_size>>

NoRows ==
    /\ ~ ended
    /\ NextStart >= buffer_size
    /\ ended' = TRUE
    /\ UNCHANGED <<buffer, buffer_size, rows>>

Next == Deliver \/ NoRows

Spec == Init /\ [][Next]_vars
=============================================================================
