--------------------------- MODULE MCReaderSource ---------------------------
(* ReaderSource for TLC. The Readers are interchangeable: no action and no  *)
(* invariant singles one out, and no liveness is checked.                   *)
EXTENDS ReaderSource, TLC

Symmetry == Permutations(Reader)
=============================================================================
