---------------------------- MODULE MCMmapHandles ---------------------------
(* MmapHandles for TLC. Objects and descriptors are interchangeable, and no *)
(* liveness is checked.                                                     *)
EXTENDS MmapHandles, TLC

Symmetry == Permutations(Mmap) \cup Permutations(Descriptor)
=============================================================================
