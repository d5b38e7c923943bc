----------------------------- MODULE MCMemoryPool -----------------------------
(* MemoryPool for TLC.                                                     *)
EXTENDS MemoryPool, TLC

Symmetry == Permutations(Handles)

(* All small sizes, and those at and next to every boundary up to          *)
(* 16 * 2^25, the last that fits TLC.                                      *)
BoundarySizes == 1 .. 300 \cup {16 * 2^k + d : k \in 0 .. 25, d \in {-1, 0, 1}}
=============================================================================
