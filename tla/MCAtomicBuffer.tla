--------------------------- MODULE MCAtomicBuffer ---------------------------
(* Model-checking instances of AtomicBuffer. *)
EXTENDS AtomicBuffer, TLC

Symmetry == Permutations(Threads) \cup Permutations(Values)
=============================================================================
