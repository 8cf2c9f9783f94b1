----------------------------- MODULE MCRawMutex -----------------------------
(* Model-checking instances of RawMutex. *)
EXTENDS RawMutex, TLC

\* Sound when each of the other sets of threads is empty or all of Threads.
Symmetry == Permutations(Threads)
=============================================================================
