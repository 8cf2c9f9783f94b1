--------------------------- MODULE MCSerialMutex ---------------------------
(* Model-checking instance of SerialMutex.  Threads and guards are          *)
(* interchangeable, so the safety run uses both symmetries.                  *)
EXTENDS SerialMutex, TLC

Symmetry == Permutations(Threads) \cup Permutations(Guards)
=============================================================================
