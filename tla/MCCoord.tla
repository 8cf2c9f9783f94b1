------------------------------ MODULE MCCoord ------------------------------
(* Model-checking instances of Coord. *)
EXTENDS Coord
=============================================================================
