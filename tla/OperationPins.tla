--------------------------- MODULE OperationPins ---------------------------
(***************************************************************************)
(* What Coord (core/coord.rs) promises AtomicVec: shared operations are    *)
(* pinned while they run, and an exclusive one runs when nobody is pinned. *)
(***************************************************************************)
CONSTANTS Threads,
          None     \* no exclusive operation

VARIABLES pins,  \* threads with a live Shared
          excl   \* the thread with a live Exclusive, or None

Init == pins = {} /\ excl = None

\* shared()
Pin(t) == excl = None /\ t \notin pins /\ pins' = pins \cup {t} /\ UNCHANGED excl

\* drop(Shared)
Unpin(t) == t \in pins /\ pins' = pins \ {t} /\ UNCHANGED excl

\* exclusive(), and try_exclusive() when it succeeds
Seize(t) == excl = None /\ pins = {} /\ excl' = t /\ UNCHANGED pins

\* drop(Exclusive)
Yield(t) == excl = t /\ excl' = None /\ UNCHANGED pins

Next == \E t \in Threads : Pin(t) \/ Unpin(t) \/ Seize(t) \/ Yield(t)

Spec == Init /\ [][Next]_<<pins, excl>>
=============================================================================
