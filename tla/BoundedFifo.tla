---------------------------- MODULE BoundedFifo ----------------------------
(***************************************************************************)
(* What AtomicBuffer promises: a first-in first-out queue of at most cap   *)
(* allocations, each owned either by some caller or by the queue.          *)
(***************************************************************************)
EXTENDS Naturals, Sequences

CONSTANTS Values,     \* the allocations
          Capacities  \* possible capacities

VARIABLES cap,     \* the capacity, fixed from the start
          q,       \* the queued allocations, oldest first
          own      \* the allocations callers own

Init == cap \in Capacities /\ q = <<>> /\ own = Values

Enqueue(v) ==
    /\ v \in own /\ Len(q) < cap
    /\ q' = Append(q, v)
    /\ own' = own \ {v}
    /\ UNCHANGED cap

Dequeue ==
    /\ q # <<>>
    /\ q' = Tail(q)
    /\ own' = own \cup {Head(q)}
    /\ UNCHANGED cap

Next == Dequeue \/ \E v \in Values : Enqueue(v)

Spec == Init /\ [][Next]_<<cap, q, own>>
=============================================================================
