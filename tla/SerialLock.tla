----------------------------- MODULE SerialLock -----------------------------
(***************************************************************************)
(* What SerialMutex promises to its callers (CONCURRENCY.md, "Safety and   *)
(* ownership"): a set of live guards in which a writer is alone and all    *)
(* read aliases were acquired by one thread.  No word, no futex, no        *)
(* waiting: SerialMutex is shown to implement this specification.          *)
(***************************************************************************)
CONSTANTS Threads,  \* threads that use the lock
          Guards,   \* places where the program can keep a live guard
          None      \* "no guard", "no thread"

VARIABLE guard      \* Guards -> None or [owner, holder, read]

Live == {g \in Guards : guard[g] # None}

GuardOf(t, rd) == [owner |-> t, holder |-> t, read |-> rd]

Init == guard = [g \in Guards |-> None]

\* read_guard / write_guard / try_write_guard return a new guard.
Acquire(t, g, rd) ==
    /\ g \notin Live
    /\ \A h \in Live : rd /\ guard[h].read /\ guard[h].owner = t
    /\ guard' = [guard EXCEPT ![g] = GuardOf(t, rd)]

\* A guard is sent to another thread; the acquiring thread stays its owner.
Transfer(g, t) ==
    /\ g \in Live
    /\ guard' = [guard EXCEPT ![g] =
                    [owner |-> guard[g].owner, holder |-> t, read |-> guard[g].read]]

\* A guard is dropped, by whichever thread holds it.
Release(g) ==
    /\ g \in Live
    /\ guard' = [guard EXCEPT ![g] = None]

Next ==
    \E g \in Guards :
        \/ \E t \in Threads, rd \in BOOLEAN : Acquire(t, g, rd)
        \/ \E t \in Threads : Transfer(g, t)
        \/ Release(g)

Spec == Init /\ [][Next]_guard
=============================================================================
