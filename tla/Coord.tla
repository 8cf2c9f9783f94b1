------------------------------- MODULE Coord -------------------------------
(***************************************************************************)
(* Coord (core/coord.rs): AtomicVec's operation pinning.  A shared         *)
(* operation adds one to the counter of its thread's lane and rechecks the *)
(* writing flag; a writer takes the writers lock, raises the flag and then *)
(* scans the lanes one by one.  A thread owns at most one of LANES lanes   *)
(* and decrements it with a plain load and store; threads that find no     *)
(* free lane share the overflow lane, number LANES, with atomic updates.   *)
(*                                                                         *)
(* The writers lock is a SerialMutex, used here as the abstract lock that  *)
(* SerialMutex implements: one owner at a time.  No operation of AtomicVec *)
(* pins twice, so a thread has at most one pin.                            *)
(***************************************************************************)
EXTENDS Integers, FiniteSets

CONSTANTS Threads,  \* thread identifiers: positive numbers (thread-local ID)
          LANES,    \* number of private lanes
          None      \* no thread

ASSUME CoordAssumption ==
    /\ Threads \subseteq Nat \ {0} /\ IsFiniteSet(Threads)
    /\ LANES \in Nat \ {0}
    /\ None \notin Threads

VARIABLES readers,  \* lane -> count
          owners,   \* private lane -> its thread, or None (0 in the code)
          last,     \* thread -> the lane its LAST cell remembers, or NoLane
          writing,  \* the writer's published intent
          writers,  \* the owner of the writers lock, or None
          pin,      \* thread -> lane of its live Shared, or NoLane
          excl,     \* the thread with a live Exclusive, or None
          call      \* thread -> [pc, i, n]: label, loop index, loaded count

vars == <<readers, owners, last, writing, writers, pin, excl, call>>

Lanes == 0..LANES
NoLane == -1

\* Fault: the overflow lane is taken for an owned one.
OwnedAll(l) == l <= LANES

Owned(l) == l < LANES

At(label, i, n) == [pc |-> label, i |-> i, n |-> n]
Goto(t, label) == call' = [call EXCEPT ![t] = At(label, 0, 0)]
GotoI(t, label, i) == call' = [call EXCEPT ![t] = At(label, i, 0)]
pc(t) == call[t].pc

Init ==
    /\ readers = [l \in Lanes |-> 0]
    /\ owners = [l \in 0..(LANES - 1) |-> None]
    /\ last = [t \in Threads |-> NoLane]
    /\ writing = FALSE
    /\ writers = None
    /\ pin = [t \in Threads |-> NoLane]
    /\ excl = None
    /\ call = [t \in Threads |-> At("idle", 0, 0)]

-----------------------------------------------------------------------------
(* shared()                                                                *)

\* The thread's LAST cell names this Coord, or it must register.
Shared(t) ==
    /\ pc(t) = "idle" /\ pin[t] = NoLane
    /\ Goto(t, IF last[t] = NoLane THEN "register" ELSE "add")
    /\ UNCHANGED <<readers, owners, last, writing, writers, pin, excl>>

\* LAST holds one Coord only: using another one evicts this one's lane.
Evict(t) ==
    /\ pc(t) = "idle" /\ last[t] # NoLane
    /\ last' = [last EXCEPT ![t] = NoLane]
    /\ UNCHANGED <<readers, owners, writing, writers, pin, excl, call>>

\* Fault: the search for a lane has no end.
RegisterForever(t) ==
    LET i == call[t].i
        lane == (t + i) % LANES
    IN  /\ pc(t) = "register"
        /\ IF owners[lane] \in {None, t}
           THEN /\ owners' = [owners EXCEPT ![lane] = t]
                /\ last' = [last EXCEPT ![t] = lane]
                /\ Goto(t, "add")
           ELSE GotoI(t, "register", i + 1) /\ UNCHANGED <<owners, last>>
        /\ UNCHANGED <<readers, writing, writers, pin, excl>>

\* register(): try the lanes from the thread's own number on, one exchange at a
\* time; a free lane or the thread's own is taken, else the overflow lane is.
Register(t) ==
    LET i == call[t].i
        lane == (t + i) % LANES
    IN  /\ pc(t) = "register"
        /\ \/ /\ i < LANES /\ owners[lane] \in {None, t}
              /\ owners' = [owners EXCEPT ![lane] = t]
              /\ last' = [last EXCEPT ![t] = lane]
              /\ Goto(t, "add")
           \/ /\ i < LANES /\ owners[lane] \notin {None, t}
              /\ GotoI(t, "register", i + 1)
              /\ UNCHANGED <<owners, last>>
           \/ /\ i = LANES
              /\ last' = [last EXCEPT ![t] = LANES]
              /\ Goto(t, "add")
              /\ UNCHANGED owners
        /\ UNCHANGED <<readers, writing, writers, pin, excl>>

Add(t) ==
    /\ pc(t) = "add"
    /\ readers' = [readers EXCEPT ![last[t]] = @ + 1]
    /\ Goto(t, "recheck")
    /\ UNCHANGED <<owners, last, writing, writers, pin, excl>>

\* The recheck: the operation is pinned, or takes its count back.
Recheck(t) ==
    /\ pc(t) = "recheck"
    /\ IF writing
       THEN Goto(t, "undo") /\ UNCHANGED pin
       ELSE Goto(t, "idle") /\ pin' = [pin EXCEPT ![t] = last[t]]
    /\ UNCHANGED <<readers, owners, last, writing, writers, excl>>

\* Take one off lane l and go on at label `after`: one atomic step on the
\* overflow lane, a load and then a store on an owned lane.
Subtract(t, l, from, after) ==
    /\ pc(t) = from
    /\ IF Owned(l)
       THEN /\ call' = [call EXCEPT ![t] = At(after[1], 0, readers[l])]
            /\ UNCHANGED readers
       ELSE /\ readers' = [readers EXCEPT ![l] = @ - 1]
            /\ Goto(t, after[2])
    /\ UNCHANGED <<owners, last, writing, writers, excl>>

StoreBack(t, l, from, after) ==
    /\ pc(t) = from
    /\ readers' = [readers EXCEPT ![l] = call[t].n - 1]
    /\ Goto(t, after)
    /\ UNCHANGED <<owners, last, writing, writers, excl>>

Undo(t) ==
    \/ Subtract(t, last[t], "undo", <<"undo_store", "assert">>) /\ UNCHANGED pin
    \/ StoreBack(t, last[t], "undo_store", "assert") /\ UNCHANGED pin

\* "reentrant AtomicVec access": the writer itself panics, others wait.
Assert(t) ==
    /\ pc(t) = "assert"
    /\ Goto(t, IF writers = t THEN "idle" ELSE "spin")
    /\ UNCHANGED <<readers, owners, last, writing, writers, pin, excl>>

Spin(t) ==
    /\ pc(t) = "spin" /\ ~writing
    /\ Goto(t, "add")
    /\ UNCHANGED <<readers, owners, last, writing, writers, pin, excl>>

\* Drop of Shared.  The pin ends where the count goes down.
DropShared(t) ==
    \/ /\ pc(t) = "idle" /\ pin[t] # NoLane
       /\ Subtract(t, pin[t], "idle", <<"drop_store", "idle">>)
       /\ pin' = IF Owned(pin[t]) THEN pin ELSE [pin EXCEPT ![t] = NoLane]
    \/ /\ StoreBack(t, pin[t], "drop_store", "idle")
       /\ pin' = [pin EXCEPT ![t] = NoLane]

-----------------------------------------------------------------------------
(* exclusive() and try_exclusive()                                         *)

\* write_guard() or try_write_guard() got the writers lock.  A thread does not
\* call either with a live Shared (AtomicVec drops its pin first).
LockWriters(t) ==
    /\ pc(t) = "idle" /\ pin[t] = NoLane
    /\ writers = None
    /\ writers' = t
    /\ \/ Goto(t, "publish")
       \/ Goto(t, "try_publish")
    /\ UNCHANGED <<readers, owners, last, writing, pin, excl>>

Publish(t) ==
    /\ pc(t) \in {"publish", "try_publish"}
    /\ writing' = TRUE
    /\ Goto(t, IF pc(t) = "publish" THEN "scan" ELSE "try_scan")
    /\ UNCHANGED <<readers, owners, last, writers, pin, excl>>

\* The scan, one lane a step, reached lane i and found it empty.
Advance(t, label) ==
    LET i == call[t].i
    IN  IF i = LANES
        THEN excl' = t /\ Goto(t, "idle")
        ELSE GotoI(t, label, i + 1) /\ UNCHANGED excl

\* Fault: the scan stops before the overflow lane.
ScanPrivate(t) ==
    /\ pc(t) = "scan" /\ readers[call[t].i] = 0
    /\ IF call[t].i = LANES - 1
       THEN excl' = t /\ Goto(t, "idle")
       ELSE Advance(t, "scan")
    /\ UNCHANGED <<readers, owners, last, writing, writers, pin>>

\* exclusive() waits for each lane in turn.
Scan(t) ==
    /\ pc(t) = "scan" /\ readers[call[t].i] = 0
    /\ Advance(t, "scan")
    /\ UNCHANGED <<readers, owners, last, writing, writers, pin>>

\* try_exclusive() gives up at the first lane that is in use.
TryScan(t) ==
    /\ pc(t) = "try_scan"
    /\ IF readers[call[t].i] = 0
       THEN Advance(t, "try_scan") /\ UNCHANGED writing
       ELSE writing' = FALSE /\ Goto(t, "unlock_writers") /\ UNCHANGED excl
    /\ UNCHANGED <<readers, owners, last, writers, pin>>

\* Drop of Exclusive: first the flag, then its field, the writers guard.
DropExclusive(t) ==
    /\ pc(t) = "idle" /\ excl = t
    /\ writing' = FALSE
    /\ excl' = None
    /\ Goto(t, "unlock_writers")
    /\ UNCHANGED <<readers, owners, last, writers, pin>>

UnlockWriters(t) ==
    /\ pc(t) = "unlock_writers"
    /\ writers' = None
    /\ Goto(t, "idle")
    /\ UNCHANGED <<readers, owners, last, writing, pin, excl>>

-----------------------------------------------------------------------------
\* Steps of a call in progress, and the end of a pinned operation.
Continue(t) ==
    \/ Register(t) \/ Add(t) \/ Recheck(t) \/ Undo(t) \/ Assert(t) \/ Spin(t) \/ DropShared(t)
    \/ Publish(t) \/ Scan(t) \/ TryScan(t) \/ UnlockWriters(t)

Next ==
    \E t \in Threads :
        Shared(t) \/ Evict(t) \/ LockWriters(t) \/ DropExclusive(t) \/ Continue(t)

Spec == Init /\ [][Next]_vars

-----------------------------------------------------------------------------
Labels == {"idle", "register", "add", "recheck", "undo", "undo_store", "assert", "spin",
           "drop_store", "publish", "try_publish", "scan", "try_scan", "unlock_writers"}

TypeOK ==
    /\ readers \in [Lanes -> Nat]
    /\ owners \in [0..(LANES - 1) -> Threads \cup {None}]
    /\ last \in [Threads -> Lanes \cup {NoLane}]
    /\ writing \in BOOLEAN
    /\ writers \in Threads \cup {None}
    /\ pin \in [Threads -> Lanes \cup {NoLane}]
    /\ excl \in Threads \cup {None}
    /\ call \in [Threads -> [pc : Labels, i : Lanes, n : Nat]]

\* The threads whose increment of lane l has not been taken back: pinned ones,
\* and those between the increment and the recheck or its undoing.
Counted(l) ==
    {t \in Threads : \/ pin[t] = l
                     \/ last[t] = l /\ pc(t) \in {"recheck", "undo", "undo_store"}}

\* No increment or decrement is lost, plain stores included: every lane counts
\* exactly the threads that are on it, and nobody but its owner is ever on a
\* lane of its own ("never another thread's lane"), although LAST may forget the
\* lane while the thread is pinned and make it register again.
LanesExact ==
    /\ \A l \in Lanes : readers[l] = Cardinality(Counted(l))
    /\ \A l \in 0..(LANES - 1) : Counted(l) \subseteq {owners[l]}
    /\ \A k, l \in 0..(LANES - 1) : owners[k] = owners[l] /\ owners[k] # None => k = l

Pins == INSTANCE OperationPins WITH pins <- {t \in Threads : pin[t] # NoLane}

\* coord.rs:10-12: "either the writer sees the pin or the reader sees intent".
\* Coord implements what AtomicVec is told: operations pin and unpin one by
\* one, and exclusive access begins only when none is pinned.
ImplementsPins == Pins!Spec
=============================================================================
