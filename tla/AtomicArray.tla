---------------------------- MODULE AtomicArray ----------------------------
(***************************************************************************)
(* AtomicArray (atomic/array.rs) and the guards it returns (watch guards,  *)
(* sync/watch_guard_ref.rs and watch_guard_mut.rs).  Every operation holds *)
(* the coordination lock shared; a returned guard keeps that hold until    *)
(* its slot is unlocked and the wake-up is done.  reset_with() exchanges   *)
(* the storage when it gets the coordination lock by trying.               *)
(*                                                                         *)
(* The coordination lock is a RawMutex used as a reader/writer lock: its   *)
(* writer never parks, so nothing but a writer's hold stops a reader.  A   *)
(* slot's lock is a SerialMutex, used as the SerialLock it implements.  A  *)
(* storage is identified by the number of resets before it; the storages   *)
(* before the current one have been dropped.  head is always 0.            *)
(***************************************************************************)
EXTENDS Integers, FiniteSets, Sequences

CONSTANTS Threads,
          Guards,     \* places where clients keep a live guard
          Transfers,  \* whether clients send guards to other threads
          MAXCAP,     \* bound: largest capacity
          MAXRESETS,  \* bound: resets in a behaviour
          MAXCALLS,   \* bound: calls in a behaviour
          MAXLEN,     \* bound: chunks, and lengths above len, that are tried
          None

ArrayAssumption ==
    /\ IsFiniteSet(Threads) /\ None \notin Threads /\ Transfers \in BOOLEAN
    /\ MAXCAP \in Nat \ {0} /\ MAXRESETS \in Nat /\ MAXCALLS \in Nat

VARIABLES gen,      \* the current storage
          capacity, \* its number of slots
          written,  \* its slots whose state is WRITE
          tail, len,
          coord,    \* shared holds of the coordination lock
          excl,     \* the thread that holds it exclusively, or None
          guard,    \* Guards -> None or [owner, holder, gen, i, read]
          calls,    \* calls made so far
          call      \* thread -> [pc, op, gen, i, n, g]

vars == <<gen, capacity, written, tail, len, coord, excl, guard, calls, call>>
storage == <<gen, capacity, written, tail, len>>

Slots == 0..(MAXCAP - 1)
Idle == [pc |-> "idle", op |-> "none", gen |-> 0, i |-> 0, n |-> 0, g |-> None]
pc(t) == call[t].pc
Put(t, r) == call' = [call EXCEPT ![t] = [f \in DOMAIN @ |-> IF f \in DOMAIN r THEN r[f] ELSE @[f]]]
Goto(t, label) == Put(t, [pc |-> label])
Return(t) == call' = [call EXCEPT ![t] = Idle]

Live == {g \in Guards : guard[g] # None}

\* with_capacity()
Init ==
    /\ gen = 0 /\ capacity \in 1..MAXCAP /\ written = {} /\ tail = 0 /\ len = 0
    /\ coord = 0 /\ excl = None
    /\ guard = [g \in Guards |-> None]
    /\ calls = 0 /\ call = [t \in Threads |-> Idle]

\* ArrayCoordGuard::shared(), and its drop at the end of an operation
LockShared == excl = None /\ coord' = coord + 1 /\ UNCHANGED excl
UnlockShared == coord' = coord - 1 /\ UNCHANGED excl

\* The start of a call: the hold, and with it a look at the storage.
Begin(t) ==
    /\ pc(t) = "idle" /\ calls < MAXCALLS
    /\ LockShared
    /\ calls' = calls + 1
    /\ UNCHANGED <<storage, guard>>

Unpin(t) ==
    /\ pc(t) = "unpin"
    /\ UnlockShared
    /\ Return(t)
    /\ UNCHANGED <<storage, guard, calls>>

-----------------------------------------------------------------------------
(* push()                                                                  *)

Push(t) == Begin(t) /\ Put(t, [pc |-> "p_load", op |-> "push", gen |-> gen])

Full(i) == i >= capacity

\* The tail is loaded, at first and after a failed exchange (push_slow()).
PushLoad(t) ==
    /\ pc(t) = "p_load"
    /\ Put(t, [pc |-> IF Full(tail) THEN "unpin" ELSE "p_cas", i |-> tail])
    /\ UNCHANGED <<storage, coord, excl, guard, calls>>

PushCas(t) ==
    /\ pc(t) = "p_cas"
    /\ IF tail = call[t].i
       THEN tail' = tail + 1 /\ Goto(t, "p_len")
       ELSE Goto(t, "p_load") /\ UNCHANGED tail
    /\ UNCHANGED <<gen, capacity, written, len, coord, excl, guard, calls>>

\* The value is written to the claimed slot, then len goes up ...
PushLen(t) ==
    /\ pc(t) = "p_len"
    /\ len' = len + 1
    /\ Goto(t, "p_state")
    /\ UNCHANGED <<gen, capacity, written, tail, coord, excl, guard, calls>>

\* ... and only then is the slot marked as written.
PushState(t) ==
    /\ pc(t) = "p_state"
    /\ written' = written \cup {call[t].i}
    /\ Goto(t, "unpin")
    /\ UNCHANGED <<gen, capacity, tail, len, coord, excl, guard, calls>>

-----------------------------------------------------------------------------
(* get(), get_mut() and the traversals                                     *)

Reads(t) == call[t].op \in {"get", "for_each", "as_vec"}

\* The locks on slot i of storage s: live guards, and traversals in callbacks.
Holders(s, i) ==
    {[owner |-> guard[g].owner, read |-> guard[g].read] :
        g \in {h \in Live : guard[h].gen = s /\ guard[h].i = i}}
    \cup {[owner |-> t, read |-> Reads(t)] :
        t \in {u \in Threads : pc(u) = "e_unlock" /\ call[u].gen = s /\ call[u].i = i}}

\* SerialLock: a writer is alone, read aliases belong to one thread.
Available(t) ==
    \A h \in Holders(call[t].gen, call[t].i) : Reads(t) /\ h.read /\ h.owner = t

\* Conflicting reentrance panics.
Reentrant(t) ==
    \E h \in Holders(call[t].gen, call[t].i) : h.owner = t /\ ~(Reads(t) /\ h.read)

\* "Acquire distinct locks in a consistent order" (CONCURRENCY.md:42).
InOrder(t, i) == \A g \in Live : t \in {guard[g].holder, guard[g].owner} => guard[g].i <= i

Get(t, op, i, g) ==
    /\ guard[g] = None /\ \A u \in Threads : call[u].g # g
    /\ InOrder(t, i)
    /\ Begin(t)
    /\ Put(t, [pc |-> "g_len", op |-> op, gen |-> gen, i |-> i, g |-> g])

\* An index below len is below the capacity; the slot may still be unwritten.
GetLen(t) ==
    /\ pc(t) = "g_len"
    /\ Goto(t, IF call[t].i >= len \/ call[t].i >= capacity THEN "unpin" ELSE "g_wait")
    /\ UNCHANGED <<storage, coord, excl, guard, calls>>

\* Fault: the slot is used as soon as len covers it.
SlotReadyAlways(t) == TRUE

\* Slot::wait_write()
SlotReady(t) == call[t].i \in written

WaitWrite(t) ==
    /\ pc(t) \in {"g_wait", "e_wait"} /\ SlotReady(t)
    /\ Goto(t, IF pc(t) = "g_wait" THEN "g_lock" ELSE "e_lock")
    /\ UNCHANGED <<storage, coord, excl, guard, calls>>

\* mem::forget(coord): the guard takes over the hold (protect()).
KeepHold == UNCHANGED <<coord, excl>>

GetLock(t) ==
    /\ pc(t) = "g_lock" /\ Available(t)
    /\ guard' = [guard EXCEPT ![call[t].g] =
                   [owner |-> t, holder |-> t, gen |-> call[t].gen, i |-> call[t].i, read |-> Reads(t)]]
    /\ KeepHold
    /\ Return(t)
    /\ UNCHANGED <<storage, calls>>

\* The panic of a reentrant lock unwinds through the coordination guard.
LockPanics(t) ==
    /\ pc(t) \in {"g_lock", "e_lock"} /\ Reentrant(t)
    /\ Goto(t, "unpin")
    /\ UNCHANGED <<storage, coord, excl, guard, calls>>

\* for_each(), for_each_mut() and as_vec() visit 0..len-1, len loaded once.
\* The client's locks come first in the order.
ForEach(t, op) ==
    /\ InOrder(t, 0)
    /\ Begin(t)
    /\ Put(t, [pc |-> "e_len", op |-> op, gen |-> gen])

EachLen(t) ==
    /\ pc(t) = "e_len"
    /\ Put(t, [pc |-> IF len = 0 THEN "unpin" ELSE "e_wait", n |-> len])
    /\ UNCHANGED <<storage, coord, excl, guard, calls>>

EachLock(t) ==
    /\ pc(t) = "e_lock" /\ Available(t)
    /\ Goto(t, "e_unlock")
    /\ UNCHANGED <<storage, coord, excl, guard, calls>>

\* The callback is over: the slot's guard is dropped, first the lock.
EachUnlock(t) ==
    /\ pc(t) = "e_unlock"
    /\ Goto(t, "e_wake")
    /\ UNCHANGED <<storage, coord, excl, guard, calls>>

EachWake(t) ==
    /\ pc(t) = "e_wake"
    /\ Put(t, IF call[t].i + 1 < call[t].n THEN [pc |-> "e_wait", i |-> call[t].i + 1]
              ELSE [pc |-> "unpin"])
    /\ UNCHANGED <<storage, coord, excl, guard, calls>>

-----------------------------------------------------------------------------
(* The returned guards                                                     *)

\* Drop: the slot is unlocked, its waiters are woken (which touches the slot
\* once more), and then the hold on the storage ends (Unpin).
DropGuard(t, g) ==
    /\ pc(t) = "idle" /\ g \in Live /\ guard[g].holder = t
    /\ guard' = [guard EXCEPT ![g] = None]
    /\ Put(t, [pc |-> "d_wake", op |-> "drop", gen |-> guard[g].gen, i |-> guard[g].i])
    /\ UNCHANGED <<storage, coord, excl, calls>>

DropWake(t) ==
    /\ pc(t) = "d_wake"
    /\ Goto(t, "unpin")
    /\ UNCHANGED <<storage, coord, excl, guard, calls>>

\* downcast() moves lock and hold into the new guard, or gives the old one
\* back: nothing is released or acquired.  Guards may change threads.
Transfer(g, t) ==
    /\ Transfers /\ g \in Live /\ guard[g].holder # t
    /\ guard' = [guard EXCEPT ![g].holder = t]
    /\ UNCHANGED <<storage, coord, excl, calls, call>>

-----------------------------------------------------------------------------
(* reset_with()                                                            *)

\* The replacement is built first, without locks; a panic ends the call here.
Reset(t, c) ==
    /\ pc(t) = "idle" /\ calls < MAXCALLS /\ gen + Cardinality({u \in Threads : call[u].op = "reset"}) < MAXRESETS
    /\ Put(t, [pc |-> "r_try", op |-> "reset", n |-> c])
    /\ calls' = calls + 1
    /\ UNCHANGED <<storage, coord, excl, guard>>

\* Fault: readers are not waited for.
AloneButForReaders == excl = None

\* try_exclusive_guard()
Alone == excl = None /\ coord = 0

ResetTry(t) ==
    /\ pc(t) = "r_try"
    /\ IF Alone THEN excl' = t /\ Goto(t, "r_swap")
                ELSE Goto(t, "r_inspect") /\ UNCHANGED excl
    /\ UNCHANGED <<storage, coord, guard, calls>>

\* Between attempts the slots are inspected with a shared hold ...
ResetInspect(t) ==
    /\ pc(t) = "r_inspect"
    /\ LockShared
    /\ Put(t, [pc |-> "r_assert", gen |-> gen])
    /\ UNCHANGED <<storage, guard, calls>>

\* ... and a guard acquired by this thread makes the call panic.
ResetAssert(t) ==
    /\ pc(t) = "r_assert"
    /\ UnlockShared
    /\ IF \E g \in Live : guard[g].owner = t THEN Return(t) ELSE Goto(t, "r_try")
    /\ UNCHANGED <<storage, guard, calls>>

Restart(c) == tail' = c /\ len' = c

\* The replacement is full: init_with() has written all its slots.
ResetSwap(t) ==
    /\ pc(t) = "r_swap"
    /\ gen' = gen + 1 /\ capacity' = call[t].n /\ written' = 0..(call[t].n - 1)
    /\ Restart(call[t].n)
    /\ Goto(t, "r_unlock")
    /\ UNCHANGED <<coord, excl, guard, calls>>

\* The hold ends, then the old storage is dropped, values and all.
ResetUnlock(t) ==
    /\ pc(t) = "r_unlock"
    /\ excl' = None
    /\ Return(t)
    /\ UNCHANGED <<storage, coord, guard, calls>>

-----------------------------------------------------------------------------
(* chunk_indices()                                                         *)

DivCeil(a, b) == (a + b - 1) \div b

\* Fault: the chunk size is rounded down.
ChunkSizeDown(n, chunks) == IF n < chunks THEN 1 ELSE n \div chunks

ChunkSize(n, chunks) == DivCeil(n, chunks)

ChunkIndices(n, chunks) ==
    IF n = 0 \/ chunks = 0 THEN <<>>
    ELSE LET size == ChunkSize(n, chunks) IN
         [k \in 1..DivCeil(n, size) |-> [start |-> (k - 1) * size,
                                         end |-> IF k * size < n THEN k * size ELSE n]]

-----------------------------------------------------------------------------
Step(t) ==
    \/ Unpin(t) \/ PushLoad(t) \/ PushCas(t) \/ PushLen(t) \/ PushState(t)
    \/ GetLen(t) \/ WaitWrite(t) \/ GetLock(t) \/ LockPanics(t)
    \/ EachLen(t) \/ EachLock(t) \/ EachUnlock(t) \/ EachWake(t)
    \/ DropWake(t) \/ ResetTry(t) \/ ResetInspect(t) \/ ResetAssert(t)
    \/ ResetSwap(t) \/ ResetUnlock(t)
    \/ \E g \in Guards : DropGuard(t, g)

Next ==
    \E t \in Threads :
        \/ Push(t)
        \/ \E i \in Slots, g \in Guards : Get(t, "get", i, g) \/ Get(t, "get_mut", i, g)
        \/ ForEach(t, "for_each") \/ ForEach(t, "for_each_mut") \/ ForEach(t, "as_vec")
        \/ \E c \in 1..MAXCAP : Reset(t, c)
        \/ \E g \in Guards : Transfer(g, t)
        \/ Step(t)

Spec == Init /\ [][Next]_vars

-----------------------------------------------------------------------------
Labels == {"idle", "unpin", "p_load", "p_cas", "p_len", "p_state", "g_len", "g_wait", "g_lock",
           "e_len", "e_wait", "e_lock", "e_unlock", "e_wake", "d_wake", "r_try", "r_inspect",
           "r_assert", "r_swap", "r_unlock"}

TypeOK ==
    /\ gen \in 0..MAXRESETS /\ capacity \in 1..MAXCAP
    /\ written \subseteq 0..(capacity - 1) /\ tail \in 0..capacity /\ len \in 0..capacity
    /\ coord \in Nat /\ excl \in Threads \cup {None}
    /\ guard \in [Guards -> {None} \cup [owner : Threads, holder : Threads, gen : 0..MAXRESETS,
                                         i : Slots, read : BOOLEAN]]
    /\ calls \in 0..MAXCALLS
    /\ \A t \in Threads : pc(t) \in Labels

\* Steps that touch a slot of the storage the thread looked up.
Touching(t) == pc(t) \in {"p_len", "p_state", "g_wait", "g_lock", "e_wait", "e_lock", "e_unlock",
                          "e_wake", "d_wake", "r_assert"}

\* array.rs:113, "Every returned guard also pins storage through its entire
\* unlock and futex wake": neither a guard nor an operation, up to its last
\* wake-up, ever refers to a storage that reset_with() has exchanged.
StoragePinned ==
    /\ \A g \in Live : guard[g].gen = gen
    /\ \A t \in Threads : Touching(t) => call[t].gen = gen

\* A guard, or a traversal's callback, sees a slot whose value has been
\* written, although len covers a slot before its value is published.
GuardsSeeValues ==
    /\ \A g \in Live : guard[g].i \in written
    /\ \A t \in Threads : pc(t) = "e_unlock" => call[t].i \in written

\* The hold count of the coordination lock is the number of operations and
\* guards that rely on it: panics and hand-overs lose and repeat none.
HoldsExact ==
    coord = Cardinality(Live)
            + Cardinality({t \in Threads : pc(t) \notin {"idle", "r_try", "r_inspect", "r_swap", "r_unlock"}})

\* When nobody is inside, the written slots are those below len, and tail and
\* len agree: pushes that raced for the tail left no hole, and reset_with()
\* left the counters of its storage.
QuietDense ==
    coord = 0 /\ excl = None => tail = len /\ written = 0..(len - 1) /\ len <= capacity

\* chunk_indices() splits 0..n-1 into at most the asked number of non-empty
\* intervals, each beginning where the one before ends.  (Looked at for the
\* lengths of the quiet states.)
ChunksPartition ==
    coord = 0 => \A more, chunks \in 0..MAXLEN :
        LET n == len + more
            c == ChunkIndices(n, chunks) IN
        /\ Len(c) <= chunks /\ (n > 0 /\ chunks > 0 => c # <<>>)
        /\ \A k \in DOMAIN c : /\ c[k].start < c[k].end
                               /\ c[k].start = IF k = 1 THEN 0 ELSE c[k - 1].end
                               /\ k = Len(c) => c[k].end = n

\* Nobody is left in a call.  A reset that waits for guards does not keep their
\* owners from finishing other accesses (array.rs:354-355).
Settled == \A t \in Threads : pc(t) = "idle"
=============================================================================
