------------------------------- MODULE Futex -------------------------------
(***************************************************************************)
(* The futex words the locks sleep on (core/futex).  Every lock of the     *)
(* crate uses its futex word as a sequence number: a thread snapshots it,  *)
(* looks at the lock, and then sleeps only if the word still has the value *)
(* of the snapshot; a releasing thread adds one and then wakes.  The value *)
(* is never used for anything but that equality, so a futex is abstracted  *)
(* to the set of threads whose snapshot equals the word (fresh) and the    *)
(* set of threads the kernel has queued on it (asleep).  The abstraction   *)
(* is exact as long as the 32-bit word does not wrap all the way round     *)
(* between a snapshot and the wait that uses it.                           *)
(***************************************************************************)

Futexes(T) == [fresh : SUBSET T, asleep : SUBSET T]

FutexNew == [fresh |-> {}, asleep |-> {}]

\* word.load(): t now holds a snapshot equal to the word.
FutexLoad(f, t) == [fresh |-> f.fresh \cup {t}, asleep |-> f.asleep]

\* word.fetch_add(1): nobody's snapshot equals the word any more.
FutexBump(f) == [fresh |-> {}, asleep |-> f.asleep]

\* futex_wait(word, snapshot): the kernel compares and queues in one step.
\* The caller sleeps if t is in the result's asleep, else it returns at once.
\* The snapshot is spent: every caller loads a new one before it waits again.
FutexWait(f, t) ==
    [fresh  |-> f.fresh \ {t},
     asleep |-> IF t \in f.fresh THEN f.asleep \cup {t} ELSE f.asleep]

\* futex_wake_all(word).
FutexWakeAll(f) == [fresh |-> f.fresh, asleep |-> {}]

\* futex_wake(word) takes one sleeper s off the queue, if there is any.
FutexWakeOne(f, s) == [fresh |-> f.fresh, asleep |-> f.asleep \ {s}]

\* futex_wait() may return without a wake (a signal): "This function might
\* also return spuriously.  Handle that case."
FutexInterrupt(f, t) == [fresh |-> f.fresh, asleep |-> f.asleep \ {t}]
=============================================================================
