------------------------------- MODULE RwLock -------------------------------
(***************************************************************************)
(* RwLock (sync/rw_lock.rs) and its guards (sync/guard_lock.rs,            *)
(* sync/watch_guard_mut.rs, sync/watch_guard_ref.rs): a value under a      *)
(* RawMutex in reference-counted storage.  A guard borrows the handle it   *)
(* was made from, remembers which way to unlock, and may be downcast into  *)
(* another guard or forgotten.                                             *)
(*                                                                         *)
(* The RawMutex is used through its contract: one writer or some readers.  *)
(* An unlock touches the mutex twice, the second time to wake sleepers,    *)
(* when others may already have the lock.                                  *)
(***************************************************************************)
EXTENDS Handles

CONSTANTS Guards,     \* places where clients keep a guard
          MAXFORGETS, \* bound: handles and guards forgotten in a behaviour
          MAXCALLS,   \* bound: guards made in a behaviour
          None

VARIABLES readers,  \* shared holds of the mutex
          writer,   \* it is held exclusively
          guard,    \* Guards -> None or [from, kind, pc]
          leaked,   \* kind -> guards of the kind that were forgotten
          calls

vars == <<handles, readers, writer, guard, leaked, calls>>

Kinds == {"Shared", "Exclusive"}

Init ==
    /\ HandlesInit
    /\ readers = 0 /\ writer = FALSE /\ calls = 0
    /\ guard = [g \in Guards |-> None]
    /\ leaked = [k \in Kinds |-> 0]

Mutex(r, w) == readers' = r /\ writer' = w
Held(g) == guard[g] # None /\ guard[g].pc = "held"

\* The borrow checker keeps a handle as long as a guard borrows it.
Borrowed(h) == \E g \in Guards : guard[g] # None /\ guard[g].from = h

-----------------------------------------------------------------------------
(* Guards                                                                  *)

Make(h, g, kind) ==
    /\ Live(h) /\ guard[g] = None
    /\ calls < MAXCALLS /\ calls' = calls + 1
    /\ guard' = [guard EXCEPT ![g] = [from |-> h, kind |-> kind, pc |-> "held"]]
    /\ UNCHANGED <<handles, leaked>>

\* lock_exclusive(), and try_lock() when it succeeds
LockExclusive(h, g) ==
    /\ readers = 0 /\ ~writer
    /\ Mutex(0, TRUE)
    /\ Make(h, g, "Exclusive")

\* lock_shared(), and try_lock_shared() when it succeeds
LockShared(h, g) ==
    /\ ~writer
    /\ Mutex(readers + 1, FALSE)
    /\ Make(h, g, "Shared")

\* GuardLock::unlock()
Unlock(kind) == IF kind = "Exclusive" THEN Mutex(readers, FALSE) ELSE Mutex(readers - 1, writer)

\* A guard's drop: the mutex is released, ...
DropGuard(g) ==
    /\ Held(g) /\ ~aborted
    /\ Unlock(guard[g].kind)
    /\ guard' = [guard EXCEPT ![g].pc = "wake"]
    /\ UNCHANGED <<handles, leaked, calls>>

\* ... and then touched again to wake sleepers.
DropWake(g) ==
    /\ guard[g] # None /\ guard[g].pc = "wake" /\ ~aborted
    /\ guard' = [guard EXCEPT ![g] = None]
    /\ UNCHANGED <<handles, readers, writer, leaked, calls>>

\* ManuallyDrop: the old guard's drop does not run.
TakenApart(g) == UNCHANGED <<readers, writer>>

\* downcast(): the lock moves into the new guard, or back into the old one.
Downcast(g, new) ==
    /\ Held(g) /\ ~aborted /\ (new = g \/ guard[new] = None)
    /\ TakenApart(g)
    /\ guard' = [x \in Guards |-> IF x = new THEN guard[g] ELSE IF x = g THEN None ELSE guard[x]]
    /\ UNCHANGED <<handles, leaked, calls>>

\* mem::forget() of a guard: the lock stays held, the borrow ends.
ForgetGuard(g) ==
    /\ Held(g) /\ ~aborted
    /\ forgotten + leaked["Shared"] + leaked["Exclusive"] < MAXFORGETS
    /\ leaked' = [leaked EXCEPT ![guard[g].kind] = @ + 1]
    /\ guard' = [guard EXCEPT ![g] = None]
    /\ UNCHANGED <<handles, readers, writer, calls>>

-----------------------------------------------------------------------------
(* Handles                                                                 *)

rest == <<readers, writer, guard, leaked, calls>>

CloneLock(h, new) == Clone(h, new) /\ UNCHANGED rest
AbortLock(h) == Abort(h) /\ UNCHANGED rest
DropLock(h) == ~Borrowed(h) /\ Drop(h) /\ UNCHANGED rest
FreeLock(h) == Free(h) /\ UNCHANGED rest
ForgetLock(h) ==
    /\ ~Borrowed(h)
    /\ forgotten + leaked["Shared"] + leaked["Exclusive"] < MAXFORGETS
    /\ Forget(h) /\ UNCHANGED rest

Next ==
    \/ \E h \in Ids :
        \/ AbortLock(h) \/ DropLock(h) \/ FreeLock(h) \/ ForgetLock(h)
        \/ \E new \in Ids : CloneLock(h, new)
        \/ \E g \in Guards : LockExclusive(h, g) \/ LockShared(h, g)
    \/ \E g \in Guards :
        \/ DropGuard(g) \/ DropWake(g) \/ ForgetGuard(g)
        \/ \E new \in Guards : Downcast(g, new)

Spec == Init /\ [][Next]_vars

-----------------------------------------------------------------------------
TypeOK ==
    /\ HandlesTypeOK
    /\ readers \in Nat /\ writer \in BOOLEAN
    /\ guard \in [Guards -> {None} \cup [from : Ids, kind : Kinds, pc : {"held", "wake"}]]
    /\ leaked \in [Kinds -> 0..MAXFORGETS]

\* While a guard exists, also while its drop wakes sleepers, the storage with
\* the mutex in it does: no other handle's drop can free it under the guard.
GuardsKeepStorage == (\E g \in Guards : guard[g] # None) => freed = 0 /\ InState("last") = {}

\* The mutex is held exactly for the guards that exist or were forgotten, an
\* exclusive guard is alone, and a downcast neither releases nor duplicates one.
LockExact ==
    LET n(kind) == Cardinality({g \in Guards : Held(g) /\ guard[g].kind = kind}) + leaked[kind] IN
    /\ readers = n("Shared") /\ n("Exclusive") = (IF writer THEN 1 ELSE 0)
    /\ writer => readers = 0
=============================================================================
