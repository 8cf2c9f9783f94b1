----------------------------- MODULE AtomicCell -----------------------------
(***************************************************************************)
(* AtomicCell (atomic/cell.rs): a value under a SerialMutex in reference-  *)
(* counted storage.  The value is in a MaybeUninit: the code, not the      *)
(* compiler, decides who drops it, the last handle's drop or the caller of *)
(* into_inner().                                                           *)
(*                                                                         *)
(* A value is the number of the call that brought it.  The SerialMutex is  *)
(* used through its contract (SerialLock); swap(), store() and a           *)
(* compare_exchange() that succeeds hold it only inside the call, so they  *)
(* are one step (Atomic.tla takes such operations apart).                  *)
(***************************************************************************)
EXTENDS Handles

CONSTANTS Threads,
          Guards,     \* places where clients keep a guard
          MAXVALUES,  \* bound: values stored in a behaviour
          MAXFORGETS, \* bound: handles forgotten in a behaviour
          MAXCALLS,   \* bound: guards made in a behaviour
          None

VARIABLES value,  \* the value in the cell
          made,   \* values that exist
          ends,   \* value -> how often it was dropped or handed out for good
          guard,  \* Guards -> None or [from, owner, read]
          unwrap, \* Ids -> "none", or how far its into_inner() is
          calls

vars == <<handles, value, made, ends, guard, unwrap, calls>>
cell == <<value, made, ends>>

Init ==
    /\ HandlesInit
    /\ value = 1 /\ made = 1 /\ calls = 0
    /\ ends = [v \in 1..MAXVALUES |-> 0]
    /\ guard = [g \in Guards |-> None]
    /\ unwrap = [h \in Ids |-> "none"]

Borrowed(h) == \E g \in Guards : guard[g] # None /\ guard[g].from = h
Owned(h) == Live(h) /\ unwrap[h] = "none"

\* SerialLock: a writer is alone, read aliases belong to one thread.
Available(t, rd) ==
    \A g \in Guards : guard[g] # None => rd /\ guard[g].read /\ guard[g].owner = t

\* A value comes to its end: dropped, or moved out to a caller.
End(v) == ends' = [ends EXCEPT ![v] = @ + 1]

-----------------------------------------------------------------------------
\* get() and get_mut(), and compare_exchange() that finds another value
Get(t, h, g, rd) ==
    /\ Owned(h) /\ guard[g] = None /\ Available(t, rd)
    /\ calls < MAXCALLS /\ calls' = calls + 1
    /\ guard' = [guard EXCEPT ![g] = [from |-> h, owner |-> t, read |-> rd]]
    /\ UNCHANGED <<handles, cell, unwrap>>

\* Fault: the old value is returned and dropped in place as well.
ReplacedTwice == ends' = [ends EXCEPT ![value] = @ + 2]

\* mem::replace(): the old value goes to the caller, or is dropped.
Replaced == End(value)

New == made < MAXVALUES /\ made' = made + 1 /\ value' = made + 1

\* Through a guard for writing: update() and with_mut()
WriteGuard(g) ==
    /\ guard[g] # None /\ ~guard[g].read /\ ~aborted
    /\ New /\ Replaced
    /\ UNCHANGED <<handles, guard, unwrap, calls>>

\* swap(), store(), and compare_exchange() that succeeds
Swap(t, h) ==
    /\ Owned(h) /\ Available(t, FALSE)
    /\ New /\ Replaced
    /\ UNCHANGED <<handles, guard, unwrap, calls>>

DropGuard(g) ==
    /\ guard[g] # None /\ ~aborted
    /\ guard' = [guard EXCEPT ![g] = None]
    /\ UNCHANGED <<handles, cell, unwrap, calls>>

-----------------------------------------------------------------------------
(* Handles                                                                 *)

CloneCell(h, new) ==
    /\ Owned(h) /\ Clone(h, new)
    /\ UNCHANGED <<cell, guard, unwrap, calls>>

AbortCell(h) == Abort(h) /\ UNCHANGED <<cell, guard, unwrap, calls>>

ForgetCell(h) ==
    /\ Owned(h) /\ ~Borrowed(h) /\ forgotten < MAXFORGETS /\ Forget(h)
    /\ UNCHANGED <<cell, guard, unwrap, calls>>

DropCell(h) ==
    /\ Owned(h) /\ ~Borrowed(h) /\ Drop(h)
    /\ UNCHANGED <<cell, guard, unwrap, calls>>

\* The last handle owns the allocation, drops the value and deallocates, even
\* if the value's destructor panics.
FreeCell(h) ==
    /\ Free(h) /\ End(value)
    /\ UNCHANGED <<value, made, guard, unwrap, calls>>

\* Fault: a second handle is overlooked.
AloneOrPair == count <= 2

\* The assertion of into_inner()
Alone == count = 1

\* into_inner(): load the count ...
IntoInner(h) ==
    /\ Owned(h) /\ ~Borrowed(h)
    /\ unwrap' = [unwrap EXCEPT ![h] = IF Alone THEN "alone" ELSE "shared"]
    /\ UNCHANGED <<handles, cell, guard, calls>>

\* mem::forget(self)
Consumed(h) == Becomes(h, "none")

\* ... the only handle is forgotten, its storage freed, its value returned ...
IntoInnerTake(h) ==
    /\ unwrap[h] = "alone" /\ ~aborted
    /\ Consumed(h) /\ freed' = freed + 1 /\ count' = 0
    /\ End(value)
    /\ unwrap' = [unwrap EXCEPT ![h] = "none"]
    /\ UNCHANGED <<forgotten, aborted, value, made, guard, calls>>

\* ... or the assertion fails and unwinding drops the handle.
IntoInnerPanic(h) ==
    /\ unwrap[h] = "shared" /\ Drop(h)
    /\ unwrap' = [unwrap EXCEPT ![h] = "none"]
    /\ UNCHANGED <<cell, guard, calls>>

Next ==
    \/ \E h \in Ids :
        \/ AbortCell(h) \/ ForgetCell(h) \/ DropCell(h) \/ FreeCell(h)
        \/ IntoInner(h) \/ IntoInnerTake(h) \/ IntoInnerPanic(h)
        \/ \E new \in Ids : CloneCell(h, new)
        \/ \E t \in Threads : Swap(t, h)
        \/ \E t \in Threads, g \in Guards, rd \in BOOLEAN : Get(t, h, g, rd)
    \/ \E g \in Guards : WriteGuard(g) \/ DropGuard(g)

Spec == Init /\ [][Next]_vars

-----------------------------------------------------------------------------
TypeOK ==
    /\ HandlesTypeOK
    /\ value \in 1..made /\ made \in 1..MAXVALUES
    /\ ends \in [1..MAXVALUES -> 0..1]
    /\ guard \in [Guards -> {None} \cup [from : Ids, owner : Threads, read : BOOLEAN]]
    /\ unwrap \in [Ids -> {"none", "alone", "shared"}]

\* Every value that was put into the cell comes to its end once: replaced,
\* returned by into_inner() or dropped with the last handle; the current value
\* has not come to it as long as a handle or a guard can reach it.
ValuesEndOnce ==
    \A v \in 1..made : ends[v] = IF v = value /\ freed = 0 THEN 0 ELSE 1

\* into_inner() that found itself alone still is when it takes the value: no
\* handle was cloned and no guard taken since it loaded the count.
SoleOwner ==
    \A h \in Ids : unwrap[h] = "alone" =>
        InState("live") = {h} /\ forgotten = 0 /\ freed = 0 /\ \A g \in Guards : guard[g] = None
=============================================================================
