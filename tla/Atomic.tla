------------------------------- MODULE Atomic -------------------------------
(***************************************************************************)
(* Atomic<T> (atomic/atomic.rs): a value under a SerialMutex.  Every       *)
(* operation locks, works on the value in place and unlocks when its guard *)
(* is dropped, on the way out of a panic too.  Closures, clone(), == and    *)
(* destructors are user code: they may call the same Atomic again and may   *)
(* panic.                                                                  *)
(*                                                                         *)
(* A thread has a stack of calls.  The value is a number below WORD.  The  *)
(* SerialMutex is used through its contract (SerialLock): a writer is      *)
(* alone, read aliases belong to one thread, and asking for a hold that    *)
(* conflicts with one's own panics.                                        *)
(***************************************************************************)
EXTENDS Integers, Sequences, FiniteSets, Bitwise

CONSTANTS Threads,
          WORD,      \* values are 0..WORD-1, WORD a power of two
          Args,      \* values the clients pass
          MAXDEPTH,  \* bound: calls of one thread nested in each other
          MAXCALLS   \* bound: calls in a behaviour

AtomicAssumption == WORD \in Nat \ {0, 1} /\ Args \subseteq 0..(WORD - 1)

VARIABLES value, \* the value in place
          holds, \* the mutex: holds [owner, depth, read]
          stack, \* Threads -> its calls, the innermost first
          left,  \* history: the value the last write hold left behind
          calls

vars == <<value, holds, stack, left, calls>>

\* Fault: with_mut() locks for reading.
ReadOpsAndOne == {"with", "load", "with_mut"}

\* with(), load() and load_copy() lock for reading, the others for writing.
ReadOps == {"with", "load"}
FetchOps == {"add", "sub", "and", "or", "xor", "nand", "max", "min"}
Ops == ReadOps \cup FetchOps
       \cup {"with_mut", "replace_with", "swap", "store", "compare_exchange", "fetch_update"}

Init ==
    /\ value = 0 /\ left = 0 /\ calls = 0
    /\ holds = {}
    /\ stack = [t \in Threads |-> <<>>]

Busy(t) == stack[t] # <<>>
Top(t) == stack[t][1]
At(t, label) == Busy(t) /\ Top(t).pc = label
Op(t) == Top(t).op
Put(t, label, old) == stack' = [stack EXCEPT ![t][1].pc = label, ![t][1].old = old]
Goto(t, label) == Put(t, label, Top(t).old)
Pop(t) == stack' = [stack EXCEPT ![t] = Tail(@)]

Reads(t) == Op(t) \in ReadOps
MyHold(t) == [owner |-> t, depth |-> Len(stack[t]), read |-> Reads(t)]
Conflicts(t) == {h \in holds : ~(h.read /\ Reads(t) /\ h.owner = t)}

\* A thread is in user code: between calls, in a closure, a clone or a
\* comparison, or in the destructor of a value.
InUserCode(t) == Busy(t) => Top(t).pc \in {"closure", "assign", "drop"}

-----------------------------------------------------------------------------
Call(t, op, v) ==
    /\ InUserCode(t) /\ Len(stack[t]) < MAXDEPTH
    /\ calls < MAXCALLS /\ calls' = calls + 1
    /\ stack' = [stack EXCEPT ![t] = <<[op |-> op, pc |-> "lock", arg |-> v, old |-> 0]>> \o @]
    /\ UNCHANGED <<value, holds, left>>

\* read_guard() or write_guard(); the operations without user code go on to
\* read the old value.
Lock(t) ==
    /\ At(t, "lock") /\ Conflicts(t) = {}
    /\ holds' = holds \cup {MyHold(t)}
    /\ Put(t, IF Op(t) \in FetchOps \cup {"swap", "store"} THEN "read" ELSE "closure", value)
    /\ UNCHANGED <<value, left, calls>>

\* Conflicting reentrance panics before anything is locked.
LockPanics(t) ==
    /\ At(t, "lock") /\ \E h \in Conflicts(t) : h.owner = t
    /\ Pop(t)
    /\ UNCHANGED <<value, holds, left, calls>>

\* The guard of the innermost call is dropped.
Unlocked(t) == holds \ {MyHold(t)}

Leave(t) == left' = IF Reads(t) THEN left ELSE value

\* The end of a call.  store() drops the value it replaced with the lock
\* released: "Destructors may reenter the container after the replacement is
\* visible."
Unlock(t) ==
    /\ At(t, "unlock")
    /\ holds' = holds \ {MyHold(t)}
    /\ Leave(t)
    /\ IF Op(t) = "store" THEN Goto(t, "drop") ELSE Pop(t)
    /\ UNCHANGED <<value, calls>>

\* User code under the lock panics: the guard is dropped while unwinding.
Panic(t) ==
    /\ At(t, "closure")
    /\ holds' = Unlocked(t)
    /\ Leave(t)
    /\ Pop(t)
    /\ UNCHANGED <<value, calls>>

\* The destructor store() runs returns (or panics: nothing is left to unwind).
Dropped(t) ==
    /\ At(t, "drop")
    /\ Pop(t)
    /\ UNCHANGED <<value, holds, left, calls>>

-----------------------------------------------------------------------------
(* What the operations do to the value                                     *)

\* with() and load(): the closure or the clone is done.
With(t) ==
    /\ At(t, "closure") /\ Reads(t)
    /\ Goto(t, "unlock")
    /\ UNCHANGED <<value, holds, left, calls>>

\* with_mut(), update() and try_update(): the closure changes the value in
\* place, any number of times ...
WithMut(t) ==
    /\ At(t, "closure") /\ Op(t) = "with_mut"
    /\ \E v \in Args : value' = v
    /\ UNCHANGED <<holds, stack, left, calls>>

\* ... and returns.
WithMutReturns(t) ==
    /\ At(t, "closure") /\ Op(t) = "with_mut"
    /\ Goto(t, "unlock")
    /\ UNCHANGED <<value, holds, left, calls>>

\* replace_with(): the closure's result replaces the value.
ReplaceWith(t) ==
    /\ At(t, "closure") /\ Op(t) = "replace_with"
    /\ value' = Top(t).arg
    /\ Goto(t, "unlock")
    /\ UNCHANGED <<holds, left, calls>>

\* compare_exchange(): clone, compare, assign.  The value it expects is
\* the one below its argument.
CompareExchange(t) ==
    /\ At(t, "closure") /\ Op(t) = "compare_exchange"
    /\ Goto(t, IF (value + 1) % WORD = Top(t).arg THEN "assign" ELSE "unlock")
    /\ UNCHANGED <<value, holds, left, calls>>

\* fetch_update(): the closure decides.
FetchUpdate(t) ==
    /\ At(t, "closure") /\ Op(t) = "fetch_update"
    /\ \E next \in {"assign", "unlock"} : Goto(t, next)
    /\ UNCHANGED <<value, holds, left, calls>>

\* An assignment drops the old value in place, under the lock, and moves the
\* new one in even if the destructor panics.
Assign(t) ==
    /\ At(t, "assign")
    /\ value' = Top(t).arg
    /\ Goto(t, "unlock")
    /\ UNCHANGED <<holds, left, calls>>

FetchAdd(old, v) == (old + v) % WORD
FetchSub(old, v) == (old - v) % WORD
FetchAndBits(old, v) == old & v
FetchOrBits(old, v) == old | v
FetchXorBits(old, v) == old ^^ v
FetchNand(old, v) == (WORD - 1) - (old & v)
FetchMax(old, v) == IF v > old THEN v ELSE old
FetchMin(old, v) == IF v < old THEN v ELSE old
Swap(old, v) == v

Result(op, old, v) ==
    CASE op = "add" -> FetchAdd(old, v)
      [] op = "sub" -> FetchSub(old, v)
      [] op = "and" -> FetchAndBits(old, v)
      [] op = "or" -> FetchOrBits(old, v)
      [] op = "xor" -> FetchXorBits(old, v)
      [] op = "nand" -> FetchNand(old, v)
      [] op = "max" -> FetchMax(old, v)
      [] op = "min" -> FetchMin(old, v)
      [] OTHER -> Swap(old, v)

\* The old value is read ...
Fetch(t) ==
    /\ At(t, "read")
    /\ Put(t, "write", value)
    /\ UNCHANGED <<value, holds, left, calls>>

\* ... and the new one written.  An addition or a subtraction that overflows
\* panics instead in a debug build.
Write(t) ==
    /\ At(t, "write")
    /\ value' = Result(Op(t), Top(t).old, Top(t).arg)
    /\ Goto(t, "unlock")
    /\ UNCHANGED <<holds, left, calls>>

Overflow(t) ==
    LET f == Top(t) IN
    /\ At(t, "write")
    /\ \/ f.op = "add" /\ f.old + f.arg >= WORD
       \/ f.op = "sub" /\ f.old < f.arg
    /\ holds' = Unlocked(t)
    /\ Leave(t)
    /\ Pop(t)
    /\ UNCHANGED <<value, calls>>

-----------------------------------------------------------------------------
Step(t) ==
    \/ Lock(t) \/ LockPanics(t) \/ Unlock(t) \/ Panic(t) \/ Dropped(t)
    \/ With(t) \/ WithMutReturns(t) \/ ReplaceWith(t) \/ CompareExchange(t) \/ FetchUpdate(t)
    \/ Assign(t) \/ Fetch(t) \/ Write(t) \/ Overflow(t)

Next == \E t \in Threads : Step(t) \/ WithMut(t) \/ \E op \in Ops, v \in Args : Call(t, op, v)

Spec == Init /\ [][Next]_vars

-----------------------------------------------------------------------------
TypeOK ==
    /\ value \in 0..(WORD - 1) /\ left \in 0..(WORD - 1)
    /\ holds \subseteq [owner : Threads, depth : 1..MAXDEPTH, read : BOOLEAN]
    /\ \A t \in Threads : Len(stack[t]) <= MAXDEPTH /\ \A n \in DOMAIN stack[t] :
          /\ stack[t][n].op \in Ops /\ stack[t][n].old \in 0..(WORD - 1)
          /\ stack[t][n].pc \in {"lock", "closure", "read", "write", "assign", "unlock", "drop"}

Frames == {f \in Threads \X (1..MAXDEPTH) : f[2] <= Len(stack[f[1]])}
Frame(f) == stack[f[1]][f[2]]
Locked(f) == Frame(f).pc \notin {"lock", "drop"}

\* with() and load(): the &T a closure or a clone looks at does not change
\* under it, whatever it and the other threads call meanwhile.
ReadersSeeOneValue ==
    \A f \in Frames : Frame(f).op \in {"with", "load"} /\ Locked(f) => value = Frame(f).old

\* The value an operation returns as the old one is the value the last writer
\* left: no update is lost between reading the value and writing it.
OldIsPrevious ==
    \A f \in Frames : Frame(f).op \notin {"with", "load"} /\ Locked(f) => left = Frame(f).old

\* Until user code and arithmetic are done, nothing is written: a panic in a
\* clone, a comparison, a closure that only reads or an addition leaves the
\* value as it was.
PanicChangesNothing ==
    \A f \in Frames :
        Frame(f).pc \in {"closure", "read", "write", "assign"} /\ Frame(f).op # "with_mut"
            => value = Frame(f).old

\* atomic.rs:114: the destructor that store() runs may call the container, so
\* the call itself no longer holds the lock.
StoreDropsUnlocked ==
    \A t \in Threads : At(t, "drop") =>
        \A h \in holds : h.owner = t => h.depth < Len(stack[t])

\* Every hold belongs to a call in progress: none is left by a panic.
HoldsHaveCalls ==
    \A h \in holds : \E f \in Frames :
        /\ f[1] = h.owner /\ h.depth = Len(stack[h.owner]) + 1 - f[2]
        /\ Frame(f).pc # "lock"

\* Nobody is left in a call, nested in user code or panicking as it may be.
Settled == \A t \in Threads : ~Busy(t)
=============================================================================
