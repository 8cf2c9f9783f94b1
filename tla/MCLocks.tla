------------------------------ MODULE MCLocks ------------------------------
(***************************************************************************)
(* Liveness of the three locks that sleep or spin without bound on the     *)
(* number of calls: SerialMutex, RawMutex and the operation coordinator.   *)
(* A behaviour of this module is a behaviour of the lock named by `which'; *)
(* the registers are that lock's variables, in the order its INSTANCE      *)
(* lists them, and the others stay None.                                   *)
(***************************************************************************)
EXTENDS Naturals

CONSTANTS Threads,              \* numbers, as Coord's thread identifiers are
          Guards, COUNT,        \* of SerialMutex
          Readers, Writers,     \* of RawMutex
          ONE_WRITER, LANES,    \* of RawMutex and of Coord
          None

VARIABLES which, r1, r2, r3, r4, r5, r6, r7, r8

vars == <<which, r1, r2, r3, r4, r5, r6, r7, r8>>

SE == INSTANCE SerialMutex WITH state <- r1, wake <- r2, guard <- r3, call <- r4

RA == INSTANCE RawMutex WITH Downgraders <- {}, BulkReleasers <- {},
    state <- r1, readers <- r2, writers <- r3, role <- r4, call <- r5

CO == INSTANCE Coord WITH
    readers <- r1, owners <- r2, last <- r3, writing <- r4, writers <- r5, pin <- r6,
    excl <- r7, call <- r8

Serial == which = "serial"
Raw == which = "raw"
Pins == which = "coord"

Init ==
    \/ Serial /\ SE!Init /\ r5 = None /\ r6 = None /\ r7 = None /\ r8 = None
    \/ Raw /\ RA!Init /\ r6 = None /\ r7 = None /\ r8 = None
    \/ Pins /\ CO!Init

Next ==
    /\ UNCHANGED which
    /\ \/ Serial /\ SE!Next /\ UNCHANGED <<r5, r6, r7, r8>>
       \/ Raw /\ RA!Next /\ UNCHANGED <<r6, r7, r8>>
       \/ Pins /\ CO!Next

\* A thread that is scheduled goes on with its call.
Continue(t) ==
    /\ UNCHANGED which
    /\ \/ Serial /\ SE!Continue(t) /\ UNCHANGED <<r5, r6, r7, r8>>
       \/ Raw /\ RA!Continue(t) /\ UNCHANGED <<r6, r7, r8>>
       \/ Pins /\ CO!Continue(t)

\* The scheduler runs every thread that is inside a call, and operations that
\* are pinned end (in Coord, Continue ends them).  Nothing is assumed of when
\* callers take or release locks, nor of spurious wakeups.
Spec == Init /\ [][Next]_vars /\ \A t \in Threads : WF_vars(Continue(t))

-----------------------------------------------------------------------------
\* The lock is there for the taking.
Free ==
    /\ Serial => r1 = SE!Unlocked
    /\ Raw => r1.hold = 0

\* A thread is asleep on its futex, or in the scan of exclusive().
Waiting(t) ==
    \/ Serial /\ t \in r2.asleep
    \/ Raw /\ t \in r3.asleep
    \/ Pins /\ CO!pc(t) = "scan"

\* Nobody waits forever for a lock that keeps becoming free, whatever calls keep
\* arriving: a thread asleep in SerialMutex and a writer asleep in RawMutex are
\* woken, without relying on a spurious wakeup, and exclusive() gets through its
\* scan of the lanes.
WaitersProceed == []<>Free => \A t \in Threads : []<>~Waiting(t)
=============================================================================
