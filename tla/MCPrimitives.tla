---------------------------- MODULE MCPrimitives ----------------------------
(***************************************************************************)
(* The small synchronisation primitives, side by side: a behaviour of this *)
(* module is a behaviour of the one named by `which'.  The registers are   *)
(* that primitive's variables, in the order its INSTANCE lists them; the   *)
(* others stay None.                                                       *)
(***************************************************************************)
EXTENDS Naturals

CONSTANTS Threads, None,
          MAXGROUP, BOUNDED, ONE_WRITER,                 \* the primitives' own constants
          MAXSENDS, MAXRECVS, MAXTOKENS, MAXN,           \* bounds of a behaviour
          SMUTEXCALLS, PARKCALLS, BARRIERCALLS, SPINCALLS

VARIABLES which, r1, r2, r3, r4, r5, r6, r7, r8, r9, r10

vars == <<which, r1, r2, r3, r4, r5, r6, r7, r8, r9, r10>>

SM == INSTANCE SMutex WITH MAXCALLS <- SMUTEXCALLS,
    word <- r1, owner <- r2, recursion <- r3, asleep <- r4, held <- r5, call <- r6, calls <- r7

CH == INSTANCE Mpmc WITH
    mutex <- r1, buffer <- r2, closed <- r3, waiters <- r4, to_wake <- r5, futex <- r6,
    count <- r7, pc <- r8, sends <- r9, recvs <- r10

TP == INSTANCE ThreadParker WITH MAXCALLS <- PARKCALLS,
    tokens <- r1, asleep <- r2, pc <- r3, calls <- r4

BA == INSTANCE Barrier WITH MAXCALLS <- BARRIERCALLS,
    n <- r1, bucket <- r2, remaining <- r3, generation <- r4, count <- r5, mutex <- r6,
    asleep <- r7, calls <- r8, call <- r9

SC == INSTANCE SpinCell WITH
    Readers <- Threads, Writers <- Threads, BulkReleasers <- Threads, MAXCALLS <- SPINCALLS,
    state <- r1, role <- r2, pc <- r3, calls <- r4

ASSUME PrimitivesAssumption ==
    /\ SM!SMutexAssumption /\ CH!MpmcAssumption /\ TP!ParkerAssumption
    /\ BA!BarrierAssumption /\ SC!SpinAssumption

Smutex == which = "smutex"
Channel == which = "mpmc"
Parker == which = "parker"
Bar == which = "barrier"
Spin == which = "spin"

\* The registers that the primitives with 4, 7 and 9 variables leave alone.
From5 == <<r5, r6, r7, r8, r9, r10>>
From8 == <<r8, r9, r10>>

Init ==
    \/ Smutex /\ SM!Init /\ r8 = None /\ r9 = None /\ r10 = None
    \/ Channel /\ CH!Init
    \/ Parker /\ TP!Init /\ r5 = None /\ r6 = None /\ r7 = None /\ r8 = None /\ r9 = None /\ r10 = None
    \/ Bar /\ BA!Init /\ r10 = None
    \/ Spin /\ SC!Init /\ r5 = None /\ r6 = None /\ r7 = None /\ r8 = None /\ r9 = None /\ r10 = None

Next ==
    /\ UNCHANGED which
    /\ \/ Smutex /\ SM!Next /\ UNCHANGED From8
       \/ Channel /\ CH!Next
       \/ Parker /\ TP!Next /\ UNCHANGED From5
       \/ Bar /\ BA!Next /\ UNCHANGED r10
       \/ Spin /\ SC!Next /\ UNCHANGED From5

\* What a thread that is scheduled does: go on with its call, and release the
\* locks it holds.
Step(t) ==
    /\ UNCHANGED which
    /\ \/ Smutex /\ SM!Step(t) /\ UNCHANGED From8
       \/ Channel /\ CH!Continue(t)
       \/ Parker /\ TP!Continue(t) /\ UNCHANGED From5
       \/ Bar /\ BA!Continue(t) /\ UNCHANGED r10
       \/ Spin /\ SC!Step(t) /\ UNCHANGED From5

\* Steps that happen for no reason: a weak exchange that fails, a condition
\* variable that wakes up.
Hiccup == \E t \in Threads : (Smutex /\ SM!WeakFailure(t)) \/ (Bar /\ BA!Spurious(t))

\* Every thread is scheduled and nothing hiccups forever.  Calls are finitely
\* many, so no lock or wait queue needs to be fair.
Spec ==
    /\ Init /\ [][Next]_vars
    /\ \A t \in Threads : WF_vars(Step(t))
    /\ <>[][~Hiccup]_vars

-----------------------------------------------------------------------------
\* Each primitive's variables have their types.
TypeOK ==
    /\ Smutex => SM!TypeOK
    /\ Channel => CH!TypeOK
    /\ Parker => TP!TypeOK
    /\ Bar => BA!TypeOK
    /\ Spin => SC!TypeOK

\* The lock words of SMutex and SpinCell say who holds the lock, and how often,
\* in whatever order nested, group and bulk releases come.
HoldersExact == (Smutex => SM!GuardsExact) /\ (Spin => SC!HoldersExact)

\* The condition variable's waiters are counted exactly and close() leaves a
\* token for each of them; a barrier's phase is made of exactly the arrivals it
\* requires.
CountsExact ==
    /\ Channel => CH!WaitersExact /\ CH!CloseCoversWaiters
    /\ Bar => BA!ArrivalsExact

\* Nobody sleeps on what it waits for: on a free SMutex, on a channel that has
\* a message or is closed, on a parker's token, or in a past phase of a
\* barrier, unless somebody is on the way to wake it.
NoLostWakeup ==
    /\ Smutex => SM!NoLostWakeup
    /\ Channel => CH!NoStrandedReceiver
    /\ Parker => TP!NoLostToken
    /\ Bar => BA!SleepersCurrent

\* SpinCell: no parked flag is left without a writer that clears it.
FlagsHaveWriter == Spin => SC!FlagsHaveWriter

Settled ==
    /\ Smutex => SM!Settled
    /\ Channel => CH!Settled
    /\ Parker => TP!Settled
    /\ Bar => BA!Settled
    /\ Spin => SC!Settled

\* Every call returns, but those that the primitive makes wait for good reason:
\* recv() on an open and empty channel, park() without a token, and wait() in a
\* phase short of arrivals (the components' Settled).
EveryCallReturns == <>[]Settled
=============================================================================
