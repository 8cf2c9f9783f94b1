------------------------------ MODULE Barrier ------------------------------
(***************************************************************************)
(* Barrier (sync/barrier.rs): a reusable barrier over a standard mutex and *)
(* condition variable (external).  The first phase needs n arrivals, every *)
(* later one bucket; zero disables the phase.  release() completes a phase *)
(* that is still short of arrivals.  `count' is what count() reads without *)
(* the mutex.                                                              *)
(***************************************************************************)
EXTENDS Naturals, FiniteSets

CONSTANTS Threads,
          MAXN,       \* bound: largest n and bucket that are tried
          MAXCALLS,   \* bound: calls made in a behaviour
          None        \* mutex free

BarrierAssumption ==
    IsFiniteSet(Threads) /\ None \notin Threads /\ MAXN \in Nat /\ MAXCALLS \in Nat

VARIABLES n, bucket,              \* the sizes, fixed from the start
          remaining, generation,  \* the state the mutex protects
          count,                  \* the unprotected copy of remaining
          mutex,                  \* its holder, or None
          asleep,                 \* threads blocked in cond.wait()
          calls,                  \* calls made so far
          call                    \* thread -> [pc, gen]: label, the generation it arrived in

vars == <<n, bucket, remaining, generation, count, mutex, asleep, calls, call>>
sizes == <<n, bucket>>
phase == <<remaining, generation, count>>

pc(t) == call[t].pc
At(label, g) == [pc |-> label, gen |-> g]
Goto(t, label) == call' = [call EXCEPT ![t] = At(label, @.gen)]
Return(t) == call' = [call EXCEPT ![t] = At("idle", 0)] /\ mutex' = None

Init ==
    /\ n \in 0..MAXN /\ bucket \in 0..MAXN
    /\ remaining = n /\ generation = 0 /\ count = n
    /\ mutex = None /\ asleep = {} /\ calls = 0
    /\ call = [t \in Threads |-> At("idle", 0)]

\* state.lock() at the start of wait() and of release(); the guard is dropped
\* by Return and by Sleep.
Begin(t, label) ==
    /\ pc(t) = "idle" /\ mutex = None /\ calls < MAXCALLS
    /\ mutex' = t /\ calls' = calls + 1
    /\ Goto(t, label)
    /\ UNCHANGED <<sizes, phase, asleep>>

\* cond.wait() locks again before it returns.
Relock(t) ==
    /\ pc(t) = "waiting" /\ t \notin asleep /\ mutex = None
    /\ mutex' = t
    /\ Goto(t, "check")
    /\ UNCHANGED <<sizes, phase, asleep, calls>>

Disabled == remaining = 0

\* wait(): a disabled barrier lets the thread through; else it arrives.
Arrive(t) ==
    /\ pc(t) = "arrive"
    /\ IF Disabled
       THEN Return(t) /\ UNCHANGED <<remaining, count>>
       ELSE /\ remaining' = remaining - 1 /\ count' = remaining - 1
            /\ call' = [call EXCEPT ![t] =
                          At(IF remaining = 1 THEN "complete" ELSE "check", generation)]
            /\ UNCHANGED mutex
    /\ UNCHANGED <<sizes, generation, asleep, calls>>

Refill == remaining' = bucket /\ count' = bucket

\* cond.notify_all()
NotifyAll == asleep' = {}

\* The last arrival, or release(): refill, start the next phase, notify.
Complete(t) ==
    /\ pc(t) \in {"complete", "release"}
    /\ Refill
    /\ generation' = generation + 1
    /\ NotifyAll
    /\ Return(t)
    /\ UNCHANGED <<sizes, calls>>

\* Fault: the thread waits again without a look at the generation.
StillWaitingAlways(t) == TRUE

StillWaiting(t) == call[t].gen = generation

\* cond.wait(): give up the mutex and sleep, in one step.
Sleep(t) ==
    /\ pc(t) = "check" /\ StillWaiting(t)
    /\ mutex' = None
    /\ asleep' = asleep \cup {t}
    /\ Goto(t, "waiting")
    /\ UNCHANGED <<sizes, phase, calls>>

Leave(t) ==
    /\ pc(t) = "check" /\ ~StillWaiting(t)
    /\ Return(t)
    /\ UNCHANGED <<sizes, phase, asleep, calls>>

\* "Condvar::wait ... is susceptible to spurious wakeups".
Spurious(t) ==
    /\ t \in asleep
    /\ asleep' = asleep \ {t}
    /\ UNCHANGED <<sizes, phase, mutex, calls, call>>

Continue(t) == Relock(t) \/ Arrive(t) \/ Complete(t) \/ Sleep(t) \/ Leave(t)

Next ==
    \E t \in Threads : \/ Begin(t, "arrive") \/ Begin(t, "release")
                       \/ Continue(t) \/ Spurious(t)

Spec == Init /\ [][Next]_vars

-----------------------------------------------------------------------------
TypeOK ==
    /\ n \in 0..MAXN /\ bucket \in 0..MAXN
    /\ remaining \in 0..MAXN /\ generation \in 0..MAXCALLS /\ count \in 0..MAXN
    /\ mutex \in Threads \cup {None} /\ asleep \subseteq Threads
    /\ calls \in 0..MAXCALLS
    /\ call \in [Threads -> [pc : {"idle", "arrive", "release", "check", "complete", "waiting"},
                             gen : 0..MAXCALLS]]

\* Threads that arrived in generation g and have not left.
Arrived(g) == {t \in Threads : pc(t) \in {"check", "complete", "waiting"} /\ call[t].gen = g}

\* barrier.rs:15, "Each generation releases exactly its required arrivals": the
\* threads waiting in the current phase and the arrivals still outstanding make
\* up the phase's size, whatever races at the end of the previous phase; and
\* count() tells the outstanding arrivals (CONCURRENCY.md:56).
ArrivalsExact ==
    mutex = None =>
        /\ count = remaining
        /\ remaining > 0 =>
             remaining + Cardinality(Arrived(generation)) = IF generation = 0 THEN n ELSE bucket
        /\ remaining = 0 => Arrived(generation) = {}

\* Nobody sleeps through the end of its phase: a sleeper's generation is the
\* current one, also when wakeups are spurious and phases follow closely.
SleepersCurrent == \A t \in asleep : pc(t) = "waiting" /\ StillWaiting(t)

\* A thread is left in wait() only if its phase is not complete.
Settled ==
    \A t \in Threads :
        pc(t) # "idle" => pc(t) \in {"check", "waiting"} /\ call[t].gen = generation
=============================================================================
