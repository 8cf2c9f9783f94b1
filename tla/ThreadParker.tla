---------------------------- MODULE ThreadParker ----------------------------
(***************************************************************************)
(* ThreadParker (core/thread.rs): a counter of unpark tokens that is also  *)
(* the futex parked threads sleep on.  Parker and Unparker can be cloned,  *)
(* so several threads park on one counter, while unpark() wakes only one.  *)
(* try_update retries until it decides on the current value: one step.     *)
(***************************************************************************)
EXTENDS Naturals, FiniteSets

CONSTANTS Threads,    \* threads that park and unpark
          MAXTOKENS,  \* tokens the counter can hold (u32::MAX in the code)
          MAXCALLS    \* bound: calls made in a behaviour

ParkerAssumption ==
    IsFiniteSet(Threads) /\ MAXTOKENS \in Nat \ {0} /\ MAXCALLS \in Nat

VARIABLES tokens, asleep, pc, calls

vars == <<tokens, asleep, pc, calls>>

UNPARKED == 1
PARKED == 0

Goto(t, label) == pc' = [pc EXCEPT ![t] = label]
Begin(t) == pc[t] = "idle" /\ calls < MAXCALLS /\ calls' = calls + 1

Init ==
    /\ tokens = UNPARKED /\ asleep = {}
    /\ pc = [t \in Threads |-> "idle"]
    /\ calls = 0

HasToken == tokens > PARKED

\* try_consume_token(): take one, or go on at `otherwise`.
Consume(t, otherwise) ==
    /\ IF HasToken
       THEN tokens' = tokens - 1 /\ Goto(t, "idle")
       ELSE Goto(t, otherwise) /\ UNCHANGED tokens
    /\ UNCHANGED asleep

\* park(), the fast path.
Park(t) == Begin(t) /\ Consume(t, "retry")

\* park(), the head of the loop; a sleeping thread is not there yet.
Retry(t) == pc[t] = "retry" /\ t \notin asleep /\ Consume(t, "wait") /\ UNCHANGED calls

\* futex_wait(tokens, PARKED): the kernel compares and queues in one step.
Wait(t) ==
    /\ pc[t] = "wait"
    /\ asleep' = IF tokens = PARKED THEN asleep \cup {t} ELSE asleep
    /\ Goto(t, "retry")
    /\ UNCHANGED <<tokens, calls>>

\* unpark(): add_token(), which panics at the counter's end, ...
Unpark(t) ==
    /\ Begin(t)
    /\ IF tokens < MAXTOKENS
       THEN tokens' = tokens + 1 /\ Goto(t, "wake")
       ELSE UNCHANGED <<tokens, pc>>
    /\ UNCHANGED asleep

\* ... then futex_wake(): one sleeper, of the kernel's choice.
Wake(t) ==
    /\ pc[t] = "wake"
    /\ IF asleep = {} THEN UNCHANGED asleep
       ELSE \E s \in asleep : asleep' = asleep \ {s}
    /\ Goto(t, "idle")
    /\ UNCHANGED <<tokens, calls>>

Interrupt(t) ==
    /\ t \in asleep
    /\ asleep' = asleep \ {t}
    /\ UNCHANGED <<tokens, pc, calls>>

Continue(t) == Retry(t) \/ Wait(t) \/ Wake(t)

Next == \E t \in Threads : Continue(t) \/ Park(t) \/ Unpark(t) \/ Interrupt(t)

Spec == Init /\ [][Next]_vars

-----------------------------------------------------------------------------
TypeOK ==
    /\ tokens \in 0..MAXTOKENS
    /\ asleep \subseteq Threads
    /\ pc \in [Threads -> {"idle", "retry", "wait", "wake"}]
    /\ calls \in 0..MAXCALLS

\* Threads that have yet to look at the counter or to wake a sleeper.
Busy == {t \in Threads : pc[t] # "idle" /\ t \notin asleep}

\* thread.rs:94, "avoids the race where the wake could be lost": while anyone
\* sleeps, every token is matched by a thread that is about to consume one or
\* about to wake a sleeper that will, although each unpark() wakes one thread
\* only and tokens are taken by whoever comes first.
NoLostToken == asleep # {} => tokens <= Cardinality(Busy)

\* A thread is left in park() only if no token is left.
Settled == tokens > PARKED => \A t \in Threads : pc[t] = "idle"
=============================================================================
