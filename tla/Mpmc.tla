-------------------------------- MODULE Mpmc --------------------------------
(***************************************************************************)
(* The mpmc channel (channels/mpmc.rs) over its condition variable         *)
(* (core/scondvar.rs).  A receiver that finds the buffer empty registers   *)
(* as a waiter, releases the mutex, and sleeps until it takes a wake       *)
(* token; a sender adds a token only if somebody is registered.  Tokens    *)
(* are not tied to waiters: a receiver may take the token that was meant   *)
(* for another, and tokens may outlive the waiters they were added for.    *)
(*                                                                         *)
(* The mutex is SMutex, used here as a lock with one owner; the buffer is  *)
(* an AtomicVec used under that lock, of which only the length matters.    *)
(* try_update loops and weak exchanges that retry until they decide on the *)
(* current value are one atomic step.                                      *)
(***************************************************************************)
EXTENDS Naturals, FiniteSets, Futex

CONSTANTS Threads,   \* threads with a handle of the channel
          BOUNDED,   \* the channel's bound, 0 for none
          MAXSENDS,  \* bound: send() calls made in a behaviour
          MAXRECVS,  \* bound: recv() and try_recv() calls made
          None       \* no owner

MpmcAssumption ==
    /\ IsFiniteSet(Threads) /\ None \notin Threads
    /\ BOUNDED \in Nat /\ MAXSENDS \in Nat /\ MAXRECVS \in Nat

VARIABLES mutex,    \* the thread that holds the mutex, or None
          buffer,   \* number of queued messages
          closed,
          waiters,  \* registered waiters
          to_wake,  \* wake tokens
          futex,    \* the condition variable's futex
          count,    \* the waiters notify_all() counted, a local of the mutex's owner
          pc,       \* thread -> label
          sends, recvs

vars == <<mutex, buffer, closed, waiters, to_wake, futex, count, pc, sends, recvs>>
chan == <<buffer, closed>>
cond == <<waiters, to_wake, futex>>
calls == <<sends, recvs>>

Goto(t, label) == pc' = [pc EXCEPT ![t] = label]

Init ==
    /\ mutex = None /\ buffer = 0 /\ closed = FALSE
    /\ waiters = 0 /\ to_wake = 0 /\ futex = FutexNew /\ count = 0
    /\ pc = [t \in Threads |-> "idle"]
    /\ sends = 0 /\ recvs = 0

-----------------------------------------------------------------------------
(* The mutex: mutex.lock() at the head of every operation, and the drop of *)
(* the guard at its end.                                                   *)

After == [send |-> "push", try_recv |-> "try_pop", recv |-> "pop", close |-> "shut"]

Acquire(t) ==
    /\ pc[t] \in DOMAIN After /\ mutex = None
    /\ mutex' = t
    /\ Goto(t, After[pc[t]])
    /\ UNCHANGED <<chan, cond, count, calls>>

Unlock(t) ==
    /\ pc[t] = "unlock"
    /\ mutex' = None
    /\ Goto(t, "idle")
    /\ UNCHANGED <<chan, cond, count, calls>>

-----------------------------------------------------------------------------
(* send(), notify_one()                                                    *)

Send(t) ==
    /\ pc[t] = "idle" /\ sends < MAXSENDS
    /\ sends' = sends + 1
    /\ Goto(t, "send")
    /\ UNCHANGED <<mutex, chan, cond, count, recvs>>

\* A closed or full channel returns the value to the caller.
Rejects == closed \/ (BOUNDED > 0 /\ buffer >= BOUNDED)

Push(t) ==
    /\ pc[t] = "push"
    /\ IF Rejects
       THEN Goto(t, "unlock") /\ UNCHANGED buffer
       ELSE Goto(t, "notify_one") /\ buffer' = buffer + 1
    /\ UNCHANGED <<mutex, closed, cond, count, calls>>

NotifyOne(t) ==
    /\ pc[t] = "notify_one"
    /\ Goto(t, IF waiters > 0 THEN "add_one" ELSE "unlock")
    /\ UNCHANGED <<mutex, chan, cond, count, calls>>

AddOne(t) ==
    /\ pc[t] = "add_one"
    /\ to_wake' = to_wake + 1
    /\ Goto(t, "bump_one")
    /\ UNCHANGED <<mutex, chan, waiters, futex, count, calls>>

\* Fault: the sequence number stays, and a waiter that looked before the token
\* was added goes to sleep after the wake.
BumpMissing(t) ==
    /\ pc[t] \in {"bump_one", "bump_all"}
    /\ Goto(t, IF pc[t] = "bump_one" THEN "wake_one" ELSE "wake_all")
    /\ UNCHANGED <<mutex, chan, cond, count, calls>>

Bump(t) ==
    /\ pc[t] \in {"bump_one", "bump_all"}
    /\ futex' = FutexBump(futex)
    /\ Goto(t, IF pc[t] = "bump_one" THEN "wake_one" ELSE "wake_all")
    /\ UNCHANGED <<mutex, chan, waiters, to_wake, count, calls>>

WakeOne(t) ==
    /\ pc[t] = "wake_one"
    /\ IF futex.asleep = {} THEN UNCHANGED futex
       ELSE \E s \in futex.asleep : futex' = FutexWakeOne(futex, s)
    /\ Goto(t, "unlock")
    /\ UNCHANGED <<mutex, chan, waiters, to_wake, count, calls>>

-----------------------------------------------------------------------------
(* close(), notify_all()                                                   *)

Close(t) ==
    /\ pc[t] = "idle" /\ ~closed
    /\ Goto(t, "close")
    /\ UNCHANGED <<mutex, chan, cond, count, calls>>

Shut(t) ==
    /\ pc[t] = "shut"
    /\ closed' = TRUE
    /\ Goto(t, "notify_all")
    /\ UNCHANGED <<mutex, buffer, cond, count, calls>>

NotifyAll(t) ==
    /\ pc[t] = "notify_all"
    /\ count' = waiters
    /\ Goto(t, IF waiters > 0 THEN "add_all" ELSE "unlock")
    /\ UNCHANGED <<mutex, chan, cond, calls>>

\* Fault: close() hands out one token, as a send does.
AddOneForAll(t) ==
    /\ pc[t] = "add_all"
    /\ to_wake' = to_wake + 1
    /\ Goto(t, "bump_all")
    /\ UNCHANGED <<mutex, chan, waiters, futex, count, calls>>

AddAll(t) ==
    /\ pc[t] = "add_all"
    /\ to_wake' = to_wake + count
    /\ Goto(t, "bump_all")
    /\ UNCHANGED <<mutex, chan, waiters, futex, count, calls>>

WakeAll(t) ==
    /\ pc[t] = "wake_all"
    /\ futex' = FutexWakeAll(futex)
    /\ Goto(t, "unlock")
    /\ UNCHANGED <<mutex, chan, waiters, to_wake, count, calls>>

-----------------------------------------------------------------------------
(* try_recv(), recv(), wait()                                              *)

Recv(t, how) ==
    /\ pc[t] = "idle" /\ recvs < MAXRECVS
    /\ recvs' = recvs + 1
    /\ Goto(t, how)
    /\ UNCHANGED <<mutex, chan, cond, count, sends>>

TryPop(t) ==
    /\ pc[t] = "try_pop"
    /\ buffer' = IF buffer > 0 THEN buffer - 1 ELSE 0
    /\ Goto(t, "unlock")
    /\ UNCHANGED <<mutex, closed, cond, count, calls>>

\* Take a message; else return None from a closed channel; else wait.
Pop(t) ==
    /\ pc[t] = "pop"
    /\ IF buffer > 0
       THEN buffer' = buffer - 1 /\ Goto(t, "unlock") /\ UNCHANGED waiters
       ELSE /\ UNCHANGED buffer
            /\ IF closed
               THEN Goto(t, "unlock") /\ UNCHANGED waiters
               ELSE Goto(t, "registered") /\ waiters' = waiters + 1
    /\ UNCHANGED <<mutex, closed, to_wake, futex, count, calls>>

WaitUnlock(t) ==
    /\ pc[t] = "registered"
    /\ mutex' = None
    /\ Goto(t, "load")
    /\ UNCHANGED <<chan, cond, count, calls>>

WaitLoad(t) ==
    /\ pc[t] = "load" /\ t \notin futex.asleep
    /\ futex' = FutexLoad(futex, t)
    /\ Goto(t, "token")
    /\ UNCHANGED <<mutex, chan, waiters, to_wake, count, calls>>

WaitToken(t) ==
    /\ pc[t] = "token"
    /\ IF to_wake > 0
       THEN to_wake' = to_wake - 1 /\ Goto(t, "leave")
       ELSE Goto(t, "sleep") /\ UNCHANGED to_wake
    /\ UNCHANGED <<mutex, chan, waiters, futex, count, calls>>

WaitSleep(t) ==
    /\ pc[t] = "sleep"
    /\ futex' = FutexWait(futex, t)
    /\ Goto(t, "load")
    /\ UNCHANGED <<mutex, chan, waiters, to_wake, count, calls>>

WaitLeave(t) ==
    /\ pc[t] = "leave"
    /\ waiters' = waiters - 1
    /\ Goto(t, "relock")
    /\ UNCHANGED <<mutex, chan, to_wake, futex, count, calls>>

\* wait() returns with the mutex; recv() drops that guard at once (let _ = ...)
\* and locks again at the head of its loop.
WaitRelock(t) ==
    /\ pc[t] = "relock" /\ mutex = None
    /\ Goto(t, "recv")
    /\ UNCHANGED <<mutex, chan, cond, count, calls>>

Interrupt(t) ==
    /\ t \in futex.asleep
    /\ futex' = FutexInterrupt(futex, t)
    /\ UNCHANGED <<mutex, chan, waiters, to_wake, count, pc, calls>>

-----------------------------------------------------------------------------
Continue(t) ==
    \/ Acquire(t) \/ Unlock(t) \/ Push(t) \/ NotifyOne(t) \/ AddOne(t) \/ Bump(t) \/ WakeOne(t)
    \/ Shut(t) \/ NotifyAll(t) \/ AddAll(t) \/ WakeAll(t) \/ TryPop(t) \/ Pop(t)
    \/ WaitUnlock(t) \/ WaitLoad(t) \/ WaitToken(t) \/ WaitSleep(t) \/ WaitLeave(t) \/ WaitRelock(t)

Next ==
    \E t \in Threads :
        \/ Continue(t) \/ Send(t) \/ Close(t) \/ Interrupt(t)
        \/ \E how \in {"try_recv", "recv"} : Recv(t, how)

Spec == Init /\ [][Next]_vars

-----------------------------------------------------------------------------
Labels == {"idle", "send", "push", "notify_one", "add_one", "bump_one", "wake_one", "close", "shut",
           "notify_all", "add_all", "bump_all", "wake_all", "unlock", "try_recv", "try_pop", "recv",
           "pop", "registered", "load", "token", "sleep", "leave", "relock"}

TypeOK ==
    /\ mutex \in Threads \cup {None}
    /\ buffer \in 0..(IF BOUNDED > 0 THEN BOUNDED ELSE MAXSENDS)
    /\ closed \in BOOLEAN
    /\ waiters \in 0..Cardinality(Threads) /\ to_wake \in Nat /\ count \in Nat
    /\ futex \in Futexes(Threads)
    /\ pc \in [Threads -> Labels]
    /\ sends \in 0..MAXSENDS /\ recvs \in 0..MAXRECVS

\* Waiters that have still to take a token.
Unserved == {t \in Threads : pc[t] \in {"registered", "load", "token", "sleep"}}

\* The waiter count is exact: notify_one() skips the token only when there is
\* nobody to take it.
WaitersExact == waiters = Cardinality(Unserved) + Cardinality({t \in Threads : pc[t] = "leave"})

\* mpmc.rs:121, close(): "all waiting receivers will be woken up".  Once close()
\* has added its tokens there is one for every waiter that still needs one,
\* however many tokens earlier sends left behind or other receivers took.
CloseCoversWaiters ==
    closed /\ (\A t \in Threads : pc[t] \notin {"notify_all", "add_all"}) =>
        to_wake >= Cardinality(Unserved)

\* No message is stranded: a receiver sleeps on a channel that has a message, or
\* is closed, only while some other thread is still at work in a call.
NoStrandedReceiver ==
    futex.asleep # {} /\ (buffer > 0 \/ closed) =>
        \E t \in Threads \ futex.asleep : pc[t] # "idle"

\* Nobody is left in a call, but for receivers of an open and empty channel.
Settled == \A t \in Threads : pc[t] # "idle" => buffer = 0 /\ ~closed
=============================================================================
