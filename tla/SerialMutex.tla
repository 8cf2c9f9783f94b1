---------------------------- MODULE SerialMutex ----------------------------
(***************************************************************************)
(* SerialMutex (core/serial.rs): the lock inside Atomic, AtomicCell, every *)
(* slot of AtomicArray, every bucket of AtomicHashMap, and the writer side *)
(* of Coord.  One atomic word holds the owner, the reader count, the       *)
(* writer flag and the waiter flag; `wake' is the futex waiters sleep on.  *)
(*                                                                         *)
(* Each action is one atomic access to shared memory together with the     *)
(* local computation that follows it.  call[t] holds thread t's locals:    *)
(* where it is (pc), whether it asked for a read (rd), the guard it is     *)
(* dropping (slot), and the word it last loaded (seen).                    *)
(***************************************************************************)
EXTENDS Naturals, FiniteSets, Futex

CONSTANTS Threads,  \* threads that use the lock
          Guards,   \* places where the program can keep a live guard; as many
                    \* as the word can count, so an acquirer always finds one
          COUNT,    \* the largest reader count the word can hold
          None      \* "no guard", "no thread"

GuardRecords == [owner : Threads, holder : Threads, read : BOOLEAN]

ASSUME SerialAssumption ==
    /\ IsFiniteSet(Guards)
    /\ COUNT \in 1..Cardinality(Guards)
    /\ None \notin Threads \cup Guards \cup GuardRecords

VARIABLES state,    \* the lock word
          wake,     \* the futex word
          guard,    \* Guards -> None or [owner, holder, read]
          call      \* Threads -> locals of the call in progress

vars == <<state, wake, guard, call>>

Words == [owner : Threads \cup {None}, count : 0..COUNT, write : BOOLEAN, wait : BOOLEAN]
Labels == {"idle", "snapshot", "load", "acquire", "register", "wait", "asleep",
           "release", "notify", "wake"}
Calls == [pc : Labels, rd : BOOLEAN, slot : Guards \cup {None}, seen : Words]

Unlocked == [owner |-> None, count |-> 0, write |-> FALSE, wait |-> FALSE]

\* The word of a fresh acquisition: owner | 1 or owner | WRITE.
Desired(t, rd) ==
    [owner |-> t, count |-> IF rd THEN 1 ELSE 0, write |-> ~rd, wait |-> FALSE]

\* A word with another count, or with the waiter flag set.
WithCount(w, n) == [owner |-> w.owner, count |-> n, write |-> w.write, wait |-> w.wait]
WithWait(w) == [owner |-> w.owner, count |-> w.count, write |-> w.write, wait |-> TRUE]

At(label, rd, slot, seen) == [pc |-> label, rd |-> rd, slot |-> slot, seen |-> seen]
Idle == At("idle", FALSE, None, Unlocked)

Live == {g \in Guards : guard[g] # None}

GuardOf(t, rd) == [owner |-> t, holder |-> t, read |-> rd]

\* The SerialGuard (or the watch guard around it) that the caller now keeps.
NewGuard(t, rd) ==
    \E g \in Guards \ Live : guard' = [guard EXCEPT ![g] = GuardOf(t, rd)]

Init ==
    /\ state = Unlocked
    /\ wake = FutexNew
    /\ guard = [g \in Guards |-> None]
    /\ call = [t \in Threads |-> Idle]

\* Move on within a lock call: with the word just loaded, or without one.
GotoWith(t, label, word) == call' = [call EXCEPT ![t] = At(label, call[t].rd, None, word)]
Goto(t, label) == GotoWith(t, label, Unlocked)
Return(t) == call' = [call EXCEPT ![t] = Idle]

-----------------------------------------------------------------------------
(* Acquisition.                                                            *)

\* lock(): one compare_exchange from 0; on failure, lock_slow().
Lock(t, rd) ==
    /\ call[t].pc = "idle"
    /\ \/ /\ state = Unlocked
          /\ state' = Desired(t, rd)
          /\ NewGuard(t, rd)
          /\ UNCHANGED call
       \/ /\ state # Unlocked
          /\ call' = [call EXCEPT ![t] = At("snapshot", rd, None, Unlocked)]
          /\ UNCHANGED <<state, guard>>
    /\ UNCHANGED wake

\* try_write_guard(): the same exchange; a failure changes nothing.
TryWriteGuard(t) ==
    /\ call[t].pc = "idle"
    /\ state = Unlocked
    /\ state' = Desired(t, FALSE)
    /\ NewGuard(t, FALSE)
    /\ UNCHANGED <<wake, call>>

\* lock_slow(): the futex sequence is read before the state.
Snapshot(t) ==
    /\ call[t].pc = "snapshot"
    /\ wake' = FutexLoad(wake, t)
    /\ Goto(t, "load")
    /\ UNCHANGED <<state, guard>>

\* Fault: reentrance without the "conflicting reentrant" assertion on the WRITE
\* bit.
ReentrantOverWrite(t) == call[t].rd /\ state.count # COUNT

\* A reentrant read is admitted unless the thread writes or the count is full.
Reentrant(t) == call[t].rd /\ ~state.write /\ state.count # COUNT

\* Fault: reentrance decided from the flags alone, without comparing owners.
LoadStateAnyOwner(t) ==
    /\ call[t].pc = "load"
    /\ \/ /\ state = Unlocked \/ Reentrant(t)
          /\ GotoWith(t, "acquire", state)
       \/ /\ state # Unlocked /\ ~Reentrant(t)
          /\ GotoWith(t, "register", state)
    /\ UNCHANGED <<state, wake, guard>>

\* lock_slow(): load the state and choose: take it, take one more reference,
\* panic on a conflicting reentrance, or (after the backoff) register.
LoadState(t) ==
    /\ call[t].pc = "load"
    /\ \/ /\ state = Unlocked \/ (state.owner = t /\ Reentrant(t))
          /\ GotoWith(t, "acquire", state)
       \/ /\ state.owner = t /\ ~Reentrant(t)
          /\ Return(t)
       \/ /\ state.owner \notin {t, None}
          /\ \/ Goto(t, "snapshot")
             \/ GotoWith(t, "register", state)
    /\ UNCHANGED <<state, wake, guard>>

\* Fault: a reentrant acquisition that rebuilds the word and drops WAIT.
AcquiredForgettingWait(t) ==
    IF call[t].seen = Unlocked
    THEN Desired(t, call[t].rd)
    ELSE WithCount(Desired(t, TRUE), call[t].seen.count + 1)

\* The word after a successful acquisition from the word that was seen.
Acquired(t) ==
    IF call[t].seen = Unlocked
    THEN Desired(t, call[t].rd)
    ELSE WithCount(call[t].seen, call[t].seen.count + 1)

\* lock_slow(): compare_exchange_weak, which may also fail spuriously.
AcquireCas(t) ==
    /\ call[t].pc = "acquire"
    /\ \/ /\ state = call[t].seen
          /\ state' = Acquired(t)
          /\ NewGuard(t, call[t].rd)
          /\ Return(t)
       \/ /\ Goto(t, "snapshot")
          /\ UNCHANGED <<state, guard>>
    /\ UNCHANGED wake

\* lock_slow(): set the waiter flag on the word that was seen.
RegisterCas(t) ==
    /\ call[t].pc = "register"
    /\ \/ /\ state = call[t].seen
          /\ state' = WithWait(state)
          /\ Goto(t, "wait")
       \/ /\ state # call[t].seen
          /\ Goto(t, "snapshot")
          /\ UNCHANGED state
    /\ UNCHANGED <<wake, guard>>

\* lock_slow(): futex_wait on the snapshot taken before the state was read.
Wait(t) ==
    /\ call[t].pc = "wait"
    /\ wake' = FutexWait(wake, t)
    /\ Goto(t, IF t \in wake'.asleep THEN "asleep" ELSE "snapshot")
    /\ UNCHANGED <<state, guard>>

\* futex_wait returns once the kernel has taken the thread off the queue.
Resume(t) ==
    /\ call[t].pc = "asleep"
    /\ t \notin wake.asleep
    /\ Goto(t, "snapshot")
    /\ UNCHANGED <<state, wake, guard>>

Interrupt(t) ==
    /\ t \in wake.asleep
    /\ wake' = FutexInterrupt(wake, t)
    /\ UNCHANGED <<state, guard, call>>

-----------------------------------------------------------------------------
(* Release.  Any thread that holds a guard may drop it.                    *)

Transfer(g, t) ==
    /\ g \in Live
    /\ t # guard[g].holder
    /\ call[guard[g].holder].pc = "idle" /\ call[t].pc = "idle"
    /\ guard' = [guard EXCEPT ![g] =
                    [owner |-> guard[g].owner, holder |-> t, read |-> guard[g].read]]
    /\ UNCHANGED <<state, wake, call>>

Dropping(t, g) == call[t].pc = "idle" /\ g \in Live /\ guard[g].holder = t

\* unlock_read(): exchange owner|1 for 0, else fall back to the counted release
\* with the word the failed exchange returned.
UnlockRead(t, g) ==
    /\ Dropping(t, g) /\ guard[g].read
    /\ IF state = Desired(guard[g].owner, TRUE)
       THEN /\ state' = Unlocked
            /\ guard' = [guard EXCEPT ![g] = None]
            /\ UNCHANGED call
       ELSE /\ call' = [call EXCEPT ![t] = At("release", TRUE, g, state)]
            /\ UNCHANGED <<state, guard>>
    /\ UNCHANGED wake

\* A release that cleared the waiter flag goes on to notify().
AfterRelease(t, last, waited) ==
    call' = [call EXCEPT ![t] =
               IF last /\ waited THEN At("notify", FALSE, None, Unlocked) ELSE Idle]

\* Fault: the counted release stores what it computed from a stale word.
ReleaseStore(t) ==
    LET seen == call[t].seen
    IN  /\ call[t].pc = "release"
        /\ state' = IF seen.count = 1 THEN Unlocked ELSE WithCount(state, seen.count - 1)
        /\ guard' = [guard EXCEPT ![call[t].slot] = None]
        /\ AfterRelease(t, seen.count = 1, seen.wait)
        /\ UNCHANGED wake

\* unlock_read(): the counted release; the last reader clears the whole word.
ReleaseCas(t) ==
    LET seen == call[t].seen
        last == seen.count = 1
    IN  /\ call[t].pc = "release"
        /\ \/ /\ state = seen
              /\ state' = IF last THEN Unlocked ELSE WithCount(state, state.count - 1)
              /\ guard' = [guard EXCEPT ![call[t].slot] = None]
              /\ AfterRelease(t, last, seen.wait)
           \/ /\ call' = [call EXCEPT ![t] = At("release", TRUE, call[t].slot, state)]
              /\ UNCHANGED <<state, guard>>
        /\ UNCHANGED wake

\* unlock_write(): swap the word with 0.
UnlockWrite(t, g) ==
    /\ Dropping(t, g) /\ ~guard[g].read
    /\ state' = Unlocked
    /\ guard' = [guard EXCEPT ![g] = None]
    /\ AfterRelease(t, TRUE, state.wait)
    /\ UNCHANGED wake

\* Fault: the wake without the bump, and the bump without the wake.
NotifyNoBump(t) ==
    /\ call[t].pc = "notify"
    /\ Goto(t, "wake")
    /\ UNCHANGED <<state, wake, guard>>
NotifyNoWake(t) ==
    /\ call[t].pc = "wake"
    /\ Return(t)
    /\ UNCHANGED <<state, wake, guard>>

\* notify(): bump the sequence ...
NotifyBump(t) ==
    /\ call[t].pc = "notify"
    /\ wake' = FutexBump(wake)
    /\ Goto(t, "wake")
    /\ UNCHANGED <<state, guard>>

\* ... then wake every sleeper.
NotifyWake(t) ==
    /\ call[t].pc = "wake"
    /\ wake' = FutexWakeAll(wake)
    /\ Return(t)
    /\ UNCHANGED <<state, guard>>

-----------------------------------------------------------------------------
\* A step of a call that is under way.
Continue(t) ==
    \/ Snapshot(t) \/ LoadState(t) \/ AcquireCas(t) \/ RegisterCas(t) \/ Wait(t)
    \/ Resume(t) \/ ReleaseCas(t) \/ NotifyBump(t) \/ NotifyWake(t)

Next ==
    \E t \in Threads :
        \/ Continue(t)
        \/ Interrupt(t)
        \/ \E rd \in BOOLEAN : Lock(t, rd)
        \/ TryWriteGuard(t)
        \/ \E g \in Guards : Transfer(g, t) \/ UnlockRead(t, g) \/ UnlockWrite(t, g)

Spec == Init /\ [][Next]_vars

-----------------------------------------------------------------------------
TypeOK ==
    /\ state \in Words
    /\ wake \in Futexes(Threads)
    /\ guard \in [Guards -> GuardRecords \cup {None}]
    /\ call \in [Threads -> Calls]

ReadGuards == {g \in Live : guard[g].read}

\* serial.rs:11, "Read aliases stay on their acquiring thread; writers never
\* alias readers": two live guards are both read guards of one owner.
NoAliasing ==
    \A g, h \in Live : g # h =>
        guard[g].read /\ guard[h].read /\ guard[g].owner = guard[h].owner

\* The word and the guards agree: the count is the number of read guards, the
\* WRITE bit is a live write guard, the owner acquired every live guard.  A
\* last foreign drop that raced a reentrant read would break the equality.
WordCountsGuards ==
    /\ state.count = Cardinality(ReadGuards)
    /\ state.write <=> \E g \in Live : ~guard[g].read
    /\ \A g \in Live : guard[g].owner = state.owner
    /\ Live = {} <=> state = Unlocked

\* serial.rs:13, "cannot ... lose a wakeup": whoever sleeps is either still
\* registered in the word, or a releasing thread has its wake on the way.
NoLostWakeup ==
    \A t \in wake.asleep :
        state.wait \/ \E u \in Threads : call[u].pc \in {"notify", "wake"}

\* A waiter's registration is only ever removed by a release that frees the
\* lock, and that same step leaves the releasing thread about to notify.
RegistrationHandedOn ==
    [][state.wait /\ ~state'.wait =>
         /\ state' = Unlocked
         /\ \E t \in Threads : call[t].pc # "notify" /\ call'[t].pc = "notify"]_vars

\* SerialMutex does what SerialLock says, and nothing else to the guards.
Abstract == INSTANCE SerialLock
ImplementsSerialLock == Abstract!Spec
=============================================================================
