------------------------------ MODULE RawMutex ------------------------------
(***************************************************************************)
(* RawMutex (core/mutex.rs): the reader/writer lock inside RwLock.  One    *)
(* word holds the holders (a reader count, or the all-ones pattern for a   *)
(* writer) and two flags, "readers are parked" and "writers are parked";   *)
(* parked readers and parked writers sleep on two different futexes.       *)
(*                                                                         *)
(* Each action is one atomic access together with the local computation    *)
(* that follows it.  A thread holds at most one lock at a time.  Spinning  *)
(* (Backoff) changes nothing but the moment of the next access, so it is   *)
(* the freedom of a thread not to take its next step yet.                  *)
(***************************************************************************)
EXTENDS Naturals, FiniteSets, Futex

CONSTANTS Threads,      \* threads that use the lock
          Readers,      \* the threads that take it shared
          Writers,      \* the threads that take it exclusively
          Downgraders,  \* the threads that call downgrade() (only tests do)
          BulkReleasers,\* the threads that call unlock_all_shared() (only tests do)
          ONE_WRITER    \* the holder bits of a writer: one more than the
                        \* largest reader count

ASSUME RawAssumption ==
    /\ IsFiniteSet(Threads)
    /\ Readers \cup Writers \cup Downgraders \cup BulkReleasers \subseteq Threads
    /\ ONE_WRITER \in Nat /\ ONE_WRITER > 1

VARIABLES state,    \* the lock word
          readers,  \* readers_futex
          writers,  \* writers_futex
          role,     \* Threads -> "none", "reader" or "writer": the lock it holds
          call      \* Threads -> [pc, seen]: locals of the call in progress

vars == <<state, readers, writers, role, call>>

Word(hold, rp, wp) == [hold |-> hold, rp |-> rp, wp |-> wp]
Words == [hold : 0..ONE_WRITER, rp : BOOLEAN, wp : BOOLEAN]
UNLOCKED == Word(0, FALSE, FALSE)
WRITE_LOCKED == Word(ONE_WRITER, FALSE, FALSE)

LxLabels == {"lx_load", "lx_loop", "lx_key", "lx_check", "lx_wait", "lx_asleep"}
LsLabels == {"ls_fast", "ls_load", "ls_loop", "ls_key", "ls_check", "ls_wait", "ls_asleep"}
WakeLabels == {"w_bump", "w_wake", "r_bump", "r_wake"}
Labels == {"idle", "ux_cas", "ts_cas", "ua_cas", "dg_cas"} \cup LxLabels \cup LsLabels \cup WakeLabels

At(label, seen) == [pc |-> label, seen |-> seen]
Idle == At("idle", UNLOCKED)

Init ==
    /\ state = UNLOCKED
    /\ readers = FutexNew /\ writers = FutexNew
    /\ role = [t \in Threads |-> "none"]
    /\ call = [t \in Threads |-> Idle]

\* Thread t is at one of the labels, looking at the word it last loaded.
pc(t) == call[t].pc
seen(t) == call[t].seen

Goto(t, label) == call' = [call EXCEPT ![t] = At(label, UNLOCKED)]
Loaded(t, label) == call' = [call EXCEPT ![t] = At(label, state)]
Return(t) == Goto(t, "idle")
Becomes(t, r) == role' = [role EXCEPT ![t] = r]

-----------------------------------------------------------------------------
(* Exclusive acquisition.                                                  *)

\* try_lock_exclusive(), and the fast path of lock_exclusive().
TryLockExclusive(t) ==
    /\ t \in Writers /\ pc(t) = "idle" /\ role[t] = "none"
    /\ state = UNLOCKED
    /\ state' = WRITE_LOCKED
    /\ Becomes(t, "writer")
    /\ UNCHANGED <<readers, writers, call>>

LockExclusive(t) ==
    \/ TryLockExclusive(t)
    \/ /\ t \in Writers /\ pc(t) = "idle" /\ role[t] = "none"
       /\ state # UNLOCKED
       /\ Goto(t, "lx_load")
       /\ UNCHANGED <<state, readers, writers, role>>

LxLoad(t) ==
    /\ pc(t) = "lx_load"
    /\ Loaded(t, "lx_loop")
    /\ UNCHANGED <<state, readers, writers, role>>

\* No holder was seen: take the lock, keeping READERS_PARKED only.
LxAcquire(t) ==
    /\ pc(t) = "lx_loop" /\ seen(t).hold = 0
    /\ \/ /\ state = seen(t)
          /\ state' = Word(ONE_WRITER, state.rp, FALSE)
          /\ Becomes(t, "writer")
          /\ Return(t)
       \/ /\ Loaded(t, "lx_loop")
          /\ UNCHANGED <<state, role>>
    /\ UNCHANGED <<readers, writers>>

\* A holder was seen and no parked writer: set WRITERS_PARKED.
LxPark(t) ==
    /\ pc(t) = "lx_loop" /\ seen(t).hold # 0 /\ ~seen(t).wp
    /\ \/ /\ state = seen(t)
          /\ state' = Word(state.hold, state.rp, TRUE)
          /\ Goto(t, "lx_key")
       \/ /\ Loaded(t, "lx_loop")
          /\ UNCHANGED state
    /\ UNCHANGED <<readers, writers, role>>

\* Snapshot the futex word (at once, if the flag was already seen set) ...
LxKey(t) ==
    /\ pc(t) = "lx_key" \/ (pc(t) = "lx_loop" /\ seen(t).hold # 0 /\ seen(t).wp)
    /\ writers' = FutexLoad(writers, t)
    /\ Goto(t, "lx_check")
    /\ UNCHANGED <<state, readers, role>>

\* ... re-read the word: start over if the lock is free or the flag is gone ...
LxCheck(t) ==
    /\ pc(t) = "lx_check"
    /\ Goto(t, IF state.hold = 0 \/ ~state.wp THEN "lx_load" ELSE "lx_wait")
    /\ UNCHANGED <<state, readers, writers, role>>

\* ... and sleep on the snapshot.
LxWait(t) ==
    /\ pc(t) = "lx_wait"
    /\ writers' = FutexWait(writers, t)
    /\ Goto(t, IF t \in writers'.asleep THEN "lx_asleep" ELSE "lx_key")
    /\ UNCHANGED <<state, readers, role>>

LxResume(t) ==
    /\ pc(t) = "lx_asleep" /\ t \notin writers.asleep
    /\ Goto(t, "lx_key")
    /\ UNCHANGED <<state, readers, writers, role>>

-----------------------------------------------------------------------------
(* Exclusive release and downgrade.                                        *)

\* unlock_exclusive(): exchange the bare writer word for 0, else go slow with
\* the word that was found.
UnlockExclusive(t) ==
    /\ pc(t) = "idle" /\ role[t] = "writer"
    /\ IF state = WRITE_LOCKED
       THEN state' = UNLOCKED /\ Becomes(t, "none") /\ UNCHANGED call
       ELSE Loaded(t, "ux_cas") /\ UNCHANGED <<state, role>>
    /\ UNCHANGED <<readers, writers>>

\* unlock_exclusive_slow(): parked writers keep both flags in the word and are
\* woken; else the word is cleared and parked readers are woken.
UxCas(t) ==
    /\ pc(t) = "ux_cas"
    /\ \/ /\ state = seen(t)
          /\ state' = IF state.wp THEN Word(0, state.rp, TRUE) ELSE UNLOCKED
          /\ Becomes(t, "none")
          /\ Goto(t, IF state.wp THEN "w_bump" ELSE IF state.rp THEN "r_bump" ELSE "idle")
       \/ /\ Loaded(t, "ux_cas")
          /\ UNCHANGED <<state, role>>
    /\ UNCHANGED <<readers, writers>>

\* downgrade(): load, then exchange until it succeeds.
Downgrade(t) ==
    /\ t \in Downgraders
    /\ pc(t) = "idle" /\ role[t] = "writer"
    /\ Loaded(t, "dg_cas")
    /\ UNCHANGED <<state, readers, writers, role>>

\* Fault: the exchange puts each flag in the other's place.
DgCasSwapped(t) ==
    /\ pc(t) = "dg_cas"
    /\ IF state = seen(t)
       THEN /\ state' = Word(1, state.wp, state.rp)
            /\ Becomes(t, "reader")
            /\ Goto(t, IF state.rp THEN "r_bump" ELSE "idle")
       ELSE /\ Loaded(t, "dg_cas")
            /\ UNCHANGED <<state, role>>
    /\ UNCHANGED <<readers, writers>>

DgCas(t) ==
    /\ pc(t) = "dg_cas"
    /\ IF state = seen(t)
       THEN /\ state' = Word(1, state.rp, state.wp)
            /\ Becomes(t, "reader")
            /\ Goto(t, IF state.rp THEN "r_bump" ELSE "idle")
       ELSE /\ Loaded(t, "dg_cas")
            /\ UNCHANGED <<state, role>>
    /\ UNCHANGED <<readers, writers>>

\* fetch_add on a futex word, then futex_wake_all.
WBump(t) ==
    /\ pc(t) = "w_bump"
    /\ writers' = FutexBump(writers)
    /\ Goto(t, "w_wake")
    /\ UNCHANGED <<state, readers, role>>

WWake(t) ==
    /\ pc(t) = "w_wake"
    /\ writers' = FutexWakeAll(writers)
    /\ Return(t)
    /\ UNCHANGED <<state, readers, role>>

RBump(t) ==
    /\ pc(t) = "r_bump"
    /\ readers' = FutexBump(readers)
    /\ Goto(t, "r_wake")
    /\ UNCHANGED <<state, writers, role>>

RWake(t) ==
    /\ pc(t) = "r_wake"
    /\ readers' = FutexWakeAll(readers)
    /\ Return(t)
    /\ UNCHANGED <<state, writers, role>>

-----------------------------------------------------------------------------
(* Shared acquisition and release.                                         *)

\* Faults: a count that may reach the writer pattern, and one that ignores
\* parked writers.
AdmitsOneMore(w) == w.hold < ONE_WRITER /\ ~w.wp
AdmitsPastWriters(w) == w.hold + 1 < ONE_WRITER

\* One more reader fits (neither overflow nor the writer pattern) and no
\* writer is parked.
Admits(w) == w.hold + 1 < ONE_WRITER /\ ~w.wp

\* The word with one more reader, for the thread that exchanged it in.
EnterShared(t) ==
    /\ state = seen(t)
    /\ state' = Word(state.hold + 1, state.rp, state.wp)
    /\ Becomes(t, "reader")
    /\ Return(t)

\* try_lock_shared(): a load, then exchanges until one succeeds or the word no
\* longer admits a reader.
TryLockShared(t) ==
    /\ t \in Readers /\ pc(t) = "idle" /\ role[t] = "none"
    /\ Admits(state)
    /\ Loaded(t, "ts_cas")
    /\ UNCHANGED <<state, readers, writers, role>>

TsCas(t) ==
    /\ pc(t) = "ts_cas"
    /\ \/ EnterShared(t)
       \/ /\ IF Admits(state) THEN Loaded(t, "ts_cas") ELSE Return(t)
          /\ UNCHANGED <<state, role>>
    /\ UNCHANGED <<readers, writers>>

\* lock_shared(): load; exchange if the word admits a reader, else go slow.
LockShared(t) ==
    /\ t \in Readers /\ pc(t) = "idle" /\ role[t] = "none"
    /\ IF Admits(state) THEN Loaded(t, "ls_fast") ELSE Goto(t, "ls_load")
    /\ UNCHANGED <<state, readers, writers, role>>

LsFast(t) ==
    /\ pc(t) = "ls_fast"
    /\ \/ EnterShared(t)
       \/ /\ state # seen(t)
          /\ Goto(t, "ls_load")
          /\ UNCHANGED <<state, role>>
    /\ UNCHANGED <<readers, writers>>

LsLoad(t) ==
    /\ pc(t) = "ls_load"
    /\ Loaded(t, "ls_loop")
    /\ UNCHANGED <<state, readers, writers, role>>

LsAcquire(t) ==
    /\ pc(t) = "ls_loop" /\ Admits(seen(t))
    /\ \/ EnterShared(t)
       \/ /\ Goto(t, "ls_load")
          /\ UNCHANGED <<state, role>>
    /\ UNCHANGED <<readers, writers>>

\* No reader is admitted: set READERS_PARKED (or snooze, or fail, and reload).
LsPark(t) ==
    /\ pc(t) = "ls_loop" /\ ~Admits(seen(t)) /\ ~seen(t).rp
    /\ \/ /\ state = seen(t)
          /\ state' = Word(state.hold, TRUE, state.wp)
          /\ Goto(t, "ls_key")
       \/ /\ Goto(t, "ls_load")
          /\ UNCHANGED state
    /\ UNCHANGED <<readers, writers, role>>

LsKey(t) ==
    /\ pc(t) = "ls_key" \/ (pc(t) = "ls_loop" /\ ~Admits(seen(t)) /\ seen(t).rp)
    /\ readers' = FutexLoad(readers, t)
    /\ Goto(t, "ls_check")
    /\ UNCHANGED <<state, writers, role>>

\* Retry only if no writer holds the lock and none is parked.
LsCheck(t) ==
    /\ pc(t) = "ls_check"
    /\ Goto(t, IF state.hold # ONE_WRITER /\ ~state.wp THEN "ls_load" ELSE "ls_wait")
    /\ UNCHANGED <<state, readers, writers, role>>

LsWait(t) ==
    /\ pc(t) = "ls_wait"
    /\ readers' = FutexWait(readers, t)
    /\ Goto(t, IF t \in readers'.asleep THEN "ls_asleep" ELSE "ls_load")
    /\ UNCHANGED <<state, writers, role>>

LsResume(t) ==
    /\ pc(t) = "ls_asleep" /\ t \notin readers.asleep
    /\ Goto(t, "ls_load")
    /\ UNCHANGED <<state, readers, writers, role>>

\* Fault: the last reader leaves without waking parked writers.
UnlockSharedNoWake(t) ==
    /\ pc(t) = "idle" /\ role[t] = "reader"
    /\ state' = Word(state.hold - 1, state.rp, state.wp)
    /\ Becomes(t, "none")
    /\ UNCHANGED <<readers, writers, call>>

\* unlock_shared(): one fetch_sub; the last reader wakes parked writers.
UnlockShared(t) ==
    /\ pc(t) = "idle" /\ role[t] = "reader"
    /\ state' = Word(state.hold - 1, state.rp, state.wp)
    /\ Becomes(t, "none")
    /\ Goto(t, IF state.hold = 1 /\ state.wp THEN "w_bump" ELSE "idle")
    /\ UNCHANGED <<readers, writers>>

\* unlock_all_shared(): on behalf of all readers, remove the whole count.
UnlockAllShared(t) ==
    /\ t \in BulkReleasers
    /\ pc(t) = "idle" /\ role[t] = "reader"
    /\ Loaded(t, "ua_cas")
    /\ UNCHANGED <<state, readers, writers, role>>

UaCas(t) ==
    /\ pc(t) = "ua_cas"
    /\ \/ /\ state = seen(t) /\ state.hold \notin {0, ONE_WRITER}
          /\ state' = Word(0, state.rp, state.wp)
          /\ role' = [u \in Threads |-> IF role[u] = "reader" THEN "none" ELSE role[u]]
          /\ Goto(t, IF state.wp THEN "w_bump" ELSE "idle")
       \/ /\ seen(t).hold \in {0, ONE_WRITER}
          /\ Return(t)
          /\ UNCHANGED <<state, role>>
       \/ /\ state # seen(t)
          /\ Loaded(t, "ua_cas")
          /\ UNCHANGED <<state, role>>
    /\ UNCHANGED <<readers, writers>>

-----------------------------------------------------------------------------
\* futex_wait may return without a wake.
Interrupt(t) ==
    /\ \/ /\ t \in writers.asleep
          /\ writers' = FutexInterrupt(writers, t)
          /\ UNCHANGED readers
       \/ /\ t \in readers.asleep
          /\ readers' = FutexInterrupt(readers, t)
          /\ UNCHANGED writers
    /\ UNCHANGED <<state, role, call>>

Call(t) ==
    \/ LockExclusive(t) \/ UnlockExclusive(t) \/ Downgrade(t) \/ TryLockShared(t)
    \/ LockShared(t) \/ UnlockShared(t) \/ UnlockAllShared(t)

Continue(t) ==
    \/ LxLoad(t) \/ LxAcquire(t) \/ LxPark(t) \/ LxKey(t) \/ LxCheck(t) \/ LxWait(t) \/ LxResume(t)
    \/ UxCas(t) \/ DgCas(t) \/ WBump(t) \/ WWake(t) \/ RBump(t) \/ RWake(t)
    \/ TsCas(t) \/ LsFast(t) \/ LsLoad(t) \/ LsAcquire(t) \/ LsPark(t) \/ LsKey(t) \/ LsCheck(t)
    \/ LsWait(t) \/ LsResume(t) \/ UaCas(t)

Next == \E t \in Threads : Call(t) \/ Continue(t) \/ Interrupt(t)

Spec == Init /\ [][Next]_vars

\* The scheduler runs every thread that is inside a call; nothing is assumed of
\* when callers lock and unlock, nor of spurious wakeups.
FairSpec == Spec /\ \A t \in Threads : WF_vars(Continue(t))

-----------------------------------------------------------------------------
TypeOK ==
    /\ state \in Words
    /\ readers \in Futexes(Threads) /\ writers \in Futexes(Threads)
    /\ role \in [Threads -> {"none", "reader", "writer"}]
    /\ call \in [Threads -> [pc : Labels, seen : Words]]

Holding(r) == {t \in Threads : role[t] = r}

\* A writer excludes everyone, and the holder bits say exactly who holds the
\* lock: the pattern that is_writer_locked() tests for while a writer does, and
\* otherwise the number of readers, which never reaches that pattern.
HoldersExact ==
    IF Holding("writer") # {}
    THEN Holding("reader") = {} /\ Cardinality(Holding("writer")) = 1 /\ state.hold = ONE_WRITER
    ELSE state.hold = Cardinality(Holding("reader")) /\ state.hold < ONE_WRITER

\* mutex.rs:282, "so none are stranded": a sleeping writer has its flag in a
\* word that is still held, or a releasing thread has its wake on the way.
NoStrandedWriter ==
    \A t \in writers.asleep :
        \/ state.wp /\ state.hold # 0
        \/ \E u \in Threads : pc(u) \in {"w_bump", "w_wake"}

\* mutex.rs:15: WRITERS_PARKED is only set while some thread is still inside
\* lock_exclusive_slow().  A stale flag would turn every reader away for good.
ParkedFlagHasWriter == state.wp => \E t \in Threads : pc(t) \in LxLabels

\* When nobody holds the lock and nobody is inside a call, the word is 0, so
\* try_lock_exclusive() succeeds and is_locked() is false.
QuiescentUnlocked ==
    (\A t \in Threads : pc(t) = "idle" /\ role[t] = "none") => state = UNLOCKED

\* While a writer is parked no new reader gets in: the reader count can only
\* fall until the lock changes hands.
WriterPreference ==
    [][state.wp /\ state'.wp => state'.hold <= state.hold]_vars

\* If the lock keeps becoming free, every sleeping reader wakes up.
SleepingReadersWake ==
    []<>(state.hold = 0) =>
        \A t \in Threads : (t \in readers.asleep) ~> (t \notin readers.asleep)
=============================================================================
