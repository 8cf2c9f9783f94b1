------------------------------ MODULE SpinCell ------------------------------
(***************************************************************************)
(* SpinCell (lock_free/splcell.rs): the spinning reader/writer lock.  Its  *)
(* word has the layout of RawMutex's, but nobody sleeps: the two "parked"  *)
(* flags only turn readers away while a writer waits, and releases clear   *)
(* them.                                                                   *)
(*                                                                         *)
(* An exchange that fails is tried again with the word it found, so a loop *)
(* of exchanges is one step that acts on the word as it is.  Backoff only  *)
(* delays.  A thread holds one lock at a time.                             *)
(***************************************************************************)
EXTENDS Naturals, FiniteSets

CONSTANTS Threads,
          Readers, Writers,  \* the threads that lock shared, and exclusively
          BulkReleasers,     \* those that call unlock_all_shared()
          ONE_WRITER,        \* the holder bits of a writer, 2^62 - 1 in the code
          MAXCALLS           \* bound: acquisitions in a behaviour

SpinAssumption ==
    /\ IsFiniteSet(Threads) /\ Readers \cup Writers \cup BulkReleasers \subseteq Threads
    /\ ONE_WRITER \in Nat /\ ONE_WRITER > 1 /\ MAXCALLS \in Nat
    /\ Cardinality(Threads) < ONE_WRITER  \* the slow path does not test for room

VARIABLES state,  \* the lock word
          role,   \* Threads -> "none", "reader" or "writer"
          pc,     \* Threads -> where its call is
          calls   \* acquisitions begun

vars == <<state, role, pc, calls>>

Word(hold, rp, wp) == [hold |-> hold, rp |-> rp, wp |-> wp]
UNLOCKED == Word(0, FALSE, FALSE)
is_writer_locked(w) == w.hold = ONE_WRITER

Init ==
    /\ state = UNLOCKED
    /\ role = [t \in Threads |-> "none"]
    /\ pc = [t \in Threads |-> "idle"]
    /\ calls = 0

Goto(t, label) == pc' = [pc EXCEPT ![t] = label]
Becomes(t, r) == role' = [role EXCEPT ![t] = r]
Begin(t) == pc[t] = "idle" /\ role[t] = "none" /\ calls < MAXCALLS /\ calls' = calls + 1

-----------------------------------------------------------------------------
\* lock_exclusive(): one exchange on the free word, else the slow path.
LockExclusive(t) ==
    /\ t \in Writers /\ Begin(t)
    /\ IF state = UNLOCKED
       THEN state' = Word(ONE_WRITER, FALSE, FALSE) /\ Becomes(t, "writer") /\ UNCHANGED pc
       ELSE Goto(t, "lx") /\ UNCHANGED <<state, role>>

\* Nobody holds the lock: or the writer bits into the word, flags and all.
LxAcquire(t) ==
    /\ pc[t] = "lx" /\ state.hold = 0
    /\ state' = Word(ONE_WRITER, state.rp, state.wp)
    /\ Becomes(t, "writer") /\ Goto(t, "idle")
    /\ UNCHANGED calls

\* Somebody does: set WRITERS_PARKED, then snooze and look again.
LxPark(t) ==
    /\ pc[t] = "lx" /\ state.hold # 0 /\ ~state.wp
    /\ state' = Word(state.hold, state.rp, TRUE)
    /\ UNCHANGED <<role, pc, calls>>

\* Fault: the flags outlive the writer.
ReleasedKeepingFlags == Word(0, state.rp, state.wp)

\* unlock_exclusive() stores 0: the flags may be this very writer's.
Released == UNLOCKED

UnlockExclusive(t) ==
    /\ pc[t] = "idle" /\ role[t] = "writer"
    /\ state' = Released
    /\ Becomes(t, "none")
    /\ UNCHANGED <<pc, calls>>

-----------------------------------------------------------------------------
\* The slow path's test: no writer holds the lock or waits for it.
Admits(w) == ~is_writer_locked(w) /\ ~w.wp

\* The fast path also tests the word it is about to store.
AdmitsFast(w) == Admits(w) /\ w.hold + 1 # ONE_WRITER

Enter(t) ==
    /\ state' = Word(state.hold + 1, state.rp, state.wp)
    /\ Becomes(t, "reader") /\ Goto(t, "idle")

\* lock_shared(): one exchange, lost to another thread or won, else slow.
LockShared(t) ==
    /\ t \in Readers /\ Begin(t)
    /\ \/ AdmitsFast(state) /\ Enter(t)
       \/ Goto(t, "ls") /\ UNCHANGED <<state, role>>

LsEnter(t) == pc[t] = "ls" /\ Admits(state) /\ Enter(t) /\ UNCHANGED calls

\* Snoozing did not help: set READERS_PARKED unless it is set ...
LsPark(t) ==
    /\ pc[t] = "ls" /\ ~Admits(state)
    /\ state' = Word(state.hold, TRUE, state.wp)
    /\ Goto(t, "ls_spin")
    /\ UNCHANGED <<role, calls>>

\* ... and spin while a writer holds the lock.
LsSpin(t) ==
    /\ pc[t] = "ls_spin" /\ ~is_writer_locked(state)
    /\ Goto(t, "ls")
    /\ UNCHANGED <<state, role, calls>>

\* unlock_shared(): one fetch_sub, ...
UnlockShared(t) ==
    /\ pc[t] = "idle" /\ role[t] = "reader"
    /\ state' = Word(state.hold - 1, state.rp, state.wp)
    /\ Becomes(t, "none")
    /\ Goto(t, IF state = Word(1, FALSE, TRUE) THEN "us_cas" ELSE "idle")
    /\ UNCHANGED calls

\* The exchange of a bare WRITERS_PARKED for 0
Cleared == IF state = Word(0, FALSE, TRUE) THEN UNLOCKED ELSE state

\* ... and the last reader clears WRITERS_PARKED if nothing has changed since.
UsCas(t) ==
    /\ pc[t] = "us_cas"
    /\ state' = Cleared
    /\ Goto(t, "idle")
    /\ UNCHANGED <<role, calls>>

BulkReleased == Word(0, state.rp, state.wp)

\* unlock_all_shared(), by the owner of every shared acquisition.
UnlockAllShared(t) ==
    /\ t \in BulkReleasers
    /\ pc[t] = "idle" /\ role[t] = "reader"
    /\ state' = BulkReleased
    /\ role' = [u \in Threads |-> IF role[u] = "reader" THEN "none" ELSE role[u]]
    /\ UNCHANGED <<pc, calls>>

-----------------------------------------------------------------------------
Step(t) ==
    \/ LxAcquire(t) \/ LxPark(t) \/ LsEnter(t) \/ LsPark(t) \/ LsSpin(t) \/ UsCas(t)
    \/ UnlockExclusive(t) \/ UnlockShared(t)

Next == \E t \in Threads : LockExclusive(t) \/ LockShared(t) \/ UnlockAllShared(t) \/ Step(t)

Spec == Init /\ [][Next]_vars

-----------------------------------------------------------------------------
TypeOK ==
    /\ state \in [hold : 0..ONE_WRITER, rp : BOOLEAN, wp : BOOLEAN]
    /\ role \in [Threads -> {"none", "reader", "writer"}]
    /\ pc \in [Threads -> {"idle", "lx", "ls", "ls_spin", "us_cas"}]
    /\ calls \in 0..MAXCALLS

Holding(r) == {t \in Threads : role[t] = r}

\* splcell.rs:56, get_shared_locked() "returns the number of active shared locks
\* (readers)", and a writer is alone: the holder bits say who holds the lock.
HoldersExact ==
    IF Holding("writer") # {}
    THEN Holding("reader") = {} /\ Cardinality(Holding("writer")) = 1 /\ is_writer_locked(state)
    ELSE state.hold = Cardinality(Holding("reader")) /\ state.hold < ONE_WRITER

\* The comment of unlock_exclusive(): no flag is left behind that no remaining
\* writer would clear.  WRITERS_PARKED, which turns readers away, has a writer
\* that waits or holds the lock, and READERS_PARKED never outlives both; so a
\* lock that nobody uses is 0 and is_locked() is false.
FlagsHaveWriter ==
    /\ state.wp => \E t \in Threads : pc[t] = "lx" \/ role[t] = "writer"
    /\ state.rp => state.wp \/ is_writer_locked(state)

\* Every acquisition succeeds once the others release: neither a flag left
\* behind nor the order of two releases keeps a thread spinning.
Settled == \A t \in Threads : pc[t] = "idle"
=============================================================================
