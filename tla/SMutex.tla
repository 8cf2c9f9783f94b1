------------------------------- MODULE SMutex -------------------------------
(***************************************************************************)
(* SMutex (core/smutex.rs): the recursive mutex behind the mpmc channel.   *)
(* Its word is UNLOCKED, LOCKED, or ONE_GROUP for every holder of a group  *)
(* lock.  The futex threads sleep on is the word itself, so a sleep is     *)
(* decided by the word's value, and a release wakes one sleeper, whichever *)
(* kind of lock that sleeper wants.                                        *)
(*                                                                         *)
(* Guards are not Send: each is dropped by the thread that took it.  The   *)
(* code has no upgrade: a thread whose group guard was counted in the word *)
(* does not call lock() (it would wait for itself).                        *)
(***************************************************************************)
EXTENDS Naturals, FiniteSets

CONSTANTS Threads,   \* threads that use the lock
          MAXGROUP,  \* group holders the word can count (2^31 - 1 in the code)
          MAXCALLS,  \* bound: lock calls made in a behaviour
          None       \* no owner (0 in the code)

SMutexAssumption ==
    /\ IsFiniteSet(Threads) /\ None \notin Threads
    /\ MAXGROUP \in Nat \ {0} /\ MAXCALLS \in Nat

VARIABLES word,       \* the state word
          owner,      \* the thread holding it exclusively, or None
          recursion,  \* the owner's nesting depth
          asleep,     \* threads the kernel has queued on the word
          held,       \* thread -> numbers of live exclusive and group guards
          call,       \* thread -> [pc, seen]: label and the word last loaded
          calls       \* lock calls made so far

vars == <<word, owner, recursion, asleep, held, call, calls>>
lock == <<word, owner, recursion>>

UNLOCKED == 0
LOCKED == 1
ONE_GROUP == 2

Locked(w) == w % 2 = LOCKED

pc(t) == call[t].pc
Goto(t, label) == call' = [call EXCEPT ![t] = [pc |-> label, seen |-> UNLOCKED]]
GotoWith(t, label) == call' = [call EXCEPT ![t] = [pc |-> label, seen |-> word]]
Hold(t, ex, gr) == held' = [held EXCEPT ![t] = [ex |-> @.ex + ex, gr |-> @.gr + gr]]
Unhold(t, ex, gr) == held' = [held EXCEPT ![t] = [ex |-> @.ex - ex, gr |-> @.gr - gr]]

Init ==
    /\ word = UNLOCKED /\ owner = None /\ recursion = 0
    /\ asleep = {}
    /\ held = [t \in Threads |-> [ex |-> 0, gr |-> 0]]
    /\ call = [t \in Threads |-> [pc |-> "idle", seen |-> UNLOCKED]]
    /\ calls = 0

\* A call begins: the owner only nests deeper, anyone else goes to `label`.
Enter(t, ex, gr, label) ==
    /\ pc(t) = "idle" /\ calls < MAXCALLS
    /\ calls' = calls + 1
    /\ IF owner = t
       THEN recursion' = recursion + 1 /\ Hold(t, ex, gr) /\ UNCHANGED call
       ELSE Goto(t, label) /\ UNCHANGED <<recursion, held>>
    /\ UNCHANGED <<word, owner, asleep>>

\* futex_wait(state, expected): the kernel compares and queues in one step.
Sleep(t, expected, again) ==
    /\ IF word = expected
       THEN asleep' = asleep \cup {t} /\ GotoWith(t, again)
       ELSE GotoWith(t, again) /\ UNCHANGED asleep
    /\ UNCHANGED <<lock, held, calls>>

Awake(t) == t \notin asleep

-----------------------------------------------------------------------------
(* lock()                                                                  *)

Lock(t) == (held[t].gr = 0 \/ owner = t) /\ Enter(t, 1, 0, "cas")

LockCasOk(t) ==
    /\ pc(t) = "cas" /\ word = UNLOCKED
    /\ word' = LOCKED
    /\ Goto(t, "own")
    /\ UNCHANGED <<owner, recursion, asleep, held, calls>>

\* The weak exchange failed, perhaps spuriously: spin, or look at the word.
LockCasFailed(t) ==
    /\ pc(t) = "cas"
    /\ Goto(t, "load")
    /\ UNCHANGED <<lock, asleep, held, calls>>

LockOwn(t) ==
    /\ pc(t) = "own"
    /\ owner' = t /\ recursion' = 1
    /\ Hold(t, 1, 0)
    /\ Goto(t, "idle")
    /\ UNCHANGED <<word, asleep, calls>>

LockLoad(t) ==
    /\ pc(t) = "load" /\ Awake(t)
    /\ GotoWith(t, IF word = UNLOCKED THEN "cas" ELSE "wait")
    /\ UNCHANGED <<lock, asleep, held, calls>>

LockWait(t) == pc(t) = "wait" /\ Sleep(t, call[t].seen, "load")

-----------------------------------------------------------------------------
(* lock_group()                                                            *)

LockGroup(t) == Enter(t, 0, 1, "gload")

GroupLoad(t) ==
    /\ pc(t) = "gload"
    /\ GotoWith(t, IF Locked(word) THEN "gcheck" ELSE "gcas")
    /\ UNCHANGED <<lock, asleep, held, calls>>

\* Fault: the exchange joins the group whatever the word has become.
JoinsAnyWord(t) == ~Locked(call[t].seen)

\* The exchange finds the word it loaded, and there is room for one more.
Joins(t) == word = call[t].seen /\ word < ONE_GROUP * MAXGROUP

GroupCasOk(t) ==
    /\ pc(t) = "gcas" /\ Joins(t)
    /\ word' = word + ONE_GROUP
    /\ Hold(t, 0, 1)
    /\ Goto(t, "idle")
    /\ UNCHANGED <<owner, recursion, asleep, calls>>

\* "SMutex group count overflow" panics before the exchange; a failed exchange
\* loops with the word it returned.
GroupCasFailed(t) ==
    /\ pc(t) = "gcas"
    /\ IF call[t].seen = ONE_GROUP * MAXGROUP
       THEN Goto(t, "idle")
       ELSE GotoWith(t, IF Locked(word) THEN "gcheck" ELSE "gcas")
    /\ UNCHANGED <<lock, asleep, held, calls>>

GroupCheck(t) ==
    /\ pc(t) = "gcheck" /\ Awake(t)
    /\ Goto(t, IF Locked(word) THEN "gwait" ELSE "gload")
    /\ UNCHANGED <<lock, asleep, held, calls>>

GroupWait(t) == pc(t) = "gwait" /\ Sleep(t, LOCKED, "gcheck")

-----------------------------------------------------------------------------
(* Drop of a guard: raw_unlock() and raw_unlock_group().                   *)

\* Fault: the outermost guard is taken for a nested one, one level too early.
DropOwnedShort(t, ex, gr) ==
    /\ recursion' = recursion - 1
    /\ Unhold(t, ex, gr)
    /\ IF recursion > 2
       THEN UNCHANGED <<owner, call>>
       ELSE owner' = None /\ Goto(t, "release")
    /\ UNCHANGED <<word, asleep, calls>>

\* The owner drops one guard of either kind; the outermost one unlocks.
DropOwned(t, ex, gr) ==
    /\ recursion' = recursion - 1
    /\ Unhold(t, ex, gr)
    /\ IF recursion > 1
       THEN UNCHANGED <<owner, call>>
       ELSE owner' = None /\ Goto(t, "release")
    /\ UNCHANGED <<word, asleep, calls>>

RawUnlock(t) == pc(t) = "idle" /\ held[t].ex > 0 /\ DropOwned(t, 1, 0)

LastOfGroup(w) == w = ONE_GROUP

RawUnlockGroup(t) ==
    /\ pc(t) = "idle" /\ held[t].gr > 0
    /\ IF owner = t
       THEN DropOwned(t, 0, 1)
       ELSE /\ word' = word - ONE_GROUP
            /\ Unhold(t, 0, 1)
            /\ IF LastOfGroup(word) THEN Goto(t, "wake") ELSE UNCHANGED call
            /\ UNCHANGED <<owner, recursion, asleep, calls>>

Release(t) ==
    /\ pc(t) = "release"
    /\ word' = UNLOCKED
    /\ Goto(t, "wake")
    /\ UNCHANGED <<owner, recursion, asleep, held, calls>>

\* futex_wake(): one sleeper, of the kernel's choice.
Wake(t) ==
    /\ pc(t) = "wake"
    /\ IF asleep = {} THEN UNCHANGED asleep
       ELSE \E s \in asleep : asleep' = asleep \ {s}
    /\ Goto(t, "idle")
    /\ UNCHANGED <<lock, held, calls>>

Interrupt(t) ==
    /\ t \in asleep
    /\ asleep' = asleep \ {t}
    /\ UNCHANGED <<lock, held, call, calls>>

-----------------------------------------------------------------------------
Drop(t) == RawUnlock(t) \/ RawUnlockGroup(t)

Continue(t) ==
    \/ LockCasOk(t) \/ LockCasFailed(t) \/ LockOwn(t) \/ LockLoad(t) \/ LockWait(t)
    \/ GroupLoad(t) \/ GroupCasOk(t) \/ GroupCasFailed(t) \/ GroupCheck(t) \/ GroupWait(t)
    \/ Release(t) \/ Wake(t)

\* compare_exchange_weak failed for no reason.
WeakFailure(t) ==
    \/ LockCasFailed(t) /\ word = UNLOCKED
    \/ GroupCasFailed(t) /\ Joins(t)

\* What a scheduled thread does: finish its call, and drop its guards.
Step(t) == Continue(t) \/ Drop(t)

Next == \E t \in Threads : Step(t) \/ Lock(t) \/ LockGroup(t) \/ Interrupt(t)

Spec == Init /\ [][Next]_vars

-----------------------------------------------------------------------------
Labels == {"idle", "cas", "own", "load", "wait", "gload", "gcas", "gcheck", "gwait",
           "release", "wake"}

TypeOK ==
    /\ word \in {LOCKED} \cup {ONE_GROUP * n : n \in 0..MAXGROUP}
    /\ owner \in Threads \cup {None}
    /\ recursion \in Nat
    /\ asleep \subseteq Threads
    /\ held \in [Threads -> [ex : Nat, gr : Nat]]
    /\ call \in [Threads -> [pc : Labels, seen : Nat]]
    /\ calls \in 0..MAXCALLS

\* Threads between the store of LOCKED and the store of UNLOCKED.
Exclusive == {t \in Threads : owner = t \/ pc(t) \in {"own", "release"}}
\* The group guards that were counted in the word: the owner's were not.
GroupGuards == UNION {{t} \X (1..held[t].gr) : t \in Threads \ {owner}}

\* The word, the owner and the recursion count describe the guards exactly, in
\* whatever order nested exclusive and group guards are dropped: LOCKED means
\* one exclusive holder and no group guard, anything else counts the group.
GuardsExact ==
    /\ Cardinality(Exclusive) <= 1
    /\ Locked(word) <=> Exclusive # {}
    /\ ~Locked(word) => word = ONE_GROUP * Cardinality(GroupGuards)
    /\ \A t \in Threads : /\ held[t].ex > 0 => owner = t
                          /\ owner = t => recursion = held[t].ex + held[t].gr

\* One wake per release is enough: whenever threads sleep on a free lock, a wake
\* is on its way or a thread that was woken is still to look at the lock (and
\* will wake the next one when it lets go).
NoLostWakeup ==
    asleep # {} /\ word = UNLOCKED =>
        \E t \in Threads \ asleep : pc(t) # "idle"

\* test/core/smutex.rs:574, "All threads should have acquired the lock": with
\* every guard dropped, no thread is left in lock() or lock_group().
Settled == \A t \in Threads : pc(t) = "idle"
=============================================================================
