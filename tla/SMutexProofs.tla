---------------------------- MODULE SMutexProofs ----------------------------
(***************************************************************************)
(* Proofs, for any finite set of threads, of the safety properties of the  *)
(* recursive mutex: its word counts the guards exactly, and one wake per   *)
(* release is enough.                                                      *)
(***************************************************************************)
EXTENDS SMutex, FiniteSetTheorems, TLAPS

\* What a thread's label and guards have to do with each other: the owner is
\* between calls, a thread in lock() has no guard, and an exchange of the group
\* path was begun with a word that was not LOCKED.
ThreadsExact ==
    \A t \in Threads :
        /\ held[t].ex > 0 => owner = t
        /\ owner = t => pc(t) = "idle" /\ recursion = held[t].ex + held[t].gr /\ recursion > 0
        /\ pc(t) \in {"cas", "own", "load", "wait"} => held[t].gr = 0
        /\ pc(t) = "gcas" => ~Locked(call[t].seen)
        /\ pc(t) = "wait" => call[t].seen # UNLOCKED

OneExclusive == \A t, u \in Exclusive : t = u

\* The word counts the group guards, and there are none while it is LOCKED.
GroupCounted ==
    /\ IsFiniteSet(GroupGuards)
    /\ IF Exclusive # {} THEN word = LOCKED /\ GroupGuards = {}
       ELSE word = ONE_GROUP * Cardinality(GroupGuards)

SleepersWait == \A t \in asleep : pc(t) \in {"load", "gcheck"}

\* A thread that will look at the lock again, and so take it or wake another.
Looking(t) == pc(t) # "idle" /\ ~(pc(t) = "gcas" /\ call[t].seen = ONE_GROUP * MAXGROUP)

WakeComing == asleep # {} /\ word = UNLOCKED => \E t \in Threads \ asleep : Looking(t)

\* The inductive invariant.
IInv == TypeOK /\ ThreadsExact /\ OneExclusive /\ GroupCounted /\ SleepersWait /\ WakeComing

-----------------------------------------------------------------------------
(* The word.                                                               *)

LEMMA Parity ==
    ASSUME NEW n \in Nat
    PROVE  ~Locked(ONE_GROUP * n) /\ Locked(LOCKED) /\ ~Locked(UNLOCKED)
BY DEF Locked, ONE_GROUP, LOCKED, UNLOCKED

LEMMA WordTyped ==
    ASSUME SMutexAssumption, TypeOK
    PROVE  /\ word \in Nat /\ MAXGROUP \in Nat /\ MAXGROUP > 0
           /\ Locked(word) => word = LOCKED
           /\ ~Locked(word) => \E n \in 0..MAXGROUP : word = ONE_GROUP * n
<1>1. MAXGROUP \in Nat /\ MAXGROUP > 0
    BY DEF SMutexAssumption
<1>2. CASE word = LOCKED
    BY <1>1, <1>2, Parity DEF LOCKED
<1>3. CASE \E n \in 0..MAXGROUP : word = ONE_GROUP * n
  <2>1. PICK n \in 0..MAXGROUP : word = ONE_GROUP * n
      BY <1>3
  <2>2. n \in Nat /\ word \in Nat
      BY <1>1, <2>1 DEF ONE_GROUP
  <2>3. ~Locked(word)
      BY <2>1, <2>2, Parity
  <2> QED BY <1>1, <2>1, <2>2, <2>3
<1> QED BY <1>2, <1>3 DEF TypeOK

-----------------------------------------------------------------------------
(* The guards that the word counts.                                        *)

LEMMA GuardsAre ==
    /\ \A p : p \in GroupGuards <=> \E t \in Threads \ {owner} : \E i \in 1..held[t].gr : p = <<t, i>>
    /\ \A p : p \in GroupGuards' <=> \E t \in Threads \ {owner'} : \E i \in 1..held'[t].gr : p = <<t, i>>
BY DEF GroupGuards

LEMMA GuardsKept ==
    ASSUME \A u \in Threads : (IF owner' = u THEN 0 ELSE held'[u].gr) = (IF owner = u THEN 0 ELSE held[u].gr)
    PROVE  GroupGuards' = GroupGuards
<1> SUFFICES ASSUME NEW p
             PROVE  p \in GroupGuards' <=> p \in GroupGuards
    OBVIOUS
<1>1. ASSUME NEW u \in Threads \ {owner}, NEW i \in 1..held[u].gr, p = <<u, i>>
      PROVE  p \in GroupGuards'
  <2>1. owner' # u /\ held'[u].gr = held[u].gr
      BY <1>1
  <2> QED BY <1>1, <2>1, GuardsAre
<1>2. ASSUME NEW u \in Threads \ {owner'}, NEW i \in 1..held'[u].gr, p = <<u, i>>
      PROVE  p \in GroupGuards
  <2>1. owner # u /\ held'[u].gr = held[u].gr
      BY <1>2
  <2> QED BY <1>2, <2>1, GuardsAre
<1> QED BY <1>1, <1>2, GuardsAre

LEMMA GuardJoins ==
    ASSUME NEW t \in Threads, owner' = owner, owner # t, held[t].gr \in Nat, held'[t].gr = held[t].gr + 1,
           \A u \in Threads \ {t} : held'[u] = held[u], IsFiniteSet(GroupGuards)
    PROVE  /\ IsFiniteSet(GroupGuards') /\ Cardinality(GroupGuards') = Cardinality(GroupGuards) + 1
           /\ Cardinality(GroupGuards) \in Nat
<1> DEFINE q == <<t, held[t].gr + 1>>
<1>1. q \notin GroupGuards
    BY GuardsAre
<1>2. GroupGuards' = GroupGuards \cup {q}
  <2>1. ASSUME NEW p \in GroupGuards
        PROVE  p \in GroupGuards'
    <3>0. PICK u \in Threads \ {owner} : \E i \in 1..held[u].gr : p = <<u, i>>
        BY GuardsAre
    <3>1. PICK i \in 1..held[u].gr : p = <<u, i>>
        BY <3>0
    <3>2. i \in 1..held'[u].gr /\ u \in Threads \ {owner'}
        BY <3>1
    <3> QED BY <3>1, <3>2, GuardsAre
  <2>2. q \in GroupGuards'
    <3>1. held[t].gr + 1 \in 1..held'[t].gr /\ t \in Threads \ {owner'}
        OBVIOUS
    <3> QED BY <3>1, GuardsAre
  <2>3. ASSUME NEW p \in GroupGuards', p # q
        PROVE  p \in GroupGuards
    <3>0. PICK u \in Threads \ {owner'} : \E i \in 1..held'[u].gr : p = <<u, i>>
        BY GuardsAre
    <3>1. PICK i \in 1..held'[u].gr : p = <<u, i>>
        BY <3>0
    <3>2. i \in 1..held[u].gr /\ u \in Threads \ {owner}
        BY <2>3, <3>1
    <3> QED BY <3>1, <3>2, GuardsAre
  <2> QED BY <2>1, <2>2, <2>3
<1> QED BY <1>1, <1>2, FS_AddElement, FS_CardinalityType

LEMMA GuardQuits ==
    ASSUME NEW t \in Threads, owner' = owner, owner # t, held[t].gr \in Nat, held[t].gr > 0,
           held'[t].gr = held[t].gr - 1,
           \A u \in Threads \ {t} : held'[u] = held[u], IsFiniteSet(GroupGuards)
    PROVE  /\ IsFiniteSet(GroupGuards') /\ Cardinality(GroupGuards') = Cardinality(GroupGuards) - 1
           /\ Cardinality(GroupGuards) \in Nat /\ GroupGuards # {}
           /\ Cardinality(GroupGuards') \in Nat
<1> DEFINE q == <<t, held[t].gr>>
<1>1. q \in GroupGuards
  <2>1. held[t].gr \in 1..held[t].gr /\ t \in Threads \ {owner}
      OBVIOUS
  <2> QED BY <2>1, GuardsAre
<1>2. GroupGuards' = GroupGuards \ {q}
  <2>1. ASSUME NEW p \in GroupGuards, p # q
        PROVE  p \in GroupGuards'
    <3>0. PICK u \in Threads \ {owner} : \E i \in 1..held[u].gr : p = <<u, i>>
        BY GuardsAre
    <3>1. PICK i \in 1..held[u].gr : p = <<u, i>>
        BY <3>0
    <3>2. i \in 1..held'[u].gr /\ u \in Threads \ {owner'}
        BY <2>1, <3>1
    <3> QED BY <3>1, <3>2, GuardsAre
  <2>2. q \notin GroupGuards'
      BY GuardsAre
  <2>3. ASSUME NEW p \in GroupGuards'
        PROVE  p \in GroupGuards
    <3>0. PICK u \in Threads \ {owner'} : \E i \in 1..held'[u].gr : p = <<u, i>>
        BY GuardsAre
    <3>1. PICK i \in 1..held'[u].gr : p = <<u, i>>
        BY <3>0
    <3>2. i \in 1..held[u].gr /\ u \in Threads \ {owner}
        BY <3>1
    <3> QED BY <3>1, <3>2, GuardsAre
  <2> QED BY <2>1, <2>2, <2>3
<1> QED BY <1>1, <1>2, FS_RemoveElement, FS_CardinalityType

LEMMA NoGuards ==
    ASSUME NEW t \in Threads, GroupGuards = {}, owner # t, held[t].gr \in Nat
    PROVE  held[t].gr = 0
<1> SUFFICES ASSUME held[t].gr > 0
             PROVE  FALSE
    OBVIOUS
<1>1. held[t].gr \in 1..held[t].gr /\ t \in Threads \ {owner}
    OBVIOUS
<1>2. PICK p : p = <<t, held[t].gr>>
    BY Zenon
<1>3. \E u \in Threads \ {owner} : \E i \in 1..held[u].gr : p = <<u, i>>
    BY <1>1, <1>2
<1>4. p \in GroupGuards
    BY <1>3, GuardsAre
<1> QED BY <1>4

-----------------------------------------------------------------------------
(* A step of a thread.                                                     *)

LEMMA Typed ==
    ASSUME SMutexAssumption, TypeOK, NEW t \in Threads
    PROVE  /\ call[t] \in [pc : Labels, seen : Nat] /\ held[t].ex \in Nat /\ held[t].gr \in Nat
           /\ owner \in Threads \cup {None} /\ None \notin Threads /\ recursion \in Nat
           /\ asleep \subseteq Threads /\ calls \in 0..MAXCALLS /\ MAXCALLS \in Nat
BY DEF TypeOK, SMutexAssumption

LEMMA Moves ==
    ASSUME SMutexAssumption, TypeOK, NEW t \in Threads, NEW b \in Labels, Goto(t, b)
    PROVE  /\ call' \in [Threads -> [pc : Labels, seen : Nat]]
           /\ call'[t].pc = b /\ call'[t].seen = UNLOCKED /\ \A u \in Threads \ {t} : call'[u] = call[u]
<1>1. call \in [Threads -> [pc : Labels, seen : Nat]] /\ [pc |-> b, seen |-> UNLOCKED] \in [pc : Labels, seen : Nat]
    BY DEF TypeOK, UNLOCKED
<1> QED BY <1>1 DEF Goto

LEMMA MovesWith ==
    ASSUME SMutexAssumption, TypeOK, NEW t \in Threads, NEW b \in Labels, GotoWith(t, b)
    PROVE  /\ call' \in [Threads -> [pc : Labels, seen : Nat]]
           /\ call'[t].pc = b /\ call'[t].seen = word /\ \A u \in Threads \ {t} : call'[u] = call[u]
<1>1. call \in [Threads -> [pc : Labels, seen : Nat]] /\ [pc |-> b, seen |-> word] \in [pc : Labels, seen : Nat]
    BY WordTyped DEF TypeOK
<1> QED BY <1>1 DEF GotoWith

LEMMA Holds ==
    ASSUME TypeOK, NEW t \in Threads, NEW ex \in Nat, NEW gr \in Nat, Hold(t, ex, gr)
    PROVE  /\ held' \in [Threads -> [ex : Nat, gr : Nat]]
           /\ held'[t].ex = held[t].ex + ex /\ held'[t].gr = held[t].gr + gr
           /\ \A u \in Threads \ {t} : held'[u] = held[u]
<1>1. held \in [Threads -> [ex : Nat, gr : Nat]] /\ held[t].ex \in Nat /\ held[t].gr \in Nat
    BY DEF TypeOK
<1>2. [ex |-> held[t].ex + ex, gr |-> held[t].gr + gr] \in [ex : Nat, gr : Nat]
    BY <1>1
<1> QED BY <1>1, <1>2 DEF Hold

LEMMA Unholds ==
    ASSUME TypeOK, NEW t \in Threads, NEW ex \in Nat, NEW gr \in Nat, Unhold(t, ex, gr),
           ex <= held[t].ex, gr <= held[t].gr
    PROVE  /\ held' \in [Threads -> [ex : Nat, gr : Nat]]
           /\ held'[t].ex = held[t].ex - ex /\ held'[t].gr = held[t].gr - gr
           /\ \A u \in Threads \ {t} : held'[u] = held[u]
<1>1. held \in [Threads -> [ex : Nat, gr : Nat]] /\ held[t].ex \in Nat /\ held[t].gr \in Nat
    BY DEF TypeOK
<1>2. [ex |-> held[t].ex - ex, gr |-> held[t].gr - gr] \in [ex : Nat, gr : Nat]
    BY <1>1
<1> QED BY <1>1, <1>2 DEF Unhold

\* When a step of t keeps a wake on its way.
LEMMA WakeKept ==
    ASSUME SMutexAssumption, IInv, NEW t \in Threads, \A u \in Threads \ {t} : call'[u] = call[u],
           word' = UNLOCKED => word = UNLOCKED /\ asleep' \subseteq asleep,
           Looking(t) /\ word' = UNLOCKED => Looking(t)'
    PROVE  WakeComing'
<1> SUFFICES ASSUME asleep' # {}, word' = UNLOCKED
             PROVE  \E u \in Threads \ asleep' : Looking(u)'
    BY DEF WakeComing
<1>1. PICK u \in Threads \ asleep : Looking(u)
    BY DEF IInv, WakeComing
<1>2. Looking(u)'
  <2>1. CASE u = t
      BY <1>1, <2>1
  <2>2. CASE u # t
      BY <1>1, <2>2 DEF Looking, pc
  <2> QED BY <2>1, <2>2
<1> QED BY <1>1, <1>2

LEMMA SleepersKept ==
    ASSUME SMutexAssumption, IInv, NEW t \in Threads, \A u \in Threads \ {t} : call'[u] = call[u],
           asleep' \subseteq asleep \cup {t}, t \in asleep' => call'[t].pc \in {"load", "gcheck"}
    PROVE  SleepersWait' /\ asleep' \subseteq Threads
<1>1. asleep \subseteq Threads
    BY DEF IInv, TypeOK
<1> QED BY <1>1 DEF IInv, SleepersWait, pc

\* The threads other than t keep what is known of them.
LEMMA ThreadsKept ==
    ASSUME SMutexAssumption, IInv, NEW t \in Threads, \A u \in Threads \ {t} : call'[u] = call[u] /\ held'[u] = held[u],
           \A u \in Threads \ {t} : (owner' = u => owner = u /\ recursion' = recursion) /\ (owner = u => owner' = u),
           /\ held'[t].ex > 0 => owner' = t
           /\ owner' = t => call'[t].pc = "idle" /\ recursion' = held'[t].ex + held'[t].gr /\ recursion' > 0
           /\ call'[t].pc \in {"cas", "own", "load", "wait"} => held'[t].gr = 0
           /\ call'[t].pc = "gcas" => ~Locked(call'[t].seen)
           /\ call'[t].pc = "wait" => call'[t].seen # UNLOCKED
    PROVE  ThreadsExact'
<1> SUFFICES ASSUME NEW u \in Threads
             PROVE  /\ held'[u].ex > 0 => owner' = u
                    /\ owner' = u => call'[u].pc = "idle" /\ recursion' = held'[u].ex + held'[u].gr /\ recursion' > 0
                    /\ call'[u].pc \in {"cas", "own", "load", "wait"} => held'[u].gr = 0
                    /\ call'[u].pc = "gcas" => ~Locked(call'[u].seen)
                    /\ call'[u].pc = "wait" => call'[u].seen # UNLOCKED
    BY DEF ThreadsExact, pc, Locked, UNLOCKED
<1>1. CASE u = t
    BY <1>1
<1>2. CASE u # t
    BY <1>2 DEF IInv, ThreadsExact, pc
<1> QED BY <1>1, <1>2

LEMMA ExclusiveIs ==
    /\ \A u : u \in Exclusive <=> u \in Threads /\ (owner = u \/ call[u].pc \in {"own", "release"})
    /\ \A u : u \in Exclusive' <=> u \in Threads /\ (owner' = u \/ call'[u].pc \in {"own", "release"})
BY DEF Exclusive, pc

\* A step of t that does not change the lock or anybody's guards.
LEMMA LookStep ==
    ASSUME SMutexAssumption, IInv, NEW t \in Threads, owner # t,
           call' \in [Threads -> [pc : Labels, seen : Nat]],
           \A u \in Threads \ {t} : call'[u] = call[u],
           UNCHANGED <<lock, held>>, calls' \in 0..MAXCALLS,
           call[t].pc \notin {"own", "release"}, call'[t].pc \notin {"own", "release"},
           asleep' \subseteq asleep \cup {t}, t \in asleep' => call'[t].pc \in {"load", "gcheck"},
           call'[t].pc \in {"cas", "load", "wait"} => held[t].gr = 0,
           call'[t].pc = "gcas" => ~Locked(call'[t].seen),
           call'[t].pc = "wait" => call'[t].seen # UNLOCKED,
           WakeComing'
    PROVE  IInv'
<1>1. word' = word /\ owner' = owner /\ recursion' = recursion /\ held' = held
    BY DEF lock
<1>2. SleepersWait' /\ asleep' \subseteq Threads
    BY SleepersKept
<1>3. TypeOK'
    BY <1>1, <1>2 DEF IInv, TypeOK
<1>4. ThreadsExact'
  <2>1. held[t].ex > 0 => owner = t
      BY DEF IInv, ThreadsExact
  <2> QED BY <1>1, <2>1, ThreadsKept
<1>5. Exclusive' = Exclusive
    BY <1>1, ExclusiveIs, Zenon
<1>6. OneExclusive'
    BY <1>5 DEF IInv, OneExclusive
<1>7. GroupGuards' = GroupGuards
    BY <1>1, GuardsKept
<1>8. GroupCounted'
    BY <1>1, <1>5, <1>7 DEF IInv, GroupCounted, LOCKED, ONE_GROUP
<1> QED BY <1>2, <1>3, <1>4, <1>6, <1>8 DEF IInv

-----------------------------------------------------------------------------
(* The steps that only look, sleep or wake.                                *)

LEMMA NotOwner ==
    ASSUME IInv, NEW t \in Threads, call[t].pc # "idle"
    PROVE  owner # t /\ held[t].ex = 0
<1>1. owner # t /\ ~(held[t].ex > 0)
    BY DEF IInv, ThreadsExact, pc
<1> QED BY <1>1 DEF IInv, TypeOK

LEMMA EnterStep ==
    ASSUME SMutexAssumption, IInv, NEW t \in Threads, Lock(t) \/ LockGroup(t), owner # t
    PROVE  IInv'
<1>1. PICK b \in {"cas", "gload"} : Goto(t, b) /\ (b = "cas" => held[t].gr = 0)
    BY DEF Lock, LockGroup, Enter
<1>2. /\ call[t].pc = "idle" /\ UNCHANGED <<lock, held>> /\ asleep' = asleep /\ calls' = calls + 1
      /\ calls < MAXCALLS
    BY DEF Lock, LockGroup, Enter, lock, pc
<1>3. /\ call' \in [Threads -> [pc : Labels, seen : Nat]] /\ call'[t].pc = b
      /\ \A u \in Threads \ {t} : call'[u] = call[u]
  <2>1. b \in Labels
      BY DEF Labels
  <2> QED BY <1>1, <2>1, Moves DEF IInv
<1>4. calls' \in 0..MAXCALLS
    BY <1>2, Typed DEF IInv
<1>5. t \notin asleep
    BY <1>2 DEF IInv, SleepersWait, pc
<1>6. WakeComing'
    BY <1>2, <1>3, WakeKept DEF Looking, pc, lock
<1> QED BY <1>1, <1>2, <1>3, <1>4, <1>5, <1>6, LookStep

LEMMA LockCasFailedStep ==
    ASSUME SMutexAssumption, IInv, NEW t \in Threads, LockCasFailed(t)
    PROVE  IInv'
<1>1. call[t].pc = "cas" /\ Goto(t, "load") /\ UNCHANGED <<lock, held>> /\ asleep' = asleep /\ calls' = calls
    BY DEF LockCasFailed, pc
<1>2. /\ call' \in [Threads -> [pc : Labels, seen : Nat]] /\ call'[t].pc = "load"
      /\ \A u \in Threads \ {t} : call'[u] = call[u]
  <2>1. "load" \in Labels
      BY DEF Labels
  <2> QED BY <1>1, <2>1, Moves DEF IInv
<1>3. owner # t /\ held[t].gr = 0 /\ calls' \in 0..MAXCALLS
    BY <1>1, NotOwner, Typed DEF IInv, ThreadsExact, pc
<1>4. WakeComing'
    BY <1>1, <1>2, WakeKept DEF Looking, pc, lock
<1> QED BY <1>1, <1>2, <1>3, <1>4, LookStep

LEMMA LockLoadStep ==
    ASSUME SMutexAssumption, IInv, NEW t \in Threads, LockLoad(t)
    PROVE  IInv'
<1>0. PICK b : b = IF word = UNLOCKED THEN "cas" ELSE "wait"
    OBVIOUS
<1>1. /\ call[t].pc = "load" /\ GotoWith(t, b) /\ UNCHANGED <<lock, held>> /\ asleep' = asleep /\ calls' = calls
      /\ t \notin asleep
    BY <1>0 DEF LockLoad, pc, Awake
<1>2. /\ call' \in [Threads -> [pc : Labels, seen : Nat]] /\ call'[t].pc = b /\ call'[t].seen = word
      /\ \A u \in Threads \ {t} : call'[u] = call[u]
  <2>1. b \in Labels
      BY <1>0 DEF Labels
  <2> QED BY <1>1, <2>1, MovesWith DEF IInv
<1>3. owner # t /\ held[t].gr = 0 /\ calls' \in 0..MAXCALLS
    BY <1>1, NotOwner, Typed DEF IInv, ThreadsExact, pc
<1>4. WakeComing'
    BY <1>0, <1>1, <1>2, WakeKept DEF Looking, pc, lock
<1> QED BY <1>0, <1>1, <1>2, <1>3, <1>4, LookStep

LEMMA LockWaitStep ==
    ASSUME SMutexAssumption, IInv, NEW t \in Threads, LockWait(t)
    PROVE  IInv'
<1>1. /\ call[t].pc = "wait" /\ GotoWith(t, "load") /\ UNCHANGED <<lock, held>> /\ calls' = calls
      /\ asleep' = asleep \/ (asleep' = asleep \cup {t} /\ word = call[t].seen)
    BY DEF LockWait, Sleep, pc
<1>2. /\ call' \in [Threads -> [pc : Labels, seen : Nat]] /\ call'[t].pc = "load"
      /\ \A u \in Threads \ {t} : call'[u] = call[u]
  <2>1. "load" \in Labels
      BY DEF Labels
  <2> QED BY <1>1, <2>1, MovesWith DEF IInv
<1>3. owner # t /\ held[t].gr = 0 /\ calls' \in 0..MAXCALLS /\ call[t].seen # UNLOCKED
    BY <1>1, NotOwner, Typed DEF IInv, ThreadsExact, pc
<1>4. WakeComing'
    BY <1>1, <1>2, <1>3, WakeKept DEF Looking, pc, lock
<1> QED BY <1>1, <1>2, <1>3, <1>4, LookStep

LEMMA GroupLoadStep ==
    ASSUME SMutexAssumption, IInv, NEW t \in Threads,
           \/ GroupLoad(t)
           \/ GroupCasFailed(t) /\ call[t].seen # ONE_GROUP * MAXGROUP
    PROVE  IInv'
<1>0. PICK b : b = IF Locked(word) THEN "gcheck" ELSE "gcas"
    OBVIOUS
<1>1. /\ call[t].pc \in {"gload", "gcas"} /\ GotoWith(t, b) /\ UNCHANGED <<lock, held>> /\ asleep' = asleep
      /\ calls' = calls
    BY <1>0 DEF GroupLoad, GroupCasFailed, pc
<1>2. /\ call' \in [Threads -> [pc : Labels, seen : Nat]] /\ call'[t].pc = b /\ call'[t].seen = word
      /\ \A u \in Threads \ {t} : call'[u] = call[u]
  <2>1. b \in Labels
      BY <1>0 DEF Labels
  <2> QED BY <1>1, <2>1, MovesWith DEF IInv
<1>3. owner # t /\ t \notin asleep
    BY <1>1, NotOwner DEF IInv, SleepersWait, pc
<1>4. calls' \in 0..MAXCALLS /\ UNLOCKED # ONE_GROUP * MAXGROUP
    BY <1>1, Typed, WordTyped DEF IInv, UNLOCKED, ONE_GROUP
<1>5. WakeComing'
    BY <1>0, <1>1, <1>2, <1>4, WakeKept DEF Looking, pc, lock, UNLOCKED, ONE_GROUP
<1>6. ~Locked(word) \/ b = "gcheck"
    BY <1>0
<1>7. b \notin {"cas", "load", "wait", "own", "release"} /\ b \in {"gcheck", "gcas"}
    BY <1>0
<1> QED BY <1>1, <1>2, <1>3, <1>4, <1>5, <1>6, <1>7, LookStep

\* The count is full: the call panics, and its guards stay.
LEMMA GroupFullStep ==
    ASSUME SMutexAssumption, IInv, NEW t \in Threads,
           GroupCasFailed(t), call[t].seen = ONE_GROUP * MAXGROUP
    PROVE  IInv'
<1>1. /\ call[t].pc = "gcas" /\ Goto(t, "idle") /\ UNCHANGED <<lock, held>> /\ asleep' = asleep
      /\ calls' = calls
    BY DEF GroupCasFailed, pc
<1>2. /\ call' \in [Threads -> [pc : Labels, seen : Nat]] /\ call'[t].pc = "idle"
      /\ \A u \in Threads \ {t} : call'[u] = call[u]
  <2>1. "idle" \in Labels
      BY DEF Labels
  <2> QED BY <1>1, <2>1, Moves DEF IInv
<1>3. owner # t /\ t \notin asleep
    BY <1>1, NotOwner DEF IInv, SleepersWait, pc
<1>4. calls' \in 0..MAXCALLS
    BY <1>1, Typed DEF IInv
<1>5. WakeComing'
    BY <1>1, <1>2, WakeKept DEF Looking, pc, lock
<1> QED BY <1>1, <1>2, <1>3, <1>4, <1>5, LookStep

LEMMA GroupCheckStep ==
    ASSUME SMutexAssumption, IInv, NEW t \in Threads, GroupCheck(t)
    PROVE  IInv'
<1>0. PICK b : b = IF Locked(word) THEN "gwait" ELSE "gload"
    OBVIOUS
<1>1. /\ call[t].pc = "gcheck" /\ Goto(t, b) /\ UNCHANGED <<lock, held>> /\ asleep' = asleep
      /\ calls' = calls /\ t \notin asleep
    BY <1>0 DEF GroupCheck, pc, Awake
<1>2. /\ call' \in [Threads -> [pc : Labels, seen : Nat]] /\ call'[t].pc = b
      /\ \A u \in Threads \ {t} : call'[u] = call[u]
  <2>1. b \in Labels
      BY <1>0 DEF Labels
  <2> QED BY <1>1, <2>1, Moves DEF IInv
<1>3. owner # t /\ b \in {"gwait", "gload"}
    BY <1>0, <1>1, NotOwner
<1>4. calls' \in 0..MAXCALLS
    BY <1>1, Typed DEF IInv
<1>5. WakeComing'
    BY <1>1, <1>2, <1>3, WakeKept DEF Looking, pc, lock
<1> QED BY <1>1, <1>2, <1>3, <1>4, <1>5, LookStep

LEMMA GroupWaitStep ==
    ASSUME SMutexAssumption, IInv, NEW t \in Threads, GroupWait(t)
    PROVE  IInv'
<1>1. /\ call[t].pc = "gwait" /\ GotoWith(t, "gcheck") /\ UNCHANGED <<lock, held>> /\ calls' = calls
      /\ asleep' = asleep \/ (asleep' = asleep \cup {t} /\ word = LOCKED)
    BY DEF GroupWait, Sleep, pc
<1>2. /\ call' \in [Threads -> [pc : Labels, seen : Nat]] /\ call'[t].pc = "gcheck"
      /\ \A u \in Threads \ {t} : call'[u] = call[u]
  <2>1. "gcheck" \in Labels
      BY DEF Labels
  <2> QED BY <1>1, <2>1, MovesWith DEF IInv
<1>3. owner # t
    BY <1>1, NotOwner
<1>4. calls' \in 0..MAXCALLS
    BY <1>1, Typed DEF IInv
<1>5. WakeComing'
    BY <1>1, <1>2, WakeKept DEF Looking, pc, lock, LOCKED, UNLOCKED
<1> QED BY <1>1, <1>2, <1>3, <1>4, <1>5, LookStep

\* The sleeper that is woken looks at the lock in its turn.
LEMMA WakeStep ==
    ASSUME SMutexAssumption, IInv, NEW t \in Threads, Wake(t)
    PROVE  IInv'
<1>1. /\ call[t].pc = "wake" /\ Goto(t, "idle") /\ UNCHANGED <<lock, held>> /\ calls' = calls
      /\ (asleep = {} /\ asleep' = {}) \/ \E s \in asleep : asleep' = asleep \ {s}
    BY DEF Wake, pc
<1>2. /\ call' \in [Threads -> [pc : Labels, seen : Nat]] /\ call'[t].pc = "idle"
      /\ \A u \in Threads \ {t} : call'[u] = call[u]
  <2>1. "idle" \in Labels
      BY DEF Labels
  <2> QED BY <1>1, <2>1, Moves DEF IInv
<1>3. owner # t /\ t \notin asleep
    BY <1>1, NotOwner DEF IInv, SleepersWait, pc
<1>4. calls' \in 0..MAXCALLS /\ asleep \subseteq Threads
    BY <1>1, Typed DEF IInv
<1>5. WakeComing'
  <2>1. CASE asleep' = {}
      BY <2>1 DEF WakeComing
  <2>2. CASE \E s \in asleep : asleep' = asleep \ {s}
    <3>1. PICK s \in asleep : asleep' = asleep \ {s}
        BY <2>2
    <3>2. call[s].pc \in {"load", "gcheck"} /\ s \in Threads \ asleep' /\ s # t
        BY <1>1, <1>4, <3>1 DEF IInv, SleepersWait, pc
    <3>3. Looking(s)'
        BY <1>2, <3>2 DEF Looking, pc
    <3> QED BY <3>2, <3>3 DEF WakeComing
  <2> QED BY <1>1, <2>1, <2>2
<1>6. asleep' \subseteq asleep
    BY <1>1
<1> QED BY <1>1, <1>2, <1>3, <1>4, <1>5, <1>6, LookStep

LEMMA InterruptStep ==
    ASSUME SMutexAssumption, IInv, NEW t \in Threads, Interrupt(t)
    PROVE  IInv'
<1>1. /\ t \in asleep /\ asleep' = asleep \ {t} /\ UNCHANGED <<lock, held>> /\ call' = call /\ calls' = calls
    BY DEF Interrupt
<1>2. call[t].pc \in {"load", "gcheck"} /\ call' \in [Threads -> [pc : Labels, seen : Nat]]
    BY <1>1 DEF IInv, SleepersWait, pc, TypeOK
<1>3. owner # t /\ (call[t].pc = "load" => held[t].gr = 0) /\ calls' \in 0..MAXCALLS
    BY <1>1, <1>2, NotOwner, Typed DEF IInv, ThreadsExact, pc
<1>4. WakeComing'
    BY <1>1, WakeKept DEF Looking, pc, lock
<1> QED BY <1>1, <1>2, <1>3, <1>4, LookStep

-----------------------------------------------------------------------------
(* The steps that take and release the lock.                               *)

LEMMA Counted ==
    ASSUME SMutexAssumption, IInv
    PROVE  /\ Exclusive # {} => word = LOCKED /\ GroupGuards = {}
           /\ Exclusive = {} => word = ONE_GROUP * Cardinality(GroupGuards) /\ ~Locked(word)
           /\ IsFiniteSet(GroupGuards) /\ Cardinality(GroupGuards) \in Nat
           /\ word = UNLOCKED => GroupGuards = {} /\ Exclusive = {}
<1>1. IsFiniteSet(GroupGuards) /\ Cardinality(GroupGuards) \in Nat
    BY FS_CardinalityType DEF IInv, GroupCounted
<1>2. Exclusive # {} => word = LOCKED /\ GroupGuards = {}
    BY DEF IInv, GroupCounted
<1>3. Exclusive = {} => word = ONE_GROUP * Cardinality(GroupGuards)
    BY DEF IInv, GroupCounted
<1>4. Exclusive = {} => ~Locked(word)
    BY <1>1, <1>3, Parity
<1>5. word = UNLOCKED => Exclusive = {}
    BY <1>2 DEF UNLOCKED, LOCKED
<1>6. word = UNLOCKED => Cardinality(GroupGuards) = 0
    BY <1>1, <1>3, <1>5 DEF UNLOCKED, ONE_GROUP
<1>7. word = UNLOCKED => GroupGuards = {}
    BY <1>1, <1>6, FS_EmptySet
<1> QED BY <1>1, <1>2, <1>3, <1>4, <1>5, <1>7

\* The owner takes or drops a nested guard.
LEMMA NestStep ==
    ASSUME SMutexAssumption, IInv, NEW t \in Threads, owner = t,
           UNCHANGED <<word, owner, asleep, call>>, calls' \in 0..MAXCALLS,
           held' \in [Threads -> [ex : Nat, gr : Nat]], \A u \in Threads \ {t} : held'[u] = held[u],
           recursion' \in Nat, recursion' = held'[t].ex + held'[t].gr, recursion' > 0
    PROVE  IInv'
<1>1. call[t].pc = "idle"
    BY DEF IInv, ThreadsExact, pc
<1>2. TypeOK'
    BY DEF IInv, TypeOK
<1>3. ThreadsExact'
  <2>1. owner' = t /\ owner' = owner /\ call' = call
      OBVIOUS
  <2> QED BY <1>1, <2>1, ThreadsKept
<1>4. Exclusive' = Exclusive
    BY ExclusiveIs, Zenon
<1>5. OneExclusive'
    BY <1>4 DEF IInv, OneExclusive
<1>6. GroupGuards' = GroupGuards
    BY GuardsKept
<1>7. GroupCounted'
    BY <1>4, <1>6 DEF IInv, GroupCounted, LOCKED, ONE_GROUP
<1>8. SleepersWait' /\ WakeComing'
    BY DEF IInv, SleepersWait, WakeComing, Looking, pc
<1> QED BY <1>2, <1>3, <1>5, <1>7, <1>8 DEF IInv

LEMMA EnterOwnedStep ==
    ASSUME SMutexAssumption, IInv, NEW t \in Threads, Lock(t) \/ LockGroup(t), owner = t
    PROVE  IInv'
<1>1. PICK ex \in 0..1, gr \in 0..1 : Hold(t, ex, gr) /\ ex + gr = 1
    BY DEF Lock, LockGroup, Enter
<1>2. /\ UNCHANGED <<word, owner, asleep, call>> /\ calls' = calls + 1 /\ calls < MAXCALLS
      /\ recursion' = recursion + 1
    BY DEF Lock, LockGroup, Enter
<1>3. /\ held' \in [Threads -> [ex : Nat, gr : Nat]] /\ held'[t].ex = held[t].ex + ex
      /\ held'[t].gr = held[t].gr + gr /\ \A u \in Threads \ {t} : held'[u] = held[u]
    BY <1>1, Holds DEF IInv
<1>4. held[t].ex \in Nat /\ held[t].gr \in Nat /\ recursion \in Nat /\ calls' \in 0..MAXCALLS
    BY <1>2, Typed DEF IInv
<1>5. recursion = held[t].ex + held[t].gr
    BY DEF IInv, ThreadsExact
<1>6. recursion' \in Nat /\ recursion' = held'[t].ex + held'[t].gr /\ recursion' > 0
    BY <1>1, <1>2, <1>3, <1>4, <1>5
<1> QED BY <1>2, <1>3, <1>4, <1>6, NestStep

LEMMA LockCasOkStep ==
    ASSUME SMutexAssumption, IInv, NEW t \in Threads, LockCasOk(t)
    PROVE  IInv'
<1>1. /\ call[t].pc = "cas" /\ word = UNLOCKED /\ word' = LOCKED /\ Goto(t, "own")
      /\ UNCHANGED <<owner, recursion, asleep, held, calls>>
    BY DEF LockCasOk, pc
<1>2. /\ call' \in [Threads -> [pc : Labels, seen : Nat]] /\ call'[t].pc = "own"
      /\ \A u \in Threads \ {t} : call'[u] = call[u]
  <2>1. "own" \in Labels
      BY DEF Labels
  <2> QED BY <1>1, <2>1, Moves DEF IInv
<1>3. owner # t /\ held[t].ex = 0 /\ held[t].gr = 0 /\ t \notin asleep
    BY <1>1, NotOwner DEF IInv, ThreadsExact, SleepersWait, pc
<1>4. TypeOK'
    BY <1>1, <1>2 DEF IInv, TypeOK
<1>5. ThreadsExact'
  <2>1. owner' = owner /\ recursion' = recursion /\ held' = held
      BY <1>1
  <2>2. held'[t].gr = 0 /\ ~(held'[t].ex > 0)
      BY <1>3, <2>1
  <2> QED BY <1>2, <1>3, <2>1, <2>2, ThreadsKept
<1>6. Exclusive = {} /\ GroupGuards = {} /\ IsFiniteSet(GroupGuards)
    BY <1>1, Counted
<1>7. Exclusive' = {t}
    BY <1>1, <1>2, <1>3, <1>6, ExclusiveIs
<1>8. OneExclusive'
    BY <1>7 DEF OneExclusive
<1>9. GroupGuards' = GroupGuards
    BY <1>1, GuardsKept
<1>10. GroupCounted'
    BY <1>1, <1>6, <1>7, <1>9 DEF GroupCounted, LOCKED
<1>11. SleepersWait'
    BY <1>1, <1>2, <1>3, SleepersKept
<1>12. WakeComing'
    BY <1>1 DEF WakeComing, LOCKED, UNLOCKED
<1> QED BY <1>4, <1>5, <1>8, <1>10, <1>11, <1>12 DEF IInv

LEMMA LockOwnStep ==
    ASSUME SMutexAssumption, IInv, NEW t \in Threads, LockOwn(t)
    PROVE  IInv'
<1>1. /\ call[t].pc = "own" /\ owner' = t /\ recursion' = 1 /\ Hold(t, 1, 0) /\ Goto(t, "idle")
      /\ UNCHANGED <<word, asleep, calls>>
    BY DEF LockOwn, pc
<1>2. /\ call' \in [Threads -> [pc : Labels, seen : Nat]] /\ call'[t].pc = "idle"
      /\ \A u \in Threads \ {t} : call'[u] = call[u]
  <2>1. "idle" \in Labels
      BY DEF Labels
  <2> QED BY <1>1, <2>1, Moves DEF IInv
<1>3. owner # t /\ held[t].ex = 0 /\ held[t].gr = 0 /\ t \notin asleep
    BY <1>1, NotOwner DEF IInv, ThreadsExact, SleepersWait, pc
<1>4. /\ held' \in [Threads -> [ex : Nat, gr : Nat]] /\ held'[t].ex = 1 /\ held'[t].gr = 0
      /\ \A u \in Threads \ {t} : held'[u] = held[u]
    BY <1>1, <1>3, Holds DEF IInv
<1>5. t \in Exclusive
    BY <1>1, ExclusiveIs
<1>6. \A u \in Threads \ {t} : u \notin Exclusive
    BY <1>5 DEF IInv, OneExclusive
<1>7. \A u \in Threads : owner # u
    BY <1>3, <1>6, ExclusiveIs
<1>8. TypeOK'
    BY <1>1, <1>2, <1>4 DEF IInv, TypeOK
<1>9. ThreadsExact'
    BY <1>1, <1>2, <1>4, <1>7, ThreadsKept
<1>10. Exclusive' = {t}
    BY <1>1, <1>2, <1>6, ExclusiveIs
<1>11. OneExclusive'
    BY <1>10 DEF OneExclusive
<1>12. GroupGuards' = GroupGuards
    BY <1>1, <1>3, <1>4, <1>7, GuardsKept
<1>13. word = LOCKED /\ GroupGuards = {} /\ IsFiniteSet(GroupGuards)
    BY <1>5, Counted
<1>14. GroupCounted'
    BY <1>1, <1>10, <1>12, <1>13 DEF GroupCounted, LOCKED
<1>15. SleepersWait'
    BY <1>1, <1>2, <1>3, SleepersKept
<1>16. WakeComing'
    BY <1>1, <1>13 DEF WakeComing, LOCKED, UNLOCKED
<1> QED BY <1>8, <1>9, <1>11, <1>14, <1>15, <1>16 DEF IInv

LEMMA GroupCasOkStep ==
    ASSUME SMutexAssumption, IInv, NEW t \in Threads, GroupCasOk(t)
    PROVE  IInv'
<1>1. /\ call[t].pc = "gcas" /\ word = call[t].seen /\ word < ONE_GROUP * MAXGROUP
      /\ word' = word + ONE_GROUP /\ Hold(t, 0, 1) /\ Goto(t, "idle")
      /\ UNCHANGED <<owner, recursion, asleep, calls>>
    BY DEF GroupCasOk, Joins, pc
<1>2. /\ call' \in [Threads -> [pc : Labels, seen : Nat]] /\ call'[t].pc = "idle"
      /\ \A u \in Threads \ {t} : call'[u] = call[u]
  <2>1. "idle" \in Labels
      BY DEF Labels
  <2> QED BY <1>1, <2>1, Moves DEF IInv
<1>3. owner # t /\ held[t].ex = 0 /\ t \notin asleep /\ ~Locked(word) /\ held[t].gr \in Nat
    BY <1>1, NotOwner, Typed DEF IInv, ThreadsExact, SleepersWait, pc
<1>4. /\ held' \in [Threads -> [ex : Nat, gr : Nat]] /\ held'[t].ex = 0 /\ held'[t].gr = held[t].gr + 1
      /\ \A u \in Threads \ {t} : held'[u] = held[u]
    BY <1>1, <1>3, Holds DEF IInv
<1>5. Exclusive = {}
    BY <1>3, Counted, Parity DEF LOCKED
<1>6. word' \in {LOCKED} \cup {ONE_GROUP * n : n \in 0..MAXGROUP} /\ word' # UNLOCKED
  <2>1. PICK n \in 0..MAXGROUP : word = ONE_GROUP * n
      BY <1>3, WordTyped DEF IInv
  <2>2. n + 1 \in 0..MAXGROUP /\ word' = ONE_GROUP * (n + 1) /\ word' # 0
      BY <1>1, <2>1, WordTyped DEF IInv, ONE_GROUP
  <2> QED BY <2>2 DEF UNLOCKED
<1>7. TypeOK'
    BY <1>1, <1>2, <1>4, <1>6 DEF IInv, TypeOK
<1>8. ThreadsExact'
    BY <1>1, <1>2, <1>3, <1>4, ThreadsKept
<1>9. Exclusive' = {}
    BY <1>1, <1>2, <1>3, <1>5, ExclusiveIs
<1>10. OneExclusive'
    BY <1>9 DEF OneExclusive
<1>11. /\ IsFiniteSet(GroupGuards') /\ Cardinality(GroupGuards') = Cardinality(GroupGuards) + 1
       /\ Cardinality(GroupGuards) \in Nat
    BY <1>1, <1>3, <1>4, Counted, GuardJoins
<1>12. word = ONE_GROUP * Cardinality(GroupGuards)
    BY <1>5, Counted
<1>13. word' = ONE_GROUP * Cardinality(GroupGuards')
    BY <1>1, <1>11, <1>12 DEF ONE_GROUP
<1>14. GroupCounted'
    BY <1>9, <1>11, <1>13 DEF GroupCounted, ONE_GROUP
<1>15. SleepersWait'
    BY <1>1, <1>2, <1>3, SleepersKept
<1>16. WakeComing'
    BY <1>6 DEF WakeComing, UNLOCKED
<1> QED BY <1>7, <1>8, <1>10, <1>14, <1>15, <1>16 DEF IInv

\* The owner drops a guard of either kind.
LEMMA DropOwnedStep ==
    ASSUME SMutexAssumption, IInv, NEW t \in Threads, owner = t, NEW ex \in 0..1, NEW gr \in 0..1,
           ex + gr = 1, ex <= held[t].ex, gr <= held[t].gr, DropOwned(t, ex, gr)
    PROVE  IInv'
<1>1. /\ recursion' = recursion - 1 /\ Unhold(t, ex, gr) /\ UNCHANGED <<word, asleep, calls>>
      /\ \/ recursion > 1 /\ UNCHANGED <<owner, call>>
         \/ ~(recursion > 1) /\ owner' = None /\ Goto(t, "release")
    BY DEF DropOwned
<1>2. /\ held' \in [Threads -> [ex : Nat, gr : Nat]] /\ held'[t].ex = held[t].ex - ex
      /\ held'[t].gr = held[t].gr - gr /\ \A u \in Threads \ {t} : held'[u] = held[u]
    BY <1>1, Unholds DEF IInv
<1>3. /\ held[t].ex \in Nat /\ held[t].gr \in Nat /\ recursion \in Nat /\ calls' \in 0..MAXCALLS
      /\ None \notin Threads
    BY <1>1, Typed DEF IInv
<1>4. recursion = held[t].ex + held[t].gr /\ recursion > 0 /\ call[t].pc = "idle"
    BY DEF IInv, ThreadsExact, pc
<1>5. recursion' \in Nat /\ recursion' = held'[t].ex + held'[t].gr
  <2>1. recursion' = recursion - 1
      BY <1>1
  <2>2. (held[t].ex - ex) + (held[t].gr - gr) = (held[t].ex + held[t].gr) - 1
      BY <1>3
  <2> QED BY <1>2, <1>3, <1>4, <2>1, <2>2
<1>6. CASE recursion > 1
  <2>1. UNCHANGED <<word, owner, asleep, call>> /\ recursion' > 0
      BY <1>1, <1>3, <1>6
  <2> QED BY <1>2, <1>3, <1>5, <2>1, NestStep
<1>7. CASE ~(recursion > 1)
  <2>1. owner' = None /\ Goto(t, "release")
      BY <1>1, <1>7
  <2>2. held'[t].ex = 0 /\ held'[t].gr = 0
      BY <1>2, <1>3, <1>4, <1>7
  <2>3. /\ call' \in [Threads -> [pc : Labels, seen : Nat]] /\ call'[t].pc = "release"
        /\ \A u \in Threads \ {t} : call'[u] = call[u]
    <3>1. "release" \in Labels
        BY DEF Labels
    <3> QED BY <2>1, <3>1, Moves DEF IInv
  <2>4. t \in Exclusive
      BY ExclusiveIs
  <2>5. \A u \in Threads \ {t} : u \notin Exclusive
      BY <2>4 DEF IInv, OneExclusive
  <2>6. TypeOK'
      BY <1>1, <1>2, <1>5, <2>1, <2>3, Zenon DEF IInv, TypeOK
  <2>7. ThreadsExact'
      BY <1>2, <1>3, <2>1, <2>2, <2>3, ThreadsKept
  <2>8. Exclusive' = {t}
      BY <1>3, <2>1, <2>3, <2>5, ExclusiveIs
  <2>9. OneExclusive'
      BY <2>8 DEF OneExclusive
  <2>10. GroupGuards' = GroupGuards
      BY <1>2, <1>3, <2>1, <2>2, GuardsKept
  <2>11. word = LOCKED /\ GroupGuards = {} /\ IsFiniteSet(GroupGuards)
      BY <2>4, Counted
  <2>12. GroupCounted'
      BY <1>1, <2>8, <2>10, <2>11 DEF GroupCounted, LOCKED
  <2>13. t \notin asleep
      BY <1>4 DEF IInv, SleepersWait, pc
  <2>14. SleepersWait'
      BY <1>1, <2>3, <2>13, SleepersKept
  <2>15. WakeComing'
      BY <1>1, <2>11 DEF WakeComing, LOCKED, UNLOCKED
  <2> QED BY <2>6, <2>7, <2>9, <2>12, <2>14, <2>15 DEF IInv
<1> QED BY <1>6, <1>7

LEMMA RawUnlockStep ==
    ASSUME SMutexAssumption, IInv, NEW t \in Threads, RawUnlock(t)
    PROVE  IInv'
<1>1. held[t].ex > 0 /\ DropOwned(t, 1, 0)
    BY DEF RawUnlock
<1>2. owner = t /\ 1 <= held[t].ex /\ 0 <= held[t].gr
    BY <1>1, Typed DEF IInv, ThreadsExact
<1> QED BY <1>1, <1>2, DropOwnedStep

LEMMA RawUnlockGroupStep ==
    ASSUME SMutexAssumption, IInv, NEW t \in Threads, RawUnlockGroup(t)
    PROVE  IInv'
<1>0. held[t].gr > 0 /\ call[t].pc = "idle" /\ held[t].ex \in Nat /\ held[t].gr \in Nat
    BY Typed DEF IInv, RawUnlockGroup, pc
<1>1. CASE owner = t
  <2>1. DropOwned(t, 0, 1) /\ 0 <= held[t].ex /\ 1 <= held[t].gr
      BY <1>0, <1>1 DEF RawUnlockGroup
  <2> QED BY <1>1, <2>1, DropOwnedStep
<1>2. CASE owner # t
  <2>1. /\ word' = word - ONE_GROUP /\ Unhold(t, 0, 1) /\ UNCHANGED <<owner, recursion, asleep, calls>>
        /\ \/ word = ONE_GROUP /\ Goto(t, "wake")
           \/ word # ONE_GROUP /\ call' = call
      BY <1>2 DEF RawUnlockGroup, LastOfGroup
  <2>2. /\ call' \in [Threads -> [pc : Labels, seen : Nat]]
        /\ call'[t].pc \in {"idle", "wake"}
        /\ word = ONE_GROUP => call'[t].pc = "wake"
        /\ \A u \in Threads \ {t} : call'[u] = call[u]
    <3>1. "wake" \in Labels /\ call \in [Threads -> [pc : Labels, seen : Nat]]
        BY DEF Labels, IInv, TypeOK
    <3>2. CASE Goto(t, "wake")
        BY <3>1, <3>2, Moves DEF IInv
    <3>3. CASE word # ONE_GROUP /\ call' = call
        BY <1>0, <3>1, <3>3
    <3> QED BY <2>1, <3>2, <3>3
  <2>3. /\ held' \in [Threads -> [ex : Nat, gr : Nat]] /\ held'[t].ex = held[t].ex
        /\ held'[t].gr = held[t].gr - 1 /\ \A u \in Threads \ {t} : held'[u] = held[u]
    <3>1. 0 <= held[t].ex /\ 1 <= held[t].gr
        BY <1>0
    <3> QED BY <1>0, <2>1, <3>1, Unholds DEF IInv
  <2>4. /\ IsFiniteSet(GroupGuards') /\ Cardinality(GroupGuards') = Cardinality(GroupGuards) - 1
        /\ Cardinality(GroupGuards) \in Nat /\ GroupGuards # {} /\ Cardinality(GroupGuards') \in Nat
      BY <1>0, <1>2, <2>1, <2>3, Counted, GuardQuits
  <2>5. Exclusive = {} /\ word = ONE_GROUP * Cardinality(GroupGuards)
      BY <2>4, Counted
  <2>6. word' = ONE_GROUP * Cardinality(GroupGuards')
      BY <2>1, <2>4, <2>5 DEF ONE_GROUP
  <2>7. word' \in {LOCKED} \cup {ONE_GROUP * n : n \in 0..MAXGROUP}
    <3>1. PICK n \in 0..MAXGROUP : word = ONE_GROUP * n
        BY <2>5, Counted, WordTyped DEF IInv
    <3>2. Cardinality(GroupGuards') \in 0..MAXGROUP
        BY <2>4, <2>5, <3>1, WordTyped DEF IInv, ONE_GROUP
    <3> QED BY <2>6, <3>2
  <2>8. TypeOK'
      BY <2>1, <2>2, <2>3, <2>7 DEF IInv, TypeOK
  <2>9. ThreadsExact'
    <3>1. ~(held[t].ex > 0)
        BY <1>2 DEF IInv, ThreadsExact
    <3> QED BY <1>2, <2>1, <2>2, <2>3, <3>1, ThreadsKept
  <2>10. Exclusive' = {}
      BY <2>1, <2>2, <1>2, <2>5, ExclusiveIs
  <2>11. OneExclusive'
      BY <2>10 DEF OneExclusive
  <2>12. GroupCounted'
      BY <2>4, <2>6, <2>10 DEF GroupCounted, ONE_GROUP
  <2>13. t \notin asleep
      BY <1>0 DEF IInv, SleepersWait, pc
  <2>14. SleepersWait'
      BY <2>1, <2>2, <2>13, SleepersKept
  <2>15. WakeComing'
    <3>1. word' = UNLOCKED => word = ONE_GROUP
        BY <2>1, WordTyped DEF IInv, UNLOCKED, ONE_GROUP
    <3>2. word' = UNLOCKED => Looking(t)' /\ t \in Threads \ asleep'
        BY <2>1, <2>2, <2>13, <3>1 DEF Looking, pc
    <3> QED BY <3>2 DEF WakeComing, UNLOCKED
  <2> QED BY <2>8, <2>9, <2>11, <2>12, <2>14, <2>15 DEF IInv
<1> QED BY <1>1, <1>2

LEMMA ReleaseStep ==
    ASSUME SMutexAssumption, IInv, NEW t \in Threads, Release(t)
    PROVE  IInv'
<1>1. /\ call[t].pc = "release" /\ word' = UNLOCKED /\ Goto(t, "wake")
      /\ UNCHANGED <<owner, recursion, asleep, held, calls>>
    BY DEF Release, pc
<1>2. /\ call' \in [Threads -> [pc : Labels, seen : Nat]] /\ call'[t].pc = "wake"
      /\ \A u \in Threads \ {t} : call'[u] = call[u]
  <2>1. "wake" \in Labels
      BY DEF Labels
  <2> QED BY <1>1, <2>1, Moves DEF IInv
<1>3. owner # t /\ held[t].ex = 0 /\ t \notin asleep /\ owner' = owner /\ held' = held /\ recursion' = recursion
    BY <1>1, NotOwner DEF IInv, SleepersWait, pc
<1>4. t \in Exclusive
    BY <1>1, ExclusiveIs
<1>5. \A u \in Threads \ {t} : u \notin Exclusive
    BY <1>4 DEF IInv, OneExclusive
<1>6. word' \in {LOCKED} \cup {ONE_GROUP * n : n \in 0..MAXGROUP}
  <2>1. 0 \in 0..MAXGROUP /\ word' = ONE_GROUP * 0
      BY <1>1, WordTyped DEF IInv, UNLOCKED, ONE_GROUP
  <2> QED BY <2>1
<1>7. TypeOK'
    BY <1>1, <1>2, <1>6 DEF IInv, TypeOK
<1>8. ThreadsExact'
    BY <1>2, <1>3, ThreadsKept
<1>9. Exclusive' = {}
    BY <1>1, <1>2, <1>3, <1>5, ExclusiveIs
<1>10. OneExclusive'
    BY <1>9 DEF OneExclusive
<1>11. GroupGuards' = GroupGuards
    BY <1>3, GuardsKept
<1>12. GroupGuards = {} /\ IsFiniteSet(GroupGuards)
    BY <1>4, Counted
<1>13. GroupCounted'
  <2>1. Cardinality(GroupGuards') = 0
      BY <1>11, <1>12, FS_EmptySet
  <2>2. word' = ONE_GROUP * Cardinality(GroupGuards')
      BY <1>1, <2>1 DEF ONE_GROUP, UNLOCKED
  <2> QED BY <1>9, <1>11, <1>12, <2>2 DEF GroupCounted, ONE_GROUP
<1>14. SleepersWait'
    BY <1>1, <1>2, <1>3, SleepersKept
<1>15. WakeComing'
  <2>1. Looking(t)' /\ t \in Threads \ asleep'
      BY <1>1, <1>2, <1>3 DEF Looking, pc
  <2> QED BY <2>1 DEF WakeComing
<1> QED BY <1>7, <1>8, <1>10, <1>13, <1>14, <1>15 DEF IInv

-----------------------------------------------------------------------------
LEMMA InitIInv == SMutexAssumption /\ Init => IInv
<1> SUFFICES ASSUME SMutexAssumption, Init
             PROVE  IInv
    OBVIOUS
<1>1. /\ word = UNLOCKED /\ owner = None /\ recursion = 0 /\ asleep = {} /\ calls = 0
      /\ held = [t \in Threads |-> [ex |-> 0, gr |-> 0]]
      /\ call = [t \in Threads |-> [pc |-> "idle", seen |-> UNLOCKED]]
    BY DEF Init
<1>2. None \notin Threads /\ MAXGROUP \in Nat /\ MAXCALLS \in Nat
    BY DEF SMutexAssumption
<1>3. \A t \in Threads : call[t].pc = "idle" /\ held[t].ex = 0 /\ held[t].gr = 0 /\ owner # t
    BY <1>1, <1>2
<1>4. TypeOK
  <2>1. word \in {LOCKED} \cup {ONE_GROUP * n : n \in 0..MAXGROUP}
    <3>1. 0 \in 0..MAXGROUP /\ word = ONE_GROUP * 0
        BY <1>1, <1>2 DEF UNLOCKED, ONE_GROUP
    <3> QED BY <3>1
  <2>2. held \in [Threads -> [ex : Nat, gr : Nat]] /\ call \in [Threads -> [pc : Labels, seen : Nat]]
      BY <1>1 DEF Labels, UNLOCKED
  <2> QED BY <1>1, <1>2, <2>1, <2>2 DEF TypeOK
<1>5. ThreadsExact
    BY <1>3 DEF ThreadsExact, pc
<1>6. Exclusive = {}
    BY <1>3, ExclusiveIs
<1>7. GroupGuards = {}
    BY <1>3, GuardsAre
<1>8. OneExclusive /\ GroupCounted
  <2>1. IsFiniteSet(GroupGuards) /\ Cardinality(GroupGuards) = 0
      BY <1>7, FS_EmptySet
  <2> QED BY <1>1, <1>6, <2>1 DEF OneExclusive, GroupCounted, UNLOCKED, ONE_GROUP
<1>9. SleepersWait /\ WakeComing
    BY <1>1 DEF SleepersWait, WakeComing
<1> QED BY <1>4, <1>5, <1>8, <1>9 DEF IInv

LEMMA NextIInv == SMutexAssumption /\ IInv /\ Next => IInv'
<1> SUFFICES ASSUME SMutexAssumption, IInv, NEW t \in Threads,
                    Step(t) \/ Lock(t) \/ LockGroup(t) \/ Interrupt(t)
             PROVE  IInv'
    BY DEF Next
<1>1. CASE Continue(t)
  <2>1. CASE LockCasOk(t) \/ LockCasFailed(t) \/ LockOwn(t) \/ LockLoad(t) \/ LockWait(t)
      BY <2>1, LockCasOkStep, LockCasFailedStep, LockOwnStep, LockLoadStep, LockWaitStep
  <2>2. CASE GroupLoad(t) \/ GroupCasOk(t) \/ GroupCasFailed(t) \/ GroupCheck(t) \/ GroupWait(t)
      BY <2>2, GroupLoadStep, GroupCasOkStep, GroupFullStep, GroupCheckStep, GroupWaitStep
  <2>3. CASE Release(t) \/ Wake(t)
      BY <2>3, ReleaseStep, WakeStep
  <2> QED BY <1>1, <2>1, <2>2, <2>3 DEF Continue
<1>2. CASE Drop(t)
    BY <1>2, RawUnlockStep, RawUnlockGroupStep DEF Drop
<1>3. CASE Lock(t) \/ LockGroup(t)
    BY <1>3, EnterStep, EnterOwnedStep
<1>4. CASE Interrupt(t)
    BY <1>4, InterruptStep
<1> QED BY <1>1, <1>2, <1>3, <1>4 DEF Step

LEMMA StutterIInv == IInv /\ UNCHANGED vars => IInv'
<1> SUFFICES ASSUME IInv, UNCHANGED vars
             PROVE  IInv'
    OBVIOUS
<1>1. /\ word' = word /\ owner' = owner /\ recursion' = recursion /\ asleep' = asleep /\ held' = held
      /\ call' = call /\ calls' = calls
    BY DEF vars
<1>2. Exclusive' = Exclusive /\ GroupGuards' = GroupGuards
    BY <1>1, ExclusiveIs, GuardsKept
<1>3. TypeOK' /\ ThreadsExact' /\ OneExclusive'
    BY <1>1, <1>2 DEF IInv, TypeOK, ThreadsExact, OneExclusive, pc
<1>4. GroupCounted' /\ SleepersWait' /\ WakeComing'
    BY <1>1, <1>2 DEF IInv, GroupCounted, SleepersWait, WakeComing, Looking, pc
<1> QED BY <1>3, <1>4 DEF IInv

LEMMA GuardsAreExact == SMutexAssumption /\ IInv => GuardsExact
<1> SUFFICES ASSUME SMutexAssumption, IInv
             PROVE  GuardsExact
    OBVIOUS
<1>1. Cardinality(Exclusive) <= 1
  <2>1. CASE Exclusive = {}
      BY <2>1, FS_EmptySet
  <2>2. CASE Exclusive # {}
    <3>1. PICK t \in Exclusive : Exclusive = {t}
        BY <2>2 DEF IInv, OneExclusive
    <3>2. Cardinality({t}) = 1
        BY FS_Singleton, Zenon
    <3> QED BY <3>1, <3>2
  <2> QED BY <2>1, <2>2
<1>2. Locked(word) <=> Exclusive # {}
    BY Counted, Parity
<1>3. ~Locked(word) => word = ONE_GROUP * Cardinality(GroupGuards)
    BY <1>2, Counted
<1>4. \A t \in Threads : /\ held[t].ex > 0 => owner = t
                         /\ owner = t => recursion = held[t].ex + held[t].gr
    BY DEF IInv, ThreadsExact
<1> QED BY <1>1, <1>2, <1>3, <1>4 DEF GuardsExact

LEMMA WakeIsComing == IInv => NoLostWakeup
BY DEF IInv, WakeComing, NoLostWakeup, Looking

-----------------------------------------------------------------------------
\* The invariant of the mutex under any number of threads.
THEOREM InductiveInvariant ==
    ASSUME SMutexAssumption
    PROVE  Spec => []IInv
<1>1. Init => IInv
    BY InitIInv
<1>2. IInv /\ [Next]_vars => IInv'
    BY NextIInv, StutterIInv
<1> QED BY <1>1, <1>2, PTL DEF Spec

\* The word, the owner and the recursion count describe the live guards exactly,
\* whatever the order in which nested guards of both kinds are dropped; and no
\* thread sleeps on a free lock that nobody is still to look at.
THEOREM MutexSafe ==
    ASSUME SMutexAssumption
    PROVE  Spec => [](TypeOK /\ GuardsExact /\ NoLostWakeup)
<1>1. IInv => TypeOK /\ GuardsExact /\ NoLostWakeup
    BY GuardsAreExact, WakeIsComing DEF IInv
<1> QED BY <1>1, InductiveInvariant, PTL
=============================================================================
