----------------------------- MODULE MpmcProofs -----------------------------
(***************************************************************************)
(* Proofs, for any finite set of threads, of the safety properties of the  *)
(* channel and its condition variable: the waiters are counted exactly, a  *)
(* close leaves a token for each, and no receiver sleeps on a message.     *)
(***************************************************************************)
EXTENDS Mpmc, FiniteSetTheorems, TLAPS

\* The threads whose call is at one of the labels L.
At(L) == {t \in Threads : pc[t] \in L}

UnservedLabels == {"registered", "load", "token", "sleep"}
WaitingLabels == UnservedLabels \cup {"leave"}
Under == {"push", "notify_one", "add_one", "bump_one", "wake_one", "shut", "notify_all", "add_all",
          "bump_all", "wake_all", "unlock", "try_pop", "pop", "registered"}

\* The mutex is held by the one thread at a step under it.
OwnerExact == \A t \in Threads : pc[t] \in Under <=> mutex = t

\* A message is a send() that was let in.
SendsCounted == buffer + Cardinality(At({"send", "push"})) <= sends

WaitersCounted == waiters = Cardinality(At(WaitingLabels))

\* close() counted every waiter that needs a token, and then none is added.
CloseCounted == (\E t \in Threads : pc[t] = "add_all") => count >= Cardinality(Unserved)

SleepersWait == \A t \in futex.asleep : pc[t] = "load"

\* A waiter that is about to sleep with a snapshot that still matches saw no
\* token; if there is one now, its bump is still to come.
LastLook ==
    \A t \in Threads : pc[t] = "sleep" /\ t \in futex.fresh =>
        \/ to_wake = 0
        \/ to_wake = 1 /\ \E u \in Threads : pc[u] = "bump_one"
        \/ \E u \in Threads : pc[u] = "bump_all"

\* While anyone sleeps, every token has a thread that will take it or wake
\* another one that will.
Ready == At(UnservedLabels \cup {"bump_one", "wake_one"}) \ futex.asleep
TokensReach ==
    futex.asleep # {} => \/ to_wake <= Cardinality(Ready)
                         \/ \E t \in Threads : pc[t] \in {"bump_all", "wake_all"}

\* While anyone waits, every message has a token, a receiver that comes for it,
\* or a sender that is about to add the token.
Coming == {"leave", "relock", "recv", "pop", "notify_one", "add_one"}
MessagesReach == Unserved # {} => buffer <= to_wake + Cardinality(At(Coming))

\* The inductive invariant.
IInv ==
    /\ TypeOK /\ OwnerExact /\ SendsCounted /\ WaitersCounted
    /\ CloseCoversWaiters /\ CloseCounted
    /\ SleepersWait /\ LastLook /\ TokensReach /\ MessagesReach

-----------------------------------------------------------------------------
(* A thread moves from one label to another.                               *)

LEMMA AtFinite ==
    ASSUME MpmcAssumption, NEW L
    PROVE  At(L) \subseteq Threads /\ IsFiniteSet(At(L)) /\ Cardinality(At(L)) \in Nat
                /\ Cardinality(At(L)) <= Cardinality(Threads) /\ Cardinality(Threads) \in Nat
<1>1. At(L) \subseteq Threads /\ IsFiniteSet(Threads)
    BY DEF At, MpmcAssumption
<1> QED BY <1>1, FS_Subset, FS_CardinalityType

LEMMA SubsetSizes ==
    ASSUME MpmcAssumption, NEW S, NEW T, S \subseteq T, T \subseteq Threads
    PROVE  Cardinality(S) <= Cardinality(T) /\ Cardinality(S) \in Nat /\ Cardinality(T) \in Nat
<1>1. IsFiniteSet(Threads)
    BY DEF MpmcAssumption
<1>2. IsFiniteSet(T)
    BY <1>1, FS_Subset
<1> QED BY <1>2, FS_Subset, FS_CardinalityType

LEMMA Moves ==
    ASSUME TypeOK, NEW t \in Threads, NEW b \in Labels, Goto(t, b)
    PROVE  pc' \in [Threads -> Labels] /\ pc'[t] = b /\ \A u \in Threads \ {t} : pc'[u] = pc[u]
BY DEF TypeOK, Goto

\* How many threads are at some labels, before and after.
LEMMA Shift ==
    ASSUME MpmcAssumption, NEW t \in Threads, NEW L,
           \A u \in Threads \ {t} : pc'[u] = pc[u]
    PROVE  /\ (pc[t] \in L <=> pc'[t] \in L) => At(L)' = At(L) /\ Cardinality(At(L)') = Cardinality(At(L))
           /\ pc[t] \in L /\ pc'[t] \notin L =>
                 At(L)' = At(L) \ {t} /\ Cardinality(At(L)') = Cardinality(At(L)) - 1
           /\ pc[t] \notin L /\ pc'[t] \in L =>
                 At(L)' = At(L) \cup {t} /\ Cardinality(At(L)') = Cardinality(At(L)) + 1
<1>1. IsFiniteSet(At(L))
    BY AtFinite
<1>2. CASE pc[t] \in L <=> pc'[t] \in L
  <2>1. At(L)' = At(L)
      BY <1>2 DEF At
  <2> QED BY <1>2, <2>1
<1>3. CASE pc[t] \in L /\ pc'[t] \notin L
  <2>1. At(L)' = At(L) \ {t} /\ t \in At(L)
      BY <1>3 DEF At
  <2>2. Cardinality(At(L) \ {t}) = Cardinality(At(L)) - 1
      BY <1>1, <2>1, FS_RemoveElement, Zenon
  <2> QED BY <1>3, <2>1, <2>2
<1>4. CASE pc[t] \notin L /\ pc'[t] \in L
  <2>1. At(L)' = At(L) \cup {t} /\ t \notin At(L)
    <3>1. t \notin At(L)
        BY <1>4 DEF At
    <3>2. \A u : u \in At(L)' <=> u \in At(L) \cup {t}
        BY <1>4 DEF At
    <3> QED BY <3>1, <3>2
  <2>2. Cardinality(At(L) \cup {t}) = Cardinality(At(L)) + 1
      BY <1>1, <2>1, FS_AddElement, Zenon
  <2> QED BY <1>4, <2>1, <2>2
<1> QED BY <1>2, <1>3, <1>4

LEMMA UnservedAt == Unserved = At(UnservedLabels) /\ Unserved' = At(UnservedLabels)'
BY DEF Unserved, At, UnservedLabels

\* The types that the counts imply.
LEMMA TypeStep ==
    ASSUME MpmcAssumption, SendsCounted', WaitersCounted', pc' \in [Threads -> Labels],
           mutex' \in Threads \cup {None}, closed' \in BOOLEAN, to_wake' \in Nat, count' \in Nat,
           futex' \in Futexes(Threads), sends' \in 0..MAXSENDS, recvs' \in 0..MAXRECVS,
           buffer' \in Nat, BOUNDED > 0 => buffer' <= BOUNDED
    PROVE  TypeOK'
<1>1. At({"send", "push"})' \subseteq Threads /\ At(WaitingLabels)' \subseteq Threads
    BY DEF At
<1>2. /\ Cardinality(At({"send", "push"})') \in Nat /\ Cardinality(At(WaitingLabels)') \in Nat
      /\ Cardinality(At(WaitingLabels)') <= Cardinality(Threads) /\ Cardinality(Threads) \in Nat
    BY <1>1, SubsetSizes
<1>3. buffer' <= MAXSENDS /\ BOUNDED \in Nat /\ MAXSENDS \in Nat
    BY <1>2 DEF SendsCounted, MpmcAssumption
<1>4. waiters' \in 0..Cardinality(Threads)
    BY <1>2 DEF WaitersCounted
<1>5. buffer' \in 0..(IF BOUNDED > 0 THEN BOUNDED ELSE MAXSENDS)
    BY <1>3
<1> QED BY <1>4, <1>5 DEF TypeOK

LEMMA Typed ==
    ASSUME MpmcAssumption, TypeOK
    PROVE  /\ mutex \in Threads \cup {None} /\ None \notin Threads /\ buffer \in Nat /\ closed \in BOOLEAN
           /\ waiters \in Nat /\ to_wake \in Nat /\ count \in Nat /\ futex \in Futexes(Threads)
           /\ pc \in [Threads -> Labels] /\ sends \in 0..MAXSENDS /\ recvs \in 0..MAXRECVS
           /\ BOUNDED \in Nat /\ (BOUNDED > 0 => buffer <= BOUNDED) /\ MAXSENDS \in Nat /\ MAXRECVS \in Nat
<1>1. Cardinality(Threads) \in Nat
    BY FS_CardinalityType DEF MpmcAssumption
<1> QED BY <1>1 DEF TypeOK, MpmcAssumption

LEMMA FutexTyped ==
    ASSUME MpmcAssumption, TypeOK
    PROVE  futex.asleep \subseteq Threads /\ futex.fresh \subseteq Threads
BY DEF TypeOK, Futexes

-----------------------------------------------------------------------------
(* The invariant, conjunct by conjunct: when a step of t keeps it.         *)

LEMMA OwnerKept ==
    ASSUME MpmcAssumption, IInv, NEW t \in Threads, \A u \in Threads \ {t} : pc'[u] = pc[u],
           \/ mutex' = mutex /\ (pc'[t] \in Under <=> pc[t] \in Under)
           \/ mutex = None /\ mutex' = t /\ pc'[t] \in Under
           \/ pc[t] \in Under /\ mutex' = None /\ pc'[t] \notin Under
    PROVE  OwnerExact' /\ mutex' \in Threads \cup {None}
<1>1. \A u \in Threads : pc[u] \in Under <=> mutex = u
    BY DEF IInv, OwnerExact
<1>2. None \notin Threads /\ mutex \in Threads \cup {None}
    BY Typed DEF IInv
<1>3. \A u \in Threads : pc'[u] \in Under <=> mutex' = u
    BY <1>1, <1>2
<1>4. mutex' \in Threads \cup {None}
    BY <1>2
<1> QED BY <1>3, <1>4 DEF OwnerExact

\* Only one thread is at a step under the mutex.
LEMMA Alone ==
    ASSUME IInv, NEW t \in Threads, NEW u \in Threads, pc[t] \in Under, pc[u] \in Under
    PROVE  t = u
BY DEF IInv, OwnerExact

LEMMA SendsKept ==
    ASSUME MpmcAssumption, IInv, NEW t \in Threads, \A u \in Threads \ {t} : pc'[u] = pc[u],
           buffer' \in Nat, buffer' <= buffer, sends' = sends,
           pc'[t] \in {"send", "push"} => pc[t] \in {"send", "push"}
    PROVE  SendsCounted'
<1> DEFINE L == {"send", "push"}
<1>1. buffer + Cardinality(At(L)) <= sends /\ buffer \in Nat /\ sends \in Nat /\ Cardinality(At(L)) \in Nat
    BY Typed, AtFinite DEF IInv, SendsCounted
<1>2. Cardinality(At(L)') = Cardinality(At(L)) \/ Cardinality(At(L)') = Cardinality(At(L)) - 1
    BY Shift
<1> QED BY <1>1, <1>2 DEF SendsCounted

LEMMA WaitersKept ==
    ASSUME MpmcAssumption, IInv, NEW t \in Threads, \A u \in Threads \ {t} : pc'[u] = pc[u],
           waiters' = waiters, pc'[t] \in WaitingLabels <=> pc[t] \in WaitingLabels
    PROVE  WaitersCounted'
<1>1. At(WaitingLabels)' = At(WaitingLabels)
    BY Shift
<1> QED BY <1>1 DEF IInv, WaitersCounted

\* While closed, waiters need no more tokens and lose none.
LEMMA CloseKept ==
    ASSUME MpmcAssumption, IInv, NEW t \in Threads, \A u \in Threads \ {t} : pc'[u] = pc[u],
           closed' = closed, to_wake' \in Nat, to_wake' >= to_wake, count' = count,
           pc'[t] \in UnservedLabels => pc[t] \in UnservedLabels \/ ~closed,
           pc'[t] \in UnservedLabels => pc[t] \in UnservedLabels \/ pc[t] \in Under,
           pc'[t] # "add_all",
           pc[t] \in {"notify_all", "add_all"} => pc'[t] \in {"notify_all", "add_all"}
    PROVE  CloseCoversWaiters' /\ CloseCounted'
<1>1. /\ Cardinality(Unserved) \in Nat /\ to_wake \in Nat /\ count \in Nat
    BY UnservedAt, AtFinite, Typed DEF IInv
<1>2. CASE ~(pc'[t] \in UnservedLabels /\ pc[t] \notin UnservedLabels)
  <2>1. Cardinality(Unserved') = Cardinality(Unserved) \/ Cardinality(Unserved') = Cardinality(Unserved) - 1
      BY <1>2, Shift, UnservedAt
  <2>2. CloseCoversWaiters'
      BY <1>1, <2>1 DEF IInv, CloseCoversWaiters
  <2>3. CloseCounted'
      BY <1>1, <2>1 DEF IInv, CloseCounted
  <2> QED BY <2>2, <2>3
<1>3. CASE pc'[t] \in UnservedLabels /\ pc[t] \notin UnservedLabels
  <2>1. ~closed' /\ pc[t] \in Under
      BY <1>3
  <2>2. \A u \in Threads : pc'[u] # "add_all"
      BY <2>1, Alone DEF Under
  <2> QED BY <2>1, <2>2 DEF CloseCoversWaiters, CloseCounted
<1> QED BY <1>2, <1>3

LEMMA SleepersKept ==
    ASSUME MpmcAssumption, IInv, NEW t \in Threads, \A u \in Threads \ {t} : pc'[u] = pc[u],
           futex'.asleep \subseteq futex.asleep \cup {t}, t \in futex'.asleep => pc'[t] = "load"
    PROVE  SleepersWait'
BY FutexTyped DEF IInv, SleepersWait

LEMMA LookKept ==
    ASSUME MpmcAssumption, IInv, NEW t \in Threads, \A u \in Threads \ {t} : pc'[u] = pc[u],
           futex'.fresh \subseteq futex.fresh \cup {t}, to_wake' = to_wake,
           pc'[t] # "sleep", pc[t] \notin {"bump_one", "bump_all"}
    PROVE  LastLook'
<1> SUFFICES ASSUME NEW x \in Threads, pc'[x] = "sleep", x \in futex'.fresh
             PROVE  \/ to_wake' = 0
                    \/ to_wake' = 1 /\ \E u \in Threads : pc'[u] = "bump_one"
                    \/ \E u \in Threads : pc'[u] = "bump_all"
    BY DEF LastLook
<1>1. x # t /\ pc[x] = "sleep" /\ x \in futex.fresh
    OBVIOUS
<1>2. \A u \in Threads : pc[u] \in {"bump_one", "bump_all"} => pc'[u] = pc[u]
    OBVIOUS
<1> QED BY <1>1, <1>2 DEF IInv, LastLook

LEMMA ReadyFinite ==
    ASSUME MpmcAssumption
    PROVE  /\ Ready \subseteq Threads /\ IsFiniteSet(Ready) /\ Cardinality(Ready) \in Nat
           /\ Ready' \subseteq Threads /\ IsFiniteSet(Ready') /\ Cardinality(Ready') \in Nat
<1>1. Ready \subseteq Threads /\ Ready' \subseteq Threads /\ IsFiniteSet(Threads)
    BY DEF Ready, At, MpmcAssumption
<1> QED BY <1>1, FS_Subset, FS_CardinalityType

ReadyLabels == UnservedLabels \cup {"bump_one", "wake_one"}

LEMMA TokensKept ==
    ASSUME MpmcAssumption, IInv, NEW t \in Threads, \A u \in Threads \ {t} : pc'[u] = pc[u],
           futex'.asleep \subseteq futex.asleep, to_wake' = to_wake,
           pc[t] \in ReadyLabels => pc'[t] \in ReadyLabels,
           pc[t] \in {"bump_all", "wake_all"} => pc'[t] \in {"bump_all", "wake_all"}
    PROVE  TokensReach'
<1>1. Ready \subseteq Ready'
    BY DEF Ready, At, ReadyLabels
<1>2. Cardinality(Ready) <= Cardinality(Ready') /\ Cardinality(Ready) \in Nat /\ Cardinality(Ready') \in Nat
    BY <1>1, ReadyFinite, SubsetSizes
<1>3. to_wake \in Nat
    BY Typed DEF IInv
<1> QED BY <1>2, <1>3 DEF IInv, TokensReach

LEMMA MessagesKept ==
    ASSUME MpmcAssumption, IInv, NEW t \in Threads, \A u \in Threads \ {t} : pc'[u] = pc[u],
           buffer' \in Nat, buffer' <= buffer, to_wake' \in Nat, to_wake' >= to_wake,
           pc'[t] \in UnservedLabels => pc[t] \in UnservedLabels,
           pc[t] \in Coming => pc'[t] \in Coming \/ Unserved = {}
    PROVE  MessagesReach'
<1>2. Unserved' # {} => Unserved # {}
    BY DEF Unserved, UnservedLabels
<1>0. SUFFICES ASSUME Unserved # {}
               PROVE  MessagesReach'
    BY <1>2 DEF MessagesReach
<1>1. Cardinality(At(Coming)') >= Cardinality(At(Coming)) /\ Cardinality(At(Coming)) \in Nat
    BY <1>0, Shift, AtFinite
<1>3. buffer \in Nat /\ to_wake \in Nat
    BY Typed DEF IInv
<1>4. Cardinality(At(Coming)') \in Nat
    BY <1>0, <1>1, Shift, AtFinite
<1> QED BY <1>1, <1>2, <1>3, <1>4 DEF IInv, MessagesReach

-----------------------------------------------------------------------------
(* The steps.                                                              *)

\* A step of t that leaves the condition variable alone, takes nobody out of
\* the waiters or into them, and keeps the messages in reach.
LEMMA QuietStep ==
    ASSUME MpmcAssumption, IInv, NEW t \in Threads, NEW b \in Labels, Goto(t, b),
           UNCHANGED <<closed, cond, count>>, buffer' \in Nat, buffer' <= buffer,
           sends' \in 0..MAXSENDS, recvs' \in 0..MAXRECVS,
           \/ mutex' = mutex /\ (b \in Under <=> pc[t] \in Under)
           \/ mutex = None /\ mutex' = t /\ b \in Under
           \/ pc[t] \in Under /\ mutex' = None /\ b \notin Under,
           SendsCounted', MessagesReach',
           pc[t] \notin {"load", "bump_one", "bump_all", "wake_one", "wake_all", "notify_all", "add_all"},
           b \notin {"add_all", "sleep"},
           pc[t] \in WaitingLabels <=> b \in WaitingLabels,
           pc[t] \in UnservedLabels <=> b \in UnservedLabels
    PROVE  IInv'
<1>1. pc' \in [Threads -> Labels] /\ pc'[t] = b /\ \A u \in Threads \ {t} : pc'[u] = pc[u]
    BY Moves DEF IInv
<1>2. waiters' = waiters /\ to_wake' = to_wake /\ futex' = futex /\ closed' = closed /\ count' = count
    BY DEF cond
<1>3. TypeOK /\ t \notin futex.asleep
    BY DEF IInv, SleepersWait
<1>4. OwnerExact' /\ mutex' \in Threads \cup {None}
    BY <1>1, OwnerKept
<1>5. WaitersCounted'
    BY <1>1, <1>2, WaitersKept
<1>6. CloseCoversWaiters' /\ CloseCounted'
  <2>1. to_wake' \in Nat /\ to_wake' >= to_wake
      BY <1>2, <1>3, Typed
  <2> QED BY <1>1, <1>2, <2>1, CloseKept
<1>7. SleepersWait'
    BY <1>1, <1>2, <1>3, SleepersKept
<1>8. LastLook'
    BY <1>1, <1>2, LookKept
<1>9. TokensReach'
  <2>1. pc[t] \in ReadyLabels => pc'[t] \in ReadyLabels
      BY <1>1 DEF ReadyLabels
  <2> QED BY <1>1, <1>2, <2>1, TokensKept
<1>10. TypeOK'
  <2>1. BOUNDED > 0 => buffer' <= BOUNDED
      BY <1>3, Typed
  <2> QED BY <1>1, <1>2, <1>3, <1>4, <1>5, <2>1, Typed, TypeStep
<1> QED BY <1>4, <1>5, <1>6, <1>7, <1>8, <1>9, <1>10 DEF IInv

\* The same where the counts of messages are not touched either.
LEMMA CallStep ==
    ASSUME MpmcAssumption, IInv, NEW t \in Threads, NEW b \in Labels, Goto(t, b),
           UNCHANGED <<chan, cond, count, sends>>, recvs' \in 0..MAXRECVS,
           \/ mutex' = mutex /\ (b \in Under <=> pc[t] \in Under)
           \/ mutex = None /\ mutex' = t /\ b \in Under
           \/ pc[t] \in Under /\ mutex' = None /\ b \notin Under,
           b \in {"send", "push"} => pc[t] \in {"send", "push"},
           pc[t] \in Coming => b \in Coming \/ Unserved = {},
           pc[t] \notin {"load", "bump_one", "bump_all", "wake_one", "wake_all", "notify_all", "add_all"},
           b \notin {"add_all", "sleep"},
           pc[t] \in WaitingLabels <=> b \in WaitingLabels,
           pc[t] \in UnservedLabels <=> b \in UnservedLabels
    PROVE  IInv'
<1>1. pc'[t] = b /\ \A u \in Threads \ {t} : pc'[u] = pc[u]
    BY Moves DEF IInv
<1>2. /\ UNCHANGED <<closed, cond, count>> /\ buffer' = buffer /\ buffer' \in Nat /\ buffer' <= buffer
      /\ sends' = sends /\ sends' \in 0..MAXSENDS /\ to_wake' \in Nat /\ to_wake' >= to_wake
    BY Typed DEF IInv, chan, cond
<1>3. SendsCounted'
    BY <1>1, <1>2, SendsKept
<1>4. MessagesReach'
    BY <1>1, <1>2, MessagesKept
<1> QED BY <1>2, <1>3, <1>4, QuietStep

LEMMA AcquireStep ==
    ASSUME MpmcAssumption, IInv, NEW t \in Threads, Acquire(t)
    PROVE  IInv'
<1>1. PICK b : b = After[pc[t]]
    OBVIOUS
<1>2. /\ pc[t] \in {"send", "try_recv", "recv", "close"} /\ mutex = None /\ mutex' = t /\ Goto(t, b)
      /\ UNCHANGED <<chan, cond, count, sends>> /\ recvs' = recvs
    BY <1>1 DEF Acquire, After, calls
<1>3. \/ pc[t] = "send" /\ b = "push"
      \/ pc[t] = "try_recv" /\ b = "try_pop"
      \/ pc[t] = "recv" /\ b = "pop"
      \/ pc[t] = "close" /\ b = "shut"
    BY <1>1, <1>2 DEF After
<1>4. /\ b \in Labels /\ b \in Under /\ b \notin {"add_all", "sleep"}
      /\ b \in {"send", "push"} => pc[t] \in {"send", "push"}
      /\ pc[t] \in Coming => b \in Coming
      /\ pc[t] \notin WaitingLabels /\ b \notin WaitingLabels
      /\ pc[t] \notin UnservedLabels /\ b \notin UnservedLabels
      /\ pc[t] \notin {"load", "bump_one", "bump_all", "wake_one", "wake_all", "notify_all", "add_all"}
    BY <1>3 DEF Labels, Under, Coming, WaitingLabels, UnservedLabels
<1>5. recvs' \in 0..MAXRECVS
    BY <1>2, Typed DEF IInv
<1> QED BY <1>2, <1>4, <1>5, CallStep

LEMMA UnlockStep ==
    ASSUME MpmcAssumption, IInv, NEW t \in Threads, Unlock(t)
    PROVE  IInv'
<1>1. /\ pc[t] = "unlock" /\ mutex' = None /\ Goto(t, "idle")
      /\ UNCHANGED <<chan, cond, count, sends>> /\ recvs' = recvs
    BY DEF Unlock, calls
<1>2. /\ "idle" \in Labels /\ "idle" \notin Under /\ pc[t] \in Under /\ pc[t] \notin Coming
      /\ pc[t] \notin WaitingLabels /\ "idle" \notin WaitingLabels
      /\ pc[t] \notin UnservedLabels /\ "idle" \notin UnservedLabels
    BY <1>1 DEF Labels, Under, Coming, WaitingLabels, UnservedLabels
<1>3. recvs' \in 0..MAXRECVS
    BY <1>1, Typed DEF IInv
<1> QED BY <1>1, <1>2, <1>3, CallStep

LEMMA NotifyOneStep ==
    ASSUME MpmcAssumption, IInv, NEW t \in Threads, NotifyOne(t)
    PROVE  IInv'
<1>1. PICK b : b = IF waiters > 0 THEN "add_one" ELSE "unlock"
    OBVIOUS
<1>2. /\ pc[t] = "notify_one" /\ mutex' = mutex /\ Goto(t, b)
      /\ UNCHANGED <<chan, cond, count, sends>> /\ recvs' = recvs
    BY <1>1 DEF NotifyOne, calls
<1>3. /\ b \in Labels /\ b \in Under /\ pc[t] \in Under /\ b \notin {"send", "push"}
      /\ pc[t] \notin WaitingLabels /\ b \notin WaitingLabels
      /\ pc[t] \notin UnservedLabels /\ b \notin UnservedLabels
    BY <1>1, <1>2 DEF Labels, Under, WaitingLabels, UnservedLabels
<1>4. b \in Coming \/ Unserved = {}
  <2>1. CASE waiters > 0
      BY <1>1, <2>1 DEF Coming
  <2>2. CASE ~(waiters > 0)
    <3>1. waiters = 0 /\ waiters = Cardinality(At(WaitingLabels)) /\ IsFiniteSet(At(WaitingLabels))
        BY <2>2, Typed, AtFinite DEF IInv, WaitersCounted
    <3>2. At(WaitingLabels) = {}
        BY <3>1, FS_EmptySet
    <3> QED BY <3>2 DEF At, Unserved, WaitingLabels, UnservedLabels
  <2> QED BY <2>1, <2>2
<1>5. recvs' \in 0..MAXRECVS /\ b \notin {"add_all", "sleep"}
    BY <1>1, <1>2, Typed DEF IInv
<1> QED BY <1>2, <1>3, <1>4, <1>5, CallStep

LEMMA CloseStep ==
    ASSUME MpmcAssumption, IInv, NEW t \in Threads, Close(t)
    PROVE  IInv'
<1>1. /\ pc[t] = "idle" /\ mutex' = mutex /\ Goto(t, "close")
      /\ UNCHANGED <<chan, cond, count, sends>> /\ recvs' = recvs
    BY DEF Close, calls
<1>2. /\ "close" \in Labels /\ "close" \notin Under /\ pc[t] \notin Under /\ pc[t] \notin Coming
      /\ pc[t] \notin WaitingLabels /\ "close" \notin WaitingLabels
      /\ pc[t] \notin UnservedLabels /\ "close" \notin UnservedLabels
    BY <1>1 DEF Labels, Under, Coming, WaitingLabels, UnservedLabels
<1>3. recvs' \in 0..MAXRECVS
    BY <1>1, Typed DEF IInv
<1> QED BY <1>1, <1>2, <1>3, CallStep

LEMMA RecvStep ==
    ASSUME MpmcAssumption, IInv, NEW t \in Threads, NEW how \in {"try_recv", "recv"}, Recv(t, how)
    PROVE  IInv'
<1>1. /\ pc[t] = "idle" /\ mutex' = mutex /\ Goto(t, how) /\ recvs' = recvs + 1 /\ recvs < MAXRECVS
      /\ UNCHANGED <<chan, cond, count, sends>>
    BY DEF Recv
<1>2. /\ how \in Labels /\ how \notin Under /\ pc[t] \notin Under /\ pc[t] \notin Coming
      /\ how \notin {"send", "push"}
      /\ pc[t] \notin WaitingLabels /\ how \notin WaitingLabels
      /\ pc[t] \notin UnservedLabels /\ how \notin UnservedLabels
    BY <1>1 DEF Labels, Under, Coming, WaitingLabels, UnservedLabels
<1>3. recvs' \in 0..MAXRECVS /\ how \notin {"add_all", "sleep"}
    BY <1>1, Typed DEF IInv
<1> QED BY <1>1, <1>2, <1>3, CallStep

LEMMA WaitUnlockStep ==
    ASSUME MpmcAssumption, IInv, NEW t \in Threads, WaitUnlock(t)
    PROVE  IInv'
<1>1. /\ pc[t] = "registered" /\ mutex' = None /\ Goto(t, "load")
      /\ UNCHANGED <<chan, cond, count, sends>> /\ recvs' = recvs
    BY DEF WaitUnlock, calls
<1>2. /\ "load" \in Labels /\ "load" \notin Under /\ pc[t] \in Under /\ pc[t] \notin Coming
      /\ pc[t] \in WaitingLabels /\ "load" \in WaitingLabels
      /\ pc[t] \in UnservedLabels /\ "load" \in UnservedLabels
    BY <1>1 DEF Labels, Under, Coming, WaitingLabels, UnservedLabels
<1>3. recvs' \in 0..MAXRECVS
    BY <1>1, Typed DEF IInv
<1> QED BY <1>1, <1>2, <1>3, CallStep

LEMMA WaitRelockStep ==
    ASSUME MpmcAssumption, IInv, NEW t \in Threads, WaitRelock(t)
    PROVE  IInv'
<1>1. /\ pc[t] = "relock" /\ mutex' = mutex /\ Goto(t, "recv")
      /\ UNCHANGED <<chan, cond, count, sends>> /\ recvs' = recvs
    BY DEF WaitRelock, calls
<1>2. /\ "recv" \in Labels /\ "recv" \notin Under /\ pc[t] \notin Under /\ "recv" \in Coming
      /\ pc[t] \notin WaitingLabels /\ "recv" \notin WaitingLabels
      /\ pc[t] \notin UnservedLabels /\ "recv" \notin UnservedLabels
    BY <1>1 DEF Labels, Under, Coming, WaitingLabels, UnservedLabels
<1>3. recvs' \in 0..MAXRECVS
    BY <1>1, Typed DEF IInv
<1> QED BY <1>1, <1>2, <1>3, CallStep

LEMMA SendStep ==
    ASSUME MpmcAssumption, IInv, NEW t \in Threads, Send(t)
    PROVE  IInv'
<1> DEFINE L == {"send", "push"}
<1>1. /\ pc[t] = "idle" /\ mutex' = mutex /\ Goto(t, "send") /\ sends' = sends + 1 /\ sends < MAXSENDS
      /\ UNCHANGED <<closed, cond, count>> /\ buffer' = buffer /\ recvs' = recvs
    BY DEF Send, chan
<1>2. /\ "send" \in Labels /\ "send" \notin Under /\ pc[t] \notin Under /\ pc[t] \notin Coming
      /\ pc[t] \notin WaitingLabels /\ "send" \notin WaitingLabels
      /\ pc[t] \notin UnservedLabels /\ "send" \notin UnservedLabels
    BY <1>1 DEF Labels, Under, Coming, WaitingLabels, UnservedLabels
<1>3. /\ buffer \in Nat /\ sends \in Nat /\ sends' \in 0..MAXSENDS /\ recvs' \in 0..MAXRECVS
      /\ to_wake' \in Nat /\ to_wake' >= to_wake
    BY <1>1, Typed DEF IInv, cond
<1>4. pc'[t] = "send" /\ \A u \in Threads \ {t} : pc'[u] = pc[u]
    BY <1>1, <1>2, Moves DEF IInv
<1>5. SendsCounted'
  <2>1. Cardinality(At(L)') = Cardinality(At(L)) + 1 /\ Cardinality(At(L)) \in Nat
      BY <1>1, <1>4, Shift, AtFinite
  <2> QED BY <1>1, <1>3, <2>1 DEF IInv, SendsCounted
<1>6. MessagesReach'
    BY <1>1, <1>2, <1>3, <1>4, MessagesKept
<1> QED BY <1>1, <1>2, <1>3, <1>5, <1>6, QuietStep

LEMMA TryPopStep ==
    ASSUME MpmcAssumption, IInv, NEW t \in Threads, TryPop(t)
    PROVE  IInv'
<1>1. /\ pc[t] = "try_pop" /\ mutex' = mutex /\ Goto(t, "unlock")
      /\ buffer' = IF buffer > 0 THEN buffer - 1 ELSE 0
      /\ UNCHANGED <<closed, cond, count>> /\ sends' = sends /\ recvs' = recvs
    BY DEF TryPop, calls
<1>2. /\ "unlock" \in Labels /\ "unlock" \in Under /\ pc[t] \in Under /\ pc[t] \notin Coming
      /\ pc[t] \notin WaitingLabels /\ "unlock" \notin WaitingLabels
      /\ pc[t] \notin UnservedLabels /\ "unlock" \notin UnservedLabels
    BY <1>1 DEF Labels, Under, Coming, WaitingLabels, UnservedLabels
<1>3. /\ buffer' \in Nat /\ buffer' <= buffer /\ sends' \in 0..MAXSENDS /\ recvs' \in 0..MAXRECVS
      /\ to_wake' \in Nat /\ to_wake' >= to_wake
    BY <1>1, Typed DEF IInv, cond
<1>4. pc'[t] = "unlock" /\ \A u \in Threads \ {t} : pc'[u] = pc[u]
    BY <1>1, <1>2, Moves DEF IInv
<1>5. SendsCounted'
    BY <1>1, <1>3, <1>4, SendsKept
<1>6. MessagesReach'
    BY <1>1, <1>2, <1>3, <1>4, MessagesKept
<1> QED BY <1>1, <1>2, <1>3, <1>5, <1>6, QuietStep

LEMMA PushStep ==
    ASSUME MpmcAssumption, IInv, NEW t \in Threads, Push(t)
    PROVE  IInv'
<1> DEFINE L == {"send", "push"}
<1>1. /\ pc[t] = "push" /\ mutex' = mutex
      /\ UNCHANGED <<closed, cond, count>> /\ sends' = sends /\ recvs' = recvs
    BY DEF Push, calls
<1>2. /\ "unlock" \in Labels /\ "unlock" \in Under /\ "notify_one" \in Labels /\ "notify_one" \in Under
      /\ pc[t] \in Under /\ pc[t] \notin Coming /\ "notify_one" \in Coming
      /\ pc[t] \notin WaitingLabels /\ "unlock" \notin WaitingLabels /\ "notify_one" \notin WaitingLabels
      /\ pc[t] \notin UnservedLabels /\ "unlock" \notin UnservedLabels /\ "notify_one" \notin UnservedLabels
      /\ pc[t] \notin ReadyLabels
    BY <1>1 DEF Labels, Under, Coming, WaitingLabels, UnservedLabels, ReadyLabels
<1>3. /\ buffer \in Nat /\ sends \in Nat /\ sends' \in 0..MAXSENDS /\ recvs' \in 0..MAXRECVS
      /\ to_wake' \in Nat /\ to_wake' >= to_wake /\ BOUNDED \in Nat
      /\ to_wake' = to_wake /\ futex' = futex /\ waiters' = waiters /\ closed' = closed /\ count' = count
      /\ t \notin futex.asleep
    BY <1>1, Typed DEF IInv, cond, SleepersWait
<1>4. CASE Rejects
  <2>1. Goto(t, "unlock") /\ UNCHANGED <<chan, cond, count, sends>>
      BY <1>1, <1>4 DEF Push, chan
  <2> QED BY <1>1, <1>2, <1>3, <2>1, CallStep
<1>5. CASE ~Rejects
  <2>1. Goto(t, "notify_one") /\ buffer' = buffer + 1 /\ (BOUNDED > 0 => buffer' <= BOUNDED)
      BY <1>3, <1>5 DEF Push, Rejects
  <2>2. pc' \in [Threads -> Labels] /\ pc'[t] = "notify_one" /\ \A u \in Threads \ {t} : pc'[u] = pc[u]
      BY <1>2, <2>1, Moves DEF IInv
  <2>3. SendsCounted'
    <3>1. Cardinality(At(L)') = Cardinality(At(L)) - 1 /\ Cardinality(At(L)) \in Nat
        BY <1>1, <2>2, Shift, AtFinite
    <3> QED BY <1>1, <1>3, <2>1, <3>1 DEF IInv, SendsCounted
  <2>4. MessagesReach'
    <3>1. Cardinality(At(Coming)') = Cardinality(At(Coming)) + 1 /\ Cardinality(At(Coming)) \in Nat
        BY <1>2, <2>2, Shift, AtFinite
    <3>2. Unserved' = Unserved
        BY <1>2, <2>2, Shift, UnservedAt
    <3> QED BY <1>3, <2>1, <3>1, <3>2 DEF IInv, MessagesReach
  <2>5. OwnerExact' /\ mutex' \in Threads \cup {None}
      BY <1>1, <1>2, <2>2, OwnerKept
  <2>6. WaitersCounted'
      BY <1>2, <1>3, <2>2, WaitersKept
  <2>7. CloseCoversWaiters' /\ CloseCounted'
      BY <1>1, <1>2, <1>3, <2>2, CloseKept
  <2>8. SleepersWait' /\ LastLook' /\ TokensReach'
      BY <1>1, <1>2, <1>3, <2>2, SleepersKept, LookKept, TokensKept
  <2>9. TypeOK'
    <3>1. buffer' \in Nat /\ closed' \in BOOLEAN /\ count' \in Nat /\ futex' \in Futexes(Threads)
        BY <1>3, <2>1, Typed DEF IInv
    <3> QED BY <1>3, <2>1, <2>2, <2>3, <2>5, <2>6, <3>1, TypeStep
  <2> QED BY <2>3, <2>4, <2>5, <2>6, <2>7, <2>8, <2>9 DEF IInv
<1> QED BY <1>4, <1>5

LEMMA PopStep ==
    ASSUME MpmcAssumption, IInv, NEW t \in Threads, Pop(t)
    PROVE  IInv'
<1>1. /\ pc[t] = "pop" /\ mutex' = mutex
      /\ UNCHANGED <<closed, to_wake, futex, count>> /\ sends' = sends /\ recvs' = recvs
    BY DEF Pop, calls
<1>2. /\ "unlock" \in Labels /\ "unlock" \in Under /\ "registered" \in Labels /\ "registered" \in Under
      /\ pc[t] \in Under /\ pc[t] \in Coming /\ "unlock" \notin Coming
      /\ pc[t] \notin WaitingLabels /\ "unlock" \notin WaitingLabels /\ "registered" \in WaitingLabels
      /\ pc[t] \notin UnservedLabels /\ "unlock" \notin UnservedLabels /\ "registered" \in UnservedLabels
      /\ pc[t] \notin ReadyLabels
    BY <1>1 DEF Labels, Under, Coming, WaitingLabels, UnservedLabels, ReadyLabels
<1>3. /\ buffer \in Nat /\ sends \in Nat /\ sends' \in 0..MAXSENDS /\ recvs' \in 0..MAXRECVS
      /\ to_wake' \in Nat /\ to_wake' >= to_wake /\ waiters \in Nat
      /\ to_wake' = to_wake /\ futex' = futex /\ closed' = closed /\ count' = count
      /\ t \notin futex.asleep
    BY <1>1, Typed DEF IInv, SleepersWait
<1>4. CASE buffer > 0 \/ closed
  <2>1. /\ Goto(t, "unlock") /\ UNCHANGED <<closed, cond, count>> /\ buffer' \in Nat /\ buffer' <= buffer
        /\ (buffer = 0 /\ buffer' = 0) \/ (buffer > 0 /\ buffer' = buffer - 1)
      BY <1>3, <1>4 DEF Pop, cond
  <2>2. pc'[t] = "unlock" /\ \A u \in Threads \ {t} : pc'[u] = pc[u]
      BY <1>2, <2>1, Moves DEF IInv
  <2>3. SendsCounted'
      BY <1>1, <2>1, <2>2, SendsKept
  <2>4. MessagesReach'
    <3>1. Cardinality(At(Coming)') = Cardinality(At(Coming)) - 1 /\ Cardinality(At(Coming)) \in Nat
        BY <1>2, <2>2, Shift, AtFinite
    <3>2. Unserved' = Unserved
        BY <1>2, <2>2, Shift, UnservedAt
    <3>3. IsFiniteSet(At(Coming)) /\ t \in At(Coming)
        BY <1>2, AtFinite DEF At
    <3>4. Cardinality(At(Coming)) # 0
        BY <3>3, FS_EmptySet
    <3> QED BY <1>3, <2>1, <3>1, <3>2, <3>4 DEF IInv, MessagesReach
  <2> QED BY <1>1, <1>2, <1>3, <2>1, <2>3, <2>4, QuietStep
<1>5. CASE ~(buffer > 0 \/ closed)
  <2>1. Goto(t, "registered") /\ buffer' = buffer /\ buffer = 0 /\ waiters' = waiters + 1 /\ ~closed
      BY <1>3, <1>5 DEF Pop
  <2>2. pc' \in [Threads -> Labels] /\ pc'[t] = "registered" /\ \A u \in Threads \ {t} : pc'[u] = pc[u]
      BY <1>2, <2>1, Moves DEF IInv
  <2>3. SendsCounted'
      BY <1>1, <1>3, <2>1, <2>2, SendsKept
  <2>4. MessagesReach'
    <3>1. At(Coming)' \subseteq Threads
        BY DEF At
    <3>2. Cardinality(At(Coming)') \in Nat
        BY <3>1, SubsetSizes
    <3> QED BY <1>3, <2>1, <3>2 DEF MessagesReach
  <2>5. OwnerExact' /\ mutex' \in Threads \cup {None}
      BY <1>1, <1>2, <2>2, OwnerKept
  <2>6. WaitersCounted'
    <3>1. Cardinality(At(WaitingLabels)') = Cardinality(At(WaitingLabels)) + 1
        BY <1>2, <2>2, Shift
    <3> QED BY <2>1, <3>1 DEF IInv, WaitersCounted
  <2>7. CloseCoversWaiters' /\ CloseCounted'
      BY <1>1, <1>2, <1>3, <2>1, <2>2, CloseKept
  <2>8. SleepersWait' /\ LastLook' /\ TokensReach'
      BY <1>1, <1>2, <1>3, <2>2, SleepersKept, LookKept, TokensKept
  <2>9. TypeOK'
    <3>1. /\ buffer' \in Nat /\ closed' \in BOOLEAN /\ count' \in Nat /\ futex' \in Futexes(Threads)
          /\ BOUNDED > 0 => buffer' <= BOUNDED
        BY <1>3, <2>1, Typed DEF IInv
    <3> QED BY <1>3, <2>1, <2>2, <2>3, <2>5, <2>6, <3>1, TypeStep
  <2> QED BY <2>3, <2>4, <2>5, <2>6, <2>7, <2>8, <2>9 DEF IInv
<1> QED BY <1>4, <1>5

\* A step on the condition variable leaves the mutex and the messages alone.
LEMMA CondStep ==
    ASSUME MpmcAssumption, IInv, NEW t \in Threads, NEW b \in Labels, Goto(t, b),
           UNCHANGED <<mutex, buffer, calls>>, closed' \in BOOLEAN,
           b \in Under <=> pc[t] \in Under, b \notin {"send", "push"},
           to_wake' \in Nat, count' \in Nat, futex' \in Futexes(Threads), WaitersCounted'
    PROVE  TypeOK' /\ OwnerExact' /\ SendsCounted'
<1>1. pc' \in [Threads -> Labels] /\ pc'[t] = b /\ \A u \in Threads \ {t} : pc'[u] = pc[u]
    BY Moves DEF IInv
<1>2. OwnerExact' /\ mutex' \in Threads \cup {None}
    BY <1>1, OwnerKept
<1>3. /\ buffer' \in Nat /\ buffer' <= buffer /\ sends' = sends /\ (BOUNDED > 0 => buffer' <= BOUNDED)
      /\ sends' \in 0..MAXSENDS /\ recvs' \in 0..MAXRECVS
    BY Typed DEF IInv, calls
<1>4. SendsCounted'
    BY <1>1, <1>3, SendsKept
<1>5. TypeOK'
    BY <1>1, <1>2, <1>3, <1>4, TypeStep
<1> QED BY <1>2, <1>4, <1>5

LEMMA AddOneStep ==
    ASSUME MpmcAssumption, IInv, NEW t \in Threads, AddOne(t)
    PROVE  IInv'
<1>1. /\ pc[t] = "add_one" /\ Goto(t, "bump_one") /\ to_wake' = to_wake + 1
      /\ UNCHANGED <<mutex, buffer, calls>> /\ closed' = closed /\ waiters' = waiters /\ futex' = futex
      /\ count' = count
    BY DEF AddOne, chan
<1>2. /\ "bump_one" \in Labels /\ "bump_one" \in Under /\ pc[t] \in Under
      /\ pc[t] \in Coming /\ "bump_one" \notin Coming
      /\ pc[t] \notin WaitingLabels /\ "bump_one" \notin WaitingLabels
      /\ pc[t] \notin UnservedLabels /\ "bump_one" \notin UnservedLabels
    BY <1>1 DEF Labels, Under, Coming, WaitingLabels, UnservedLabels
<1>3. /\ buffer \in Nat /\ to_wake \in Nat /\ to_wake' \in Nat /\ to_wake' >= to_wake /\ closed' \in BOOLEAN
      /\ count' \in Nat /\ futex' \in Futexes(Threads) /\ t \notin futex.asleep
    BY <1>1, Typed DEF IInv, SleepersWait
<1>4. pc'[t] = "bump_one" /\ \A u \in Threads \ {t} : pc'[u] = pc[u]
    BY <1>1, <1>2, Moves DEF IInv
<1>5. WaitersCounted'
    BY <1>1, <1>2, <1>4, WaitersKept
<1>6. CloseCoversWaiters' /\ CloseCounted'
    BY <1>1, <1>2, <1>3, <1>4, CloseKept
<1>7. SleepersWait'
    BY <1>1, <1>3, <1>4, SleepersKept
<1>8. \A u \in Threads : pc[u] \notin {"bump_one", "bump_all", "wake_one", "wake_all"}
    BY <1>1, <1>2, Alone DEF Under
<1>9. LastLook'
  <2>1. \A x \in Threads : pc'[x] = "sleep" => pc[x] = "sleep"
      BY <1>4
  <2>2. \A x \in Threads : pc'[x] = "sleep" /\ x \in futex'.fresh => to_wake' = 1
      BY <1>1, <1>8, <2>1 DEF IInv, LastLook
  <2> QED BY <1>4, <2>2 DEF LastLook
<1>10. TokensReach'
  <2>1. Ready' = Ready \cup {t} /\ t \notin Ready
      BY <1>1, <1>3, <1>4 DEF Ready, At, UnservedLabels
  <2>2. Cardinality(Ready') = Cardinality(Ready) + 1 /\ Cardinality(Ready) \in Nat
      BY <2>1, ReadyFinite, FS_AddElement
  <2> QED BY <1>1, <1>3, <1>8, <2>2 DEF IInv, TokensReach
<1>11. MessagesReach'
  <2>1. Cardinality(At(Coming)') = Cardinality(At(Coming)) - 1 /\ Cardinality(At(Coming)) \in Nat
      BY <1>2, <1>4, Shift, AtFinite
  <2>2. Unserved' = Unserved
      BY <1>2, <1>4, Shift, UnservedAt
  <2> QED BY <1>1, <1>3, <2>1, <2>2 DEF IInv, MessagesReach
<1>12. TypeOK' /\ OwnerExact' /\ SendsCounted'
    BY <1>1, <1>2, <1>3, <1>5, CondStep
<1> QED BY <1>5, <1>6, <1>7, <1>9, <1>10, <1>11, <1>12 DEF IInv

LEMMA BumpStep ==
    ASSUME MpmcAssumption, IInv, NEW t \in Threads, Bump(t)
    PROVE  IInv'
<1>0. PICK b : b = IF pc[t] = "bump_one" THEN "wake_one" ELSE "wake_all"
    OBVIOUS
<1>1. /\ pc[t] \in {"bump_one", "bump_all"} /\ Goto(t, b) /\ futex' = FutexBump(futex)
      /\ UNCHANGED <<mutex, buffer, calls>> /\ closed' = closed /\ waiters' = waiters /\ to_wake' = to_wake
      /\ count' = count
    BY <1>0 DEF Bump, chan
<1>2. /\ b \in Labels /\ b \in Under /\ pc[t] \in Under /\ pc[t] \notin Coming
      /\ b \notin {"add_all", "send", "push"}
      /\ pc[t] \notin WaitingLabels /\ b \notin WaitingLabels
      /\ pc[t] \notin UnservedLabels /\ b \notin UnservedLabels
      /\ pc[t] \in ReadyLabels => b \in ReadyLabels
      /\ pc[t] \in {"bump_all", "wake_all"} => b \in {"bump_all", "wake_all"}
    BY <1>0, <1>1 DEF Labels, Under, Coming, WaitingLabels, UnservedLabels, ReadyLabels
<1>3. /\ buffer \in Nat /\ to_wake \in Nat /\ closed' \in BOOLEAN
      /\ count' \in Nat /\ t \notin futex.asleep
    BY <1>1, Typed DEF IInv, SleepersWait
<1>4. futex' \in Futexes(Threads) /\ futex'.asleep = futex.asleep /\ futex'.fresh = {}
    BY <1>1, Typed DEF IInv, Futexes, FutexBump
<1>5. pc'[t] = b /\ \A u \in Threads \ {t} : pc'[u] = pc[u]
    BY <1>1, <1>2, Moves DEF IInv
<1>6. WaitersCounted'
    BY <1>1, <1>2, <1>5, WaitersKept
<1>7. CloseCoversWaiters' /\ CloseCounted'
    BY <1>1, <1>2, <1>3, <1>5, CloseKept
<1>8. SleepersWait' /\ TokensReach'
    BY <1>1, <1>2, <1>3, <1>4, <1>5, SleepersKept, TokensKept
<1>9. LastLook'
    BY <1>4 DEF LastLook
<1>10. MessagesReach'
    BY <1>1, <1>2, <1>3, <1>5, MessagesKept
<1>11. TypeOK' /\ OwnerExact' /\ SendsCounted'
    BY <1>1, <1>2, <1>3, <1>4, <1>6, CondStep
<1> QED BY <1>6, <1>7, <1>8, <1>9, <1>10, <1>11 DEF IInv

LEMMA WakeOneStep ==
    ASSUME MpmcAssumption, IInv, NEW t \in Threads, WakeOne(t)
    PROVE  IInv'
<1>1. /\ pc[t] = "wake_one" /\ Goto(t, "unlock")
      /\ UNCHANGED <<mutex, buffer, calls>> /\ closed' = closed /\ waiters' = waiters /\ to_wake' = to_wake
      /\ count' = count
    BY DEF WakeOne, chan
<1>2. /\ "unlock" \in Labels /\ "unlock" \in Under /\ pc[t] \in Under /\ pc[t] \notin Coming
      /\ pc[t] \notin WaitingLabels /\ "unlock" \notin WaitingLabels
      /\ pc[t] \notin UnservedLabels /\ "unlock" \notin UnservedLabels
    BY <1>1 DEF Labels, Under, Coming, WaitingLabels, UnservedLabels
<1>3. /\ buffer \in Nat /\ to_wake \in Nat /\ closed' \in BOOLEAN
      /\ count' \in Nat /\ t \notin futex.asleep
    BY <1>1, Typed DEF IInv, SleepersWait
<1>4. /\ futex' \in Futexes(Threads) /\ futex'.asleep \subseteq futex.asleep /\ futex'.fresh = futex.fresh
      /\ \/ futex'.asleep = {}
         \/ \E s \in futex.asleep : futex'.asleep = futex.asleep \ {s}
    BY Typed DEF IInv, Futexes, FutexWakeOne, WakeOne
<1>5. pc'[t] = "unlock" /\ \A u \in Threads \ {t} : pc'[u] = pc[u]
    BY <1>1, <1>2, Moves DEF IInv
<1>6. WaitersCounted'
    BY <1>1, <1>2, <1>5, WaitersKept
<1>7. CloseCoversWaiters' /\ CloseCounted'
    BY <1>1, <1>2, <1>3, <1>5, CloseKept
<1>8. SleepersWait' /\ LastLook'
    BY <1>1, <1>2, <1>3, <1>4, <1>5, SleepersKept, LookKept
<1>9. TokensReach'
  <2>1. CASE futex'.asleep = {}
      BY <2>1 DEF TokensReach
  <2>2. CASE \E s \in futex.asleep : futex'.asleep = futex.asleep \ {s}
    <3>1. PICK s \in futex.asleep : futex'.asleep = futex.asleep \ {s}
        BY <2>2
    <3>2. s \in Threads /\ pc[s] = "load" /\ s # t
        BY <1>1, FutexTyped DEF IInv, SleepersWait
    <3>3. Ready' = (Ready \ {t}) \cup {s} /\ t \in Ready /\ s \notin Ready
        BY <1>1, <1>3, <1>5, <3>1, <3>2 DEF Ready, At, UnservedLabels
    <3>4. /\ IsFiniteSet(Ready \ {t}) /\ Cardinality(Ready \ {t}) = Cardinality(Ready) - 1
          /\ Cardinality(Ready) \in Nat
        BY <3>3, ReadyFinite, FS_RemoveElement
    <3>5. Cardinality(Ready') = Cardinality(Ready \ {t}) + 1
        BY <3>3, <3>4, FS_AddElement
    <3>6. \A u \in Threads : pc[u] \in {"bump_all", "wake_all"} => pc'[u] = pc[u]
        BY <1>1, <1>5
    <3> QED BY <1>1, <3>4, <3>5, <3>6 DEF IInv, TokensReach
  <2> QED BY <1>4, <2>1, <2>2
<1>10. MessagesReach'
    BY <1>1, <1>2, <1>3, <1>5, MessagesKept
<1>11. TypeOK' /\ OwnerExact' /\ SendsCounted'
    BY <1>1, <1>2, <1>3, <1>4, <1>6, CondStep
<1> QED BY <1>6, <1>7, <1>8, <1>9, <1>10, <1>11 DEF IInv

LEMMA WakeAllStep ==
    ASSUME MpmcAssumption, IInv, NEW t \in Threads, WakeAll(t)
    PROVE  IInv'
<1>1. /\ pc[t] = "wake_all" /\ Goto(t, "unlock") /\ futex' = FutexWakeAll(futex)
      /\ UNCHANGED <<mutex, buffer, calls>> /\ closed' = closed /\ waiters' = waiters /\ to_wake' = to_wake
      /\ count' = count
    BY DEF WakeAll, chan
<1>2. /\ "unlock" \in Labels /\ "unlock" \in Under /\ pc[t] \in Under /\ pc[t] \notin Coming
      /\ pc[t] \notin WaitingLabels /\ "unlock" \notin WaitingLabels
      /\ pc[t] \notin UnservedLabels /\ "unlock" \notin UnservedLabels
    BY <1>1 DEF Labels, Under, Coming, WaitingLabels, UnservedLabels
<1>3. /\ buffer \in Nat /\ to_wake \in Nat /\ closed' \in BOOLEAN /\ count' \in Nat
    BY <1>1, Typed DEF IInv
<1>4. futex' \in Futexes(Threads) /\ futex'.asleep = {} /\ futex'.fresh = futex.fresh
    BY <1>1, Typed DEF IInv, Futexes, FutexWakeAll
<1>5. pc'[t] = "unlock" /\ \A u \in Threads \ {t} : pc'[u] = pc[u]
    BY <1>1, <1>2, Moves DEF IInv
<1>6. WaitersCounted'
    BY <1>1, <1>2, <1>5, WaitersKept
<1>7. CloseCoversWaiters' /\ CloseCounted'
    BY <1>1, <1>2, <1>3, <1>5, CloseKept
<1>8. LastLook'
    BY <1>1, <1>4, <1>5, LookKept
<1>9. SleepersWait' /\ TokensReach'
    BY <1>4 DEF SleepersWait, TokensReach
<1>10. MessagesReach'
    BY <1>1, <1>2, <1>3, <1>5, MessagesKept
<1>11. TypeOK' /\ OwnerExact' /\ SendsCounted'
    BY <1>1, <1>2, <1>3, <1>4, <1>6, CondStep
<1> QED BY <1>6, <1>7, <1>8, <1>9, <1>10, <1>11 DEF IInv

LEMMA ShutStep ==
    ASSUME MpmcAssumption, IInv, NEW t \in Threads, Shut(t)
    PROVE  IInv'
<1>1. /\ pc[t] = "shut" /\ Goto(t, "notify_all") /\ closed' = TRUE
      /\ UNCHANGED <<mutex, buffer, calls>> /\ futex' = futex /\ waiters' = waiters /\ to_wake' = to_wake
      /\ count' = count
    BY DEF Shut, cond
<1>2. /\ "notify_all" \in Labels /\ "notify_all" \in Under /\ pc[t] \in Under /\ pc[t] \notin Coming
      /\ pc[t] \notin WaitingLabels /\ "notify_all" \notin WaitingLabels
      /\ pc[t] \notin UnservedLabels /\ "notify_all" \notin UnservedLabels
      /\ pc[t] \notin ReadyLabels
    BY <1>1 DEF Labels, Under, Coming, WaitingLabels, UnservedLabels, ReadyLabels
<1>3. /\ buffer \in Nat /\ to_wake \in Nat /\ closed' \in BOOLEAN /\ futex' \in Futexes(Threads)
      /\ count' \in Nat /\ t \notin futex.asleep
    BY <1>1, Typed DEF IInv, SleepersWait
<1>4. pc'[t] = "notify_all" /\ \A u \in Threads \ {t} : pc'[u] = pc[u]
    BY <1>1, <1>2, Moves DEF IInv
<1>5. WaitersCounted'
    BY <1>1, <1>2, <1>4, WaitersKept
<1>6. CloseCoversWaiters'
    BY <1>4 DEF CloseCoversWaiters
<1>7. CloseCounted'
  <2>1. \A u \in Threads : pc'[u] # "add_all"
      BY <1>2, <1>4, Alone DEF Under
  <2> QED BY <2>1 DEF CloseCounted
<1>8. SleepersWait' /\ LastLook' /\ TokensReach'
    BY <1>1, <1>2, <1>3, <1>4, SleepersKept, LookKept, TokensKept
<1>9. MessagesReach'
    BY <1>1, <1>2, <1>3, <1>4, MessagesKept
<1>10. TypeOK' /\ OwnerExact' /\ SendsCounted'
    BY <1>1, <1>2, <1>3, <1>5, CondStep
<1> QED BY <1>5, <1>6, <1>7, <1>8, <1>9, <1>10 DEF IInv

LEMMA NotifyAllStep ==
    ASSUME MpmcAssumption, IInv, NEW t \in Threads, NotifyAll(t)
    PROVE  IInv'
<1>0. PICK b : b = IF waiters > 0 THEN "add_all" ELSE "unlock"
    OBVIOUS
<1>1. /\ pc[t] = "notify_all" /\ Goto(t, b) /\ count' = waiters
      /\ UNCHANGED <<mutex, buffer, calls>> /\ futex' = futex /\ waiters' = waiters /\ to_wake' = to_wake
      /\ closed' = closed
    BY <1>0 DEF NotifyAll, cond, chan
<1>2. /\ b \in Labels /\ b \in Under /\ pc[t] \in Under /\ pc[t] \notin Coming
      /\ b \notin {"send", "push", "sleep", "load"}
      /\ pc[t] \notin WaitingLabels /\ b \notin WaitingLabels
      /\ pc[t] \notin UnservedLabels /\ b \notin UnservedLabels
      /\ pc[t] \notin ReadyLabels
    BY <1>0, <1>1 DEF Labels, Under, Coming, WaitingLabels, UnservedLabels, ReadyLabels
<1>3. /\ buffer \in Nat /\ to_wake \in Nat /\ closed' \in BOOLEAN /\ futex' \in Futexes(Threads)
      /\ count' \in Nat /\ waiters \in Nat /\ t \notin futex.asleep
    BY <1>1, Typed DEF IInv, SleepersWait
<1>4. pc'[t] = b /\ \A u \in Threads \ {t} : pc'[u] = pc[u]
    BY <1>1, <1>2, Moves DEF IInv
<1>5. WaitersCounted'
    BY <1>1, <1>2, <1>4, WaitersKept
<1>6. Cardinality(Unserved') <= waiters /\ Cardinality(Unserved') \in Nat
  <2>1. Unserved' = Unserved
      BY <1>2, <1>4, Shift, UnservedAt
  <2>2. Unserved \subseteq At(WaitingLabels) /\ At(WaitingLabels) \subseteq Threads
      BY DEF Unserved, At, WaitingLabels, UnservedLabels
  <2> QED BY <2>1, <2>2, SubsetSizes DEF IInv, WaitersCounted
<1>7. CloseCoversWaiters'
  <2>1. CASE waiters > 0
      BY <1>0, <1>4, <2>1 DEF CloseCoversWaiters
  <2>2. CASE ~(waiters > 0)
      BY <1>1, <1>3, <1>6, <2>2 DEF CloseCoversWaiters
  <2> QED BY <2>1, <2>2
<1>8. CloseCounted'
    BY <1>1, <1>3, <1>6 DEF CloseCounted
<1>9. SleepersWait' /\ LastLook' /\ TokensReach'
    BY <1>1, <1>2, <1>3, <1>4, SleepersKept, LookKept, TokensKept
<1>10. MessagesReach'
    BY <1>1, <1>2, <1>3, <1>4, MessagesKept
<1>11. TypeOK' /\ OwnerExact' /\ SendsCounted'
    BY <1>1, <1>2, <1>3, <1>5, CondStep
<1> QED BY <1>5, <1>7, <1>8, <1>9, <1>10, <1>11 DEF IInv

LEMMA AddAllStep ==
    ASSUME MpmcAssumption, IInv, NEW t \in Threads, AddAll(t)
    PROVE  IInv'
<1>1. /\ pc[t] = "add_all" /\ Goto(t, "bump_all") /\ to_wake' = to_wake + count
      /\ UNCHANGED <<mutex, buffer, calls>> /\ futex' = futex /\ waiters' = waiters /\ count' = count
      /\ closed' = closed
    BY DEF AddAll, chan
<1>2. /\ "bump_all" \in Labels /\ "bump_all" \in Under /\ pc[t] \in Under /\ pc[t] \notin Coming
      /\ pc[t] \notin WaitingLabels /\ "bump_all" \notin WaitingLabels
      /\ pc[t] \notin UnservedLabels /\ "bump_all" \notin UnservedLabels
    BY <1>1 DEF Labels, Under, Coming, WaitingLabels, UnservedLabels
<1>3. /\ buffer \in Nat /\ to_wake \in Nat /\ closed' \in BOOLEAN /\ futex' \in Futexes(Threads)
      /\ count' \in Nat /\ to_wake' \in Nat /\ to_wake' >= to_wake /\ t \notin futex.asleep
      /\ to_wake' >= count
    BY <1>1, Typed DEF IInv, SleepersWait
<1>4. pc'[t] = "bump_all" /\ \A u \in Threads \ {t} : pc'[u] = pc[u]
    BY <1>1, <1>2, Moves DEF IInv
<1>5. WaitersCounted'
    BY <1>1, <1>2, <1>4, WaitersKept
<1>6. CloseCoversWaiters'
  <2>1. Unserved' = Unserved /\ Cardinality(Unserved) \in Nat
      BY <1>2, <1>4, Shift, UnservedAt, AtFinite
  <2>2. count >= Cardinality(Unserved) /\ count \in Nat
      BY <1>1, Typed DEF IInv, CloseCounted
  <2> QED BY <1>3, <2>1, <2>2 DEF CloseCoversWaiters
<1>7. CloseCounted'
  <2>1. \A u \in Threads : pc'[u] # "add_all"
      BY <1>2, <1>4, Alone DEF Under
  <2> QED BY <2>1 DEF CloseCounted
<1>8. SleepersWait'
    BY <1>1, <1>3, <1>4, SleepersKept
<1>9. LastLook' /\ TokensReach'
    BY <1>4 DEF LastLook, TokensReach
<1>10. MessagesReach'
    BY <1>1, <1>2, <1>3, <1>4, MessagesKept
<1>11. TypeOK' /\ OwnerExact' /\ SendsCounted'
    BY <1>1, <1>2, <1>3, <1>5, CondStep
<1> QED BY <1>5, <1>6, <1>7, <1>8, <1>9, <1>10, <1>11 DEF IInv

LEMMA WaitLoadStep ==
    ASSUME MpmcAssumption, IInv, NEW t \in Threads, WaitLoad(t)
    PROVE  IInv'
<1>1. /\ pc[t] = "load" /\ Goto(t, "token") /\ futex' = FutexLoad(futex, t) /\ t \notin futex.asleep
      /\ UNCHANGED <<mutex, buffer, calls>> /\ to_wake' = to_wake /\ waiters' = waiters /\ count' = count
      /\ closed' = closed
    BY DEF WaitLoad, chan
<1>2. /\ "token" \in Labels /\ "token" \notin Under /\ pc[t] \notin Under /\ pc[t] \notin Coming
      /\ pc[t] \in WaitingLabels /\ "token" \in WaitingLabels
      /\ pc[t] \in UnservedLabels /\ "token" \in UnservedLabels
      /\ "token" \in ReadyLabels
    BY <1>1 DEF Labels, Under, Coming, WaitingLabels, UnservedLabels, ReadyLabels
<1>3. /\ buffer \in Nat /\ to_wake \in Nat /\ closed' \in BOOLEAN /\ count' \in Nat
    BY <1>1, Typed DEF IInv
<1>4. futex' \in Futexes(Threads) /\ futex'.asleep = futex.asleep /\ futex'.fresh = futex.fresh \cup {t}
    BY <1>1, Typed DEF IInv, Futexes, FutexLoad
<1>5. pc'[t] = "token" /\ \A u \in Threads \ {t} : pc'[u] = pc[u]
    BY <1>1, <1>2, Moves DEF IInv
<1>6. WaitersCounted'
    BY <1>1, <1>2, <1>5, WaitersKept
<1>7. CloseCoversWaiters' /\ CloseCounted'
    BY <1>1, <1>2, <1>3, <1>5, CloseKept
<1>8. SleepersWait' /\ LastLook' /\ TokensReach'
    BY <1>1, <1>2, <1>4, <1>5, SleepersKept, LookKept, TokensKept
<1>9. MessagesReach'
    BY <1>1, <1>2, <1>3, <1>5, MessagesKept
<1>10. TypeOK' /\ OwnerExact' /\ SendsCounted'
    BY <1>1, <1>2, <1>3, <1>4, <1>6, CondStep
<1> QED BY <1>6, <1>7, <1>8, <1>9, <1>10 DEF IInv

LEMMA WaitTokenStep ==
    ASSUME MpmcAssumption, IInv, NEW t \in Threads, WaitToken(t)
    PROVE  IInv'
<1>1. /\ pc[t] = "token"
      /\ UNCHANGED <<mutex, buffer, calls>> /\ futex' = futex /\ waiters' = waiters /\ count' = count
      /\ closed' = closed
    BY DEF WaitToken, chan
<1>2. /\ "leave" \in Labels /\ "sleep" \in Labels /\ "leave" \notin Under /\ "sleep" \notin Under
      /\ pc[t] \notin Under /\ pc[t] \notin Coming /\ "leave" \in Coming
      /\ pc[t] \in WaitingLabels /\ "leave" \in WaitingLabels /\ "sleep" \in WaitingLabels
      /\ pc[t] \in UnservedLabels /\ "leave" \notin UnservedLabels /\ "sleep" \in UnservedLabels
      /\ "sleep" \in ReadyLabels
    BY <1>1 DEF Labels, Under, Coming, WaitingLabels, UnservedLabels, ReadyLabels
<1>3. /\ buffer \in Nat /\ to_wake \in Nat /\ closed' \in BOOLEAN /\ count' \in Nat /\ count \in Nat
      /\ futex' \in Futexes(Threads) /\ t \notin futex.asleep
    BY <1>1, Typed DEF IInv, SleepersWait
<1>4. CASE to_wake > 0
  <2>1. Goto(t, "leave") /\ to_wake' = to_wake - 1 /\ to_wake' \in Nat
      BY <1>3, <1>4 DEF WaitToken
  <2>2. pc'[t] = "leave" /\ \A u \in Threads \ {t} : pc'[u] = pc[u]
      BY <1>2, <2>1, Moves DEF IInv
  <2>3. WaitersCounted'
      BY <1>1, <1>2, <2>2, WaitersKept
  <2>4. CloseCoversWaiters' /\ CloseCounted'
    <3>1. Cardinality(Unserved') = Cardinality(Unserved) - 1 /\ Cardinality(Unserved) \in Nat
        BY <1>2, <2>2, Shift, UnservedAt, AtFinite
    <3>2. \A u \in Threads : pc'[u] \in {"notify_all", "add_all"} <=> pc[u] \in {"notify_all", "add_all"}
        BY <1>1, <2>2
    <3>3. \A u \in Threads : pc'[u] = "add_all" <=> pc[u] = "add_all"
        BY <1>1, <2>2
    <3>4. CloseCoversWaiters'
        BY <1>1, <1>3, <2>1, <3>1, <3>2 DEF IInv, CloseCoversWaiters
    <3>5. CloseCounted'
        BY <1>1, <1>3, <3>1, <3>3 DEF IInv, CloseCounted
    <3> QED BY <3>4, <3>5
  <2>5. SleepersWait'
      BY <1>1, <1>3, <2>2, SleepersKept
  <2>6. LastLook'
    <3>1. \A x \in Threads : pc'[x] = "sleep" => pc[x] = "sleep"
        BY <2>2
    <3>2. \A x \in Threads : pc[x] = "bump_all" => pc'[x] = "bump_all"
        BY <1>1, <2>2
    <3> QED BY <1>1, <1>3, <1>4, <2>1, <3>1, <3>2 DEF IInv, LastLook
  <2>7. TokensReach'
    <3>1. Ready' = Ready \ {t} /\ t \in Ready
        BY <1>1, <1>3, <2>2 DEF Ready, At, UnservedLabels
    <3>2. Cardinality(Ready') = Cardinality(Ready) - 1 /\ Cardinality(Ready) \in Nat
        BY <3>1, ReadyFinite, FS_RemoveElement
    <3>3. \A u \in Threads : pc[u] \in {"bump_all", "wake_all"} => pc'[u] = pc[u]
        BY <1>1, <2>2
    <3> QED BY <1>1, <1>3, <2>1, <3>2, <3>3 DEF IInv, TokensReach
  <2>8. MessagesReach'
    <3>1. Cardinality(At(Coming)') = Cardinality(At(Coming)) + 1 /\ Cardinality(At(Coming)) \in Nat
        BY <1>2, <2>2, Shift, AtFinite
    <3>2. Unserved' # {} => Unserved # {}
        BY <1>1, <2>2 DEF Unserved
    <3> QED BY <1>1, <1>3, <2>1, <3>1, <3>2 DEF IInv, MessagesReach
  <2>9. TypeOK' /\ OwnerExact' /\ SendsCounted'
      BY <1>1, <1>2, <1>3, <2>1, <2>3, CondStep, Zenon
  <2> QED BY <2>3, <2>4, <2>5, <2>6, <2>7, <2>8, <2>9 DEF IInv
<1>5. CASE ~(to_wake > 0)
  <2>1. Goto(t, "sleep") /\ to_wake' = to_wake /\ to_wake' = 0
      BY <1>3, <1>5 DEF WaitToken
  <2>2. pc'[t] = "sleep" /\ \A u \in Threads \ {t} : pc'[u] = pc[u]
      BY <1>2, <2>1, Moves DEF IInv
  <2>3. WaitersCounted'
      BY <1>1, <1>2, <2>2, WaitersKept
  <2>4. CloseCoversWaiters' /\ CloseCounted'
      BY <1>1, <1>2, <1>3, <2>1, <2>2, CloseKept
  <2>5. SleepersWait' /\ TokensReach'
      BY <1>1, <1>2, <1>3, <2>1, <2>2, SleepersKept, TokensKept
  <2>6. LastLook'
      BY <2>1 DEF LastLook
  <2>7. MessagesReach'
      BY <1>1, <1>2, <1>3, <2>1, <2>2, MessagesKept
  <2>8. TypeOK' /\ OwnerExact' /\ SendsCounted'
      BY <1>1, <1>2, <1>3, <2>1, <2>3, CondStep
  <2> QED BY <2>3, <2>4, <2>5, <2>6, <2>7, <2>8 DEF IInv
<1> QED BY <1>4, <1>5

LEMMA WaitSleepStep ==
    ASSUME MpmcAssumption, IInv, NEW t \in Threads, WaitSleep(t)
    PROVE  IInv'
<1>1. /\ pc[t] = "sleep" /\ Goto(t, "load") /\ futex' = FutexWait(futex, t)
      /\ UNCHANGED <<mutex, buffer, calls>> /\ to_wake' = to_wake /\ waiters' = waiters /\ count' = count
      /\ closed' = closed
    BY DEF WaitSleep, chan
<1>2. /\ "load" \in Labels /\ "load" \notin Under /\ pc[t] \notin Under /\ pc[t] \notin Coming
      /\ pc[t] \in WaitingLabels /\ "load" \in WaitingLabels
      /\ pc[t] \in UnservedLabels /\ "load" \in UnservedLabels
      /\ "load" \in ReadyLabels
    BY <1>1 DEF Labels, Under, Coming, WaitingLabels, UnservedLabels, ReadyLabels
<1>3. /\ buffer \in Nat /\ to_wake \in Nat /\ closed' \in BOOLEAN /\ count' \in Nat
      /\ t \notin futex.asleep
    BY <1>1, Typed DEF IInv, SleepersWait
<1>4. /\ futex' \in Futexes(Threads) /\ futex'.asleep \subseteq futex.asleep \cup {t}
      /\ futex'.fresh \subseteq futex.fresh
      /\ t \notin futex.fresh => futex'.asleep = futex.asleep
    BY <1>1, Typed DEF IInv, Futexes, FutexWait
<1>5. pc'[t] = "load" /\ \A u \in Threads \ {t} : pc'[u] = pc[u]
    BY <1>1, <1>2, Moves DEF IInv
<1>6. WaitersCounted'
    BY <1>1, <1>2, <1>5, WaitersKept
<1>7. CloseCoversWaiters' /\ CloseCounted'
    BY <1>1, <1>2, <1>3, <1>5, CloseKept
<1>8. SleepersWait' /\ LastLook'
    BY <1>1, <1>4, <1>5, SleepersKept, LookKept, Zenon
<1>9. TokensReach'
  <2>1. CASE t \notin futex.fresh
      BY <1>1, <1>2, <1>4, <1>5, <2>1, TokensKept, Zenon
  <2>2. CASE t \in futex.fresh
    <3>1. \/ to_wake = 0
          \/ to_wake = 1 /\ \E u \in Threads : pc[u] = "bump_one"
          \/ \E u \in Threads : pc[u] = "bump_all"
        BY <1>1, <2>2 DEF IInv, LastLook
    <3>2. CASE to_wake = 0
        BY <1>1, <3>2, ReadyFinite DEF TokensReach
    <3>3. CASE to_wake = 1 /\ \E u \in Threads : pc[u] = "bump_one"
      <4>1. PICK u \in Threads : pc[u] = "bump_one"
          BY <3>3
      <4>2. u # t /\ u \notin futex.asleep /\ pc'[u] = "bump_one"
          BY <1>1, <1>5, <4>1 DEF IInv, SleepersWait
      <4>3. u \in Ready'
          BY <1>4, <4>2 DEF Ready, At
      <4>4. Cardinality(Ready') # 0 /\ Cardinality(Ready') \in Nat
          BY <4>3, ReadyFinite, FS_EmptySet
      <4> QED BY <1>1, <3>3, <4>4 DEF TokensReach
    <3>4. CASE \E u \in Threads : pc[u] = "bump_all"
        BY <1>1, <1>5, <3>4 DEF TokensReach
    <3> QED BY <3>1, <3>2, <3>3, <3>4
  <2> QED BY <2>1, <2>2
<1>10. MessagesReach'
    BY <1>1, <1>2, <1>3, <1>5, MessagesKept
<1>11. TypeOK' /\ OwnerExact' /\ SendsCounted'
    BY <1>1, <1>2, <1>3, <1>4, <1>6, CondStep
<1> QED BY <1>6, <1>7, <1>8, <1>9, <1>10, <1>11 DEF IInv

LEMMA WaitLeaveStep ==
    ASSUME MpmcAssumption, IInv, NEW t \in Threads, WaitLeave(t)
    PROVE  IInv'
<1>1. /\ pc[t] = "leave" /\ Goto(t, "relock") /\ waiters' = waiters - 1
      /\ UNCHANGED <<mutex, buffer, calls>> /\ to_wake' = to_wake /\ futex' = futex /\ count' = count
      /\ closed' = closed
    BY DEF WaitLeave, chan
<1>2. /\ "relock" \in Labels /\ "relock" \notin Under /\ pc[t] \notin Under /\ "relock" \in Coming
      /\ pc[t] \in WaitingLabels /\ "relock" \notin WaitingLabels
      /\ pc[t] \notin UnservedLabels /\ "relock" \notin UnservedLabels
      /\ pc[t] \notin ReadyLabels
    BY <1>1 DEF Labels, Under, Coming, WaitingLabels, UnservedLabels, ReadyLabels
<1>3. /\ buffer \in Nat /\ to_wake \in Nat /\ closed' \in BOOLEAN /\ count' \in Nat
      /\ futex' \in Futexes(Threads) /\ t \notin futex.asleep
    BY <1>1, Typed DEF IInv, SleepersWait
<1>4. pc'[t] = "relock" /\ \A u \in Threads \ {t} : pc'[u] = pc[u]
    BY <1>1, <1>2, Moves DEF IInv
<1>5. WaitersCounted'
  <2>1. Cardinality(At(WaitingLabels)') = Cardinality(At(WaitingLabels)) - 1
      BY <1>2, <1>4, Shift
  <2> QED BY <1>1, <2>1 DEF IInv, WaitersCounted
<1>6. CloseCoversWaiters' /\ CloseCounted'
    BY <1>1, <1>2, <1>3, <1>4, CloseKept
<1>7. SleepersWait' /\ LastLook' /\ TokensReach'
    BY <1>1, <1>2, <1>3, <1>4, SleepersKept, LookKept, TokensKept
<1>8. MessagesReach'
    BY <1>1, <1>2, <1>3, <1>4, MessagesKept
<1>9. TypeOK' /\ OwnerExact' /\ SendsCounted'
    BY <1>1, <1>2, <1>3, <1>5, CondStep
<1> QED BY <1>5, <1>6, <1>7, <1>8, <1>9 DEF IInv

LEMMA InterruptStep ==
    ASSUME MpmcAssumption, IInv, NEW t \in Threads, Interrupt(t)
    PROVE  IInv'
<1>1. /\ futex' = FutexInterrupt(futex, t) /\ t \in futex.asleep /\ pc' = pc
      /\ UNCHANGED <<mutex, buffer, calls>> /\ to_wake' = to_wake /\ waiters' = waiters /\ count' = count
      /\ closed' = closed
    BY DEF Interrupt, chan
<1>2. pc[t] = "load"
    BY <1>1 DEF IInv, SleepersWait
<1>3. /\ "load" \in Labels /\ pc[t] \notin Under /\ pc[t] \notin Coming /\ pc[t] \in UnservedLabels
    BY <1>2 DEF Labels, Under, Coming, UnservedLabels
<1>4. /\ buffer \in Nat /\ to_wake \in Nat /\ closed' \in BOOLEAN /\ count' \in Nat
      /\ pc \in [Threads -> Labels]
    BY <1>1, Typed DEF IInv
<1>5. futex' \in Futexes(Threads) /\ futex'.asleep \subseteq futex.asleep /\ futex'.fresh = futex.fresh
    BY <1>1, Typed DEF IInv, Futexes, FutexInterrupt
<1>6. pc'[t] = "load" /\ (\A u \in Threads \ {t} : pc'[u] = pc[u]) /\ Goto(t, "load")
    BY <1>1, <1>2, <1>4 DEF Goto
<1>7. WaitersCounted'
    BY <1>1, <1>6, WaitersKept
<1>8. CloseCoversWaiters' /\ CloseCounted'
    BY <1>1, <1>2, <1>4, <1>6, CloseKept
<1>9. SleepersWait' /\ LastLook' /\ TokensReach'
    BY <1>1, <1>2, <1>5, <1>6, SleepersKept, LookKept, TokensKept, Zenon
<1>10. MessagesReach'
  <2>1. /\ buffer' \in Nat /\ buffer' <= buffer /\ to_wake' \in Nat /\ to_wake' >= to_wake
        /\ pc'[t] = pc[t]
      BY <1>1, <1>4
  <2> QED BY <1>6, <2>1, MessagesKept, Zenon
<1>11. TypeOK' /\ OwnerExact' /\ SendsCounted'
    BY <1>1, <1>2, <1>3, <1>4, <1>5, <1>6, <1>7, CondStep, Zenon
<1> QED BY <1>7, <1>8, <1>9, <1>10, <1>11 DEF IInv

-----------------------------------------------------------------------------
LEMMA InitIInv == MpmcAssumption /\ Init => IInv
<1> SUFFICES ASSUME MpmcAssumption, Init
             PROVE  IInv
    OBVIOUS
<1>1. /\ mutex = None /\ buffer = 0 /\ closed = FALSE /\ waiters = 0 /\ to_wake = 0 /\ futex = FutexNew
      /\ count = 0 /\ pc = [t \in Threads |-> "idle"] /\ sends = 0 /\ recvs = 0
    BY DEF Init
<1>2. \A t \in Threads : pc[t] = "idle"
    BY <1>1
<1>3. At({"send", "push"}) = {} /\ At(WaitingLabels) = {} /\ Unserved = {}
    BY <1>2 DEF At, WaitingLabels, UnservedLabels, Unserved
<1>4. Cardinality({}) = 0 /\ Cardinality(Threads) \in Nat
    BY FS_EmptySet, FS_CardinalityType DEF MpmcAssumption
<1>5. TypeOK
  <2>1. futex \in Futexes(Threads)
      BY <1>1 DEF FutexNew, Futexes
  <2>2. pc \in [Threads -> Labels]
      BY <1>1 DEF Labels
  <2>3. buffer \in 0..(IF BOUNDED > 0 THEN BOUNDED ELSE MAXSENDS) /\ waiters \in 0..Cardinality(Threads)
      BY <1>1, <1>4 DEF MpmcAssumption
  <2>4. sends \in 0..MAXSENDS /\ recvs \in 0..MAXRECVS
      BY <1>1 DEF MpmcAssumption
  <2> QED BY <1>1, <2>1, <2>2, <2>3, <2>4, Zenon DEF TypeOK
<1>6. OwnerExact
    BY <1>1, <1>2 DEF OwnerExact, Under, MpmcAssumption
<1>7. SendsCounted /\ WaitersCounted
    BY <1>1, <1>3, <1>4 DEF SendsCounted, WaitersCounted
<1>8. CloseCoversWaiters /\ CloseCounted
    BY <1>1, <1>2 DEF CloseCoversWaiters, CloseCounted
<1>9. SleepersWait /\ LastLook /\ TokensReach /\ MessagesReach
    BY <1>1, <1>2, <1>3 DEF SleepersWait, LastLook, TokensReach, MessagesReach, FutexNew
<1> QED BY <1>5, <1>6, <1>7, <1>8, <1>9 DEF IInv

LEMMA NextIInv == MpmcAssumption /\ IInv /\ Next => IInv'
<1> SUFFICES ASSUME MpmcAssumption, IInv, Next
             PROVE  IInv'
    OBVIOUS
<1>1. PICK t \in Threads : \/ Continue(t) \/ Send(t) \/ Close(t) \/ Interrupt(t)
                           \/ \E how \in {"try_recv", "recv"} : Recv(t, how)
    BY DEF Next
<1>2. CASE Continue(t)
    BY <1>2, AcquireStep, UnlockStep, PushStep, NotifyOneStep, AddOneStep, BumpStep, WakeOneStep, ShutStep,
       NotifyAllStep, AddAllStep, WakeAllStep, TryPopStep, PopStep, WaitUnlockStep, WaitLoadStep,
       WaitTokenStep, WaitSleepStep, WaitLeaveStep, WaitRelockStep DEF Continue
<1>3. CASE Send(t) \/ Close(t) \/ Interrupt(t)
    BY <1>3, SendStep, CloseStep, InterruptStep
<1>4. CASE \E how \in {"try_recv", "recv"} : Recv(t, how)
    BY <1>4, RecvStep
<1> QED BY <1>1, <1>2, <1>3, <1>4

LEMMA StutterIInv == IInv /\ UNCHANGED vars => IInv'
<1> SUFFICES ASSUME IInv, UNCHANGED vars
             PROVE  IInv'
    OBVIOUS
<1>1. /\ mutex' = mutex /\ buffer' = buffer /\ closed' = closed /\ waiters' = waiters /\ to_wake' = to_wake
      /\ futex' = futex /\ count' = count /\ pc' = pc /\ sends' = sends /\ recvs' = recvs
    BY DEF vars
<1>2. TypeOK' /\ OwnerExact' /\ SendsCounted' /\ WaitersCounted'
    BY <1>1 DEF IInv, TypeOK, OwnerExact, SendsCounted, WaitersCounted, At
<1>3. CloseCoversWaiters' /\ CloseCounted' /\ SleepersWait' /\ LastLook'
    BY <1>1 DEF IInv, CloseCoversWaiters, CloseCounted, SleepersWait, LastLook, Unserved
<1>4. TokensReach' /\ MessagesReach'
    BY <1>1 DEF IInv, TokensReach, MessagesReach, Ready, At, Unserved
<1> QED BY <1>2, <1>3, <1>4 DEF IInv

LEMMA WaitersAreExact == MpmcAssumption /\ IInv => WaitersExact
<1> SUFFICES ASSUME MpmcAssumption, IInv
             PROVE  WaitersExact
    OBVIOUS
<1> DEFINE S == {t \in Threads : pc[t] = "leave"}
<1>1. /\ At(WaitingLabels) = Unserved \cup S /\ Unserved \cap S = {}
      /\ Unserved \subseteq Threads /\ S \subseteq Threads
    BY DEF At, WaitingLabels, UnservedLabels, Unserved
<1>2. IsFiniteSet(Unserved) /\ IsFiniteSet(S)
    BY <1>1, FS_Subset DEF MpmcAssumption
<1>3. Cardinality(Unserved \cup S) = Cardinality(Unserved) + Cardinality(S) - Cardinality(Unserved \cap S)
    BY <1>2, FS_Union
<1>4. Cardinality(Unserved \cap S) = 0 /\ Cardinality(Unserved) \in Nat /\ Cardinality(S) \in Nat
    BY <1>1, <1>2, FS_EmptySet, FS_CardinalityType, Zenon
<1> QED BY <1>1, <1>3, <1>4 DEF IInv, WaitersCounted, WaitersExact

\* Why no receiver is stranded: a message or a close leaves a token or a thread
\* on its way, and a token a thread that is ready to take it or to pass it on.
LEMMA NoReceiverStranded == MpmcAssumption /\ IInv => NoStrandedReceiver
<1> SUFFICES ASSUME MpmcAssumption, IInv, futex.asleep # {}, buffer > 0 \/ closed
             PROVE  \E t \in Threads \ futex.asleep : pc[t] # "idle"
    BY DEF NoStrandedReceiver
<1>1. \A t \in Threads : pc[t] \notin {"idle", "load"} => t \in Threads \ futex.asleep /\ pc[t] # "idle"
    BY DEF IInv, SleepersWait
<1>2. PICK s \in futex.asleep : s \in Threads /\ pc[s] = "load"
    BY FutexTyped DEF IInv, SleepersWait
<1>3. s \in Unserved /\ Cardinality(Unserved) \in Nat /\ Cardinality(Unserved) # 0
  <2>1. s \in Unserved /\ IsFiniteSet(Unserved) /\ Cardinality(Unserved) \in Nat
      BY <1>2, UnservedAt, AtFinite DEF Unserved
  <2> QED BY <2>1, FS_EmptySet
<1>4. to_wake \in Nat /\ buffer \in Nat
    BY Typed DEF IInv
<1>5. CASE to_wake > 0
  <2>1. \/ to_wake <= Cardinality(Ready)
        \/ \E t \in Threads : pc[t] \in {"bump_all", "wake_all"}
      BY DEF IInv, TokensReach
  <2>2. CASE to_wake <= Cardinality(Ready)
    <3>1. Cardinality(Ready) # 0
        BY <1>4, <1>5, <2>2, ReadyFinite
    <3>2. Ready # {}
        BY <3>1, FS_EmptySet
    <3> QED BY <3>2 DEF Ready, At, UnservedLabels
  <2> QED BY <1>1, <2>1, <2>2
<1>6. CASE ~(to_wake > 0)
  <2>1. CASE closed
      BY <1>1, <1>3, <1>4, <1>6, <2>1 DEF IInv, CloseCoversWaiters
  <2>2. CASE buffer > 0
    <3>1. Cardinality(At(Coming)) # 0
        BY <1>3, <1>4, <1>6, <2>2, AtFinite DEF IInv, MessagesReach
    <3>2. At(Coming) # {}
        BY <3>1, FS_EmptySet
    <3> QED BY <1>1, <3>2 DEF At, Coming
  <2> QED BY <2>1, <2>2
<1> QED BY <1>4, <1>5, <1>6

-----------------------------------------------------------------------------
\* The invariant of a channel with any number of senders and receivers, bounded
\* or not.
THEOREM InductiveInvariant ==
    ASSUME MpmcAssumption
    PROVE  Spec => []IInv
<1>1. Init => IInv
    BY InitIInv
<1>2. IInv /\ [Next]_vars => IInv'
    BY NextIInv, StutterIInv
<1> QED BY <1>1, <1>2, PTL DEF Spec

\* Every state has its type; the waiters are counted exactly, so that
\* notify_one() skips the token only when nobody can take it; close() leaves a
\* token for every waiter; and no receiver sleeps on a message or a closed
\* channel that nobody is still to tell it of.
THEOREM ChannelSafe ==
    ASSUME MpmcAssumption
    PROVE  Spec => [](TypeOK /\ WaitersExact /\ CloseCoversWaiters /\ NoStrandedReceiver)
<1>1. IInv => TypeOK /\ WaitersExact /\ CloseCoversWaiters /\ NoStrandedReceiver
    BY WaitersAreExact, NoReceiverStranded DEF IInv
<1> QED BY <1>1, InductiveInvariant, PTL
=============================================================================
