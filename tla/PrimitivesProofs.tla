-------------------------- MODULE PrimitivesProofs --------------------------
(***************************************************************************)
(* Proofs of the safety properties of the small primitives, for any finite *)
(* set of threads and any bounds: that of MCPrimitives is each primitive's *)
(* own while `which' names it.                                             *)
(***************************************************************************)
EXTENDS MCPrimitives, FiniteSetTheorems, TLAPS

\* The components share the library's sets.
LEMMA ParkerSets ==
    /\ \A S : TP!Cardinality(S) = Cardinality(S)
    /\ \A S : TP!IsFiniteSet(S) <=> IsFiniteSet(S)
BY DEF TP!Cardinality, Cardinality, TP!IsFiniteSet, IsFiniteSet

LEMMA ThreadSets ==
    ASSUME NEW S, S \subseteq Threads
    PROVE  IsFiniteSet(S) /\ Cardinality(S) \in Nat
<1>1. IsFiniteSet(Threads)
    BY PrimitivesAssumption, ParkerSets DEF TP!ParkerAssumption
<1> QED BY <1>1, FS_Subset, FS_CardinalityType

\* How the size of a set of threads follows a step of one of them.
LEMMA Joins ==
    ASSUME NEW S, S \subseteq Threads, NEW t \in Threads, t \notin S
    PROVE  Cardinality(S \cup {t}) = Cardinality(S) + 1
BY ThreadSets, FS_AddElement

LEMMA Quits ==
    ASSUME NEW S, S \subseteq Threads, NEW t \in S
    PROVE  Cardinality(S \ {t}) = Cardinality(S) - 1
BY ThreadSets, FS_RemoveElement

-----------------------------------------------------------------------------
(* ThreadParker: tokens, asleep, pc and calls are r1 to r4.                *)

\* A sleeper is in the loop of park(), and no token is lost on it.
ParkerInv == TP!TypeOK /\ (\A t \in r2 : r3[t] = "retry") /\ TP!NoLostToken

LEMMA ParkerInit == TP!Init => ParkerInv
<1> SUFFICES ASSUME TP!Init PROVE ParkerInv
    OBVIOUS
<1>1. TP!TypeOK
    BY PrimitivesAssumption DEF TP!Init, TP!TypeOK, TP!ParkerAssumption, TP!UNPARKED
<1> QED BY <1>1 DEF ParkerInv, TP!Init, TP!NoLostToken

\* Busy gains and loses the threads that a step moves.
LEMMA ParkerNext == ParkerInv /\ TP!Next => ParkerInv'
<1> SUFFICES ASSUME ParkerInv, NEW t \in Threads,
                    TP!Continue(t) \/ TP!Park(t) \/ TP!Unpark(t) \/ TP!Interrupt(t)
             PROVE  ParkerInv'
    BY DEF TP!Next
<1> USE DEF TP!PARKED
<1>1. /\ r1 \in Nat /\ r1 <= MAXTOKENS /\ r2 \subseteq Threads /\ DOMAIN r3 = Threads /\ MAXTOKENS \in Nat
      /\ r3 \in [Threads -> {"idle", "retry", "wait", "wake"}] /\ r4 \in 0..PARKCALLS /\ PARKCALLS \in Nat
      /\ \A u \in r2 : r3[u] = "retry"
    BY PrimitivesAssumption DEF ParkerInv, TP!TypeOK, TP!ParkerAssumption
<1>2. TP!Busy \subseteq Threads /\ TP!Busy' \subseteq Threads /\ Cardinality(TP!Busy) \in Nat /\ Cardinality(TP!Busy') \in Nat
  <2>1. TP!Busy \subseteq Threads /\ TP!Busy' \subseteq Threads
      BY DEF TP!Busy
  <2> QED BY <2>1, ThreadSets
<1>3. r2 # {} => r1 <= Cardinality(TP!Busy)
    BY ParkerSets DEF ParkerInv, TP!NoLostToken
<1>4. CASE TP!Park(t)
  <2>1. r3[t] = "idle" /\ r2' = r2 /\ r4' \in 0..PARKCALLS
      BY <1>1, <1>4 DEF TP!Park, TP!Begin, TP!Consume
  <2>2. CASE r1 > 0
    <3>1. r1' = r1 - 1 /\ r3' = r3
        BY <1>1, <1>4, <2>1, <2>2 DEF TP!Park, TP!Consume, TP!HasToken, TP!Goto
    <3>2. TP!Busy' = TP!Busy
        BY <2>1, <3>1 DEF TP!Busy
    <3> QED BY <1>1, <1>2, <1>3, <2>1, <2>2, <3>1, <3>2, ParkerSets DEF ParkerInv, TP!TypeOK, TP!NoLostToken
  <2>3. CASE r1 = 0
    <3>1. r1' = 0 /\ r3' = [r3 EXCEPT ![t] = "retry"]
        BY <1>4, <2>3 DEF TP!Park, TP!Consume, TP!HasToken, TP!Goto
    <3> QED BY <1>1, <1>2, <2>1, <3>1, ParkerSets DEF ParkerInv, TP!TypeOK, TP!NoLostToken
  <2> QED BY <1>1, <2>2, <2>3
<1>5. CASE TP!Retry(t)
  <2>1. r3[t] = "retry" /\ t \notin r2 /\ r2' = r2 /\ r4' = r4
      BY <1>5 DEF TP!Retry, TP!Consume
  <2>2. CASE r1 > 0
    <3>1. r1' = r1 - 1 /\ r3' = [r3 EXCEPT ![t] = "idle"]
        BY <1>5, <2>2 DEF TP!Retry, TP!Consume, TP!HasToken, TP!Goto
    <3>2. TP!Busy' = TP!Busy \ {t} /\ t \in TP!Busy
        BY <1>1, <2>1, <3>1 DEF TP!Busy
    <3>3. Cardinality(TP!Busy') = Cardinality(TP!Busy) - 1
        BY <1>2, <3>2, Quits
    <3> QED BY <1>1, <1>2, <1>3, <2>1, <2>2, <3>1, <3>3, ParkerSets DEF ParkerInv, TP!TypeOK, TP!NoLostToken
  <2>3. CASE r1 = 0
    <3>1. r1' = 0 /\ r3' = [r3 EXCEPT ![t] = "wait"]
        BY <1>5, <2>3 DEF TP!Retry, TP!Consume, TP!HasToken, TP!Goto
    <3> QED BY <1>1, <1>2, <2>1, <3>1, ParkerSets DEF ParkerInv, TP!TypeOK, TP!NoLostToken
  <2> QED BY <1>1, <2>2, <2>3
<1>6. CASE TP!Wait(t)
  <2>1. /\ r3[t] = "wait" /\ r3' = [r3 EXCEPT ![t] = "retry"] /\ r1' = r1 /\ r4' = r4 /\ t \notin r2
        /\ r2' = IF r1 = 0 THEN r2 \cup {t} ELSE r2
      BY <1>1, <1>6 DEF TP!Wait, TP!Goto
  <2>2. CASE r1 = 0
      BY <1>1, <1>2, <2>1, <2>2, ParkerSets DEF ParkerInv, TP!TypeOK, TP!NoLostToken
  <2>3. CASE r1 > 0
    <3>1. TP!Busy' = TP!Busy
        BY <1>1, <2>1, <2>3 DEF TP!Busy
    <3> QED BY <1>1, <1>2, <1>3, <2>1, <2>3, <3>1, ParkerSets DEF ParkerInv, TP!TypeOK, TP!NoLostToken
  <2> QED BY <1>1, <2>2, <2>3
<1>7. CASE TP!Unpark(t)
  <2>1. r3[t] = "idle" /\ r2' = r2 /\ r4' \in 0..PARKCALLS /\ t \notin r2
      BY <1>1, <1>7 DEF TP!Unpark, TP!Begin
  <2>2. CASE r1 < MAXTOKENS
    <3>1. r1' = r1 + 1 /\ r3' = [r3 EXCEPT ![t] = "wake"]
        BY <1>7, <2>2 DEF TP!Unpark, TP!Goto
    <3>2. TP!Busy' = TP!Busy \cup {t} /\ t \notin TP!Busy
        BY <1>1, <2>1, <3>1 DEF TP!Busy
    <3>3. Cardinality(TP!Busy') = Cardinality(TP!Busy) + 1
        BY <1>2, <3>2, Joins
    <3> QED BY <1>1, <1>2, <1>3, <2>1, <2>2, <3>1, <3>3, ParkerSets DEF ParkerInv, TP!TypeOK, TP!NoLostToken
  <2>3. CASE ~(r1 < MAXTOKENS)
    <3>1. r1' = r1 /\ r3' = r3
        BY <1>7, <2>3 DEF TP!Unpark
    <3>2. TP!Busy' = TP!Busy
        BY <2>1, <3>1 DEF TP!Busy
    <3> QED BY <1>1, <1>3, <2>1, <3>1, <3>2, ParkerSets DEF ParkerInv, TP!TypeOK, TP!NoLostToken
  <2> QED BY <2>2, <2>3
<1>8. CASE TP!Wake(t)
  <2>1. r3[t] = "wake" /\ r3' = [r3 EXCEPT ![t] = "idle"] /\ r1' = r1 /\ r4' = r4 /\ t \notin r2
      BY <1>1, <1>8 DEF TP!Wake, TP!Goto
  <2>2. CASE r2 = {}
    <3>1. r2' = {}
        BY <1>8, <2>2 DEF TP!Wake
    <3> QED BY <1>1, <2>1, <3>1, ParkerSets DEF ParkerInv, TP!TypeOK, TP!NoLostToken
  <2>3. CASE r2 # {}
    <3>1. PICK s \in r2 : r2' = r2 \ {s}
        BY <1>8, <2>3 DEF TP!Wake
    <3>2. TP!Busy' = (TP!Busy \ {t}) \cup {s} /\ t \in TP!Busy /\ s \notin TP!Busy /\ s \in Threads
        BY <1>1, <2>1, <3>1 DEF TP!Busy
    <3>3. Cardinality(TP!Busy') = Cardinality(TP!Busy)
      <4>1. Cardinality(TP!Busy \ {t}) = Cardinality(TP!Busy) - 1
          BY <1>2, <3>2, Quits
      <4>2. Cardinality((TP!Busy \ {t}) \cup {s}) = Cardinality(TP!Busy \ {t}) + 1
          BY <1>2, <3>2, Joins
      <4> QED BY <1>2, <3>2, <4>1, <4>2
    <3> QED BY <1>1, <1>3, <2>1, <2>3, <3>1, <3>3, ParkerSets DEF ParkerInv, TP!TypeOK, TP!NoLostToken
  <2> QED BY <2>2, <2>3
<1>9. CASE TP!Interrupt(t)
  <2>1. t \in r2 /\ r2' = r2 \ {t} /\ r1' = r1 /\ r3' = r3 /\ r4' = r4
      BY <1>9 DEF TP!Interrupt
  <2>2. TP!Busy' = TP!Busy \cup {t} /\ t \notin TP!Busy
      BY <1>1, <2>1 DEF TP!Busy
  <2>3. Cardinality(TP!Busy') = Cardinality(TP!Busy) + 1
      BY <1>2, <2>2, Joins
  <2> QED BY <1>1, <1>2, <1>3, <2>1, <2>3, ParkerSets DEF ParkerInv, TP!TypeOK, TP!NoLostToken
<1> QED BY <1>4, <1>5, <1>6, <1>7, <1>8, <1>9 DEF TP!Continue

-----------------------------------------------------------------------------
(* Barrier: n, bucket, remaining, generation, count, mutex, asleep, calls  *)
(* and call are r1 to r9.                                                  *)

LEMMA BarrierSets ==
    /\ \A S : BA!Cardinality(S) = Cardinality(S)
    /\ None \notin Threads /\ MAXN \in Nat /\ BARRIERCALLS \in Nat
BY PrimitivesAssumption DEF BA!Cardinality, Cardinality, BA!BarrierAssumption

BarrierLabels == {"idle", "arrive", "release", "check", "complete", "waiting"}

\* The threads that have arrived in the current phase, and those in a call.
Present == BA!Arrived(r4)
InCall == {t \in Threads : BA!pc(t) # "idle"}

\* The mutex is held by the one thread that is at a step under it.
BarrierOwner ==
    \A t \in Threads : BA!pc(t) \in {"arrive", "release", "check", "complete"} <=> r6 = t

\* The phase, but while its last arrival is about to complete it.
PhaseExact ==
    (\A t \in Threads : BA!pc(t) # "complete") =>
        /\ r3 > 0 => r3 + Cardinality(Present) = IF r4 = 0 THEN r1 ELSE r2
        /\ r3 = 0 => Present = {}

\* A phase ends with the call that completes it, so generations are no more
\* than calls; and nobody is ahead of the current phase.
PhasesCounted ==
    /\ r4 + Cardinality(InCall) <= r8
    /\ \A t \in Threads : r9[t].gen <= r4

BarrierInv ==
    BA!TypeOK /\ BarrierOwner /\ r5 = r3 /\ PhaseExact /\ PhasesCounted /\ BA!SleepersCurrent

LEMMA BarrierTyped ==
    ASSUME BA!TypeOK
    PROVE  /\ r1 \in 0..MAXN /\ r2 \in 0..MAXN /\ r3 \in 0..MAXN /\ r4 \in Nat /\ r8 \in Nat
           /\ r4 <= BARRIERCALLS /\ r8 <= BARRIERCALLS /\ r7 \subseteq Threads /\ DOMAIN r9 = Threads
           /\ \A t \in Threads : BA!pc(t) \in BarrierLabels /\ r9[t].gen \in Nat
           /\ Present \subseteq Threads /\ InCall \subseteq Threads
           /\ Cardinality(Present) \in Nat /\ Cardinality(InCall) \in Nat
<1>1. Present \subseteq Threads /\ InCall \subseteq Threads
    BY DEF Present, BA!Arrived, InCall
<1>2. Cardinality(Present) \in Nat /\ Cardinality(InCall) \in Nat
    BY <1>1, ThreadSets
<1>3. \A t \in Threads : BA!pc(t) \in BarrierLabels /\ r9[t].gen \in Nat
    BY BarrierSets DEF BA!TypeOK, BA!pc, BarrierLabels
<1> QED BY <1>1, <1>2, <1>3, BarrierSets DEF BA!TypeOK

LEMMA BarrierInit == BA!Init => BarrierInv
<1> SUFFICES ASSUME BA!Init PROVE BarrierInv
    OBVIOUS
<1>1. \A t \in Threads : BA!pc(t) = "idle" /\ r9[t].gen = 0
    BY Zenon DEF BA!Init, BA!pc, BA!At
<1>2. Present = {} /\ InCall = {}
    BY <1>1 DEF Present, BA!Arrived, InCall
<1>3. BA!TypeOK
    BY BarrierSets DEF BA!Init, BA!TypeOK, BA!At
<1>4. BarrierOwner
    BY <1>1, BarrierSets, Zenon DEF BarrierOwner, BA!Init
<1>5. PhaseExact /\ PhasesCounted
    BY <1>1, <1>2, FS_EmptySet DEF PhaseExact, PhasesCounted, BA!Init
<1>6. r5 = r3 /\ BA!SleepersCurrent
    BY DEF BA!Init, BA!SleepersCurrent
<1> QED BY <1>3, <1>4, <1>5, <1>6 DEF BarrierInv

\* A step of thread t to another label.
LEMMA BarrierMoves ==
    ASSUME BA!TypeOK, NEW t \in Threads, NEW label \in BarrierLabels, NEW g \in 0..BARRIERCALLS,
           r9' = [r9 EXCEPT ![t] = BA!At(label, g)]
    PROVE  /\ r9' \in [Threads -> [pc : {"idle", "arrive", "release", "check", "complete", "waiting"},
                                   gen : 0..BARRIERCALLS]]
           /\ BA!pc(t)' = label /\ r9'[t].gen = g
           /\ \A u \in Threads \ {t} : BA!pc(u)' = BA!pc(u) /\ r9'[u].gen = r9[u].gen
<1>1. r9 \in [Threads -> [pc : {"idle", "arrive", "release", "check", "complete", "waiting"},
                          gen : 0..BARRIERCALLS]]
    BY DEF BA!TypeOK
<1>2. BA!At(label, g) \in [pc : {"idle", "arrive", "release", "check", "complete", "waiting"},
                           gen : 0..BARRIERCALLS]
    BY DEF BA!At, BarrierLabels
<1>3. r9' \in [Threads -> [pc : {"idle", "arrive", "release", "check", "complete", "waiting"},
                           gen : 0..BARRIERCALLS]]
    BY <1>1, <1>2
<1>4. r9'[t] = BA!At(label, g) /\ \A u \in Threads \ {t} : r9'[u] = r9[u]
    BY <1>1
<1> QED BY <1>3, <1>4 DEF BA!pc, BA!At

\* A call begins or goes on under the mutex, or gives the mutex up to wait or
\* to return.
LEMMA BarrierOwns ==
    ASSUME BarrierInv, NEW t \in Threads,
           \A u \in Threads \ {t} : BA!pc(u)' = BA!pc(u),
           \/ /\ r6 \in {None, t} /\ r6' = t
              /\ BA!pc(t)' \in {"arrive", "release", "check", "complete"}
           \/ r6 = t /\ r6' = None /\ BA!pc(t)' \in {"idle", "waiting"}
    PROVE  BarrierOwner' /\ r6' \in Threads \cup {None}
BY BarrierSets DEF BarrierInv, BarrierOwner

LEMMA BarrierBegin ==
    ASSUME BarrierInv, NEW t \in Threads, BA!Begin(t, "arrive") \/ BA!Begin(t, "release")
    PROVE  BarrierInv'
<1>1. BA!TypeOK
    BY DEF BarrierInv
<1>2. PICK label \in {"arrive", "release"} : BA!Begin(t, label)
    OBVIOUS
<1>3. /\ BA!pc(t) = "idle" /\ r6 = None /\ r6' = t /\ r8 < BARRIERCALLS /\ r8' = r8 + 1
      /\ r9' = [r9 EXCEPT ![t] = BA!At(label, r9[t].gen)]
      /\ UNCHANGED <<r1, r2, r3, r4, r5, r7>>
    BY <1>2 DEF BA!Begin, BA!Goto, BA!sizes, BA!phase
<1>4. /\ r9' \in [Threads -> [pc : {"idle", "arrive", "release", "check", "complete", "waiting"},
                              gen : 0..BARRIERCALLS]]
      /\ BA!pc(t)' = label /\ r9'[t].gen = r9[t].gen
      /\ \A u \in Threads \ {t} : BA!pc(u)' = BA!pc(u) /\ r9'[u].gen = r9[u].gen
  <2>1. label \in BarrierLabels /\ r9[t].gen \in 0..BARRIERCALLS
      BY <1>1, <1>2 DEF BarrierLabels, BA!TypeOK
  <2> QED BY <1>1, <1>3, <2>1, BarrierMoves, Zenon
<1>5. BA!TypeOK'
  <2>1. r8' \in 0..BARRIERCALLS
      BY <1>1, <1>3, BarrierTyped, BarrierSets
  <2> QED BY <1>1, <1>3, <1>4, <2>1 DEF BA!TypeOK
<1>6. BarrierOwner'
    BY <1>2, <1>3, <1>4, BarrierOwns
<1>7. Present' = Present
    BY <1>3, <1>4 DEF Present, BA!Arrived
<1>8. PhaseExact'
    BY <1>3, <1>4, <1>7 DEF PhaseExact, BarrierInv
<1>9. PhasesCounted'
  <2>1. InCall' = InCall \cup {t} /\ t \notin InCall
      BY <1>3, <1>4 DEF InCall
  <2>2. Cardinality(InCall') = Cardinality(InCall) + 1
      BY <1>1, <2>1, BarrierTyped, Joins
  <2> QED BY <1>1, <1>3, <1>4, <2>2, BarrierTyped DEF PhasesCounted, BarrierInv
<1>10. BA!SleepersCurrent'
    BY <1>1, <1>3, <1>4, BarrierTyped DEF BA!SleepersCurrent, BA!StillWaiting, BarrierInv
<1> QED BY <1>3, <1>5, <1>6, <1>8, <1>9, <1>10 DEF BarrierInv

\* Relock and Sleep move between the two labels of a waiting thread.
LEMMA BarrierWaits ==
    ASSUME BarrierInv, NEW t \in Threads, BA!Relock(t) \/ BA!Sleep(t)
    PROVE  BarrierInv'
<1>1. BA!TypeOK
    BY DEF BarrierInv
<1>2. PICK label \in {"check", "waiting"} :
         /\ BA!pc(t) \in {"check", "waiting"} /\ UNCHANGED <<r1, r2, r3, r4, r5, r8>>
         /\ r9' = [r9 EXCEPT ![t] = BA!At(label, r9[t].gen)]
         /\ \/ label = "check" /\ r6 = None /\ r6' = t /\ t \notin r7 /\ r7' = r7
            \/ /\ label = "waiting" /\ BA!pc(t) = "check" /\ r6' = None
               /\ r7' = r7 \cup {t} /\ r9[t].gen = r4
    BY DEF BA!Relock, BA!Sleep, BA!Goto, BA!sizes, BA!phase, BA!StillWaiting
<1>3. /\ r9' \in [Threads -> [pc : {"idle", "arrive", "release", "check", "complete", "waiting"},
                              gen : 0..BARRIERCALLS]]
      /\ BA!pc(t)' = label /\ r9'[t].gen = r9[t].gen
      /\ \A u \in Threads \ {t} : BA!pc(u)' = BA!pc(u) /\ r9'[u].gen = r9[u].gen
  <2>1. label \in BarrierLabels /\ r9[t].gen \in 0..BARRIERCALLS /\ r4 \in 0..BARRIERCALLS
      BY <1>1, <1>2 DEF BarrierLabels, BA!TypeOK
  <2> QED BY <1>1, <1>2, <2>1, BarrierMoves, Zenon
<1>4. BarrierOwner' /\ r6' \in Threads \cup {None}
  <2>1. label = "waiting" => r6 = t
      BY <1>2 DEF BarrierInv, BarrierOwner
  <2> QED BY <1>2, <1>3, <2>1, BarrierOwns
<1>5. BA!TypeOK'
    BY <1>1, <1>2, <1>3, <1>4 DEF BA!TypeOK
<1>6. Present' = Present /\ InCall' = InCall
    BY <1>2, <1>3 DEF Present, BA!Arrived, InCall
<1>7. PhaseExact' /\ PhasesCounted'
    BY <1>2, <1>3, <1>6 DEF PhaseExact, PhasesCounted, BarrierInv
<1>8. BA!SleepersCurrent'
    BY <1>1, <1>2, <1>3, BarrierTyped DEF BA!SleepersCurrent, BA!StillWaiting, BarrierInv
<1> QED BY <1>2, <1>4, <1>5, <1>7, <1>8 DEF BarrierInv

\* A thread leaves: through a disabled barrier, or because its phase is over.
LEMMA BarrierLeaves ==
    ASSUME BarrierInv, NEW t \in Threads, BA!Leave(t) \/ (BA!Arrive(t) /\ r3 = 0)
    PROVE  BarrierInv'
<1>1. BA!TypeOK
    BY DEF BarrierInv
<1>2. /\ BA!pc(t) = "arrive" \/ (BA!pc(t) = "check" /\ r9[t].gen # r4)
      /\ UNCHANGED <<r1, r2, r3, r4, r5, r7, r8>> /\ r6' = None
      /\ r9' = [r9 EXCEPT ![t] = BA!At("idle", 0)]
    BY DEF BA!Leave, BA!Arrive, BA!Return, BA!sizes, BA!phase, BA!StillWaiting, BA!Disabled
<1>3. /\ r9' \in [Threads -> [pc : {"idle", "arrive", "release", "check", "complete", "waiting"},
                              gen : 0..BARRIERCALLS]]
      /\ BA!pc(t)' = "idle" /\ r9'[t].gen = 0
      /\ \A u \in Threads \ {t} : BA!pc(u)' = BA!pc(u) /\ r9'[u].gen = r9[u].gen
  <2>1. "idle" \in BarrierLabels /\ 0 \in 0..BARRIERCALLS
      BY BarrierSets DEF BarrierLabels
  <2> QED BY <1>1, <1>2, <2>1, BarrierMoves, Zenon
<1>4. BarrierOwner' /\ r6' \in Threads \cup {None}
  <2>1. r6 = t
      BY <1>2 DEF BarrierInv, BarrierOwner
  <2> QED BY <1>2, <1>3, <2>1, BarrierOwns
<1>5. BA!TypeOK'
    BY <1>1, <1>2, <1>3, <1>4 DEF BA!TypeOK
<1>6. Present' = Present /\ InCall' = InCall \ {t} /\ t \in InCall
    BY <1>2, <1>3 DEF Present, BA!Arrived, InCall
<1>7. Cardinality(InCall') = Cardinality(InCall) - 1
    BY <1>1, <1>6, BarrierTyped, Quits
<1>8. PhaseExact'
    BY <1>2, <1>3, <1>6 DEF PhaseExact, BarrierInv
<1>9. PhasesCounted'
    BY <1>1, <1>2, <1>3, <1>7, BarrierTyped DEF PhasesCounted, BarrierInv
<1>10. BA!SleepersCurrent'
    BY <1>1, <1>2, <1>3, BarrierTyped DEF BA!SleepersCurrent, BA!StillWaiting, BarrierInv
<1> QED BY <1>2, <1>4, <1>5, <1>8, <1>9, <1>10 DEF BarrierInv

\* An arrival: one fewer is outstanding and one more is present; the last one
\* goes on to complete the phase.
LEMMA BarrierArrives ==
    ASSUME BarrierInv, NEW t \in Threads, BA!Arrive(t), r3 # 0
    PROVE  BarrierInv'
<1>1. BA!TypeOK
    BY DEF BarrierInv
<1>2. PICK label \in {"check", "complete"} :
         /\ label = IF r3 = 1 THEN "complete" ELSE "check"
         /\ BA!pc(t) = "arrive" /\ UNCHANGED <<r1, r2, r4, r6, r7, r8>>
         /\ r3' = r3 - 1 /\ r5' = r3 - 1
         /\ r9' = [r9 EXCEPT ![t] = BA!At(label, r4)]
    BY DEF BA!Arrive, BA!sizes, BA!Disabled
<1>3. /\ r9' \in [Threads -> [pc : {"idle", "arrive", "release", "check", "complete", "waiting"},
                              gen : 0..BARRIERCALLS]]
      /\ BA!pc(t)' = label /\ r9'[t].gen = r4
      /\ \A u \in Threads \ {t} : BA!pc(u)' = BA!pc(u) /\ r9'[u].gen = r9[u].gen
  <2>1. label \in BarrierLabels /\ r9[t].gen \in 0..BARRIERCALLS /\ r4 \in 0..BARRIERCALLS
      BY <1>1, <1>2 DEF BarrierLabels, BA!TypeOK
  <2> QED BY <1>1, <1>2, <2>1, BarrierMoves, Zenon
<1>4. r6 = t /\ \A u \in Threads : BA!pc(u) # "complete"
    BY <1>2 DEF BarrierInv, BarrierOwner
<1>5. BarrierOwner' /\ r6' \in Threads \cup {None}
    BY <1>2, <1>3, <1>4, BarrierOwns
<1>6. r3 \in Nat /\ r3 > 0 /\ r3' \in Nat /\ r3' = r3 - 1
    BY <1>1, <1>2, BarrierTyped, BarrierSets
<1>7. BA!TypeOK'
  <2>1. r3' \in 0..MAXN /\ r5' \in 0..MAXN
      BY <1>1, <1>2, <1>6, BarrierTyped, BarrierSets
  <2> QED BY <1>1, <1>2, <1>3, <1>5, <2>1 DEF BA!TypeOK
<1>8. Present' = Present \cup {t} /\ t \notin Present /\ InCall' = InCall
    BY <1>2, <1>3 DEF Present, BA!Arrived, InCall
<1>9. Cardinality(Present') = Cardinality(Present) + 1
    BY <1>1, <1>8, BarrierTyped, Joins
<1>10. PhaseExact'
  <2>1. r3 + Cardinality(Present) = IF r4 = 0 THEN r1 ELSE r2
      BY <1>4, <1>6 DEF BarrierInv, PhaseExact
  <2>2. r3' + Cardinality(Present') = IF r4' = 0 THEN r1' ELSE r2'
      BY <1>1, <1>2, <1>6, <1>9, <2>1, BarrierTyped
  <2>3. r3' = 0 => BA!pc(t)' = "complete"
      BY <1>2, <1>3, <1>6
  <2> QED BY <2>2, <2>3 DEF PhaseExact
<1>11. PhasesCounted'
    BY <1>1, <1>2, <1>3, <1>8, BarrierTyped DEF PhasesCounted, BarrierInv
<1>12. BA!SleepersCurrent'
    BY <1>1, <1>2, <1>3, BarrierTyped DEF BA!SleepersCurrent, BA!StillWaiting, BarrierInv
<1> QED BY <1>2, <1>5, <1>7, <1>10, <1>11, <1>12 DEF BarrierInv

\* The next phase starts full, with nobody present and nobody asleep.
LEMMA BarrierCompletes ==
    ASSUME BarrierInv, NEW t \in Threads, BA!Complete(t)
    PROVE  BarrierInv'
<1>1. BA!TypeOK
    BY DEF BarrierInv
<1>2. /\ BA!pc(t) \in {"complete", "release"} /\ UNCHANGED <<r1, r2, r8>> /\ r6' = None
      /\ r3' = r2 /\ r5' = r2 /\ r4' = r4 + 1 /\ r7' = {}
      /\ r9' = [r9 EXCEPT ![t] = BA!At("idle", 0)]
    BY DEF BA!Complete, BA!Refill, BA!NotifyAll, BA!Return, BA!sizes
<1>3. /\ r9' \in [Threads -> [pc : {"idle", "arrive", "release", "check", "complete", "waiting"},
                              gen : 0..BARRIERCALLS]]
      /\ BA!pc(t)' = "idle" /\ r9'[t].gen = 0
      /\ \A u \in Threads \ {t} : BA!pc(u)' = BA!pc(u) /\ r9'[u].gen = r9[u].gen
  <2>1. "idle" \in BarrierLabels /\ 0 \in 0..BARRIERCALLS
      BY BarrierSets DEF BarrierLabels
  <2> QED BY <1>1, <1>2, <2>1, BarrierMoves, Zenon
<1>4. r6 = t
    BY <1>2 DEF BarrierInv, BarrierOwner
<1>5. BarrierOwner' /\ r6' \in Threads \cup {None}
    BY <1>2, <1>3, <1>4, BarrierOwns
<1>6. InCall' = InCall \ {t} /\ t \in InCall
    BY <1>2, <1>3 DEF InCall
<1>7. Cardinality(InCall') = Cardinality(InCall) - 1 /\ Cardinality(InCall') \in Nat
  <2>1. InCall' \subseteq Threads
      BY DEF InCall
  <2> QED BY <1>1, <1>6, <2>1, BarrierTyped, Quits, ThreadSets
<1>8. /\ r4 \in Nat /\ r8 \in Nat /\ r4 + Cardinality(InCall) <= r8 /\ Cardinality(InCall) \in Nat
      /\ \A u \in Threads : r9[u].gen \in Nat /\ r9[u].gen <= r4
    BY <1>1, BarrierTyped DEF BarrierInv, PhasesCounted
<1>9. r4' + Cardinality(InCall') <= r8' /\ r4' <= r8
    BY <1>2, <1>7, <1>8
<1>10. \A u \in Threads : r9'[u].gen < r4'
    BY <1>2, <1>3, <1>8
<1>11. BA!TypeOK'
  <2>1. r4' \in 0..BARRIERCALLS
      BY <1>1, <1>2, <1>8, <1>9, BarrierTyped, BarrierSets
  <2> QED BY <1>1, <1>2, <1>3, <1>5, <2>1 DEF BA!TypeOK
<1>12. PhasesCounted'
  <2>1. \A u \in Threads : r9'[u].gen <= r4'
      BY <1>2, <1>3, <1>8
  <2> QED BY <1>9, <2>1 DEF PhasesCounted
<1>13. Present' = {}
    BY <1>2, <1>3, <1>8, <1>10 DEF Present, BA!Arrived
<1>14. PhaseExact'
  <2>1. Cardinality(Present') = 0 /\ r4' # 0 /\ r2 \in Nat
      BY <1>1, <1>2, <1>8, <1>13, FS_EmptySet, BarrierTyped, BarrierSets
  <2> QED BY <1>2, <1>13, <2>1 DEF PhaseExact
<1>15. BA!SleepersCurrent'
    BY <1>2 DEF BA!SleepersCurrent
<1> QED BY <1>2, <1>5, <1>11, <1>12, <1>14, <1>15 DEF BarrierInv

LEMMA BarrierSpurious ==
    ASSUME BarrierInv, NEW t \in Threads, BA!Spurious(t)
    PROVE  BarrierInv'
<1>1. UNCHANGED <<r1, r2, r3, r4, r5, r6, r8, r9>> /\ r7' = r7 \ {t}
    BY DEF BA!Spurious, BA!sizes, BA!phase
<1>2. Present' = Present /\ InCall' = InCall /\ \A u : BA!pc(u)' = BA!pc(u)
    BY <1>1 DEF Present, BA!Arrived, InCall, BA!pc
<1>3. BA!TypeOK' /\ BA!SleepersCurrent'
    BY <1>1, <1>2 DEF BarrierInv, BA!TypeOK, BA!SleepersCurrent, BA!StillWaiting
<1> QED BY <1>1, <1>2, <1>3 DEF BarrierInv, BarrierOwner, PhaseExact, PhasesCounted

LEMMA BarrierNext == BarrierInv /\ BA!Next => BarrierInv'
BY BarrierBegin, BarrierWaits, BarrierLeaves, BarrierArrives, BarrierCompletes, BarrierSpurious
DEF BA!Next, BA!Continue

LEMMA BarrierArrivals == BarrierInv => BA!ArrivalsExact
<1> SUFFICES ASSUME BarrierInv, r6 = None
             PROVE  /\ r5 = r3
                    /\ r3 > 0 => r3 + BA!Cardinality(BA!Arrived(r4)) = IF r4 = 0 THEN r1 ELSE r2
                    /\ r3 = 0 => BA!Arrived(r4) = {}
    BY DEF BA!ArrivalsExact
<1>1. \A t \in Threads : BA!pc(t) # "complete"
    BY BarrierSets, Zenon DEF BarrierInv, BarrierOwner
<1> QED BY <1>1, BarrierSets DEF BarrierInv, PhaseExact, Present

-----------------------------------------------------------------------------
(* SpinCell: state, role, pc and calls are r1 to r4.                       *)

LEMMA SpinFacts ==
    /\ \A S : SC!Cardinality(S) = Cardinality(S)
    /\ ONE_WRITER \in Nat /\ ONE_WRITER > 1 /\ SPINCALLS \in Nat /\ Cardinality(Threads) < ONE_WRITER
BY PrimitivesAssumption DEF SC!Cardinality, Cardinality, SC!SpinAssumption

SpinLabels == {"idle", "lx", "ls", "ls_spin", "us_cas"}
SpinRoles == {"none", "reader", "writer"}
SpinWords == [hold : 0..ONE_WRITER, rp : BOOLEAN, wp : BOOLEAN]

\* A thread in a call does not hold the lock.
SpinInv ==
    /\ SC!TypeOK /\ SC!HoldersExact /\ SC!FlagsHaveWriter
    /\ \A t \in Threads : r3[t] # "idle" => r2[t] = "none"

LEMMA SpinTyped ==
    ASSUME SC!TypeOK
    PROVE  /\ r1 \in SpinWords /\ r1.hold \in Nat /\ r1.hold <= ONE_WRITER /\ r1.rp \in BOOLEAN /\ r1.wp \in BOOLEAN
           /\ r2 \in [Threads -> SpinRoles] /\ r3 \in [Threads -> SpinLabels] /\ r4 \in 0..SPINCALLS
BY SpinFacts DEF SC!TypeOK, SpinWords, SpinRoles, SpinLabels

LEMMA SpinWord ==
    ASSUME NEW h \in Nat, h <= ONE_WRITER, NEW rp \in BOOLEAN, NEW wp \in BOOLEAN
    PROVE  /\ SC!Word(h, rp, wp) \in SpinWords
           /\ SC!Word(h, rp, wp).hold = h /\ SC!Word(h, rp, wp).rp = rp /\ SC!Word(h, rp, wp).wp = wp
BY SpinFacts DEF SC!Word, SpinWords

LEMMA SpinUnlocked ==
    SC!UNLOCKED \in SpinWords /\ SC!UNLOCKED.hold = 0 /\ ~SC!UNLOCKED.rp /\ ~SC!UNLOCKED.wp
BY SpinFacts DEF SC!UNLOCKED, SC!Word, SpinWords

LEMMA SpinHolding ==
    ASSUME NEW r
    PROVE  /\ SC!Holding(r) \subseteq Threads /\ IsFiniteSet(SC!Holding(r))
           /\ Cardinality(SC!Holding(r)) \in Nat /\ SC!Cardinality(SC!Holding(r)) = Cardinality(SC!Holding(r))
<1>1. SC!Holding(r) \subseteq Threads
    BY DEF SC!Holding
<1> QED BY <1>1, ThreadSets, SpinFacts

\* What HoldersExact says in the states a thread meets.
LEMMA SpinHolders ==
    ASSUME SC!TypeOK, SC!HoldersExact
    PROVE  /\ r1.hold = 0 => SC!Holding("writer") = {} /\ SC!Holding("reader") = {}
           /\ r1.hold = ONE_WRITER <=> SC!Holding("writer") # {}
           /\ r1.hold # ONE_WRITER => r1.hold = Cardinality(SC!Holding("reader"))
           /\ \A t \in Threads : r2[t] = "writer" => SC!Holding("writer") = {t} /\ SC!Holding("reader") = {}
           /\ \A t \in Threads : r2[t] = "reader" =>
                 SC!Holding("writer") = {} /\ r1.hold # 0 /\ r1.hold # ONE_WRITER
<1>1. r1.hold \in Nat /\ ONE_WRITER \in Nat /\ ONE_WRITER > 1
    BY SpinTyped, SpinFacts
<1>2. r1.hold = ONE_WRITER <=> SC!Holding("writer") # {}
    BY <1>1 DEF SC!HoldersExact, SC!is_writer_locked
<1>3. r1.hold # ONE_WRITER => r1.hold = Cardinality(SC!Holding("reader"))
    BY <1>2, SpinHolding DEF SC!HoldersExact
<1>4. r1.hold = 0 => SC!Holding("writer") = {} /\ SC!Holding("reader") = {}
    BY <1>1, <1>2, <1>3, SpinHolding, FS_EmptySet
<1>5. ASSUME NEW t \in Threads, r2[t] = "writer"
      PROVE  SC!Holding("writer") = {t} /\ SC!Holding("reader") = {}
  <2>1. t \in SC!Holding("writer")
      BY <1>5 DEF SC!Holding
  <2>2. Cardinality(SC!Holding("writer")) = 1 /\ SC!Holding("reader") = {}
      BY <2>1, SpinHolding DEF SC!HoldersExact
  <2>3. PICK x : SC!Holding("writer") = {x}
      BY <2>2, SpinHolding, FS_Singleton, Zenon
  <2> QED BY <2>1, <2>2, <2>3
<1>6. ASSUME NEW t \in Threads, r2[t] = "reader"
      PROVE  SC!Holding("writer") = {} /\ r1.hold # 0 /\ r1.hold # ONE_WRITER
  <2>1. t \in SC!Holding("reader")
      BY <1>6 DEF SC!Holding
  <2>2. SC!Holding("writer") = {}
      BY <2>1 DEF SC!HoldersExact
  <2> QED BY <1>1, <1>2, <1>4, <2>1, <2>2
<1> QED BY <1>2, <1>3, <1>4, <1>5, <1>6

\* A change of t's role changes who holds the lock, for t alone.
LEMMA SpinRole ==
    ASSUME SC!TypeOK, NEW t \in Threads, NEW r \in SpinRoles, SC!Becomes(t, r)
    PROVE  /\ r2' \in [Threads -> SpinRoles] /\ r2'[t] = r /\ \A u \in Threads \ {t} : r2'[u] = r2[u]
           /\ \A q : SC!Holding(q)' = IF q = r THEN SC!Holding(q) \cup {t} ELSE SC!Holding(q) \ {t}
<1>1. r2' \in [Threads -> SpinRoles] /\ r2'[t] = r /\ \A u \in Threads \ {t} : r2'[u] = r2[u]
    BY SpinTyped DEF SC!Becomes
<1>2. ASSUME NEW q
      PROVE  SC!Holding(q)' = IF q = r THEN SC!Holding(q) \cup {t} ELSE SC!Holding(q) \ {t}
    BY <1>1 DEF SC!Holding
<1> QED BY <1>1, <1>2

LEMMA SpinPc ==
    ASSUME SC!TypeOK, NEW t \in Threads, NEW label \in SpinLabels, SC!Goto(t, label)
    PROVE  r3' \in [Threads -> SpinLabels] /\ r3'[t] = label /\ \A u \in Threads \ {t} : r3'[u] = r3[u]
BY SpinTyped DEF SC!Goto

LEMMA SpinInit == SC!Init => SpinInv
<1> SUFFICES ASSUME SC!Init PROVE SpinInv
    OBVIOUS
<1>1. SC!TypeOK
    BY SpinUnlocked, SpinFacts DEF SC!Init, SC!TypeOK, SpinWords
<1>2. SC!Holding("writer") = {} /\ SC!Holding("reader") = {}
    BY DEF SC!Init, SC!Holding
<1>3. SC!HoldersExact
  <2>1. r1.hold = 0 /\ SC!Cardinality(SC!Holding("reader")) = 0
      BY <1>2, SpinUnlocked, FS_EmptySet, SpinFacts DEF SC!Init
  <2> QED BY <1>2, <2>1, SpinFacts DEF SC!HoldersExact
<1>4. SC!FlagsHaveWriter
    BY SpinUnlocked DEF SC!Init, SC!FlagsHaveWriter
<1> QED BY <1>1, <1>3, <1>4 DEF SpinInv, SC!Init

\* A writer takes the lock that nobody holds, with the flags it finds or none.
LEMMA SpinWriterEnters ==
    ASSUME SpinInv, NEW t \in Threads, r1.hold = 0, r1' \in SpinWords, r1'.hold = ONE_WRITER,
           SC!Becomes(t, "writer"), r4' \in 0..SPINCALLS,
           r3' \in [Threads -> SpinLabels], r3'[t] = "idle", \A u \in Threads \ {t} : r3'[u] = r3[u]
    PROVE  SpinInv'
<1>1. SC!TypeOK /\ SC!HoldersExact
    BY DEF SpinInv
<1>2. SC!Holding("writer") = {} /\ SC!Holding("reader") = {}
    BY <1>1, SpinHolders
<1>3. /\ r2' \in [Threads -> SpinRoles] /\ r2'[t] = "writer" /\ \A u \in Threads \ {t} : r2'[u] = r2[u]
      /\ SC!Holding("writer")' = {t} /\ SC!Holding("reader")' = {}
    BY <1>1, <1>2, SpinRole DEF SpinRoles
<1>4. SC!HoldersExact'
  <2>1. SC!Cardinality({t}) = 1
      BY FS_Singleton, SpinFacts, Zenon
  <2> QED BY <1>3, <2>1 DEF SC!HoldersExact, SC!is_writer_locked
<1>5. SC!TypeOK'
    BY <1>3 DEF SC!TypeOK, SpinWords, SpinRoles, SpinLabels
<1>6. SC!FlagsHaveWriter'
    BY <1>3 DEF SC!FlagsHaveWriter, SC!is_writer_locked
<1> QED BY <1>3, <1>4, <1>5, <1>6 DEF SpinInv

\* One more reader: no writer holds or waits, so no flag is set; and there are
\* fewer threads than the word has room for.
LEMMA SpinReaderEnters ==
    ASSUME SpinInv, NEW t \in Threads, SC!Admits(r1), SC!Enter(t), r2[t] = "none", r4' \in 0..SPINCALLS
    PROVE  SpinInv'
<1>1. SC!TypeOK /\ SC!HoldersExact /\ r1.hold # ONE_WRITER /\ ~r1.wp
    BY DEF SpinInv, SC!Admits, SC!is_writer_locked
<1>2. /\ r1.hold \in Nat /\ SC!Holding("writer") = {} /\ r1.hold = Cardinality(SC!Holding("reader"))
      /\ r1.rp \in BOOLEAN /\ r1.wp \in BOOLEAN
    BY <1>1, SpinHolders, SpinTyped
<1>3. /\ r2' \in [Threads -> SpinRoles] /\ r2'[t] = "reader" /\ \A u \in Threads \ {t} : r2'[u] = r2[u]
      /\ SC!Holding("writer")' = {} /\ SC!Holding("reader")' = SC!Holding("reader") \cup {t}
    BY <1>1, <1>2, SpinRole DEF SC!Enter, SpinRoles
<1>4. r3' \in [Threads -> SpinLabels] /\ r3'[t] = "idle" /\ \A u \in Threads \ {t} : r3'[u] = r3[u]
    BY <1>1, SpinPc DEF SC!Enter, SpinLabels
<1>5. r1.hold + 1 = Cardinality(SC!Holding("reader") \cup {t}) /\ r1.hold + 1 < ONE_WRITER
  <2>1. t \notin SC!Holding("reader")
      BY DEF SC!Holding
  <2>2. Cardinality(SC!Holding("reader") \cup {t}) = Cardinality(SC!Holding("reader")) + 1
      BY <2>1, SpinHolding, Joins
  <2>3. Cardinality(SC!Holding("reader") \cup {t}) <= Cardinality(Threads) /\ Cardinality(Threads) \in Nat
      BY SpinHolding, FS_Subset, ThreadSets
  <2> QED BY <1>2, <2>2, <2>3, SpinFacts
<1>6. r1' \in SpinWords /\ r1'.hold = r1.hold + 1 /\ r1'.rp = r1.rp /\ r1'.wp = r1.wp
    BY <1>2, <1>5, SpinWord, SpinFacts DEF SC!Enter
<1>7. SC!HoldersExact'
    BY <1>3, <1>5, <1>6, SpinFacts DEF SC!HoldersExact
<1>8. SC!TypeOK'
    BY <1>3, <1>4, <1>6 DEF SC!TypeOK, SpinWords, SpinRoles, SpinLabels
<1>9. SC!FlagsHaveWriter'
    BY <1>1, <1>6 DEF SpinInv, SC!FlagsHaveWriter, SC!is_writer_locked
<1>10. \A u \in Threads : r3'[u] # "idle" => r2'[u] = "none"
    BY <1>3, <1>4 DEF SpinInv
<1> QED BY <1>7, <1>8, <1>9, <1>10 DEF SpinInv

\* Steps that change no holder, and set a flag or clear it.
LEMMA SpinFlagStep ==
    ASSUME SpinInv, NEW t \in Threads, r2' = r2, r2[t] = "none", r4' \in 0..SPINCALLS,
           r1' \in SpinWords, r1'.hold = r1.hold,
           r3' \in [Threads -> SpinLabels], \A u \in Threads \ {t} : r3'[u] = r3[u],
           r3[t] = "lx" => r3'[t] = "lx",
           r1'.wp => r1.wp \/ r3'[t] = "lx",
           r1'.rp => r1'.wp \/ r1.hold = ONE_WRITER
    PROVE  SpinInv'
<1>1. SC!TypeOK'
    BY DEF SpinInv, SC!TypeOK, SpinWords, SpinRoles, SpinLabels
<1>2. \A q : SC!Holding(q)' = SC!Holding(q)
    BY DEF SC!Holding
<1>3. SC!HoldersExact'
    BY <1>2 DEF SpinInv, SC!HoldersExact, SC!is_writer_locked
<1>4. SC!FlagsHaveWriter'
    BY DEF SpinInv, SC!FlagsHaveWriter, SC!is_writer_locked
<1> QED BY <1>1, <1>3, <1>4 DEF SpinInv

LEMMA SpinLocks ==
    ASSUME SpinInv, NEW t \in Threads, SC!LockExclusive(t) \/ SC!LockShared(t)
    PROVE  SpinInv'
<1>1. SC!TypeOK /\ r3[t] = "idle" /\ r2[t] = "none" /\ r4' \in 0..SPINCALLS
  <2>1. r3[t] = "idle" /\ r2[t] = "none" /\ r4 < SPINCALLS /\ r4' = r4 + 1
      BY Zenon DEF SC!LockExclusive, SC!LockShared, SC!Begin
  <2>2. r4 \in 0..SPINCALLS
      BY SpinTyped DEF SpinInv
  <2> QED BY <2>1, <2>2, SpinFacts DEF SpinInv
<1>2. r1 \in SpinWords /\ r1.hold = r1.hold /\ (r1.rp => r1.wp \/ r1.hold = ONE_WRITER)
    BY <1>1, SpinTyped DEF SpinInv, SC!FlagsHaveWriter, SC!is_writer_locked
<1>3. CASE SC!LockExclusive(t) /\ r1 = SC!UNLOCKED
  <2>1. r1' = SC!Word(ONE_WRITER, FALSE, FALSE) /\ SC!Becomes(t, "writer") /\ r3' = r3
      BY <1>3 DEF SC!LockExclusive
  <2>2. r1' \in SpinWords /\ r1'.hold = ONE_WRITER /\ r1.hold = 0
    <3>1. ONE_WRITER \in Nat /\ ONE_WRITER <= ONE_WRITER
        BY SpinFacts
    <3> QED BY <1>3, <2>1, <3>1, SpinWord, SpinUnlocked, Zenon
  <2> QED BY <1>1, <2>1, <2>2, SpinWriterEnters, SpinTyped, Zenon
<1>4. CASE SC!LockExclusive(t) /\ r1 # SC!UNLOCKED
  <2>1. SC!Goto(t, "lx") /\ r1' = r1 /\ r2' = r2
      BY <1>4 DEF SC!LockExclusive
  <2>2. r3' \in [Threads -> SpinLabels] /\ r3'[t] = "lx" /\ \A u \in Threads \ {t} : r3'[u] = r3[u]
      BY <1>1, <2>1, SpinPc DEF SpinLabels
  <2> QED BY <1>1, <1>2, <2>1, <2>2, SpinFlagStep
<1>5. CASE SC!LockShared(t) /\ SC!AdmitsFast(r1) /\ SC!Enter(t)
    BY <1>1, <1>5, SpinReaderEnters DEF SC!AdmitsFast
<1>6. CASE SC!LockShared(t) /\ SC!Goto(t, "ls") /\ UNCHANGED <<r1, r2>>
  <2>1. r3' \in [Threads -> SpinLabels] /\ r3'[t] = "ls" /\ \A u \in Threads \ {t} : r3'[u] = r3[u]
      BY <1>1, <1>6, SpinPc DEF SpinLabels
  <2> QED BY <1>1, <1>2, <1>6, <2>1, SpinFlagStep
<1> QED BY <1>3, <1>4, <1>5, <1>6 DEF SC!LockShared

\* The slow paths: take the lock, or set a flag and look again.
LEMMA SpinSlow ==
    ASSUME SpinInv, NEW t \in Threads,
           SC!LxAcquire(t) \/ SC!LxPark(t) \/ SC!LsEnter(t) \/ SC!LsPark(t) \/ SC!LsSpin(t) \/ SC!UsCas(t)
    PROVE  SpinInv'
<1>1. SC!TypeOK /\ r3[t] \in SpinLabels \ {"idle"} /\ r2[t] = "none" /\ r4' \in 0..SPINCALLS
  <2>1. r3[t] \in SpinLabels \ {"idle"} /\ r4' = r4
      BY Zenon DEF SC!LxAcquire, SC!LxPark, SC!LsEnter, SC!LsPark, SC!LsSpin, SC!UsCas, SpinLabels
  <2> QED BY <2>1, SpinTyped DEF SpinInv
<1>2. /\ r1 \in SpinWords /\ r1.hold \in Nat /\ r1.hold <= ONE_WRITER /\ r1.rp \in BOOLEAN /\ r1.wp \in BOOLEAN
      /\ r1.rp => r1.wp \/ r1.hold = ONE_WRITER
    BY <1>1, SpinTyped DEF SpinInv, SC!FlagsHaveWriter, SC!is_writer_locked
<1>3. CASE SC!LxAcquire(t)
  <2>1. r1.hold = 0 /\ r1' = SC!Word(ONE_WRITER, r1.rp, r1.wp) /\ SC!Becomes(t, "writer") /\ SC!Goto(t, "idle")
      BY <1>3 DEF SC!LxAcquire
  <2>2. r1' \in SpinWords /\ r1'.hold = ONE_WRITER
      BY <1>2, <2>1, SpinWord, SpinFacts
  <2>3. r3' \in [Threads -> SpinLabels] /\ r3'[t] = "idle" /\ \A u \in Threads \ {t} : r3'[u] = r3[u]
      BY <1>1, <2>1, SpinPc DEF SpinLabels
  <2> QED BY <1>1, <2>1, <2>2, <2>3, SpinWriterEnters
<1>4. CASE SC!LxPark(t)
  <2>1. r3[t] = "lx" /\ r1' = SC!Word(r1.hold, r1.rp, TRUE) /\ r2' = r2 /\ r3' = r3
      BY <1>4 DEF SC!LxPark
  <2>2. r1' \in SpinWords /\ r1'.hold = r1.hold /\ r1'.wp
      BY <1>2, <2>1, SpinWord, Zenon
  <2> QED BY <1>1, <1>2, <2>1, <2>2, SpinFlagStep, SpinTyped, Zenon
<1>5. CASE SC!LsEnter(t)
    BY <1>1, <1>5, SpinReaderEnters DEF SC!LsEnter
<1>6. CASE SC!LsPark(t)
  <2>1. /\ r3[t] = "ls" /\ r1' = SC!Word(r1.hold, TRUE, r1.wp) /\ r2' = r2 /\ SC!Goto(t, "ls_spin")
        /\ r1.hold = ONE_WRITER \/ r1.wp
      BY <1>6 DEF SC!LsPark, SC!Admits, SC!is_writer_locked
  <2>2. r1' \in SpinWords /\ r1'.hold = r1.hold /\ r1'.wp = r1.wp
      BY <1>2, <2>1, SpinWord, Zenon
  <2>3. r3' \in [Threads -> SpinLabels] /\ \A u \in Threads \ {t} : r3'[u] = r3[u]
      BY <1>1, <2>1, SpinPc DEF SpinLabels
  <2> QED BY <1>1, <2>1, <2>2, <2>3, SpinFlagStep, Zenon
<1>7. CASE SC!LsSpin(t)
  <2>1. r3[t] = "ls_spin" /\ r1' = r1 /\ r2' = r2 /\ SC!Goto(t, "ls")
      BY <1>7 DEF SC!LsSpin
  <2>2. r3' \in [Threads -> SpinLabels] /\ \A u \in Threads \ {t} : r3'[u] = r3[u]
      BY <1>1, <2>1, SpinPc DEF SpinLabels
  <2> QED BY <1>1, <1>2, <2>1, <2>2, SpinFlagStep
<1>8. CASE SC!UsCas(t)
  <2>1. r3[t] = "us_cas" /\ r2' = r2 /\ SC!Goto(t, "idle") /\ r1' = SC!Cleared
      BY <1>8 DEF SC!UsCas
  <2>2. r3' \in [Threads -> SpinLabels] /\ \A u \in Threads \ {t} : r3'[u] = r3[u]
      BY <1>1, <2>1, SpinPc DEF SpinLabels
  <2>3. CASE r1 = SC!Word(0, FALSE, TRUE)
    <3>1. r1' = SC!UNLOCKED /\ r1.hold = 0
        BY <2>1, <2>3 DEF SC!Cleared, SC!Word
    <3> QED BY <1>1, <2>1, <2>2, <3>1, SpinUnlocked, SpinFlagStep
  <2>4. CASE r1 # SC!Word(0, FALSE, TRUE)
    <3>1. r1' = r1
        BY <2>1, <2>4 DEF SC!Cleared
    <3> QED BY <1>1, <1>2, <2>1, <2>2, <3>1, SpinFlagStep
  <2> QED BY <2>3, <2>4, Zenon
<1> QED BY <1>3, <1>4, <1>5, <1>6, <1>7, <1>8

LEMMA SpinUnlockExclusive ==
    ASSUME SpinInv, NEW t \in Threads, SC!UnlockExclusive(t)
    PROVE  SpinInv'
<1>1. SC!TypeOK /\ SC!HoldersExact /\ r1' = SC!UNLOCKED /\ SC!Becomes(t, "none") /\ r2[t] = "writer"
      /\ r3' = r3 /\ r4' = r4 /\ r3[t] = "idle"
    BY DEF SpinInv, SC!UnlockExclusive, SC!Released
<1>2. SC!Holding("writer") = {t} /\ SC!Holding("reader") = {}
    BY <1>1, SpinHolders
<1>3. /\ r2' \in [Threads -> SpinRoles] /\ \A u \in Threads \ {t} : r2'[u] = r2[u]
      /\ SC!Holding("writer")' = {} /\ SC!Holding("reader")' = {}
    BY <1>1, <1>2, SpinRole DEF SpinRoles
<1>4. SC!HoldersExact'
  <2>1. SC!Cardinality({}) = 0
      BY FS_EmptySet, SpinFacts
  <2> QED BY <1>1, <1>3, <2>1, SpinUnlocked, SpinFacts DEF SC!HoldersExact
<1>5. SC!TypeOK'
    BY <1>1, <1>3, SpinUnlocked DEF SC!TypeOK, SpinWords, SpinRoles, SpinLabels
<1>6. SC!FlagsHaveWriter'
    BY <1>1, SpinUnlocked DEF SC!FlagsHaveWriter
<1> QED BY <1>1, <1>3, <1>4, <1>5, <1>6 DEF SpinInv

\* The readers leave, one or all: the flags stay with the writer they have.
LEMMA SpinReadersLeave ==
    ASSUME SpinInv, NEW t \in Threads, r2[t] = "reader", r4' = r4,
           r2' \in [Threads -> SpinRoles], \A u \in Threads : r2'[u] = r2[u] \/ (r2[u] = "reader" /\ r2'[u] = "none"),
           r2'[t] = "none", r1' \in SpinWords, r1'.rp = r1.rp, r1'.wp = r1.wp,
           r1'.hold = Cardinality(SC!Holding("reader")'), r1'.hold < ONE_WRITER,
           r3[t] = "idle", r3' \in [Threads -> SpinLabels], \A u \in Threads \ {t} : r3'[u] = r3[u]
    PROVE  SpinInv'
<1>1. SC!TypeOK /\ SC!HoldersExact
    BY DEF SpinInv
<1>2. SC!Holding("writer") = {} /\ r1.hold # ONE_WRITER
    BY <1>1, SpinHolders
<1>3. SC!Holding("writer")' = {}
    BY <1>2 DEF SC!Holding
<1>4. SC!HoldersExact'
    BY <1>3, SpinFacts DEF SC!HoldersExact
<1>5. SC!TypeOK'
    BY <1>1 DEF SC!TypeOK, SpinWords, SpinRoles, SpinLabels
<1>6. SC!FlagsHaveWriter'
    BY <1>2 DEF SpinInv, SC!FlagsHaveWriter, SC!is_writer_locked
<1>7. \A u \in Threads : r3'[u] # "idle" => r2'[u] = "none"
    BY DEF SpinInv
<1> QED BY <1>4, <1>5, <1>6, <1>7 DEF SpinInv

LEMMA SpinUnlockShared ==
    ASSUME SpinInv, NEW t \in Threads, SC!UnlockShared(t)
    PROVE  SpinInv'
<1>1. /\ SC!TypeOK /\ SC!HoldersExact /\ r1' = SC!Word(r1.hold - 1, r1.rp, r1.wp) /\ SC!Becomes(t, "none")
      /\ r2[t] = "reader" /\ r4' = r4 /\ r3[t] = "idle"
      /\ \E label \in {"us_cas", "idle"} : SC!Goto(t, label)
    BY Zenon DEF SpinInv, SC!UnlockShared
<1>2. /\ r3' \in [Threads -> SpinLabels] /\ \A u \in Threads \ {t} : r3'[u] = r3[u]
    BY <1>1, SpinPc DEF SpinLabels
<1>3. /\ r1.hold \in Nat /\ r1.hold < ONE_WRITER /\ r1.hold # 0 /\ r1.rp \in BOOLEAN /\ r1.wp \in BOOLEAN
      /\ r1.hold = Cardinality(SC!Holding("reader"))
    BY <1>1, SpinHolders, SpinTyped, SpinFacts
<1>4. r1' \in SpinWords /\ r1'.hold = r1.hold - 1 /\ r1'.rp = r1.rp /\ r1'.wp = r1.wp
    BY <1>1, <1>3, SpinWord, SpinFacts
<1>5. /\ r2' \in [Threads -> SpinRoles] /\ r2'[t] = "none" /\ \A u \in Threads \ {t} : r2'[u] = r2[u]
      /\ SC!Holding("reader")' = SC!Holding("reader") \ {t}
    BY <1>1, SpinRole DEF SpinRoles
<1>6. Cardinality(SC!Holding("reader") \ {t}) = Cardinality(SC!Holding("reader")) - 1
  <2>1. t \in SC!Holding("reader")
      BY <1>1 DEF SC!Holding
  <2> QED BY <2>1, SpinHolding, Quits
<1>7. r1'.hold = Cardinality(SC!Holding("reader")') /\ r1'.hold < ONE_WRITER
    BY <1>3, <1>4, <1>5, <1>6, SpinFacts
<1> QED BY <1>1, <1>2, <1>4, <1>5, <1>7, SpinReadersLeave

LEMMA SpinUnlockAll ==
    ASSUME SpinInv, NEW t \in Threads, SC!UnlockAllShared(t)
    PROVE  SpinInv'
<1>1. /\ SC!TypeOK /\ r1' = SC!Word(0, r1.rp, r1.wp) /\ r2[t] = "reader" /\ r4' = r4 /\ r3' = r3
      /\ r2' = [u \in Threads |-> IF r2[u] = "reader" THEN "none" ELSE r2[u]] /\ r3[t] = "idle"
    BY DEF SpinInv, SC!UnlockAllShared, SC!BulkReleased
<1>2. r1.rp \in BOOLEAN /\ r1.wp \in BOOLEAN /\ r2 \in [Threads -> SpinRoles] /\ r3 \in [Threads -> SpinLabels]
    BY <1>1, SpinTyped
<1>3. r1' \in SpinWords /\ r1'.hold = 0 /\ r1'.rp = r1.rp /\ r1'.wp = r1.wp
    BY <1>1, <1>2, SpinWord, SpinFacts
<1>4. /\ r2' \in [Threads -> SpinRoles] /\ r2'[t] = "none"
      /\ \A u \in Threads : r2'[u] = r2[u] \/ (r2[u] = "reader" /\ r2'[u] = "none")
    BY <1>1, <1>2 DEF SpinRoles
<1>5. SC!Holding("reader")' = {}
    BY <1>1 DEF SC!Holding
<1>6. r1'.hold = Cardinality(SC!Holding("reader")') /\ r1'.hold < ONE_WRITER
    BY <1>3, <1>5, FS_EmptySet, SpinFacts
<1> QED BY <1>1, <1>2, <1>3, <1>4, <1>6, SpinReadersLeave

LEMMA SpinNext == SpinInv /\ SC!Next => SpinInv'
BY SpinLocks, SpinSlow, SpinUnlockExclusive, SpinUnlockShared, SpinUnlockAll DEF SC!Next, SC!Step
LEMMA ParkerStutter == ParkerInv /\ UNCHANGED vars => ParkerInv'
<1> SUFFICES ASSUME ParkerInv, UNCHANGED vars PROVE ParkerInv'
    OBVIOUS
<1>1. r1' = r1 /\ r2' = r2 /\ r3' = r3 /\ r4' = r4
    BY DEF vars
<1> QED BY <1>1 DEF ParkerInv, TP!TypeOK, TP!NoLostToken, TP!Busy

LEMMA BarrierStutter == BarrierInv /\ UNCHANGED vars => BarrierInv'
<1> SUFFICES ASSUME BarrierInv, UNCHANGED vars PROVE BarrierInv'
    OBVIOUS
<1>1. /\ r1' = r1 /\ r2' = r2 /\ r3' = r3 /\ r4' = r4 /\ r5' = r5 /\ r6' = r6 /\ r7' = r7 /\ r8' = r8
      /\ r9' = r9
    BY DEF vars
<1>2. Present' = Present /\ InCall' = InCall
    BY <1>1 DEF Present, InCall, BA!Arrived, BA!pc
<1>3. BA!TypeOK'
    BY <1>1 DEF BarrierInv, BA!TypeOK
<1>4. BarrierOwner'
    BY <1>1 DEF BarrierInv, BarrierOwner, BA!pc
<1>5. PhaseExact'
    BY <1>1, <1>2 DEF BarrierInv, PhaseExact, BA!pc
<1>6. PhasesCounted' /\ BA!SleepersCurrent'
    BY <1>1, <1>2 DEF BarrierInv, PhasesCounted, BA!SleepersCurrent, BA!StillWaiting, BA!pc
<1> QED BY <1>1, <1>3, <1>4, <1>5, <1>6 DEF BarrierInv

LEMMA SpinStutter == SpinInv /\ UNCHANGED vars => SpinInv'
<1> SUFFICES ASSUME SpinInv, UNCHANGED vars PROVE SpinInv'
    OBVIOUS
<1>1. r1' = r1 /\ r2' = r2 /\ r3' = r3 /\ r4' = r4
    BY DEF vars
<1>2. SC!TypeOK' /\ SC!FlagsHaveWriter'
    BY <1>1 DEF SpinInv, SC!TypeOK, SC!FlagsHaveWriter
<1>3. SC!HoldersExact'
    BY <1>1 DEF SpinInv, SC!HoldersExact, SC!Holding, SC!is_writer_locked
<1> QED BY <1>1, <1>2, <1>3 DEF SpinInv

-----------------------------------------------------------------------------
(* The suite: a behaviour is one primitive's, the one `which' names.       *)

LEMMA SuiteStarts ==
    Init => /\ Smutex => SM!Init
            /\ Channel => CH!Init
            /\ Parker => TP!Init
            /\ Bar => BA!Init
            /\ Spin => SC!Init
BY DEF Init, Smutex, Channel, Parker, Bar, Spin

LEMMA SuiteSteps ==
    [Next]_vars =>
        /\ Smutex => SM!Next \/ UNCHANGED vars
        /\ Channel => CH!Next \/ UNCHANGED vars
        /\ Parker => TP!Next \/ UNCHANGED vars
        /\ Bar => BA!Next \/ UNCHANGED vars
        /\ Spin => SC!Next \/ UNCHANGED vars
BY DEF Next, Smutex, Channel, Parker, Bar, Spin

LEMMA SameSuite ==
    [Next]_vars =>
        /\ Smutex' = Smutex
        /\ Channel' = Channel
        /\ Parker' = Parker
        /\ Bar' = Bar
        /\ Spin' = Spin
BY DEF Next, vars, Smutex, Channel, Parker, Bar, Spin

\* The inductive invariant of the three primitives proved in this module.
SmallInv ==
    /\ Parker => ParkerInv
    /\ Bar => BarrierInv
    /\ Spin => SpinInv

LEMMA SmallInit == Init => SmallInv
BY SuiteStarts, ParkerInit, BarrierInit, SpinInit DEF SmallInv

LEMMA SmallNext == SmallInv /\ [Next]_vars => SmallInv'
<1> SUFFICES ASSUME SmallInv, [Next]_vars PROVE SmallInv'
    OBVIOUS
<1>1. Parker => ParkerInv'
    BY SuiteSteps, ParkerNext, ParkerStutter DEF SmallInv
<1>2. Bar => BarrierInv'
    BY SuiteSteps, BarrierNext, BarrierStutter DEF SmallInv
<1>3. Spin => SpinInv'
    BY SuiteSteps, SpinNext, SpinStutter DEF SmallInv
<1> QED BY <1>1, <1>2, <1>3, SameSuite DEF SmallInv

LEMMA SmallSafe ==
    SmallInv => /\ Parker => TP!TypeOK /\ TP!NoLostToken
                /\ Bar => BA!TypeOK /\ BA!ArrivalsExact /\ BA!SleepersCurrent
                /\ Spin => SC!TypeOK /\ SC!HoldersExact /\ SC!FlagsHaveWriter
BY BarrierArrivals DEF SmallInv, ParkerInv, BarrierInv, SpinInv


-----------------------------------------------------------------------------
(* SMutex: its own proofs, on the registers of the suite.                  *)

SMutexProof == INSTANCE SMutexProofs WITH MAXCALLS <- SMUTEXCALLS,
    word <- r1, owner <- r2, recursion <- r3, asleep <- r4, held <- r5, call <- r6, calls <- r7

LEMMA SMutexSets ==
    /\ \A S : SMutexProof!IsFiniteSet(S) <=> SM!IsFiniteSet(S)
    /\ \A S : SMutexProof!Cardinality(S) = SM!Cardinality(S)
<1>1. \A S : SMutexProof!IsFiniteSet(S) <=> SM!IsFiniteSet(S)
    BY DEF SMutexProof!IsFiniteSet, SM!IsFiniteSet
<1>2. \A S : SMutexProof!Cardinality(S) = SM!Cardinality(S)
    BY DEF SMutexProof!Cardinality, SM!Cardinality, SMutexProof!IsFiniteSet, SM!IsFiniteSet
<1> QED BY <1>1, <1>2

LEMMA SMutexGiven == SMutexProof!SMutexAssumption
<1>1. SM!SMutexAssumption
    BY PrimitivesAssumption
<1> QED BY <1>1, SMutexSets DEF SMutexProof!SMutexAssumption, SM!SMutexAssumption

LEMMA SMutexSame ==
    /\ SM!Init => SMutexProof!Init
    /\ SM!Next => SMutexProof!Next
    /\ SMutexProof!TypeOK => SM!TypeOK
    /\ SMutexProof!NoLostWakeup => SM!NoLostWakeup
    /\ SMutexProof!GuardsExact => SM!GuardsExact
<1>1. SM!Init => SMutexProof!Init
    BY DEF SM!Init, SMutexProof!Init, SM!UNLOCKED, SMutexProof!UNLOCKED
<1>2. SM!Next => SMutexProof!Next
    BY Zenon DEF SM!Next, SM!Step, SM!Continue, SM!Drop, SM!Lock, SM!LockGroup, SM!Interrupt, SM!LockCasOk,
           SM!LockCasFailed, SM!LockOwn, SM!LockLoad, SM!LockWait, SM!GroupLoad, SM!GroupCasOk,
           SM!GroupCasFailed, SM!GroupCheck, SM!GroupWait, SM!Release, SM!Wake, SM!RawUnlock,
           SM!RawUnlockGroup, SM!DropOwned, SM!Enter, SM!Sleep, SM!Awake, SM!Joins, SM!LastOfGroup,
           SM!Goto, SM!GotoWith, SM!Hold, SM!Unhold, SM!pc, SM!lock, SM!Locked, SM!UNLOCKED, SM!LOCKED,
           SM!ONE_GROUP,
           SMutexProof!Next, SMutexProof!Step, SMutexProof!Continue, SMutexProof!Drop, SMutexProof!Lock,
           SMutexProof!LockGroup, SMutexProof!Interrupt, SMutexProof!LockCasOk,
           SMutexProof!LockCasFailed, SMutexProof!LockOwn, SMutexProof!LockLoad, SMutexProof!LockWait,
           SMutexProof!GroupLoad, SMutexProof!GroupCasOk, SMutexProof!GroupCasFailed,
           SMutexProof!GroupCheck, SMutexProof!GroupWait, SMutexProof!Release, SMutexProof!Wake,
           SMutexProof!RawUnlock, SMutexProof!RawUnlockGroup, SMutexProof!DropOwned, SMutexProof!Enter,
           SMutexProof!Sleep, SMutexProof!Awake, SMutexProof!Joins, SMutexProof!LastOfGroup,
           SMutexProof!Goto, SMutexProof!GotoWith, SMutexProof!Hold, SMutexProof!Unhold,
           SMutexProof!pc, SMutexProof!lock, SMutexProof!Locked, SMutexProof!UNLOCKED,
           SMutexProof!LOCKED, SMutexProof!ONE_GROUP
<1>3. SMutexProof!TypeOK => SM!TypeOK
    BY DEF SM!TypeOK, SMutexProof!TypeOK, SM!Labels, SMutexProof!Labels, SM!LOCKED, SMutexProof!LOCKED,
           SM!ONE_GROUP, SMutexProof!ONE_GROUP
<1>4. SMutexProof!NoLostWakeup => SM!NoLostWakeup
    BY DEF SM!NoLostWakeup, SMutexProof!NoLostWakeup, SM!pc, SMutexProof!pc, SM!UNLOCKED,
           SMutexProof!UNLOCKED
<1>5. SMutexProof!GuardsExact => SM!GuardsExact
    BY SMutexSets DEF SM!GuardsExact, SMutexProof!GuardsExact, SM!Exclusive, SMutexProof!Exclusive,
           SM!GroupGuards, SMutexProof!GroupGuards, SM!pc, SMutexProof!pc, SM!Locked, SMutexProof!Locked,
           SM!LOCKED, SMutexProof!LOCKED, SM!ONE_GROUP, SMutexProof!ONE_GROUP
<1> QED BY <1>1, <1>2, <1>3, <1>4, <1>5

LEMMA SMutexHolds ==
    /\ SM!Init => SMutexProof!IInv
    /\ SMutexProof!IInv /\ (SM!Next \/ UNCHANGED vars) => SMutexProof!IInv'
    /\ SMutexProof!IInv => SM!TypeOK /\ SM!GuardsExact /\ SM!NoLostWakeup
<1>1. SM!Init => SMutexProof!IInv
    BY SMutexSame, SMutexGiven, SMutexProof!InitIInv
<1>2. UNCHANGED vars => UNCHANGED SMutexProof!vars
    BY DEF vars, SMutexProof!vars
<1>3. SMutexProof!IInv /\ (SM!Next \/ UNCHANGED vars) => SMutexProof!IInv'
    BY <1>2, SMutexSame, SMutexGiven, SMutexProof!NextIInv, SMutexProof!StutterIInv
<1>4. SMutexProof!IInv => SM!TypeOK /\ SM!GuardsExact /\ SM!NoLostWakeup
    BY SMutexSame, SMutexGiven, SMutexProof!GuardsAreExact, SMutexProof!WakeIsComing
       DEF SMutexProof!IInv
<1> QED BY <1>1, <1>3, <1>4

-----------------------------------------------------------------------------
(* Mpmc, likewise.                                                         *)

MpmcProof == INSTANCE MpmcProofs WITH
    mutex <- r1, buffer <- r2, closed <- r3, waiters <- r4, to_wake <- r5, futex <- r6,
    count <- r7, pc <- r8, sends <- r9, recvs <- r10


LEMMA MpmcSets ==
    /\ \A S : MpmcProof!IsFiniteSet(S) <=> CH!IsFiniteSet(S)
    /\ \A S : MpmcProof!Cardinality(S) = CH!Cardinality(S)
<1>1. \A S : MpmcProof!IsFiniteSet(S) <=> CH!IsFiniteSet(S)
    BY DEF MpmcProof!IsFiniteSet, CH!IsFiniteSet
<1>2. \A S : MpmcProof!Cardinality(S) = CH!Cardinality(S)
    BY DEF MpmcProof!Cardinality, CH!Cardinality, MpmcProof!IsFiniteSet, CH!IsFiniteSet
<1> QED BY <1>1, <1>2

LEMMA MpmcGiven == MpmcProof!MpmcAssumption
<1>1. CH!MpmcAssumption
    BY PrimitivesAssumption
<1> QED BY <1>1, MpmcSets DEF MpmcProof!MpmcAssumption, CH!MpmcAssumption

LEMMA MpmcSame ==
    /\ CH!Init => MpmcProof!Init
    /\ CH!Next => MpmcProof!Next
    /\ MpmcProof!TypeOK => CH!TypeOK
    /\ MpmcProof!WaitersExact => CH!WaitersExact
    /\ MpmcProof!CloseCoversWaiters => CH!CloseCoversWaiters
    /\ MpmcProof!NoStrandedReceiver => CH!NoStrandedReceiver
<1>1. CH!Init => MpmcProof!Init
    BY DEF CH!Init, MpmcProof!Init, CH!FutexNew, MpmcProof!FutexNew
<1>2. CH!Next => MpmcProof!Next
    BY Zenon DEF
           CH!Next, CH!Continue, CH!Acquire, CH!Unlock, CH!Push, CH!NotifyOne, CH!AddOne,
           CH!Bump, CH!WakeOne, CH!Shut, CH!NotifyAll, CH!AddAll, CH!WakeAll, CH!TryPop, CH!Pop,
           CH!WaitUnlock, CH!WaitLoad, CH!WaitToken, CH!WaitSleep, CH!WaitLeave, CH!WaitRelock,
           CH!Send, CH!Close, CH!Interrupt, CH!Recv, CH!Goto, CH!After, CH!Rejects, CH!chan,
           CH!cond, CH!calls, CH!FutexBump, CH!FutexWakeOne, CH!FutexWakeAll, CH!FutexLoad,
           CH!FutexWait, CH!FutexInterrupt,
           MpmcProof!Next, MpmcProof!Continue, MpmcProof!Acquire, MpmcProof!Unlock,
           MpmcProof!Push, MpmcProof!NotifyOne, MpmcProof!AddOne, MpmcProof!Bump,
           MpmcProof!WakeOne, MpmcProof!Shut, MpmcProof!NotifyAll, MpmcProof!AddAll,
           MpmcProof!WakeAll, MpmcProof!TryPop, MpmcProof!Pop, MpmcProof!WaitUnlock,
           MpmcProof!WaitLoad, MpmcProof!WaitToken, MpmcProof!WaitSleep, MpmcProof!WaitLeave,
           MpmcProof!WaitRelock, MpmcProof!Send, MpmcProof!Close, MpmcProof!Interrupt,
           MpmcProof!Recv, MpmcProof!Goto, MpmcProof!After, MpmcProof!Rejects, MpmcProof!chan,
           MpmcProof!cond, MpmcProof!calls, MpmcProof!FutexBump, MpmcProof!FutexWakeOne,
           MpmcProof!FutexWakeAll, MpmcProof!FutexLoad, MpmcProof!FutexWait,
           MpmcProof!FutexInterrupt
<1>3. MpmcProof!TypeOK => CH!TypeOK
    BY MpmcSets DEF CH!TypeOK, MpmcProof!TypeOK, CH!Labels, MpmcProof!Labels, CH!Futexes, MpmcProof!Futexes
<1>4. MpmcProof!WaitersExact => CH!WaitersExact
    BY MpmcSets DEF CH!WaitersExact, MpmcProof!WaitersExact, CH!Unserved, MpmcProof!Unserved
<1>5. MpmcProof!CloseCoversWaiters => CH!CloseCoversWaiters
    BY MpmcSets DEF CH!CloseCoversWaiters, MpmcProof!CloseCoversWaiters, CH!Unserved, MpmcProof!Unserved
<1>6. MpmcProof!NoStrandedReceiver => CH!NoStrandedReceiver
    BY DEF CH!NoStrandedReceiver, MpmcProof!NoStrandedReceiver
<1> QED BY <1>1, <1>2, <1>3, <1>4, <1>5, <1>6

LEMMA MpmcHolds ==
    /\ CH!Init => MpmcProof!IInv
    /\ MpmcProof!IInv /\ (CH!Next \/ UNCHANGED vars) => MpmcProof!IInv'
    /\ MpmcProof!IInv =>
        CH!TypeOK /\ CH!WaitersExact /\ CH!CloseCoversWaiters /\ CH!NoStrandedReceiver
<1>1. CH!Init => MpmcProof!IInv
    BY MpmcSame, MpmcGiven, MpmcProof!InitIInv
<1>2. UNCHANGED vars => UNCHANGED MpmcProof!vars
    BY DEF vars, MpmcProof!vars
<1>3. MpmcProof!IInv /\ (CH!Next \/ UNCHANGED vars) => MpmcProof!IInv'
    BY <1>2, MpmcSame, MpmcGiven, MpmcProof!NextIInv, MpmcProof!StutterIInv
<1>4. MpmcProof!IInv =>
        CH!TypeOK /\ CH!WaitersExact /\ CH!CloseCoversWaiters /\ CH!NoStrandedReceiver
    BY MpmcSame, MpmcGiven, MpmcProof!WaitersAreExact, MpmcProof!NoReceiverStranded
       DEF MpmcProof!IInv
<1> QED BY <1>1, <1>3, <1>4

-----------------------------------------------------------------------------
(* The theorems.                                                           *)

\* The inductive invariant: that of the primitive `which' names.
SuiteInv ==
    /\ Smutex => SMutexProof!IInv
    /\ Channel => MpmcProof!IInv
    /\ SmallInv

\* Every behaviour of a primitive stays in its inductive invariant.
THEOREM InductiveInvariant == Spec => []SuiteInv
<1>1. Init => SuiteInv
    BY SuiteStarts, SMutexHolds, MpmcHolds, SmallInit DEF SuiteInv
<1>2. SuiteInv /\ [Next]_vars => SuiteInv'
    BY SuiteSteps, SameSuite, SMutexHolds, MpmcHolds, SmallNext DEF SuiteInv
<1> QED BY <1>1, <1>2, PTL DEF Spec

LEMMA SuiteSafe ==
    SuiteInv => TypeOK /\ HoldersExact /\ CountsExact /\ NoLostWakeup /\ FlagsHaveWriter
BY SMutexHolds, MpmcHolds, SmallSafe
   DEF SuiteInv, TypeOK, HoldersExact, CountsExact, NoLostWakeup, FlagsHaveWriter

\* Each primitive's variables have their types, whatever the number of threads.
THEOREM TypeCorrect == Spec => []TypeOK
BY InductiveInvariant, SuiteSafe, PTL

\* The lock words of SMutex and SpinCell are exact: nested, group and bulk
\* releases in any order leave the word that the remaining guards call for.
THEOREM WordsCountHolders == Spec => []HoldersExact
BY InductiveInvariant, SuiteSafe, PTL

\* notify_one() and close() know of every waiter of the condition variable, and
\* a barrier's phase is made of exactly the arrivals it requires.
THEOREM CountersAreExact == Spec => []CountsExact
BY InductiveInvariant, SuiteSafe, PTL

\* No wakeup is lost: nobody sleeps on a free SMutex, on a channel with a
\* message or closed, on a parker's token, or in a past phase of a barrier,
\* unless somebody is on the way to wake it.
THEOREM NobodyForgotten == Spec => []NoLostWakeup
BY InductiveInvariant, SuiteSafe, PTL

\* SpinCell: WRITER_PARKED is set only while a writer waits in lock_exclusive()
\* or holds the lock, READERS_PARKED only while a writer is there to clear it.
THEOREM ParkedFlagsHaveWriter == Spec => []FlagsHaveWriter
BY InductiveInvariant, SuiteSafe, PTL
=============================================================================
