------------------------- MODULE SerialMutexProofs -------------------------
(***************************************************************************)
(* Proofs, for any set of threads and any finite set of guards, of the     *)
(* safety properties of SerialMutex and of its refinement of SerialLock.   *)
(***************************************************************************)
EXTENDS SerialMutex, FiniteSetTheorems, TLAPS

\* What a thread knows at the labels where it is about to act on what it
\* loaded: the guard it drops is a live read guard of its own; the word it
\* tries to acquire from admits it; the word it registers in is held.
CallOK(t) ==
    /\ call[t].pc = "release" =>
          /\ call[t].slot \in Live
          /\ guard[call[t].slot].read
          /\ guard[call[t].slot].holder = t
    /\ call[t].pc = "acquire" /\ call[t].seen # Unlocked =>
          /\ call[t].rd /\ ~call[t].seen.write
          /\ call[t].seen.owner = t /\ call[t].seen.count # COUNT
    /\ call[t].pc = "register" => call[t].seen # Unlocked

CallInv == \A t \in Threads : CallOK(t)

\* NoLostWakeup, extended to the threads that are about to call futex_wait
\* with a snapshot that still matches: for them the bump is still to come.
WakeInv ==
    \A t \in Threads :
        /\ call[t].pc = "wait" /\ t \in wake.fresh =>
              state.wait \/ \E u \in Threads : call[u].pc = "notify"
        /\ t \in wake.asleep =>
              state.wait \/ \E u \in Threads : call[u].pc \in {"notify", "wake"}

\* The inductive invariant.
IInv == TypeOK /\ NoAliasing /\ WordCountsGuards /\ CallInv /\ WakeInv

LEMMA InitIInv == Init => IInv
<1> SUFFICES ASSUME Init PROVE IInv
    OBVIOUS
<1>1. Live = {} /\ ReadGuards = {}
    BY DEF Init, Live, ReadGuards
<1>2. Unlocked \in Words
    BY SerialAssumption DEF Unlocked, Words
<1>3. TypeOK
    BY <1>2 DEF Init, TypeOK, FutexNew, Futexes, Idle, At, Calls, Labels
<1>4. WordCountsGuards
    BY <1>1, FS_EmptySet DEF Init, WordCountsGuards, Unlocked
<1>5. CallInv /\ WakeInv
    BY DEF Init, CallInv, CallOK, WakeInv, Idle, At, FutexNew
<1> QED BY <1>1, <1>3, <1>4, <1>5 DEF IInv, NoAliasing

LEMMA ReadGuardsFinite == IsFiniteSet(ReadGuards) /\ Cardinality(ReadGuards) \in Nat
<1>1. ReadGuards \subseteq Guards
    BY DEF ReadGuards, Live
<1> QED BY <1>1, FS_Subset, FS_CardinalityType, SerialAssumption

\* NewGuard adds one live guard, and one read guard if it was asked for one.
LEMMA AddGuard ==
    ASSUME TypeOK, NEW t \in Threads, NEW rd \in BOOLEAN, NEW g \in Guards \ Live,
           guard' = [guard EXCEPT ![g] = GuardOf(t, rd)]
    PROVE  /\ guard' \in [Guards -> GuardRecords \cup {None}]
           /\ Live' = Live \cup {g}
           /\ \A h \in Live : guard'[h] = guard[h]
           /\ guard'[g] = GuardOf(t, rd)
           /\ rd => ReadGuards' = ReadGuards \cup {g}
           /\ rd => Cardinality(ReadGuards') = Cardinality(ReadGuards) + 1
           /\ ~rd => ReadGuards' = ReadGuards
<1>1. GuardOf(t, rd) \in GuardRecords /\ GuardOf(t, rd).read = rd
    BY DEF GuardOf, GuardRecords
<1>2. /\ guard' \in [Guards -> GuardRecords \cup {None}]
      /\ guard'[g] = GuardOf(t, rd)
      /\ \A h \in Guards : h # g => guard'[h] = guard[h]
    BY <1>1 DEF TypeOK
<1>3. Live' = Live \cup {g} /\ \A h \in Live : guard'[h] = guard[h]
    BY <1>1, <1>2, SerialAssumption DEF Live
<1>4. rd => ReadGuards' = ReadGuards \cup {g}
    BY <1>1, <1>2, <1>3, Zenon DEF ReadGuards, Live
<1>5. ~rd => ReadGuards' = ReadGuards
    BY <1>1, <1>2, <1>3 DEF ReadGuards, Live
<1>6. g \notin ReadGuards
    BY DEF ReadGuards
<1>7. rd => Cardinality(ReadGuards') = Cardinality(ReadGuards) + 1
    BY <1>4, <1>6, ReadGuardsFinite, FS_AddElement
<1> QED BY <1>2, <1>3, <1>4, <1>5, <1>7

\* Dropping a guard removes exactly that one.
LEMMA RemoveGuard ==
    ASSUME TypeOK, NEW g \in Live, guard' = [guard EXCEPT ![g] = None]
    PROVE  /\ guard' \in [Guards -> GuardRecords \cup {None}]
           /\ Live' = Live \ {g}
           /\ \A h \in Live \ {g} : guard'[h] = guard[h]
           /\ guard[g].read => ReadGuards' = ReadGuards \ {g}
           /\ guard[g].read => Cardinality(ReadGuards') = Cardinality(ReadGuards) - 1
           /\ ~guard[g].read => ReadGuards' = ReadGuards
<1>1. g \in Guards
    BY DEF Live
<1>2. /\ guard' \in [Guards -> GuardRecords \cup {None}]
      /\ guard'[g] = None
      /\ \A h \in Guards : h # g => guard'[h] = guard[h]
    BY <1>1 DEF TypeOK
<1>3. Live' = Live \ {g} /\ \A h \in Live \ {g} : guard'[h] = guard[h]
    BY <1>1, <1>2 DEF Live
<1>4. guard[g].read => g \in ReadGuards /\ ReadGuards' = ReadGuards \ {g}
    BY <1>2, <1>3 DEF ReadGuards, Live
<1>5. ~guard[g].read => ReadGuards' = ReadGuards
    BY <1>2, <1>3 DEF ReadGuards, Live
<1>6. guard[g].read => Cardinality(ReadGuards') = Cardinality(ReadGuards) - 1
    BY <1>4, ReadGuardsFinite, FS_RemoveElement
<1> QED BY <1>2, <1>3, <1>4, <1>5, <1>6

\* A write guard is the only live guard, and no read guard is counted.
LEMMA WriterAlone ==
    ASSUME IInv, NEW g \in Live, ~guard[g].read
    PROVE  Live = {g} /\ ReadGuards = {}
BY DEF IInv, NoAliasing, ReadGuards

\* When the count is one, the reader being dropped is the only live guard.
LEMMA LastReader ==
    ASSUME IInv, NEW g \in Live, guard[g].read
    PROVE  /\ state.count \in 1..COUNT
           /\ state.count = 1 => Live = {g}
           /\ ReadGuards = Live
           /\ ~state.write
<1>1. ReadGuards = Live
    BY DEF IInv, NoAliasing, ReadGuards
<1>2. state.count \in 0..COUNT /\ state.count = Cardinality(ReadGuards)
    BY DEF IInv, TypeOK, Words, WordCountsGuards
<1>3. state.count # 0
    BY <1>1, <1>2, ReadGuardsFinite, FS_EmptySet
<1>4. ASSUME state.count = 1 PROVE Live = {g}
  <2>1. PICK x : ReadGuards = {x}
      BY <1>2, <1>4, ReadGuardsFinite, FS_Singleton, Zenon
  <2> QED BY <1>1, <2>1
<1>5. ~state.write
    BY <1>1 DEF IInv, WordCountsGuards, ReadGuards
<1> QED BY <1>1, <1>2, <1>3, <1>4, <1>5

\* The conjuncts about the word and the guards survive any step that changes
\* neither of them.
LEMMA Untouched ==
    ASSUME IInv, UNCHANGED <<state, guard>>
    PROVE  NoAliasing' /\ WordCountsGuards'
BY DEF IInv, NoAliasing, WordCountsGuards, Live, ReadGuards

\* A thread that takes the lock gets a guard the word accounts for: from the
\* unlocked word a first one, from a word of its own one more read.
LEMMA Acquisition ==
    ASSUME IInv, NEW t \in Threads, NEW rd \in BOOLEAN, NewGuard(t, rd),
           \/ state = Unlocked /\ state' = Desired(t, rd)
           \/ /\ rd /\ ~state.write /\ state.owner = t /\ state.count # COUNT
              /\ state' = WithCount(state, state.count + 1)
    PROVE  /\ state' \in Words
           /\ guard' \in [Guards -> GuardRecords \cup {None}]
           /\ \A h \in Live : h \in Live' /\ guard'[h] = guard[h]
           /\ NoAliasing' /\ WordCountsGuards'
           /\ state'.wait = state.wait
<1>1. PICK g \in Guards \ Live : guard' = [guard EXCEPT ![g] = GuardOf(t, rd)]
    BY Zenon DEF NewGuard
<1>2. TypeOK
    BY DEF IInv
<1>3. /\ guard' \in [Guards -> GuardRecords \cup {None}]
      /\ Live' = Live \cup {g}
      /\ \A h \in Live : guard'[h] = guard[h]
      /\ guard'[g] = GuardOf(t, rd)
      /\ rd => ReadGuards' = ReadGuards \cup {g}
      /\ rd => Cardinality(ReadGuards') = Cardinality(ReadGuards) + 1
      /\ ~rd => ReadGuards' = ReadGuards
    BY <1>1, <1>2, AddGuard, Zenon
<1>4. GuardOf(t, rd).owner = t /\ (GuardOf(t, rd).read <=> rd)
    BY DEF GuardOf
<1>5. CASE state = Unlocked /\ state' = Desired(t, rd)
  <2>1. Live = {} /\ ReadGuards = {} /\ Cardinality(ReadGuards) = 0
      BY <1>5, FS_EmptySet DEF IInv, WordCountsGuards, ReadGuards
  <2>2. /\ state' \in Words /\ state'.wait = FALSE /\ state.wait = FALSE
        /\ state' # Unlocked /\ state'.owner = t /\ (state'.write <=> ~rd)
        /\ state'.count = IF rd THEN 1 ELSE 0
    <3>1. COUNT \in Nat /\ COUNT >= 1
        BY FS_CardinalityType, SerialAssumption
    <3>2. Desired(t, rd) \in Words
      <4>1. (~rd) \in BOOLEAN /\ (IF rd THEN 1 ELSE 0) \in 0..COUNT
          BY <3>1
      <4> QED BY <4>1 DEF Desired, Words
    <3>3. state'.wait = FALSE /\ state.wait = FALSE /\ state'.owner = t /\ t # None
        BY <1>5, SerialAssumption DEF Desired, Unlocked
    <3>4. (state'.write <=> ~rd) /\ state'.count = IF rd THEN 1 ELSE 0
        BY <1>5, Zenon DEF Desired
    <3>5. state' # Unlocked
        BY <3>3 DEF Unlocked
    <3> QED BY <1>5, <3>2, <3>3, <3>4, <3>5
  <2>3. NoAliasing'
      BY <1>3, <2>1 DEF NoAliasing
  <2>4. /\ state'.count = Cardinality(ReadGuards')
        /\ \A h \in Live' : h = g /\ guard'[h].owner = state'.owner
        /\ ~(Live' = {} \/ state' = Unlocked)
    <3>1. state'.count = Cardinality(ReadGuards')
      <4>1. CASE rd
          BY <1>3, <2>1, <2>2, <4>1
      <4>2. CASE ~rd
          BY <1>3, <2>1, <2>2, <4>2
      <4> QED BY <4>1, <4>2
    <3>2. Live' = {g} /\ guard'[g].owner = state'.owner
        BY <1>3, <1>4, <2>1, <2>2
    <3> QED BY <2>2, <3>1, <3>2
  <2>5. state'.write <=> \E h \in Live' : ~guard'[h].read
      BY <1>3, <1>4, <2>1, <2>2
  <2>6. WordCountsGuards'
      BY <2>4, <2>5 DEF WordCountsGuards
  <2> QED BY <1>3, <2>2, <2>3, <2>6, Zenon
<1>6. CASE /\ rd /\ ~state.write /\ state.owner = t /\ state.count # COUNT
           /\ state' = WithCount(state, state.count + 1)
  <2>1. /\ state' \in Words /\ state'.wait = state.wait
        /\ state' # Unlocked /\ state'.owner = t /\ ~state'.write
        /\ state'.count = state.count + 1
      BY <1>2, <1>6, SerialAssumption DEF TypeOK, Words, Unlocked, WithCount
  <2>2. \A h \in Live : guard[h].read /\ guard[h].owner = t
      BY <1>6 DEF IInv, WordCountsGuards
  <2>3. \A h \in Live' : guard'[h].read /\ guard'[h].owner = t
      BY <1>3, <1>4, <1>6, <2>2, Zenon
  <2>4. NoAliasing'
      BY <2>3 DEF NoAliasing
  <2>5. state'.count = Cardinality(ReadGuards')
      BY <1>3, <1>6, <2>1 DEF IInv, WordCountsGuards
  <2>6. WordCountsGuards'
      BY <1>3, <2>1, <2>3, <2>5 DEF WordCountsGuards
  <2> QED BY <1>3, <2>1, <2>4, <2>6
<1> QED BY <1>5, <1>6

\* A dropped guard leaves a word that accounts for the others: a writer or a
\* last reader clears it, any other reader takes one off the count.
LEMMA Releasing ==
    ASSUME IInv, NEW g \in Live, guard' = [guard EXCEPT ![g] = None],
           state' = IF guard[g].read /\ state.count # 1
                    THEN WithCount(state, state.count - 1) ELSE Unlocked
    PROVE  /\ state' \in Words
           /\ guard' \in [Guards -> GuardRecords \cup {None}]
           /\ \A h \in Live \ {g} : h \in Live' /\ guard'[h] = guard[h]
           /\ NoAliasing' /\ WordCountsGuards'
           /\ guard[g].read /\ state.count # 1 => state'.wait = state.wait
<1>1. TypeOK
    BY DEF IInv
<1>2. /\ guard' \in [Guards -> GuardRecords \cup {None}]
      /\ Live' = Live \ {g}
      /\ \A h \in Live \ {g} : guard'[h] = guard[h]
      /\ guard[g].read => ReadGuards' = ReadGuards \ {g}
      /\ guard[g].read => Cardinality(ReadGuards') = Cardinality(ReadGuards) - 1
      /\ ~guard[g].read => ReadGuards' = ReadGuards
    BY <1>1, RemoveGuard, Zenon
<1>3. NoAliasing'
    BY <1>2 DEF IInv, NoAliasing
<1>4. CASE guard[g].read /\ state.count # 1
  <2>1. state.count \in 1..COUNT /\ ReadGuards = Live /\ ~state.write
      BY <1>4, LastReader
  <2>2. /\ state' \in Words /\ state'.wait = state.wait
        /\ state'.count = state.count - 1 /\ state'.count # 0
        /\ state'.owner = state.owner /\ state'.write = state.write
        /\ state' # Unlocked
      BY <1>1, <1>4, <2>1, SerialAssumption DEF TypeOK, Words, Unlocked, WithCount
  <2>3. Cardinality(ReadGuards') = state'.count
      BY <1>2, <1>4, <2>2 DEF IInv, WordCountsGuards
  <2>4. ReadGuards' # {}
      BY <2>2, <2>3, FS_EmptySet
  <2>5. Live' # {}
      BY <2>4 DEF ReadGuards
  <2>6. \A h \in Live' : guard'[h].read /\ guard'[h].owner = state'.owner
      BY <1>2, <2>1, <2>2 DEF IInv, WordCountsGuards, ReadGuards
  <2>7. WordCountsGuards'
      BY <2>1, <2>2, <2>3, <2>5, <2>6 DEF WordCountsGuards
  <2> QED BY <1>2, <1>3, <2>2, <2>7
<1>5. CASE ~(guard[g].read /\ state.count # 1)
  <2>1. Live = {g}
      BY <1>5, WriterAlone, LastReader
  <2>2. Live' = {} /\ ReadGuards' = {}
      BY <1>2, <2>1 DEF ReadGuards
  <2>3. state' = Unlocked /\ Unlocked \in Words
      BY <1>5, SerialAssumption DEF Unlocked, Words
  <2>4. state'.count = 0 /\ ~state'.write
      BY <2>3 DEF Unlocked
  <2>5. WordCountsGuards'
      BY <2>2, <2>3, <2>4, FS_EmptySet DEF WordCountsGuards
  <2> QED BY <1>2, <1>3, <1>5, <2>3, <2>5
<1> QED BY <1>4, <1>5

\* A step of t that leaves every other thread's locals alone, and leaves alone
\* the guards other threads are dropping, keeps CallInv if t itself is fine.
LEMMA OthersKeepCallInv ==
    ASSUME IInv, NEW t \in Threads, NEW c \in Calls,
           call' = [call EXCEPT ![t] = c],
           \A u \in Threads \ {t} : call[u].pc = "release" =>
              /\ call[u].slot \in Live'
              /\ guard'[call[u].slot] = guard[call[u].slot],
           CallOK(t)'
    PROVE  CallInv'
<1> SUFFICES ASSUME NEW u \in Threads \ {t} PROVE CallOK(u)'
    BY DEF CallInv
<1>1. call'[u] = call[u]
    BY DEF IInv, TypeOK
<1>2. CallOK(u)
    BY DEF IInv, CallInv
<1> QED BY <1>1, <1>2 DEF CallOK

\* The same for the steps that leave every live guard alone.
LEMMA GuardsKeepCallInv ==
    ASSUME IInv, NEW t \in Threads, NEW c \in Calls,
           call' = [call EXCEPT ![t] = c],
           \A h \in Live : h \in Live' /\ guard'[h] = guard[h],
           CallOK(t)'
    PROVE  CallInv'
<1>1. \A u \in Threads : call[u].pc = "release" => call[u].slot \in Live
    BY DEF IInv, CallInv, CallOK
<1>2. \A u \in Threads \ {t} : call[u].pc = "release" =>
         call[u].slot \in Live' /\ guard'[call[u].slot] = guard[call[u].slot]
    BY <1>1
<1> QED BY <1>2, OthersKeepCallInv, Zenon

\* Locals of a thread that is at none of the three labels satisfy CallOK.
LEMMA PlainCallOK ==
    ASSUME NEW t \in Threads, call'[t].pc \notin {"release", "acquire", "register"}
    PROVE  CallOK(t)'
BY DEF CallOK

\* Steps of t that take no guard, drop none and leave the word alone keep the
\* promise of a wake-up, unless t gives up being a notifier.
LEMMA OthersKeepWakeInv ==
    ASSUME IInv, NEW t \in Threads, NEW c \in Calls,
           call' = [call EXCEPT ![t] = c],
           c.pc \notin {"wait"}, call[t].pc \notin {"notify", "wake"},
           state.wait => state'.wait \/ c.pc = "notify",
           wake'.fresh \subseteq wake.fresh \cup {t}, wake'.asleep \subseteq wake.asleep
    PROVE  WakeInv'
<1>1. call'[t] = c /\ \A u \in Threads \ {t} : call'[u] = call[u]
    BY DEF IInv, TypeOK
<1>2. (\E u \in Threads : call[u].pc = "notify") => \E u \in Threads : call'[u].pc = "notify"
    BY <1>1
<1>3. (\E u \in Threads : call[u].pc \in {"notify", "wake"})
         => \E u \in Threads : call'[u].pc \in {"notify", "wake"}
    BY <1>1
<1>4. state.wait => state'.wait \/ \E u \in Threads : call'[u].pc = "notify"
    BY <1>1
<1> SUFFICES ASSUME NEW u \in Threads
             PROVE  /\ call'[u].pc = "wait" /\ u \in wake'.fresh =>
                          state'.wait \/ \E v \in Threads : call'[v].pc = "notify"
                    /\ u \in wake'.asleep =>
                          state'.wait \/ \E v \in Threads : call'[v].pc \in {"notify", "wake"}
    BY DEF WakeInv
<1>5. ASSUME call'[u].pc = "wait", u \in wake'.fresh
      PROVE  state'.wait \/ \E v \in Threads : call'[v].pc = "notify"
  <2>1. call[u].pc = "wait" /\ u \in wake.fresh
      BY <1>1, <1>5
  <2> QED BY <2>1, <1>2, <1>4 DEF IInv, WakeInv
<1>6. ASSUME u \in wake'.asleep
      PROVE  state'.wait \/ \E v \in Threads : call'[v].pc \in {"notify", "wake"}
  <2>1. state.wait \/ \E v \in Threads : call[v].pc \in {"notify", "wake"}
      BY <1>6 DEF IInv, WakeInv
  <2> QED BY <2>1, <1>3, <1>4
<1> QED BY <1>5, <1>6

\* What TypeOK says of thread t, of the futex and of the initial words.
Typed(t) ==
    /\ Unlocked \in Words /\ state \in Words /\ ~Unlocked.wait
    /\ Idle \in Calls /\ Idle.pc = "idle"
    /\ call[t] \in Calls /\ call[t].pc \in Labels /\ call[t].rd \in BOOLEAN
    /\ call[t].slot \in Guards \cup {None} /\ call[t].seen \in Words
    /\ wake.fresh \subseteq Threads /\ wake.asleep \subseteq Threads

LEMMA TypeFacts == ASSUME TypeOK, NEW t \in Threads PROVE Typed(t)
<1>1. Unlocked \in Words /\ ~Unlocked.wait
    BY SerialAssumption DEF Unlocked, Words
<1>2. Idle \in Calls /\ Idle.pc = "idle"
    BY <1>1 DEF Idle, At, Calls, Labels
<1>3. call[t] \in Calls
    BY DEF TypeOK
<1>4. /\ call[t].pc \in Labels /\ call[t].rd \in BOOLEAN
      /\ call[t].slot \in Guards \cup {None} /\ call[t].seen \in Words
    BY <1>3 DEF Calls
<1>5. wake.fresh \subseteq Threads /\ wake.asleep \subseteq Threads
    BY DEF TypeOK, Futexes
<1> QED BY <1>1, <1>2, <1>3, <1>4, <1>5 DEF TypeOK, Typed

\* Moving within a lock call replaces t's locals by well-typed ones.
LEMMA Moved ==
    ASSUME TypeOK, NEW t \in Threads, NEW label \in Labels, NEW w \in Words,
           GotoWith(t, label, w)
    PROVE  \E c \in Calls : /\ call' = [call EXCEPT ![t] = c]
                            /\ c.pc = label /\ c.seen = w /\ (c.rd <=> call[t].rd)
<1> DEFINE c == At(label, call[t].rd, None, w)
<1>1. call[t].rd \in BOOLEAN
    BY TypeFacts DEF Typed
<1>2. c \in Calls
    BY <1>1 DEF At, Calls
<1>3. c.pc = label /\ c.seen = w /\ (c.rd <=> call[t].rd)
    BY DEF At
<1>4. call' = [call EXCEPT ![t] = c]
    BY DEF GotoWith
<1> HIDE DEF c
<1> QED BY <1>2, <1>3, <1>4, Zenon

\* Snapshot, LoadState and Resume: t only moves within a lock call.
LEMMA MoveStep ==
    ASSUME IInv, NEW t \in Threads, Snapshot(t) \/ LoadState(t) \/ Resume(t)
    PROVE  IInv'
<1>0. Typed(t)
    BY TypeFacts DEF IInv
<1> USE <1>0 DEF Typed, IInv
<1>1. UNCHANGED <<state, guard>> /\ Live' = Live
    BY DEF Snapshot, LoadState, Resume, Live
<1>2. NoAliasing' /\ WordCountsGuards'
    BY <1>1, Untouched
<1>3. /\ wake' \in Futexes(Threads)
      /\ wake'.fresh \subseteq wake.fresh \cup {t} /\ wake'.asleep \subseteq wake.asleep
    BY DEF Snapshot, LoadState, Resume, TypeOK, FutexLoad, Futexes
<1>4. PICK c \in Calls :
        /\ call' = [call EXCEPT ![t] = c]
        /\ c.pc \in {"idle", "load", "snapshot", "acquire", "register"}
        /\ c.pc = "acquire" /\ c.seen # Unlocked =>
             c.rd /\ ~c.seen.write /\ c.seen.owner = t /\ c.seen.count # COUNT
        /\ c.pc = "register" => c.seen # Unlocked
  <2>1. CASE Snapshot(t)
    <3>1. GotoWith(t, "load", Unlocked)
        BY <2>1 DEF Snapshot, Goto
    <3> QED BY <3>1, Moved DEF Labels
  <2>2. CASE Resume(t)
    <3>1. GotoWith(t, "snapshot", Unlocked)
        BY <2>2 DEF Resume, Goto
    <3> QED BY <3>1, Moved DEF Labels
  <2>3. CASE LoadState(t)
    <3>1. CASE GotoWith(t, "acquire", state) /\ (state = Unlocked \/ (state.owner = t /\ Reentrant(t)))
        BY <3>1, Moved DEF Reentrant, Labels
    <3>2. CASE Return(t)
        BY <3>2, Zenon DEF Return
    <3>3. CASE Goto(t, "snapshot")
        BY <3>3, Moved DEF Goto, Labels
    <3>4. CASE GotoWith(t, "register", state) /\ state.owner \notin {t, None}
      <4>1. state # Unlocked
          BY <3>4 DEF Unlocked
      <4> QED BY <3>4, <4>1, Moved DEF Labels
    <3> QED BY <2>3, <3>1, <3>2, <3>3, <3>4 DEF LoadState
  <2> QED BY <2>1, <2>2, <2>3
<1>5. call'[t] = c /\ call' \in [Threads -> Calls]
    BY <1>4 DEF TypeOK
<1>6. TypeOK'
    BY <1>1, <1>3, <1>5 DEF TypeOK
<1>7. CallOK(t)'
    BY <1>4, <1>5 DEF CallOK
<1>8. CallInv'
    BY <1>1, <1>4, <1>7, GuardsKeepCallInv, Zenon
<1>9. call[t].pc \notin {"notify", "wake"}
    BY DEF Snapshot, LoadState, Resume
<1>10. WakeInv'
    BY <1>1, <1>3, <1>4, <1>9, OthersKeepWakeInv, Zenon
<1> QED BY <1>2, <1>6, <1>8, <1>10

\* Every way of taking the lock: lock() and try_write_guard() on the unlocked
\* word, and the compare-and-swap of lock_slow().
LEMMA TakeStep ==
    ASSUME IInv, NEW t \in Threads, NEW rd \in BOOLEAN, NewGuard(t, rd),
           \/ state = Unlocked /\ state' = Desired(t, rd)
           \/ /\ rd /\ ~state.write /\ state.owner = t /\ state.count # COUNT
              /\ state' = WithCount(state, state.count + 1),
           call[t].pc \in {"idle", "acquire"},
           (call' = call /\ call[t].pc = "idle") \/ Return(t),
           UNCHANGED wake
    PROVE  IInv'
<1>0. Typed(t)
    BY TypeFacts DEF IInv
<1> USE <1>0 DEF Typed, IInv
<1>1. /\ state' \in Words
      /\ guard' \in [Guards -> GuardRecords \cup {None}]
      /\ \A h \in Live : h \in Live' /\ guard'[h] = guard[h]
      /\ NoAliasing' /\ WordCountsGuards'
      /\ state'.wait = state.wait
    BY Acquisition
<1>2. PICK c \in Calls : call' = [call EXCEPT ![t] = c] /\ c.pc = "idle"
  <2>1. CASE call' = call /\ call[t].pc = "idle"
    <3>1. call = [call EXCEPT ![t] = call[t]]
        BY DEF TypeOK
    <3> QED BY <2>1, <3>1
  <2>2. CASE Return(t)
      BY <2>2, Zenon DEF Return
  <2> QED BY <2>1, <2>2
<1>3. call'[t] = c /\ call' \in [Threads -> Calls]
    BY <1>2 DEF TypeOK
<1>4. TypeOK'
    BY <1>1, <1>3 DEF TypeOK
<1>5. CallOK(t)'
    BY <1>2, <1>3 DEF CallOK
<1>6. CallInv'
    BY <1>1, <1>2, <1>5, GuardsKeepCallInv, Zenon
<1>7. WakeInv'
    BY <1>1, <1>2, OthersKeepWakeInv, Zenon
<1> QED BY <1>1, <1>4, <1>6, <1>7

\* lock() that finds the lock taken, and a failed compare_exchange_weak.
LEMMA RetryStep ==
    ASSUME IInv, NEW t \in Threads, NEW rd \in BOOLEAN,
           call[t].pc \notin {"notify", "wake"},
           call' = [call EXCEPT ![t] = At("snapshot", rd, None, Unlocked)],
           UNCHANGED <<state, wake, guard>>
    PROVE  IInv'
<1>0. Typed(t)
    BY TypeFacts DEF IInv
<1> USE <1>0 DEF Typed, IInv
<1> DEFINE c == At("snapshot", rd, None, Unlocked)
<1>1. c \in Calls /\ c.pc = "snapshot"
    BY DEF At, Calls, Labels
<1> HIDE DEF c
<1>2. call' = [call EXCEPT ![t] = c]
    BY DEF c
<1>3. call'[t] = c /\ call' \in [Threads -> Calls]
    BY <1>1, <1>2 DEF TypeOK
<1>4. TypeOK' /\ Live' = Live
    BY <1>3 DEF TypeOK, Live
<1>5. CallOK(t)'
    BY <1>1, <1>3 DEF CallOK
<1>6. CallInv'
    BY <1>1, <1>2, <1>4, <1>5, GuardsKeepCallInv, Zenon
<1>7. WakeInv'
    BY <1>1, <1>2, OthersKeepWakeInv, Zenon
<1> QED BY <1>4, <1>6, <1>7, Untouched

\* Every release of the lock by the thread that holds the guard: the step
\* that clears a waiter flag is the step after which t notifies.
LEMMA DropStep ==
    ASSUME IInv, NEW t \in Threads, NEW g \in Live, guard[g].holder = t,
           guard' = [guard EXCEPT ![g] = None],
           state' = IF guard[g].read /\ state.count # 1
                    THEN WithCount(state, state.count - 1) ELSE Unlocked,
           NEW c \in Calls, call' = [call EXCEPT ![t] = c],
           c.pc \in {"idle", "notify"},
           ~(guard[g].read /\ state.count # 1) /\ state.wait => c.pc = "notify",
           call[t].pc \in {"idle", "release"},
           UNCHANGED wake
    PROVE  IInv'
<1>0. Typed(t)
    BY TypeFacts DEF IInv
<1> USE <1>0 DEF Typed, IInv
<1>1. /\ state' \in Words
      /\ guard' \in [Guards -> GuardRecords \cup {None}]
      /\ \A h \in Live \ {g} : h \in Live' /\ guard'[h] = guard[h]
      /\ NoAliasing' /\ WordCountsGuards'
      /\ guard[g].read /\ state.count # 1 => state'.wait = state.wait
    BY Releasing, Zenon
<1>2. call'[t] = c /\ call' \in [Threads -> Calls]
    BY DEF TypeOK
<1>3. TypeOK'
    BY <1>1, <1>2 DEF TypeOK
<1>4. CallOK(t)'
    BY <1>2 DEF CallOK
<1>5. \A u \in Threads \ {t} : call[u].pc = "release" => call[u].slot \in Live \ {g}
    BY DEF CallInv, CallOK
<1>6. CallInv'
    BY <1>1, <1>4, <1>5, OthersKeepCallInv, Zenon
<1>7. state.wait => state'.wait \/ c.pc = "notify"
    BY <1>1, Zenon
<1>8. WakeInv'
    BY <1>7, OthersKeepWakeInv, Zenon
<1> QED BY <1>1, <1>3, <1>6, <1>8

\* unlock_read() with a word other than owner|1 (or a word that changed since):
\* t carries the word it read into the next round of the counted release.
LEMMA CountedStep ==
    ASSUME IInv, NEW t \in Threads, NEW g \in Live, guard[g].read, guard[g].holder = t,
           call[t].pc \in {"idle", "release"},
           NEW c \in Calls, c.pc = "release", c.slot = g,
           call' = [call EXCEPT ![t] = c],
           UNCHANGED <<state, wake, guard>>
    PROVE  IInv'
<1>0. Typed(t)
    BY TypeFacts DEF IInv
<1> USE <1>0 DEF Typed, IInv
<1>1. call'[t] = c /\ call' \in [Threads -> Calls]
    BY DEF TypeOK
<1>2. TypeOK' /\ Live' = Live
    BY <1>1 DEF TypeOK, Live
<1>3. CallOK(t)'
    BY <1>1, <1>2 DEF CallOK
<1>4. CallInv'
    BY <1>2, <1>3, GuardsKeepCallInv, Zenon
<1>5. WakeInv'
    BY OthersKeepWakeInv, Zenon
<1> QED BY <1>2, <1>4, <1>5, Untouched

\* A successful registration sets the flag t is going to rely on.
LEMMA RegisterStep ==
    ASSUME IInv, NEW t \in Threads, call[t].pc = "register", state = call[t].seen,
           state' = WithWait(state), Goto(t, "wait"), UNCHANGED <<wake, guard>>
    PROVE  IInv'
<1>0. Typed(t)
    BY TypeFacts DEF IInv
<1> USE <1>0 DEF Typed, IInv
<1>1. PICK c \in Calls : call' = [call EXCEPT ![t] = c] /\ c.pc = "wait"
    BY Moved DEF Goto, Labels
<1>2. call'[t] = c /\ call' \in [Threads -> Calls]
    BY <1>1 DEF TypeOK
<1>3. /\ state' \in Words /\ state'.wait
      /\ state'.count = state.count /\ state'.owner = state.owner
      /\ state'.write = state.write
    BY DEF WithWait, Words
<1>4. TypeOK' /\ Live' = Live /\ ReadGuards' = ReadGuards
    BY <1>2, <1>3 DEF TypeOK, Live, ReadGuards
<1>5. state # Unlocked /\ state' # Unlocked
    BY <1>3 DEF CallInv, CallOK
<1>6. NoAliasing'
    BY <1>4 DEF NoAliasing
<1>7. WordCountsGuards'
    BY <1>3, <1>4, <1>5 DEF WordCountsGuards
<1>8. CallOK(t)'
    BY <1>1, <1>2 DEF CallOK
<1>9. CallInv'
    BY <1>1, <1>4, <1>8, GuardsKeepCallInv, Zenon
<1>10. WakeInv'
    BY <1>3 DEF WakeInv
<1> QED BY <1>4, <1>6, <1>7, <1>9, <1>10

\* futex_wait: t sleeps only on a snapshot no bump has overtaken, so what
\* WakeInv says of a thread about to wait still holds of it asleep.
LEMMA WaitStep ==
    ASSUME IInv, NEW t \in Threads, Wait(t)
    PROVE  IInv'
<1>0. Typed(t)
    BY TypeFacts DEF IInv
<1> USE <1>0 DEF Typed, IInv
<1>1. UNCHANGED <<state, guard>> /\ Live' = Live /\ call[t].pc = "wait"
    BY DEF Wait, Live
<1>2. PICK c \in Calls : call' = [call EXCEPT ![t] = c] /\ c.pc \in {"asleep", "snapshot"}
    BY Moved DEF Wait, Goto, Labels
<1>3. call'[t] = c /\ call' \in [Threads -> Calls]
    BY <1>2 DEF TypeOK
<1>4. /\ wake' \in Futexes(Threads) /\ wake'.fresh \subseteq wake.fresh
      /\ wake'.asleep \subseteq wake.asleep \cup {t}
      /\ t \in wake'.asleep => t \in wake.fresh \/ t \in wake.asleep
    BY DEF Wait, FutexWait, Futexes
<1>5. TypeOK'
    BY <1>1, <1>3, <1>4 DEF TypeOK
<1>6. CallOK(t)'
    BY <1>2, <1>3 DEF CallOK
<1>7. CallInv'
    BY <1>1, <1>2, <1>6, GuardsKeepCallInv, Zenon
<1>8. \A u \in Threads \ {t} : call'[u] = call[u]
    BY <1>2 DEF TypeOK
<1>9. WakeInv'
  <2>1. ASSUME NEW u \in Threads, call'[u].pc = "wait", u \in wake'.fresh
        PROVE  state'.wait \/ \E v \in Threads : call'[v].pc = "notify"
      BY <1>1, <1>2, <1>3, <1>4, <1>8, <2>1 DEF WakeInv
  <2>2. ASSUME NEW u \in Threads, u \in wake'.asleep
        PROVE  state'.wait \/ \E v \in Threads : call'[v].pc \in {"notify", "wake"}
    <3>1. state.wait \/ \E v \in Threads : call[v].pc \in {"notify", "wake"}
        BY <1>1, <1>4, <2>2 DEF WakeInv
    <3> QED BY <1>1, <1>8, <3>1
  <2> QED BY <2>1, <2>2 DEF WakeInv
<1> QED BY <1>1, <1>5, <1>7, <1>9, Untouched

\* notify() and spurious returns of futex_wait: the bump makes every snapshot
\* stale before the wake empties the queue.
LEMMA FutexStep ==
    ASSUME IInv, NEW t \in Threads, NotifyBump(t) \/ NotifyWake(t) \/ Interrupt(t)
    PROVE  IInv'
<1>0. Typed(t)
    BY TypeFacts DEF IInv
<1> USE <1>0 DEF Typed, IInv
<1>1. UNCHANGED <<state, guard>> /\ Live' = Live
    BY DEF NotifyBump, NotifyWake, Interrupt, Live
<1>2. wake' \in Futexes(Threads)
    BY DEF NotifyBump, NotifyWake, Interrupt, FutexBump, FutexWakeAll, FutexInterrupt, Futexes
<1>3. PICK c \in Calls :
        /\ call' = [call EXCEPT ![t] = c]
        /\ NotifyBump(t) => c.pc = "wake"
        /\ NotifyWake(t) => c.pc = "idle"
        /\ Interrupt(t) => c = call[t]
  <2>1. CASE NotifyBump(t)
    <3>1. GotoWith(t, "wake", Unlocked) /\ ~NotifyWake(t) /\ call[t].pc = "notify"
        BY <2>1 DEF NotifyBump, NotifyWake, Goto
    <3>2. PICK c \in Calls : call' = [call EXCEPT ![t] = c] /\ c.pc = "wake"
        BY <3>1, Moved DEF Labels
    <3>3. ~Interrupt(t)
        BY <3>1, <3>2 DEF Interrupt, TypeOK
    <3> QED BY <3>1, <3>2, <3>3, Zenon
  <2>2. CASE NotifyWake(t)
    <3>1. call' = [call EXCEPT ![t] = Idle] /\ call[t].pc = "wake"
        BY <2>2 DEF NotifyWake, Return
    <3>2. ~NotifyBump(t) /\ ~Interrupt(t)
        BY <3>1 DEF NotifyBump, Interrupt, TypeOK
    <3> QED BY <3>1, <3>2, Zenon
  <2>3. CASE Interrupt(t) /\ ~NotifyBump(t) /\ ~NotifyWake(t)
    <3>1. call' = [call EXCEPT ![t] = call[t]]
        BY <2>3 DEF Interrupt, TypeOK
    <3> QED BY <2>3, <3>1, Zenon
  <2> QED BY <2>1, <2>2, <2>3
<1>4. call'[t] = c /\ call' \in [Threads -> Calls] /\ \A u \in Threads \ {t} : call'[u] = call[u]
    BY <1>3 DEF TypeOK
<1>5. TypeOK'
    BY <1>1, <1>2, <1>4 DEF TypeOK
<1>6. CallOK(t)'
    BY <1>1, <1>3, <1>4 DEF CallOK, CallInv
<1>7. CallInv'
    BY <1>1, <1>3, <1>6, GuardsKeepCallInv, Zenon
<1>8. CASE NotifyBump(t)
  <2>1. wake'.fresh = {} /\ call'[t].pc = "wake"
      BY <1>3, <1>4, <1>8 DEF NotifyBump, FutexBump
  <2> QED BY <1>1, <1>5, <1>7, <2>1, Untouched DEF WakeInv
<1>9. CASE NotifyWake(t)
  <2>1. /\ wake'.asleep = {} /\ wake'.fresh = wake.fresh
        /\ call'[t].pc = "idle" /\ call[t].pc = "wake"
      BY <1>3, <1>4, <1>9 DEF NotifyWake, FutexWakeAll
  <2>2. WakeInv'
      BY <1>1, <1>4, <2>1 DEF WakeInv
  <2> QED BY <1>1, <1>5, <1>7, <2>2, Untouched
<1>10. CASE Interrupt(t)
  <2>1. wake'.asleep \subseteq wake.asleep /\ wake'.fresh = wake.fresh /\ call' = call
      BY <1>10 DEF Interrupt, FutexInterrupt
  <2>2. WakeInv'
      BY <1>1, <2>1 DEF WakeInv
  <2> QED BY <1>1, <1>5, <1>7, <2>2, Untouched
<1> QED BY <1>8, <1>9, <1>10

\* Sending a guard to another thread changes only who will drop it.
LEMMA TransferStep ==
    ASSUME IInv, NEW t \in Threads, NEW g \in Guards, Transfer(g, t)
    PROVE  IInv'
<1> USE DEF IInv
<1> DEFINE r == [owner |-> guard[g].owner, holder |-> t, read |-> guard[g].read]
<1>1. UNCHANGED <<state, wake, call>> /\ g \in Live /\ guard' = [guard EXCEPT ![g] = r]
    BY DEF Transfer
<1>2. guard[g] \in GuardRecords
    BY <1>1 DEF TypeOK, Live
<1>3. r \in GuardRecords /\ r.owner = guard[g].owner /\ (r.read <=> guard[g].read)
    BY <1>2 DEF GuardRecords
<1> HIDE DEF r
<1>4. /\ guard' \in [Guards -> GuardRecords \cup {None}] /\ guard'[g] = r
      /\ \A h \in Guards : h # g => guard'[h] = guard[h]
    BY <1>1, <1>3 DEF TypeOK
<1>5. Live' = Live /\ \A h \in Live : /\ guard'[h].owner = guard[h].owner
                                      /\ guard'[h].read <=> guard[h].read
    BY <1>1, <1>3, <1>4, SerialAssumption DEF Live
<1>6. ReadGuards' = ReadGuards
    BY <1>5 DEF ReadGuards
<1>7. TypeOK'
    BY <1>1, <1>4 DEF TypeOK
<1>8. NoAliasing' /\ WordCountsGuards'
    BY <1>1, <1>5, <1>6 DEF NoAliasing, WordCountsGuards
<1>9. call[guard[g].holder].pc = "idle"
    BY DEF Transfer
<1>10. CallInv'
  <2> SUFFICES ASSUME NEW u \in Threads PROVE CallOK(u)'
      BY DEF CallInv
  <2>1. CallOK(u) /\ call'[u] = call[u]
      BY <1>1 DEF CallInv
  <2>2. call[u].pc = "release" => call[u].slot # g
      BY <1>9, <2>1 DEF CallOK
  <2>3. call[u].pc = "release" => guard'[call[u].slot] = guard[call[u].slot]
      BY <1>4, <2>1, <2>2 DEF CallOK, Live
  <2> QED BY <1>5, <2>1, <2>3 DEF CallOK
<1>11. WakeInv'
    BY <1>1 DEF WakeInv
<1> QED BY <1>7, <1>8, <1>10, <1>11

\* The word after an acquisition, as the two cases of TakeStep.
LEMMA AcquireCasStep ==
    ASSUME IInv, NEW t \in Threads, AcquireCas(t)
    PROVE  IInv'
<1>0. Typed(t)
    BY TypeFacts DEF IInv
<1> USE <1>0 DEF Typed, IInv
<1>1. call[t].pc = "acquire" /\ UNCHANGED wake
    BY DEF AcquireCas
<1>2. CASE state = call[t].seen /\ state' = Acquired(t) /\ NewGuard(t, call[t].rd) /\ Return(t)
  <2>1. \/ state = Unlocked /\ state' = Desired(t, call[t].rd)
        \/ /\ call[t].rd /\ ~state.write /\ state.owner = t /\ state.count # COUNT
           /\ state' = WithCount(state, state.count + 1)
      BY <1>1, <1>2 DEF Acquired, CallInv, CallOK
  <2> QED BY <1>1, <1>2, <2>1, TakeStep
<1>3. CASE Goto(t, "snapshot") /\ UNCHANGED <<state, guard>>
    BY <1>1, <1>3, RetryStep, Zenon DEF Goto, GotoWith
<1> QED BY <1>2, <1>3 DEF AcquireCas

\* Both halves of unlock_read(), and unlock_write(), as cases of DropStep and
\* CountedStep.
LEMMA UnlockStep ==
    ASSUME IInv, NEW t \in Threads, NEW g \in Guards, UnlockRead(t, g) \/ UnlockWrite(t, g)
    PROVE  IInv'
<1>0. Typed(t)
    BY TypeFacts DEF IInv
<1> USE <1>0 DEF Typed, IInv
<1>1. call[t].pc = "idle" /\ g \in Live /\ guard[g].holder = t /\ UNCHANGED wake
    BY Zenon DEF UnlockRead, UnlockWrite, Dropping
<1>2. PICK c \in Calls : /\ UnlockWrite(t, g) => call' = [call EXCEPT ![t] = c]
                         /\ c.pc \in {"idle", "notify"}
                         /\ state.wait => c.pc = "notify"
  <2> DEFINE n == At("notify", FALSE, None, Unlocked)
  <2>1. n \in Calls /\ n.pc = "notify"
      BY DEF At, Calls, Labels
  <2>2. CASE state.wait
    <3>1. UnlockWrite(t, g) => call' = [call EXCEPT ![t] = n]
        BY <2>2 DEF UnlockWrite, AfterRelease
    <3> HIDE DEF n
    <3> QED BY <2>1, <3>1
  <2>3. CASE ~state.wait
    <3>1. UnlockWrite(t, g) => call' = [call EXCEPT ![t] = Idle]
        BY <2>3 DEF UnlockWrite, AfterRelease
    <3> QED BY <2>3, <3>1
  <2> QED BY <2>2, <2>3
<1>3. CASE UnlockWrite(t, g)
    BY <1>1, <1>2, <1>3, DropStep, Zenon DEF UnlockWrite
<1>4. CASE UnlockRead(t, g) /\ state = Desired(guard[g].owner, TRUE)
  <2>1. state.count = 1 /\ ~state.wait
      BY <1>4 DEF Desired
  <2>2. call' = [call EXCEPT ![t] = call[t]]
      BY <1>4 DEF UnlockRead, TypeOK
  <2>3. state' = Unlocked /\ guard' = [guard EXCEPT ![g] = None] /\ guard[g].read
      BY <1>4 DEF UnlockRead
  <2> QED BY <1>1, <2>1, <2>2, <2>3, DropStep, Zenon
<1>5. CASE UnlockRead(t, g) /\ state # Desired(guard[g].owner, TRUE)
  <2> DEFINE d == At("release", TRUE, g, state)
  <2>1. d \in Calls /\ d.pc = "release" /\ d.slot = g
      BY DEF At, Calls, Labels
  <2>2. call' = [call EXCEPT ![t] = d] /\ UNCHANGED <<state, guard>> /\ guard[g].read
      BY <1>5, Zenon DEF UnlockRead
  <2> HIDE DEF d
  <2> QED BY <1>1, <2>1, <2>2, CountedStep, Zenon
<1> QED BY <1>3, <1>4, <1>5, Zenon

LEMMA ReleaseCasStep ==
    ASSUME IInv, NEW t \in Threads, ReleaseCas(t)
    PROVE  IInv'
<1>0. Typed(t)
    BY TypeFacts DEF IInv
<1> USE <1>0 DEF Typed, IInv
<1> DEFINE g == call[t].slot
<1>1. /\ call[t].pc = "release" /\ UNCHANGED wake
      /\ g \in Live /\ guard[g].read /\ guard[g].holder = t
    BY DEF ReleaseCas, CallInv, CallOK
<1>2. CASE /\ state = call[t].seen
           /\ state' = IF call[t].seen.count = 1 THEN Unlocked
                       ELSE WithCount(state, state.count - 1)
           /\ guard' = [guard EXCEPT ![g] = None]
           /\ AfterRelease(t, call[t].seen.count = 1, call[t].seen.wait)
  <2> DEFINE n == At("notify", FALSE, None, Unlocked)
  <2>1. n \in Calls /\ n.pc = "notify"
      BY DEF At, Calls, Labels
  <2>2. CASE state.count = 1 /\ state.wait
    <3>1. call' = [call EXCEPT ![t] = n]
        BY <1>2, <2>2 DEF AfterRelease
    <3> HIDE DEF n
    <3> QED BY <1>1, <1>2, <2>1, <2>2, <3>1, DropStep, Zenon
  <2>3. CASE ~(state.count = 1 /\ state.wait)
    <3>1. call' = [call EXCEPT ![t] = Idle]
        BY <1>2, <2>3, Zenon DEF AfterRelease
    <3> QED BY <1>1, <1>2, <2>3, <3>1, DropStep, Zenon
  <2> QED BY <2>2, <2>3
<1>3. CASE /\ call' = [call EXCEPT ![t] = At("release", TRUE, g, state)]
           /\ UNCHANGED <<state, guard>>
  <2> DEFINE d == At("release", TRUE, g, state)
  <2>1. d \in Calls /\ d.pc = "release" /\ d.slot = g
      BY DEF At, Calls, Labels
  <2>2. call' = [call EXCEPT ![t] = d] /\ UNCHANGED <<state, guard>>
      BY <1>3
  <2> HIDE DEF d
  <2> QED BY <1>1, <2>1, <2>2, CountedStep, Zenon
<1> QED BY <1>2, <1>3, Zenon DEF ReleaseCas

\* Every step of the lock preserves the inductive invariant.
LEMMA NextIInv == IInv /\ [Next]_vars => IInv'
<1> SUFFICES ASSUME IInv, [Next]_vars PROVE IInv'
    OBVIOUS
<1>1. CASE UNCHANGED vars
  <2>1. TypeOK' /\ WakeInv'
      BY <1>1 DEF vars, IInv, TypeOK, WakeInv
  <2>2. NoAliasing' /\ WordCountsGuards'
      BY <1>1, Untouched DEF vars
  <2>3. CallInv'
      BY <1>1 DEF vars, IInv, CallInv, CallOK, Live
  <2> QED BY <2>1, <2>2, <2>3 DEF IInv
<1>2. ASSUME NEW t \in Threads, Continue(t) PROVE IInv'
  <2>1. CASE Snapshot(t) \/ LoadState(t) \/ Resume(t)
      BY <2>1, MoveStep
  <2>2. CASE AcquireCas(t)
      BY <2>2, AcquireCasStep
  <2>3. CASE RegisterCas(t)
    <3>1. CASE state = call[t].seen /\ state' = WithWait(state) /\ Goto(t, "wait")
        BY <2>3, <3>1, RegisterStep DEF RegisterCas
    <3>2. CASE Goto(t, "snapshot") /\ UNCHANGED state
      <4>1. Typed(t)
          BY TypeFacts DEF IInv
      <4>2. /\ call[t].rd \in BOOLEAN /\ call[t].pc = "register"
            /\ call' = [call EXCEPT ![t] = At("snapshot", call[t].rd, None, Unlocked)]
          BY <2>3, <3>2, <4>1 DEF RegisterCas, Goto, GotoWith, Typed
      <4> QED BY <2>3, <3>2, <4>2, RetryStep, Zenon DEF RegisterCas
    <3> QED BY <2>3, <3>1, <3>2 DEF RegisterCas
  <2>4. CASE Wait(t)
      BY <2>4, WaitStep
  <2>5. CASE ReleaseCas(t)
      BY <2>5, ReleaseCasStep
  <2>6. CASE NotifyBump(t) \/ NotifyWake(t)
      BY <2>6, FutexStep
  <2> QED BY <1>2, <2>1, <2>2, <2>3, <2>4, <2>5, <2>6 DEF Continue
<1>3. ASSUME NEW t \in Threads, Interrupt(t) PROVE IInv'
    BY <1>3, FutexStep
<1>4. ASSUME NEW t \in Threads, NEW rd \in BOOLEAN, Lock(t, rd) PROVE IInv'
  <2>1. CASE state = Unlocked
      BY <1>4, <2>1, TakeStep DEF Lock
  <2>2. CASE state # Unlocked
      BY <1>4, <2>2, RetryStep DEF Lock
  <2> QED BY <2>1, <2>2
<1>5. ASSUME NEW t \in Threads, TryWriteGuard(t) PROVE IInv'
  <2>1. PICK rd \in BOOLEAN : ~rd
      BY Zenon
  <2>2. NewGuard(t, rd) /\ state' = Desired(t, rd)
      BY <1>5, <2>1, Zenon DEF TryWriteGuard, NewGuard, GuardOf, Desired
  <2> QED BY <1>5, <2>2, TakeStep, Zenon DEF TryWriteGuard
<1>6. ASSUME NEW t \in Threads, NEW g \in Guards, Transfer(g, t) PROVE IInv'
    BY <1>6, TransferStep
<1>7. ASSUME NEW t \in Threads, NEW g \in Guards, UnlockRead(t, g) \/ UnlockWrite(t, g)
      PROVE  IInv'
    BY <1>7, UnlockStep
<1> QED BY <1>1, <1>2, <1>3, <1>4, <1>5, <1>6, <1>7 DEF Next

LEMMA Invariance == Spec => []IInv
BY InitIInv, NextIInv, PTL DEF Spec

\* Type correctness; in particular the reader count never leaves 0..COUNT.
THEOREM TypeCorrect == Spec => []TypeOK
<1>1. IInv => TypeOK
    BY DEF IInv
<1> QED BY <1>1, Invariance, PTL

\* No schedule of lock, unlock, transfer and drop lets a writer coexist with
\* another guard, or two threads' read aliases coexist.
THEOREM Exclusion == Spec => []NoAliasing
<1>1. IInv => NoAliasing
    BY DEF IInv
<1> QED BY <1>1, Invariance, PTL

\* The word always counts exactly the live guards.
THEOREM Accounting == Spec => []WordCountsGuards
<1>1. IInv => WordCountsGuards
    BY DEF IInv
<1> QED BY <1>1, Invariance, PTL

\* A sleeping thread is always registered or about to be woken.
THEOREM WakeupsKept == Spec => []NoLostWakeup
<1>1. IInv => NoLostWakeup
  <2> SUFFICES ASSUME IInv, NEW t \in wake.asleep
               PROVE  state.wait \/ \E u \in Threads : call[u].pc \in {"notify", "wake"}
      BY DEF NoLostWakeup
  <2>1. t \in Threads
      BY DEF IInv, TypeOK, Futexes
  <2> QED BY <2>1 DEF IInv, WakeInv
<1> QED BY <1>1, Invariance, PTL

\* A step that clears the waiter flag frees the lock and leaves its thread
\* about to notify.
THEOREM RegistrationKept == Spec => RegistrationHandedOn
<1> DEFINE HandedOn == state.wait /\ ~state'.wait =>
                         /\ state' = Unlocked
                         /\ \E t \in Threads : call[t].pc # "notify" /\ call'[t].pc = "notify"
<1>1. IInv /\ [Next]_vars => [HandedOn]_vars
  <2> SUFFICES ASSUME IInv, Next, state.wait, ~state'.wait
               PROVE  /\ state' = Unlocked
                      /\ \E t \in Threads : call[t].pc # "notify" /\ call'[t].pc = "notify"
      BY DEF vars
  <2>1. PICK t \in Threads :
          \/ Continue(t) \/ Interrupt(t) \/ TryWriteGuard(t)
          \/ \E rd \in BOOLEAN : Lock(t, rd)
          \/ \E g \in Guards : Transfer(g, t) \/ UnlockRead(t, g) \/ UnlockWrite(t, g)
      BY DEF Next
  <2>t. Typed(t)
      BY TypeFacts DEF IInv
  <2> USE <2>t DEF Typed
  <2>2. state # Unlocked
      BY DEF Unlocked
  <2>3. CASE Continue(t)
    <3>1. CASE AcquireCas(t)
      <4>1. state = call[t].seen /\ state' = WithCount(state, state.count + 1)
          BY <2>2, <3>1 DEF AcquireCas, Acquired
      <4> QED BY <4>1 DEF WithCount
    <3>2. CASE RegisterCas(t)
      <4>1. state' = WithWait(state) \/ state' = state
          BY <3>2 DEF RegisterCas
      <4> QED BY <4>1 DEF WithWait
    <3>3. CASE ReleaseCas(t)
      <4>1. /\ state = call[t].seen /\ call[t].pc = "release"
            /\ state' = IF state.count = 1 THEN Unlocked ELSE WithCount(state, state.count - 1)
            /\ AfterRelease(t, state.count = 1, state.wait)
          BY <3>3, Zenon DEF ReleaseCas
      <4>2. state.count = 1
          BY <4>1 DEF WithCount
      <4>3. call' = [call EXCEPT ![t] = At("notify", FALSE, None, Unlocked)]
          BY <4>1, <4>2 DEF AfterRelease
      <4>4. call'[t].pc = "notify"
          BY <4>3 DEF At, IInv, TypeOK
      <4> QED BY <4>1, <4>2, <4>4
    <3>4. CASE Snapshot(t) \/ LoadState(t) \/ Wait(t) \/ Resume(t) \/ NotifyBump(t) \/ NotifyWake(t)
        BY <3>4 DEF Snapshot, LoadState, Wait, Resume, NotifyBump, NotifyWake
    <3> QED BY <2>3, <3>1, <3>2, <3>3, <3>4 DEF Continue
  <2>4. CASE Interrupt(t) \/ TryWriteGuard(t) \/ \E rd \in BOOLEAN : Lock(t, rd)
      BY <2>2, <2>4, Zenon DEF Interrupt, TryWriteGuard, Lock
  <2>5. ASSUME NEW g \in Guards, Transfer(g, t) \/ UnlockRead(t, g)
        PROVE  FALSE
    <3>1. state # Desired(guard[g].owner, TRUE)
        BY DEF Desired
    <3> QED BY <2>5, <3>1, Zenon DEF Transfer, UnlockRead
  <2>6. ASSUME NEW g \in Guards, UnlockWrite(t, g)
        PROVE  state' = Unlocked /\ call[t].pc # "notify" /\ call'[t].pc = "notify"
    <3>1. call' = [call EXCEPT ![t] = At("notify", FALSE, None, Unlocked)]
        BY <2>6 DEF UnlockWrite, AfterRelease
    <3>2. call'[t].pc = "notify"
        BY <3>1 DEF At, IInv, TypeOK
    <3> QED BY <2>6, <3>2 DEF UnlockWrite, Dropping
  <2> QED BY <2>1, <2>3, <2>4, <2>5, <2>6
<1> QED BY <1>1, Invariance, PTL DEF Spec, RegistrationHandedOn

\* SerialMutex implements SerialLock: every acquisition obeys the abstract
\* admission rule, every other step drops, sends or leaves alone a guard.
THEOREM Refinement == Spec => ImplementsSerialLock
<1>1. Init => Abstract!Init
    BY DEF Init, Abstract!Init
<1>2. IInv /\ [Next]_vars => [Abstract!Next]_guard
  <2> SUFFICES ASSUME IInv, Next PROVE Abstract!Next \/ guard' = guard
      BY DEF vars
  <2>1. Live = Abstract!Live
      BY DEF Live, Abstract!Live
  <2>2. ASSUME NEW t \in Threads, NEW rd \in BOOLEAN, NewGuard(t, rd),
               state = Unlocked \/ (rd /\ state.owner = t /\ ~state.write)
        PROVE  Abstract!Next
    <3>1. PICK g \in Guards \ Live : guard' = [guard EXCEPT ![g] = GuardOf(t, rd)]
        BY <2>2, Zenon DEF NewGuard
    <3>2. GuardOf(t, rd) = Abstract!GuardOf(t, rd)
        BY DEF GuardOf, Abstract!GuardOf
    <3>3. \A h \in Live : rd /\ guard[h].read /\ guard[h].owner = t
        BY <2>2 DEF IInv, WordCountsGuards, Unlocked
    <3>4. Abstract!Acquire(t, g, rd)
        BY <2>1, <3>1, <3>2, <3>3 DEF Abstract!Acquire
    <3> QED BY <3>4 DEF Abstract!Next
  <2>3. ASSUME NEW g \in Live, guard' = [guard EXCEPT ![g] = None]
        PROVE  Abstract!Next
    <3>1. g \in Guards /\ Abstract!Release(g)
        BY <2>1, <2>3 DEF Abstract!Release, Live
    <3> QED BY <3>1 DEF Abstract!Next
  <2>4. ASSUME NEW t \in Threads, Continue(t) PROVE Abstract!Next \/ guard' = guard
    <3>1. CASE AcquireCas(t)
      <4>1. CASE state = call[t].seen /\ NewGuard(t, call[t].rd)
        <5>1. state = Unlocked \/ (call[t].rd /\ state.owner = t /\ ~state.write)
            BY <3>1, <4>1 DEF IInv, AcquireCas, CallInv, CallOK
        <5>2. call[t].rd \in BOOLEAN
            BY TypeFacts DEF IInv, Typed
        <5> QED BY <4>1, <5>1, <5>2, <2>2
      <4> QED BY <3>1, <4>1 DEF AcquireCas
    <3>2. CASE ReleaseCas(t)
      <4>1. call[t].slot \in Live
          BY <3>2 DEF IInv, ReleaseCas, CallInv, CallOK
      <4> QED BY <3>2, <4>1, <2>3, Zenon DEF ReleaseCas
    <3>3. CASE \/ Snapshot(t) \/ LoadState(t) \/ RegisterCas(t) \/ Wait(t) \/ Resume(t)
               \/ NotifyBump(t) \/ NotifyWake(t)
        BY <3>3 DEF Snapshot, LoadState, RegisterCas, Wait, Resume, NotifyBump, NotifyWake
    <3> QED BY <2>4, <3>1, <3>2, <3>3 DEF Continue
  <2>5. ASSUME NEW t \in Threads, Interrupt(t) PROVE guard' = guard
      BY <2>5 DEF Interrupt
  <2>6. ASSUME NEW t \in Threads, NEW rd \in BOOLEAN, Lock(t, rd)
        PROVE  Abstract!Next \/ guard' = guard
      BY <2>6, <2>2 DEF Lock
  <2>7. ASSUME NEW t \in Threads, TryWriteGuard(t) PROVE Abstract!Next
    <3>1. PICK rd \in BOOLEAN : ~rd
        BY Zenon
    <3>2. NewGuard(t, rd)
        BY <2>7, <3>1, Zenon DEF TryWriteGuard, NewGuard, GuardOf
    <3> QED BY <2>2, <2>7, <3>2 DEF TryWriteGuard
  <2>8. ASSUME NEW t \in Threads, NEW g \in Guards, Transfer(g, t) PROVE Abstract!Next
    <3>1. Abstract!Transfer(g, t)
        BY <2>1, <2>8 DEF Transfer, Abstract!Transfer
    <3> QED BY <3>1 DEF Abstract!Next
  <2>9. ASSUME NEW t \in Threads, NEW g \in Guards, UnlockRead(t, g) \/ UnlockWrite(t, g)
        PROVE  Abstract!Next \/ guard' = guard
      BY <2>9, <2>3, Zenon DEF UnlockRead, UnlockWrite, Dropping
  <2> QED BY <2>4, <2>5, <2>6, <2>7, <2>8, <2>9 DEF Next
<1> QED BY <1>1, <1>2, Invariance, PTL DEF Spec, ImplementsSerialLock, Abstract!Spec
=============================================================================
