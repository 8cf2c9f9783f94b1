--------------------------- MODULE RawMutexProofs ---------------------------
(***************************************************************************)
(* Proofs, for any finite set of threads and any reader capacity, of the   *)
(* safety properties of RawMutex: who holds the lock, who set its flag,    *)
(* and why no writer sleeps on a lock that was released.                   *)
(***************************************************************************)
EXTENDS RawMutex, FiniteSetTheorems, TLAPS

Calls == [pc : Labels, seen : Words]

\* What a thread knows where it acts on what it loaded: only the writer itself
\* releases or downgrades, only a thread without the lock waits for it, and an
\* exchange that lets a reader in started from a word with room for it.
CallOK(t) ==
    /\ pc(t) \in {"ux_cas", "dg_cas"} => role[t] = "writer"
    /\ pc(t) \in LxLabels \cup LsLabels \cup {"ts_cas"} => role[t] = "none"
    /\ pc(t) \in {"ts_cas", "ls_fast"} => Admits(seen(t))

CallInv == \A t \in Threads : CallOK(t)

\* The flag and a holder: whoever clears this state wakes the parked writers.
Parked == state.wp /\ state.hold # 0

\* NoStrandedWriter, extended to the writers that are about to call futex_wait
\* with a snapshot that still matches: for them the bump is still to come.
WakeInv ==
    \A t \in Threads :
        /\ pc(t) = "lx_wait" /\ t \in writers.fresh =>
              Parked \/ \E u \in Threads : pc(u) = "w_bump"
        /\ t \in writers.asleep =>
              Parked \/ \E u \in Threads : pc(u) \in {"w_bump", "w_wake"}

\* The inductive invariant.
IInv == TypeOK /\ HoldersExact /\ CallInv /\ ParkedFlagHasWriter /\ WakeInv

LEMMA WordsTyped ==
    /\ UNLOCKED \in Words /\ WRITE_LOCKED \in Words /\ Idle \in Calls
    /\ UNLOCKED.hold = 0 /\ ~UNLOCKED.wp /\ ~UNLOCKED.rp
    /\ WRITE_LOCKED.hold = ONE_WRITER /\ ~WRITE_LOCKED.wp /\ ~WRITE_LOCKED.rp
<1>1. 0 \in 0..ONE_WRITER /\ ONE_WRITER \in 0..ONE_WRITER
    BY RawAssumption
<1>2. UNLOCKED \in Words /\ WRITE_LOCKED \in Words
    BY <1>1 DEF UNLOCKED, WRITE_LOCKED, Word, Words
<1>3. Idle \in Calls
    BY <1>2 DEF Idle, At, Calls, Labels
<1> QED BY <1>2, <1>3 DEF UNLOCKED, WRITE_LOCKED, Word

LEMMA InitIInv == Init => IInv
<1> SUFFICES ASSUME Init PROVE IInv
    OBVIOUS
<1>1. TypeOK
    BY WordsTyped DEF Init, TypeOK, FutexNew, Futexes, Calls
<1>2. Holding("writer") = {} /\ Holding("reader") = {}
    BY DEF Init, Holding
<1>3. HoldersExact
  <2>1. state.hold = 0 /\ Cardinality(Holding("reader")) = 0
      BY <1>2, WordsTyped, FS_EmptySet DEF Init
  <2> QED BY <1>2, <2>1, RawAssumption DEF HoldersExact
<1>4. \A t \in Threads : pc(t) = "idle"
    BY DEF Init, Idle, At, pc
<1>5. CallInv
    BY <1>4 DEF CallInv, CallOK, LxLabels, LsLabels
<1>6. ParkedFlagHasWriter
    BY WordsTyped DEF Init, ParkedFlagHasWriter
<1>7. WakeInv
    BY <1>4 DEF Init, WakeInv, FutexNew
<1> QED BY <1>1, <1>3, <1>5, <1>6, <1>7 DEF IInv

-----------------------------------------------------------------------------
(* Who holds the lock.                                                     *)

LEMMA HoldingFinite ==
    ASSUME NEW r
    PROVE  IsFiniteSet(Holding(r)) /\ Cardinality(Holding(r)) \in Nat
<1>1. Holding(r) \subseteq Threads
    BY DEF Holding
<1> QED BY <1>1, FS_Subset, FS_CardinalityType, RawAssumption

\* What HoldersExact says in the states a thread meets.
LEMMA HolderFacts ==
    ASSUME TypeOK, HoldersExact
    PROVE  /\ state.hold \in 0..ONE_WRITER
           /\ state.hold = 0 => Holding("writer") = {} /\ Holding("reader") = {}
           /\ state.hold = ONE_WRITER <=> Holding("writer") # {}
           /\ state.hold # ONE_WRITER => state.hold = Cardinality(Holding("reader"))
           /\ \A t \in Threads : role[t] = "writer" =>
                 Holding("writer") = {t} /\ Holding("reader") = {} /\ state.hold = ONE_WRITER
           /\ \A t \in Threads : role[t] = "reader" =>
                 /\ Holding("writer") = {} /\ state.hold # 0 /\ state.hold < ONE_WRITER
<1>1. state.hold \in 0..ONE_WRITER /\ ONE_WRITER \in Nat /\ ONE_WRITER > 1
    BY RawAssumption DEF TypeOK, Words
<1>2. state.hold = ONE_WRITER <=> Holding("writer") # {}
    BY <1>1 DEF HoldersExact
<1>3. state.hold # ONE_WRITER => state.hold = Cardinality(Holding("reader"))
    BY <1>2 DEF HoldersExact
<1>4. state.hold = 0 => Holding("writer") = {} /\ Holding("reader") = {}
    BY <1>1, <1>2, <1>3, HoldingFinite, FS_EmptySet
<1>5. ASSUME NEW t \in Threads, role[t] = "writer"
      PROVE  Holding("writer") = {t} /\ Holding("reader") = {} /\ state.hold = ONE_WRITER
  <2>1. t \in Holding("writer")
      BY <1>5 DEF Holding
  <2>2. Cardinality(Holding("writer")) = 1 /\ Holding("reader") = {} /\ state.hold = ONE_WRITER
      BY <2>1 DEF HoldersExact
  <2>3. PICK x : Holding("writer") = {x}
      BY <2>2, HoldingFinite, FS_Singleton, Zenon
  <2> QED BY <2>1, <2>2, <2>3
<1>6. ASSUME NEW t \in Threads, role[t] = "reader"
      PROVE  Holding("writer") = {} /\ state.hold # 0 /\ state.hold < ONE_WRITER
  <2>1. t \in Holding("reader")
      BY <1>6 DEF Holding
  <2>2. Holding("writer") = {}
      BY <2>1 DEF HoldersExact
  <2> QED BY <1>1, <1>2, <1>4, <2>1, <2>2
<1> QED BY <1>1, <1>2, <1>3, <1>4, <1>5, <1>6

\* A change of t's role changes who holds the lock, for t alone.
LEMMA RoleChange ==
    ASSUME TypeOK, NEW t \in Threads, NEW r \in {"none", "reader", "writer"}, Becomes(t, r)
    PROVE  /\ role' \in [Threads -> {"none", "reader", "writer"}]
           /\ role'[t] = r /\ \A u \in Threads \ {t} : role'[u] = role[u]
           /\ \A q : Holding(q)' = IF q = r THEN Holding(q) \cup {t} ELSE Holding(q) \ {t}
<1>1. /\ role' \in [Threads -> {"none", "reader", "writer"}]
      /\ role'[t] = r /\ \A u \in Threads \ {t} : role'[u] = role[u]
    BY DEF TypeOK, Becomes
<1>2. ASSUME NEW q
      PROVE  Holding(q)' = IF q = r THEN Holding(q) \cup {t} ELSE Holding(q) \ {t}
    BY <1>1 DEF Holding
<1> QED BY <1>1, <1>2

\* A writer takes the lock that nobody holds.
LEMMA WriterEnters ==
    ASSUME TypeOK, HoldersExact, NEW t \in Threads, state.hold = 0,
           Becomes(t, "writer"), state'.hold = ONE_WRITER
    PROVE  HoldersExact'
<1>1. Holding("writer") = {} /\ Holding("reader") = {}
    BY HolderFacts
<1>2. Holding("writer")' = {t} /\ Holding("reader")' = {}
    BY <1>1, RoleChange
<1>3. Cardinality({t}) = 1
    BY FS_Singleton
<1> QED BY <1>2, <1>3 DEF HoldersExact

\* One more reader enters a word that has room for it.
LEMMA ReaderEnters ==
    ASSUME TypeOK, HoldersExact, NEW t \in Threads, role[t] = "none",
           state.hold + 1 < ONE_WRITER, Becomes(t, "reader"), state'.hold = state.hold + 1
    PROVE  HoldersExact'
<1>1. /\ state.hold \in Nat /\ Holding("writer") = {}
      /\ state.hold = Cardinality(Holding("reader"))
    BY HolderFacts, RawAssumption
<1>2. t \notin Holding("reader")
    BY DEF Holding
<1>3. Holding("writer")' = {} /\ Holding("reader")' = Holding("reader") \cup {t}
    BY <1>1, RoleChange
<1>4. Cardinality(Holding("reader") \cup {t}) = Cardinality(Holding("reader")) + 1
    BY <1>2, HoldingFinite, FS_AddElement, Zenon
<1> QED BY <1>1, <1>3, <1>4 DEF HoldersExact

\* The writer leaves the lock to nobody.
LEMMA WriterLeaves ==
    ASSUME TypeOK, HoldersExact, NEW t \in Threads, role[t] = "writer",
           Becomes(t, "none"), state'.hold = 0
    PROVE  HoldersExact'
<1>1. Holding("writer") = {t} /\ Holding("reader") = {}
    BY HolderFacts
<1>2. Holding("writer")' = {} /\ Holding("reader")' = {}
    BY <1>1, RoleChange
<1>3. Cardinality({}) = 0
    BY FS_EmptySet
<1> QED BY <1>2, <1>3, RawAssumption DEF HoldersExact

\* The writer becomes the only reader.
LEMMA WriterStays ==
    ASSUME TypeOK, HoldersExact, NEW t \in Threads, role[t] = "writer",
           Becomes(t, "reader"), state'.hold = 1
    PROVE  HoldersExact'
<1>1. Holding("writer") = {t} /\ Holding("reader") = {}
    BY HolderFacts
<1>2. Holding("writer")' = {} /\ Holding("reader")' = {t}
    BY <1>1, RoleChange
<1>3. Cardinality({t}) = 1
    BY FS_Singleton
<1> QED BY <1>2, <1>3, RawAssumption DEF HoldersExact

\* One reader leaves.
LEMMA ReaderLeaves ==
    ASSUME TypeOK, HoldersExact, NEW t \in Threads, role[t] = "reader",
           Becomes(t, "none"), state'.hold = state.hold - 1
    PROVE  HoldersExact'
<1>1. /\ state.hold \in Nat /\ state.hold < ONE_WRITER /\ Holding("writer") = {}
      /\ state.hold = Cardinality(Holding("reader"))
    BY HolderFacts, RawAssumption
<1>2. t \in Holding("reader")
    BY DEF Holding
<1>3. Holding("writer")' = {} /\ Holding("reader")' = Holding("reader") \ {t}
    BY <1>1, RoleChange
<1>4. Cardinality(Holding("reader") \ {t}) = Cardinality(Holding("reader")) - 1
    BY <1>2, HoldingFinite, FS_RemoveElement, Zenon
<1>5. state'.hold = Cardinality(Holding("reader")')
    BY <1>1, <1>3, <1>4, Zenon
<1>6. state'.hold < ONE_WRITER
    BY <1>1, RawAssumption
<1> QED BY <1>3, <1>5, <1>6 DEF HoldersExact

\* unlock_all_shared() removes the readers, all of them.
LEMMA ReadersLeave ==
    ASSUME TypeOK, HoldersExact, state.hold \notin {0, ONE_WRITER}, state'.hold = 0,
           role' = [u \in Threads |-> IF role[u] = "reader" THEN "none" ELSE role[u]]
    PROVE  HoldersExact' /\ role' \in [Threads -> {"none", "reader", "writer"}]
<1>1. Holding("writer") = {}
    BY HolderFacts
<1>2. Holding("writer")' = {} /\ Holding("reader")' = {}
    BY <1>1 DEF Holding
<1>3. Cardinality({}) = 0
    BY FS_EmptySet
<1>4. HoldersExact'
    BY <1>2, <1>3, RawAssumption DEF HoldersExact
<1>5. \A u \in Threads : role[u] \in {"none", "reader", "writer"}
    BY DEF TypeOK
<1>6. role' \in [Threads -> {"none", "reader", "writer"}]
    BY <1>5
<1> QED BY <1>4, <1>6

\* A change of the flags alone changes nothing of it.
LEMMA NobodyMoves ==
    ASSUME HoldersExact, UNCHANGED role, state'.hold = state.hold
    PROVE  HoldersExact'
<1>1. \A r : Holding(r)' = Holding(r)
    BY DEF Holding
<1> QED BY <1>1 DEF HoldersExact

-----------------------------------------------------------------------------
(* What a step leaves alone.                                               *)

\* What TypeOK says of thread t and of the words it compares.
Typed(t) ==
    /\ UNLOCKED \in Words /\ state \in Words /\ seen(t) \in Words
    /\ state.hold \in 0..ONE_WRITER /\ state.wp \in BOOLEAN /\ state.rp \in BOOLEAN
    /\ call[t] \in Calls /\ pc(t) \in Labels
    /\ readers \in Futexes(Threads) /\ writers \in Futexes(Threads)
    /\ role[t] \in {"none", "reader", "writer"}

LEMMA TypeFacts == ASSUME TypeOK, NEW t \in Threads PROVE Typed(t)
<1>1. call[t] \in Calls /\ role[t] \in {"none", "reader", "writer"}
    BY DEF TypeOK, Calls
<1>2. pc(t) \in Labels /\ seen(t) \in Words
    BY <1>1 DEF Calls, pc, seen
<1>3. state.hold \in 0..ONE_WRITER /\ state.wp \in BOOLEAN /\ state.rp \in BOOLEAN
    BY DEF TypeOK, Words
<1> QED BY <1>1, <1>2, <1>3, WordsTyped DEF Typed, TypeOK

\* The locals At(label, w).
LEMMA Locals ==
    ASSUME NEW label \in Labels, NEW w \in Words
    PROVE  /\ At(label, w) \in Calls
           /\ At(label, w).pc = label /\ At(label, w).seen = w
BY DEF At, Calls

\* The invariant but for WakeInv survives a step of t that changes t's locals
\* and keeps the roles of the others, except that readers may be released.
LEMMA StepKeeps ==
    ASSUME IInv, NEW t \in Threads, NEW label \in Labels, NEW w \in Words,
           call' = [call EXCEPT ![t] = At(label, w)],
           state' \in Words, readers' \in Futexes(Threads), writers' \in Futexes(Threads),
           role' \in [Threads -> {"none", "reader", "writer"}], HoldersExact',
           \A u \in Threads \ {t} :
               role'[u] = role[u] \/ (role[u] = "reader" /\ role'[u] = "none"),
           label \in {"ux_cas", "dg_cas"} => role'[t] = "writer",
           label \in LxLabels \cup LsLabels \cup {"ts_cas"} => role'[t] = "none",
           label \in {"ts_cas", "ls_fast"} => Admits(w),
           state'.wp => label \in LxLabels \/ (state.wp /\ pc(t) \notin LxLabels),
           WakeInv'
    PROVE  IInv'
<1>1. /\ At(label, w) \in Calls /\ At(label, w).pc = label /\ At(label, w).seen = w
    BY Locals
<1>2. /\ call' \in [Threads -> Calls] /\ pc(t)' = label /\ seen(t)' = w
      /\ \A u \in Threads \ {t} : pc(u)' = pc(u) /\ seen(u)' = seen(u)
    BY <1>1 DEF IInv, TypeOK, Calls, pc, seen
<1>3. TypeOK'
    BY <1>2 DEF TypeOK, Calls
<1>4. CallOK(t)'
    BY <1>2 DEF CallOK, Admits
<1>5. ASSUME NEW u \in Threads \ {t} PROVE CallOK(u)'
  <2>1. CallOK(u)
      BY DEF IInv, CallInv
  <2> QED BY <1>2, <2>1 DEF CallOK, Admits
<1>6. CallInv'
    BY <1>4, <1>5 DEF CallInv
<1>7. ParkedFlagHasWriter'
  <2>1. CASE label \in LxLabels
      BY <1>2, <2>1 DEF ParkedFlagHasWriter
  <2>2. CASE label \notin LxLabels
    <3> SUFFICES ASSUME state'.wp PROVE \E u \in Threads : pc(u)' \in LxLabels
        BY DEF ParkedFlagHasWriter
    <3>1. state.wp /\ pc(t) \notin LxLabels
        BY <2>2
    <3>2. PICK u \in Threads : pc(u) \in LxLabels
        BY <3>1 DEF IInv, ParkedFlagHasWriter
    <3> QED BY <1>2, <3>1, <3>2
  <2> QED BY <2>1, <2>2
<1> QED BY <1>3, <1>6, <1>7 DEF IInv

\* WakeInv survives a step of t that neither sleeps nor notifies, if t notifies
\* next when it ends the state that sleeping writers rely on.
LEMMA WakeKept ==
    ASSUME IInv, NEW t \in Threads, NEW label \in Labels, NEW w \in Words,
           call' = [call EXCEPT ![t] = At(label, w)],
           label # "lx_wait", pc(t) \notin {"w_bump", "w_wake"},
           Parked => Parked' \/ label = "w_bump",
           writers'.fresh \subseteq writers.fresh \cup {t},
           writers'.asleep \subseteq writers.asleep
    PROVE  WakeInv'
<1>1. pc(t)' = label /\ \A u \in Threads \ {t} : pc(u)' = pc(u)
    BY Locals DEF IInv, TypeOK, Calls, pc
<1>2. (\E u \in Threads : pc(u) = "w_bump") => \E u \in Threads : pc(u)' = "w_bump"
    BY <1>1
<1>3. (\E u \in Threads : pc(u) \in {"w_bump", "w_wake"})
         => \E u \in Threads : pc(u)' \in {"w_bump", "w_wake"}
    BY <1>1
<1>4. Parked => Parked' \/ \E u \in Threads : pc(u)' = "w_bump"
    BY <1>1
<1>5. ASSUME NEW u \in Threads, pc(u)' = "lx_wait", u \in writers'.fresh
      PROVE  Parked' \/ \E v \in Threads : pc(v)' = "w_bump"
  <2>1. pc(u) = "lx_wait" /\ u \in writers.fresh
      BY <1>1, <1>5
  <2>2. Parked \/ \E v \in Threads : pc(v) = "w_bump"
      BY <2>1 DEF IInv, WakeInv
  <2> QED BY <1>2, <1>4, <2>2
<1>6. ASSUME NEW u \in Threads, u \in writers'.asleep
      PROVE  Parked' \/ \E v \in Threads : pc(v)' \in {"w_bump", "w_wake"}
  <2>1. Parked \/ \E v \in Threads : pc(v) \in {"w_bump", "w_wake"}
      BY <1>6 DEF IInv, WakeInv
  <2> QED BY <1>3, <1>4, <2>1
<1> QED BY <1>5, <1>6 DEF WakeInv

-----------------------------------------------------------------------------
(* The steps.                                                              *)

\* t moves within its call, possibly loading a futex word on the way.
LEMMA MoveStep ==
    ASSUME IInv, NEW t \in Threads, NEW label \in Labels, NEW w \in Words,
           call' = [call EXCEPT ![t] = At(label, w)],
           UNCHANGED <<state, role>>, readers' \in Futexes(Threads),
           writers' = writers \/ writers' = FutexLoad(writers, t),
           label \in {"ux_cas", "dg_cas"} => role[t] = "writer",
           label \in LxLabels \cup LsLabels \cup {"ts_cas"} => role[t] = "none",
           label \in {"ts_cas", "ls_fast"} => Admits(w),
           pc(t) \in LxLabels => label \in LxLabels,
           label # "lx_wait", pc(t) \notin {"w_bump", "w_wake"}
    PROVE  IInv'
<1>1. Typed(t)
    BY TypeFacts DEF IInv
<1>2. /\ writers' \in Futexes(Threads)
      /\ writers'.fresh \subseteq writers.fresh \cup {t} /\ writers'.asleep \subseteq writers.asleep
    BY <1>1 DEF Typed, Futexes, FutexLoad
<1>3. HoldersExact'
    BY NobodyMoves DEF IInv
<1>4. Parked' = Parked
    BY DEF Parked
<1>5. WakeInv'
    BY <1>2, <1>4, WakeKept, Zenon
<1>6. /\ state' \in Words /\ role' \in [Threads -> {"none", "reader", "writer"}]
      /\ \A u \in Threads : role'[u] = role[u]
    BY DEF IInv, TypeOK
<1>7. state'.wp => label \in LxLabels \/ (state.wp /\ pc(t) \notin LxLabels)
    OBVIOUS
<1> QED BY <1>2, <1>3, <1>5, <1>6, <1>7, StepKeeps, Zenon

\* t changes the word and perhaps its role, and notifies if it must.
LEMMA WordStep ==
    ASSUME IInv, NEW t \in Threads, NEW label \in {"idle", "lx_key", "ls_key", "w_bump", "r_bump"},
           NEW w \in Words, call' = [call EXCEPT ![t] = At(label, w)],
           state' \in Words, UNCHANGED <<readers, writers>>,
           role' \in [Threads -> {"none", "reader", "writer"}], HoldersExact',
           \A u \in Threads \ {t} :
               role'[u] = role[u] \/ (role[u] = "reader" /\ role'[u] = "none"),
           label \in {"lx_key", "ls_key"} => role'[t] = "none",
           state'.wp => label = "lx_key" \/ (state.wp /\ pc(t) \notin LxLabels),
           Parked => Parked' \/ label = "w_bump",
           pc(t) \notin {"w_bump", "w_wake"}
    PROVE  IInv'
<1>1. Typed(t)
    BY TypeFacts DEF IInv
<1>2. label \in Labels /\ label # "lx_wait" /\ label \notin {"ux_cas", "dg_cas", "ts_cas", "ls_fast"}
    BY DEF Labels, LxLabels, LsLabels, WakeLabels
<1>3. label \in LxLabels \cup LsLabels => label \in {"lx_key", "ls_key"}
    BY DEF LxLabels, LsLabels
<1>4. label = "lx_key" => label \in LxLabels
    BY DEF LxLabels
<1>5. WakeInv'
    BY <1>2, WakeKept, Zenon
<1>6. readers' \in Futexes(Threads) /\ writers' \in Futexes(Threads)
    BY <1>1 DEF Typed
<1> QED BY <1>2, <1>3, <1>4, <1>5, <1>6, StepKeeps, Zenon

\* An idle thread that stays idle keeps its locals.
LEMMA StaysIdle ==
    ASSUME IInv, NEW t \in Threads, pc(t) = "idle", UNCHANGED call
    PROVE  call' = [call EXCEPT ![t] = At("idle", seen(t))] /\ seen(t) \in Words
<1>1. call[t] \in Calls
    BY TypeFacts DEF IInv, Typed
<1>2. call[t] = At("idle", seen(t))
    BY <1>1 DEF Calls, At, pc, seen
<1> QED BY <1>1, <1>2 DEF IInv, TypeOK, Calls, seen

\* Words with given fields.
LEMMA WordFields ==
    ASSUME NEW h \in 0..ONE_WRITER, NEW rp \in BOOLEAN, NEW wp \in BOOLEAN
    PROVE  /\ Word(h, rp, wp) \in Words /\ Word(h, rp, wp).hold = h
           /\ Word(h, rp, wp).rp = rp /\ Word(h, rp, wp).wp = wp
BY DEF Word, Words

\* lock_exclusive(), try_lock_exclusive() and the loop of the slow path.
LEMMA LockExclusiveStep == ASSUME IInv, NEW t \in Threads, LockExclusive(t) PROVE IInv'
<1>0. Typed(t)
    BY TypeFacts DEF IInv
<1>1. CASE TryLockExclusive(t)
  <2>1. /\ state.hold = 0 /\ state' = WRITE_LOCKED /\ ~state'.wp /\ ~Parked
        /\ state'.hold = ONE_WRITER /\ state' \in Words
      BY <1>1, WordsTyped DEF TryLockExclusive, Parked
  <2>2. HoldersExact'
      BY <1>1, <2>1, WriterEnters DEF TryLockExclusive, IInv
  <2>3. /\ role' \in [Threads -> {"none", "reader", "writer"}]
        /\ \A u \in Threads \ {t} : role'[u] = role[u]
      BY <1>1, RoleChange DEF TryLockExclusive, IInv
  <2>4. call' = [call EXCEPT ![t] = At("idle", seen(t))] /\ seen(t) \in Words /\ pc(t) = "idle"
      BY <1>1, StaysIdle DEF TryLockExclusive
  <2>5. UNCHANGED <<readers, writers>>
      BY <1>1 DEF TryLockExclusive
  <2> QED BY <2>1, <2>2, <2>3, <2>4, <2>5, WordStep, Zenon
<1>2. CASE ~TryLockExclusive(t)
  <2>1. /\ call' = [call EXCEPT ![t] = At("lx_load", UNLOCKED)]
        /\ pc(t) = "idle" /\ role[t] = "none"
        /\ UNCHANGED <<state, readers, writers, role>>
      BY <1>2 DEF LockExclusive, Goto
  <2>2. "lx_load" \in Labels /\ pc(t) \notin LxLabels
      BY <2>1 DEF Labels, LxLabels
  <2> QED BY <1>0, <2>1, <2>2, MoveStep, Zenon DEF Typed
<1> QED BY <1>1, <1>2

LEMMA LxLoadStep == ASSUME IInv, NEW t \in Threads, LxLoad(t) \/ LxKey(t) \/ LxResume(t) PROVE IInv'
<1>0. Typed(t)
    BY TypeFacts DEF IInv
<1>1. pc(t) \in LxLabels /\ UNCHANGED <<state, readers, role>>
    BY DEF LxLoad, LxKey, LxResume, LxLabels
<1>2. role[t] = "none"
    BY <1>1 DEF IInv, CallInv, CallOK
<1>3. PICK label \in {"lx_loop", "lx_check", "lx_key"}, w \in Words :
        call' = [call EXCEPT ![t] = At(label, w)]
    BY <1>0 DEF LxLoad, LxKey, LxResume, Loaded, Goto, Typed
<1>4. writers' = writers \/ writers' = FutexLoad(writers, t)
    BY DEF LxLoad, LxKey, LxResume
<1>5. label \in Labels /\ label \in LxLabels /\ label \notin {"ux_cas", "dg_cas", "ts_cas", "ls_fast", "lx_wait"}
    BY DEF Labels, LxLabels
<1>6. pc(t) \notin {"w_bump", "w_wake"}
    BY <1>1 DEF LxLabels
<1> QED BY <1>0, <1>1, <1>2, <1>3, <1>4, <1>5, <1>6, MoveStep, Zenon DEF Typed

LEMMA LxAcquireStep == ASSUME IInv, NEW t \in Threads, LxAcquire(t) PROVE IInv'
<1>0. Typed(t)
    BY TypeFacts DEF IInv
<1>1. /\ pc(t) = "lx_loop" /\ pc(t) \in LxLabels /\ pc(t) \notin {"w_bump", "w_wake"}
      /\ seen(t).hold = 0 /\ UNCHANGED <<readers, writers>>
    BY DEF LxAcquire, LxLabels
<1>2. role[t] = "none"
    BY <1>1 DEF IInv, CallInv, CallOK
<1>3. CASE /\ state = seen(t) /\ state' = Word(ONE_WRITER, state.rp, FALSE)
           /\ Becomes(t, "writer") /\ Return(t)
  <2>1. ONE_WRITER \in 0..ONE_WRITER
      BY RawAssumption
  <2>2. state' \in Words /\ state'.hold = ONE_WRITER /\ ~state'.wp /\ ~Parked /\ state.hold = 0
      BY <1>0, <1>1, <1>3, <2>1, WordFields, Zenon DEF Typed, Parked
  <2>3. HoldersExact'
      BY <1>3, <2>2, WriterEnters, Zenon DEF IInv
  <2>4. /\ role' \in [Threads -> {"none", "reader", "writer"}]
        /\ \A u \in Threads \ {t} : role'[u] = role[u]
      BY <1>3, RoleChange DEF IInv
  <2>5. call' = [call EXCEPT ![t] = At("idle", UNLOCKED)]
      BY <1>3 DEF Return, Goto
  <2> QED BY <1>0, <1>1, <2>2, <2>3, <2>4, <2>5, WordStep, Zenon DEF Typed
<1>4. CASE Loaded(t, "lx_loop") /\ UNCHANGED <<state, role>>
  <2>1. call' = [call EXCEPT ![t] = At("lx_loop", state)]
      BY <1>4 DEF Loaded
  <2>2. "lx_loop" \in Labels /\ "lx_loop" \in LxLabels
      BY DEF Labels, LxLabels
  <2> QED BY <1>0, <1>1, <1>2, <1>4, <2>1, <2>2, MoveStep, Zenon DEF Typed
<1> QED BY <1>3, <1>4, Zenon DEF LxAcquire

LEMMA LxParkStep == ASSUME IInv, NEW t \in Threads, LxPark(t) PROVE IInv'
<1>0. Typed(t)
    BY TypeFacts DEF IInv
<1>1. /\ pc(t) = "lx_loop" /\ pc(t) \in LxLabels /\ pc(t) \notin {"w_bump", "w_wake"}
      /\ seen(t).hold # 0 /\ UNCHANGED <<readers, writers, role>>
    BY DEF LxPark, LxLabels
<1>2. role[t] = "none"
    BY <1>1 DEF IInv, CallInv, CallOK
<1>3. CASE state = seen(t) /\ state' = Word(state.hold, state.rp, TRUE) /\ Goto(t, "lx_key")
  <2>1. state' \in Words /\ state'.hold = state.hold /\ state'.wp
      BY <1>0, <1>3, WordFields, Zenon DEF Typed
  <2>2. Parked'
      BY <1>1, <1>3, <2>1, Zenon DEF Parked
  <2>3. HoldersExact'
      BY <1>1, <2>1, NobodyMoves DEF IInv
  <2>4. /\ role' \in [Threads -> {"none", "reader", "writer"}]
        /\ role'[t] = "none" /\ \A u \in Threads : role'[u] = role[u]
      BY <1>1, <1>2 DEF IInv, TypeOK
  <2>5. call' = [call EXCEPT ![t] = At("lx_key", UNLOCKED)]
      BY <1>3 DEF Goto
  <2> QED BY <1>0, <1>1, <2>1, <2>2, <2>3, <2>4, <2>5, WordStep, Zenon DEF Typed
<1>4. CASE Loaded(t, "lx_loop") /\ UNCHANGED state
  <2>1. call' = [call EXCEPT ![t] = At("lx_loop", state)]
      BY <1>4 DEF Loaded
  <2>2. "lx_loop" \in Labels /\ "lx_loop" \in LxLabels
      BY DEF Labels, LxLabels
  <2> QED BY <1>0, <1>1, <1>2, <1>4, <2>1, <2>2, MoveStep, Zenon DEF Typed
<1> QED BY <1>3, <1>4, Zenon DEF LxPark

\* The check before the wait: a writer goes on to sleep only while the flag and
\* a holder are there.
LEMMA LxCheckStep == ASSUME IInv, NEW t \in Threads, LxCheck(t) PROVE IInv'
<1>0. Typed(t)
    BY TypeFacts DEF IInv
<1>1. /\ pc(t) = "lx_check" /\ pc(t) \in LxLabels /\ pc(t) \notin {"w_bump", "w_wake"}
      /\ UNCHANGED <<state, readers, writers, role>>
    BY DEF LxCheck, LxLabels
<1>2. role[t] = "none"
    BY <1>1 DEF IInv, CallInv, CallOK
<1>3. CASE ~Parked
  <2>1. call' = [call EXCEPT ![t] = At("lx_load", UNLOCKED)]
      BY <1>3, Zenon DEF LxCheck, Goto, Parked
  <2>2. "lx_load" \in Labels /\ "lx_load" \in LxLabels
      BY DEF Labels, LxLabels
  <2> QED BY <1>0, <1>1, <1>2, <2>1, <2>2, MoveStep, Zenon DEF Typed
<1>4. CASE Parked
  <2>1. call' = [call EXCEPT ![t] = At("lx_wait", UNLOCKED)]
      BY <1>4 DEF LxCheck, Goto, Parked
  <2>2. "lx_wait" \in Labels /\ "lx_wait" \in LxLabels
      BY DEF Labels, LxLabels
  <2>3. Parked'
      BY <1>1, <1>4 DEF Parked
  <2>4. WakeInv'
      BY <2>3 DEF WakeInv
  <2>5. HoldersExact'
      BY <1>1, NobodyMoves DEF IInv
  <2>6. /\ state' \in Words /\ role' \in [Threads -> {"none", "reader", "writer"}]
        /\ role'[t] = "none" /\ \A u \in Threads : role'[u] = role[u]
        /\ readers' \in Futexes(Threads) /\ writers' \in Futexes(Threads)
      BY <1>1, <1>2 DEF IInv, TypeOK
  <2> QED BY <1>0, <2>1, <2>2, <2>4, <2>5, <2>6, StepKeeps, Zenon DEF Typed
<1> QED BY <1>3, <1>4

\* futex_wait: t sleeps only on a snapshot no bump has overtaken, so what
\* WakeInv says of a thread about to wait still holds of it asleep.
LEMMA LxWaitStep == ASSUME IInv, NEW t \in Threads, LxWait(t) PROVE IInv'
<1>0. Typed(t)
    BY TypeFacts DEF IInv
<1>1. /\ pc(t) = "lx_wait" /\ pc(t) \in LxLabels
      /\ UNCHANGED <<state, readers, role>> /\ writers' = FutexWait(writers, t)
    BY DEF LxWait, LxLabels
<1>2. role[t] = "none"
    BY <1>1 DEF IInv, CallInv, CallOK
<1>3. PICK label \in {"lx_asleep", "lx_key"} : call' = [call EXCEPT ![t] = At(label, UNLOCKED)]
    BY Zenon DEF LxWait, Goto
<1>4. label \in Labels /\ label \in LxLabels
    BY DEF Labels, LxLabels
<1>5. /\ writers' \in Futexes(Threads) /\ writers'.fresh \subseteq writers.fresh
      /\ writers'.asleep \subseteq writers.asleep \cup {t}
      /\ t \in writers'.asleep => t \in writers.fresh \/ t \in writers.asleep
    BY <1>0, <1>1 DEF Typed, FutexWait, Futexes
<1>6. pc(t)' = label /\ \A u \in Threads \ {t} : pc(u)' = pc(u)
    BY <1>0, <1>3, <1>4, Locals DEF IInv, TypeOK, Calls, pc, Typed
<1>7. Parked' = Parked
    BY <1>1 DEF Parked
<1>8. WakeInv'
  <2>1. ASSUME NEW u \in Threads, pc(u)' = "lx_wait", u \in writers'.fresh
        PROVE  Parked' \/ \E v \in Threads : pc(v)' = "w_bump"
    <3>1. u # t /\ pc(u) = "lx_wait" /\ u \in writers.fresh
        BY <1>5, <1>6, <2>1
    <3>2. Parked \/ \E v \in Threads : pc(v) = "w_bump"
        BY <3>1 DEF IInv, WakeInv
    <3> QED BY <1>1, <1>6, <1>7, <3>2
  <2>2. ASSUME NEW u \in Threads, u \in writers'.asleep
        PROVE  Parked' \/ \E v \in Threads : pc(v)' \in {"w_bump", "w_wake"}
    <3>1. Parked \/ \E v \in Threads : pc(v) \in {"w_bump", "w_wake"}
        BY <1>1, <1>5, <2>2 DEF IInv, WakeInv
    <3> QED BY <1>1, <1>6, <1>7, <3>1
  <2> QED BY <2>1, <2>2 DEF WakeInv
<1>9. HoldersExact'
    BY <1>1, NobodyMoves DEF IInv
<1>10. /\ state' \in Words /\ role' \in [Threads -> {"none", "reader", "writer"}]
       /\ role'[t] = "none" /\ \A u \in Threads : role'[u] = role[u]
       /\ readers' \in Futexes(Threads)
    BY <1>1, <1>2 DEF IInv, TypeOK
<1>11. label \notin {"ux_cas", "dg_cas", "ts_cas", "ls_fast"}
    OBVIOUS
<1> QED BY <1>0, <1>3, <1>4, <1>5, <1>8, <1>9, <1>10, <1>11, StepKeeps, Zenon DEF Typed

\* The bump makes every snapshot stale, and the wake then empties the queue.
LEMMA WakeStep == ASSUME IInv, NEW t \in Threads, WBump(t) \/ WWake(t) PROVE IInv'
<1>0. Typed(t)
    BY TypeFacts DEF IInv
<1>1. UNCHANGED <<state, readers, role>> /\ pc(t) \notin LxLabels
    BY DEF WBump, WWake, LxLabels
<1>2. PICK label \in {"w_wake", "idle"} :
        /\ call' = [call EXCEPT ![t] = At(label, UNLOCKED)]
        /\ WBump(t) => label = "w_wake"
  <2>1. CASE WBump(t)
      BY <2>1 DEF WBump, Goto
  <2>2. CASE WWake(t) /\ ~WBump(t)
      BY <2>2 DEF WWake, Return, Goto
  <2> QED BY <2>1, <2>2
<1>3. label \in Labels /\ label \notin LxLabels \cup LsLabels \cup {"ux_cas", "dg_cas", "ts_cas", "ls_fast"}
    BY DEF Labels, LxLabels, LsLabels, WakeLabels
<1>4. pc(t)' = label /\ \A u \in Threads \ {t} : pc(u)' = pc(u)
    BY <1>0, <1>2, <1>3, Locals DEF IInv, TypeOK, Calls, pc, Typed
<1>5. Parked' = Parked
    BY <1>1 DEF Parked
<1>6. ASSUME WBump(t) PROVE WakeInv'
  <2>1. writers' \in Futexes(Threads) /\ writers'.fresh = {} /\ pc(t)' = "w_wake"
      BY <1>0, <1>2, <1>4, <1>6 DEF WBump, FutexBump, Futexes, Typed
  <2> QED BY <2>1 DEF WakeInv
<1>7. ASSUME WWake(t) PROVE WakeInv'
  <2>1. /\ writers' \in Futexes(Threads) /\ writers'.asleep = {} /\ writers'.fresh = writers.fresh
        /\ pc(t) = "w_wake"
      BY <1>0, <1>7 DEF WWake, FutexWakeAll, Futexes, Typed
  <2>2. ASSUME NEW u \in Threads, pc(u)' = "lx_wait", u \in writers'.fresh
        PROVE  Parked' \/ \E v \in Threads : pc(v)' = "w_bump"
    <3>1. pc(u) = "lx_wait" /\ u \in writers.fresh
        BY <1>2, <1>4, <2>1, <2>2
    <3>2. Parked \/ \E v \in Threads : pc(v) = "w_bump"
        BY <3>1 DEF IInv, WakeInv
    <3> QED BY <1>4, <1>5, <2>1, <3>2
  <2> QED BY <2>1, <2>2 DEF WakeInv
<1>8. writers' \in Futexes(Threads)
    BY <1>0 DEF WBump, WWake, FutexBump, FutexWakeAll, Futexes, Typed
<1>9. HoldersExact'
    BY <1>1, NobodyMoves DEF IInv
<1>10. /\ state' \in Words /\ role' \in [Threads -> {"none", "reader", "writer"}]
       /\ \A u \in Threads : role'[u] = role[u]
    BY <1>1 DEF IInv, TypeOK
<1>11. WakeInv'
    BY <1>6, <1>7
<1>12. readers' \in Futexes(Threads) /\ (state'.wp => state.wp)
    BY <1>0, <1>1 DEF Typed
<1> QED BY <1>0, <1>1, <1>2, <1>3, <1>8, <1>9, <1>10, <1>11, <1>12, StepKeeps, Zenon DEF Typed

\* A spurious return takes t off a queue.
LEMMA InterruptStep == ASSUME IInv, NEW t \in Threads, Interrupt(t) PROVE IInv'
<1>1. UNCHANGED <<state, role, call>>
    BY DEF Interrupt
<1>2. /\ readers' \in Futexes(Threads) /\ writers' \in Futexes(Threads)
      /\ writers'.fresh = writers.fresh /\ writers'.asleep \subseteq writers.asleep
    BY DEF IInv, TypeOK, Interrupt, FutexInterrupt, Futexes
<1>3. TypeOK'
    BY <1>1, <1>2 DEF IInv, TypeOK
<1>4. HoldersExact'
    BY <1>1, NobodyMoves DEF IInv
<1>5. (\A u \in Threads : pc(u)' = pc(u) /\ seen(u)' = seen(u)) /\ Parked' = Parked
    BY <1>1 DEF pc, seen, Parked
<1>6. CallInv'
    BY <1>1, <1>5 DEF IInv, CallInv, CallOK
<1>7. ParkedFlagHasWriter'
    BY <1>1, <1>5 DEF IInv, ParkedFlagHasWriter
<1>8. WakeInv'
    BY <1>2, <1>5 DEF IInv, WakeInv
<1> QED BY <1>3, <1>4, <1>6, <1>7, <1>8 DEF IInv

-----------------------------------------------------------------------------
(* Exclusive release and downgrade.                                        *)

LEMMA UnlockExclusiveStep ==
    ASSUME IInv, NEW t \in Threads, UnlockExclusive(t) \/ Downgrade(t)
    PROVE  IInv'
<1>0. Typed(t)
    BY TypeFacts DEF IInv
<1>1. pc(t) = "idle" /\ role[t] = "writer" /\ UNCHANGED <<readers, writers>>
    BY DEF UnlockExclusive, Downgrade
<1>2. CASE state = WRITE_LOCKED /\ state' = UNLOCKED /\ Becomes(t, "none") /\ UNCHANGED call
  <2>1. state' \in Words /\ state'.hold = 0 /\ ~state'.wp /\ ~Parked
      BY <1>2, WordsTyped DEF Parked
  <2>2. HoldersExact'
      BY <1>1, <1>2, <2>1, WriterLeaves DEF IInv
  <2>3. /\ role' \in [Threads -> {"none", "reader", "writer"}]
        /\ \A u \in Threads \ {t} : role'[u] = role[u]
      BY <1>2, RoleChange DEF IInv
  <2>4. call' = [call EXCEPT ![t] = At("idle", seen(t))] /\ seen(t) \in Words
      BY <1>1, <1>2, StaysIdle
  <2> QED BY <1>1, <2>1, <2>2, <2>3, <2>4, WordStep, Zenon
<1>3. CASE \E label \in {"ux_cas", "dg_cas"} : Loaded(t, label) /\ UNCHANGED <<state, role>>
  <2>1. PICK label \in {"ux_cas", "dg_cas"} :
          call' = [call EXCEPT ![t] = At(label, state)] /\ UNCHANGED <<state, role>>
      BY <1>3, Zenon DEF Loaded
  <2>2. /\ label \in Labels /\ label \notin LxLabels \cup LsLabels \cup {"ts_cas", "ls_fast", "lx_wait"}
        /\ pc(t) \notin LxLabels
      BY <1>1 DEF Labels, LxLabels, LsLabels
  <2> QED BY <1>0, <1>1, <2>1, <2>2, MoveStep, Zenon DEF Typed
<1> QED BY <1>2, <1>3 DEF UnlockExclusive, Downgrade

\* The writer's release: it ends what sleeping writers rely on exactly when it
\* goes on to wake them.
LEMMA UxCasStep == ASSUME IInv, NEW t \in Threads, UxCas(t) PROVE IInv'
<1>0. Typed(t)
    BY TypeFacts DEF IInv
<1>1. pc(t) = "ux_cas" /\ UNCHANGED <<readers, writers>>
    BY DEF UxCas
<1>2. role[t] = "writer" /\ pc(t) \notin LxLabels
    BY <1>1 DEF IInv, CallInv, CallOK, LxLabels
<1>3. CASE /\ state' = IF state.wp THEN Word(0, state.rp, TRUE) ELSE UNLOCKED
           /\ Becomes(t, "none")
           /\ Goto(t, IF state.wp THEN "w_bump" ELSE IF state.rp THEN "r_bump" ELSE "idle")
  <2>1. 0 \in 0..ONE_WRITER
      BY RawAssumption
  <2>2. state' \in Words /\ state'.hold = 0 /\ (state'.wp => state.wp)
    <3>1. CASE state.wp
        BY <1>0, <1>3, <2>1, <3>1, WordFields, Zenon DEF Typed
    <3>2. CASE ~state.wp
        BY <1>3, <3>2, WordsTyped
    <3> QED BY <3>1, <3>2
  <2>3. HoldersExact'
      BY <1>2, <1>3, <2>2, WriterLeaves, Zenon DEF IInv
  <2>4. /\ role' \in [Threads -> {"none", "reader", "writer"}]
        /\ \A u \in Threads \ {t} : role'[u] = role[u]
      BY <1>3, RoleChange DEF IInv
  <2>5. PICK label \in {"idle", "w_bump", "r_bump"} :
          /\ call' = [call EXCEPT ![t] = At(label, UNLOCKED)]
          /\ state.wp => label = "w_bump"
      BY <1>3, Zenon DEF Goto
  <2>6. Parked => label = "w_bump"
      BY <2>5 DEF Parked
  <2> QED BY <1>0, <1>1, <1>2, <2>2, <2>3, <2>4, <2>5, <2>6, WordStep, Zenon DEF Typed
<1>4. CASE Loaded(t, "ux_cas") /\ UNCHANGED <<state, role>>
  <2>1. call' = [call EXCEPT ![t] = At("ux_cas", state)]
      BY <1>4 DEF Loaded
  <2>2. "ux_cas" \in Labels /\ "ux_cas" \notin LxLabels \cup LsLabels
      BY DEF Labels, LxLabels, LsLabels
  <2> QED BY <1>0, <1>1, <1>2, <1>4, <2>1, <2>2, MoveStep, Zenon DEF Typed
<1> QED BY <1>3, <1>4, Zenon DEF UxCas

LEMMA DgCasStep == ASSUME IInv, NEW t \in Threads, DgCas(t) PROVE IInv'
<1>0. Typed(t)
    BY TypeFacts DEF IInv
<1>1. pc(t) = "dg_cas" /\ UNCHANGED <<readers, writers>>
    BY DEF DgCas
<1>2. role[t] = "writer" /\ pc(t) \notin LxLabels
    BY <1>1 DEF IInv, CallInv, CallOK, LxLabels
<1>3. CASE /\ state' = Word(1, state.rp, state.wp) /\ Becomes(t, "reader")
           /\ Goto(t, IF state.rp THEN "r_bump" ELSE "idle")
  <2>1. 1 \in 0..ONE_WRITER
      BY RawAssumption
  <2>2. state' \in Words /\ state'.hold = 1 /\ state'.wp = state.wp
      BY <1>0, <1>3, <2>1, WordFields DEF Typed
  <2>3. HoldersExact'
      BY <1>2, <1>3, <2>2, WriterStays DEF IInv
  <2>4. /\ role' \in [Threads -> {"none", "reader", "writer"}]
        /\ \A u \in Threads \ {t} : role'[u] = role[u]
      BY <1>3, RoleChange DEF IInv
  <2>5. PICK label \in {"idle", "r_bump"} : call' = [call EXCEPT ![t] = At(label, UNLOCKED)]
      BY <1>3, Zenon DEF Goto
  <2>6. Parked => Parked'
      BY <2>2 DEF Parked
  <2> QED BY <1>0, <1>1, <1>2, <2>2, <2>3, <2>4, <2>5, <2>6, WordStep, Zenon DEF Typed
<1>4. CASE Loaded(t, "dg_cas") /\ UNCHANGED <<state, role>>
  <2>1. call' = [call EXCEPT ![t] = At("dg_cas", state)]
      BY <1>4 DEF Loaded
  <2>2. "dg_cas" \in Labels /\ "dg_cas" \notin LxLabels \cup LsLabels
      BY DEF Labels, LxLabels, LsLabels
  <2> QED BY <1>0, <1>1, <1>2, <1>4, <2>1, <2>2, MoveStep, Zenon DEF Typed
<1> QED BY <1>3, <1>4 DEF DgCas

-----------------------------------------------------------------------------
(* Shared acquisition and release.                                         *)

\* The exchange that lets a reader in.
LEMMA EnterStep ==
    ASSUME IInv, NEW t \in Threads, EnterShared(t), Admits(seen(t)), role[t] = "none",
           pc(t) \in {"ts_cas", "ls_fast", "ls_loop"}, UNCHANGED <<readers, writers>>
    PROVE  IInv'
<1>0. Typed(t)
    BY TypeFacts DEF IInv
<1>1. state.hold + 1 < ONE_WRITER /\ ~state.wp
    BY DEF EnterShared, Admits
<1>2. state.hold + 1 \in 0..ONE_WRITER
    BY <1>0, <1>1, RawAssumption DEF Typed
<1>3. state' \in Words /\ state'.hold = state.hold + 1 /\ ~state'.wp /\ ~Parked
    BY <1>0, <1>1, <1>2, WordFields DEF EnterShared, Typed, Parked
<1>4. HoldersExact'
    BY <1>1, <1>3, ReaderEnters DEF EnterShared, IInv
<1>5. /\ role' \in [Threads -> {"none", "reader", "writer"}]
      /\ \A u \in Threads \ {t} : role'[u] = role[u]
    BY RoleChange DEF EnterShared, IInv
<1>6. call' = [call EXCEPT ![t] = At("idle", UNLOCKED)]
    BY DEF EnterShared, Return, Goto
<1> QED BY <1>0, <1>3, <1>4, <1>5, <1>6, WordStep, Zenon DEF Typed

\* Every other step of a thread that wants to read, but for the one that sets
\* READERS_PARKED.
LEMMA ReaderMoves ==
    ASSUME IInv, NEW t \in Threads,
           pc(t) \in {"idle", "ts_cas"} \cup LsLabels, role[t] = "none",
           NEW label \in {"idle", "ts_cas"} \cup LsLabels, NEW w \in Words,
           call' = [call EXCEPT ![t] = At(label, w)],
           label \in {"ts_cas", "ls_fast"} => Admits(w),
           readers' \in Futexes(Threads), UNCHANGED <<state, writers, role>>
    PROVE  IInv'
<1>1. /\ label \in Labels /\ label \notin {"ux_cas", "dg_cas", "lx_wait"}
      /\ pc(t) \notin LxLabels /\ pc(t) \notin {"w_bump", "w_wake"}
    BY DEF Labels, LsLabels, LxLabels
<1> QED BY <1>1, MoveStep, Zenon

LEMMA TryLockSharedStep ==
    ASSUME IInv, NEW t \in Threads, TryLockShared(t) \/ LockShared(t) \/ TsCas(t) \/ LsFast(t)
    PROVE  IInv'
<1>0. Typed(t)
    BY TypeFacts DEF IInv
<1>1. pc(t) \in {"idle", "ts_cas"} \cup LsLabels /\ UNCHANGED <<readers, writers>>
    BY DEF TryLockShared, LockShared, TsCas, LsFast, LsLabels
<1>2. role[t] = "none" /\ (pc(t) \in {"ts_cas", "ls_fast"} => Admits(seen(t)))
    BY DEF TryLockShared, LockShared, TsCas, LsFast, IInv, CallInv, CallOK, LsLabels
<1>3. CASE EnterShared(t) /\ pc(t) \in {"ts_cas", "ls_fast"}
    BY <1>1, <1>2, <1>3, EnterStep
<1>4. CASE /\ Loaded(t, "ts_cas") \/ Loaded(t, "ls_fast")
           /\ Admits(state) /\ UNCHANGED <<state, role>>
  <2>1. PICK label \in {"ts_cas", "ls_fast"} : call' = [call EXCEPT ![t] = At(label, state)]
      BY <1>4 DEF Loaded
  <2>2. label \in {"idle", "ts_cas"} \cup LsLabels
      BY DEF LsLabels
  <2> QED BY <1>0, <1>1, <1>2, <1>4, <2>1, <2>2, ReaderMoves, Zenon DEF Typed
<1>5. CASE (Goto(t, "ls_load") \/ Return(t)) /\ UNCHANGED <<state, role>>
  <2>1. PICK label \in {"ls_load", "idle"} : call' = [call EXCEPT ![t] = At(label, UNLOCKED)]
      BY <1>5 DEF Goto, Return
  <2>2. label \in {"idle", "ts_cas"} \cup LsLabels /\ label \notin {"ts_cas", "ls_fast"}
      BY DEF LsLabels
  <2> QED BY <1>0, <1>1, <1>2, <1>5, <2>1, <2>2, ReaderMoves, Zenon DEF Typed
<1>6. CASE TryLockShared(t)
    BY <1>4, <1>6 DEF TryLockShared
<1>7. CASE LockShared(t)
    BY <1>4, <1>5, <1>7 DEF LockShared
<1>8. CASE TsCas(t)
    BY <1>3, <1>4, <1>5, <1>8 DEF TsCas
<1>9. CASE LsFast(t)
    BY <1>3, <1>5, <1>9 DEF LsFast
<1> QED BY <1>6, <1>7, <1>8, <1>9

LEMMA LsStep ==
    ASSUME IInv, NEW t \in Threads,
           \/ LsLoad(t) \/ LsAcquire(t) \/ LsPark(t) \/ LsKey(t) \/ LsCheck(t) \/ LsWait(t)
           \/ LsResume(t)
    PROVE  IInv'
<1>0. Typed(t)
    BY TypeFacts DEF IInv
<1>1. pc(t) \in LsLabels /\ pc(t) \notin LxLabels /\ UNCHANGED writers
    BY Zenon DEF LsLoad, LsAcquire, LsPark, LsKey, LsCheck, LsWait, LsResume, LsLabels, LxLabels
<1>2. role[t] = "none"
    BY <1>1 DEF IInv, CallInv, CallOK
<1>3. readers' \in Futexes(Threads)
  <2>1. readers' \in {readers, FutexLoad(readers, t), FutexWait(readers, t)}
      BY Zenon DEF LsLoad, LsAcquire, LsPark, LsKey, LsCheck, LsWait, LsResume
  <2>2. FutexLoad(readers, t) \in Futexes(Threads) /\ FutexWait(readers, t) \in Futexes(Threads)
      BY <1>0 DEF Typed, Futexes, FutexLoad, FutexWait
  <2> QED BY <1>0, <2>1, <2>2 DEF Typed
<1>4. CASE EnterShared(t) /\ LsAcquire(t)
    BY <1>1, <1>2, <1>4, EnterStep DEF LsAcquire
<1>5. CASE state = seen(t) /\ state' = Word(state.hold, TRUE, state.wp) /\ Goto(t, "ls_key") /\ LsPark(t)
  <2>1. state' \in Words /\ state'.hold = state.hold /\ state'.wp = state.wp
      BY <1>0, <1>5, WordFields, Zenon DEF Typed
  <2>2. UNCHANGED <<readers, writers, role>> /\ pc(t) \notin {"w_bump", "w_wake"}
      BY <1>5 DEF LsPark
  <2>3. HoldersExact' /\ Parked' = Parked
      BY <2>1, <2>2, NobodyMoves DEF IInv, Parked
  <2>4. /\ role' \in [Threads -> {"none", "reader", "writer"}]
        /\ role'[t] = "none" /\ \A u \in Threads : role'[u] = role[u]
      BY <1>2, <2>2 DEF IInv, TypeOK
  <2>5. call' = [call EXCEPT ![t] = At("ls_key", UNLOCKED)]
      BY <1>5 DEF Goto
  <2> QED BY <1>0, <1>1, <2>1, <2>2, <2>3, <2>4, <2>5, WordStep, Zenon DEF Typed
<1>6. CASE /\ UNCHANGED <<state, role>>
           /\ \/ Loaded(t, "ls_loop")
              \/ \E label \in {"ls_load", "ls_check", "ls_wait", "ls_asleep"} : Goto(t, label)
  <2>1. PICK label \in {"ls_loop", "ls_load", "ls_check", "ls_wait", "ls_asleep"}, w \in Words :
          call' = [call EXCEPT ![t] = At(label, w)]
      BY <1>0, <1>6 DEF Loaded, Goto, Typed
  <2>2. label \in {"idle", "ts_cas"} \cup LsLabels /\ label \notin {"ts_cas", "ls_fast"}
      BY DEF LsLabels
  <2> QED BY <1>0, <1>1, <1>2, <1>3, <1>6, <2>1, <2>2, ReaderMoves, Zenon DEF Typed
<1>7. CASE LsLoad(t)
    BY <1>6, <1>7 DEF LsLoad
<1>8. CASE LsAcquire(t)
    BY <1>4, <1>6, <1>8 DEF LsAcquire
<1>9. CASE LsPark(t)
    BY <1>5, <1>6, <1>9, Zenon DEF LsPark
<1>10. CASE LsKey(t)
    BY <1>6, <1>10 DEF LsKey
<1>11. CASE LsCheck(t)
    BY <1>6, <1>11 DEF LsCheck
<1>12. CASE LsWait(t)
    BY <1>6, <1>12 DEF LsWait
<1>13. CASE LsResume(t)
    BY <1>6, <1>13 DEF LsResume
<1> QED BY <1>7, <1>8, <1>9, <1>10, <1>11, <1>12, <1>13

\* The readers' wakes: they concern no writer.
LEMMA ReadersWakeStep == ASSUME IInv, NEW t \in Threads, RBump(t) \/ RWake(t) PROVE IInv'
<1>0. Typed(t)
    BY TypeFacts DEF IInv
<1>1. /\ pc(t) \notin LxLabels /\ pc(t) \notin {"w_bump", "w_wake"}
      /\ UNCHANGED <<state, writers, role>>
    BY DEF RBump, RWake, LxLabels
<1>2. readers' \in Futexes(Threads)
    BY <1>0 DEF RBump, RWake, Typed, Futexes, FutexBump, FutexWakeAll
<1>3. PICK label \in {"r_wake", "idle"} : call' = [call EXCEPT ![t] = At(label, UNLOCKED)]
    BY DEF RBump, RWake, Goto, Return
<1>4. /\ label \in Labels
      /\ label \notin LxLabels \cup LsLabels \cup {"ux_cas", "dg_cas", "ts_cas", "ls_fast", "lx_wait"}
    BY DEF Labels, LxLabels, LsLabels, WakeLabels
<1> QED BY <1>0, <1>1, <1>2, <1>3, <1>4, MoveStep, Zenon DEF Typed

\* A reader leaves: the last one, and nobody else, ends what sleeping writers
\* rely on, and it goes on to wake them.
LEMMA UnlockSharedStep == ASSUME IInv, NEW t \in Threads, UnlockShared(t) PROVE IInv'
<1>0. Typed(t)
    BY TypeFacts DEF IInv
<1>1. /\ pc(t) = "idle" /\ role[t] = "reader" /\ UNCHANGED <<readers, writers>>
      /\ state' = Word(state.hold - 1, state.rp, state.wp) /\ Becomes(t, "none")
    BY DEF UnlockShared
<1>2. state.hold # 0
    BY <1>1, HolderFacts DEF IInv
<1>3. state.hold - 1 \in 0..ONE_WRITER
    BY <1>0, <1>2, RawAssumption DEF Typed
<1>4. state' \in Words /\ state'.hold = state.hold - 1 /\ state'.wp = state.wp
    BY <1>0, <1>1, <1>3, WordFields DEF Typed
<1>5. HoldersExact'
    BY <1>1, <1>4, ReaderLeaves DEF IInv
<1>6. /\ role' \in [Threads -> {"none", "reader", "writer"}]
      /\ \A u \in Threads \ {t} : role'[u] = role[u]
    BY <1>1, RoleChange DEF IInv
<1>7. PICK label \in {"idle", "w_bump"} :
        /\ call' = [call EXCEPT ![t] = At(label, UNLOCKED)]
        /\ state.hold = 1 /\ state.wp => label = "w_bump"
    BY Zenon DEF UnlockShared, Goto
<1>8. state'.hold = 0 => state.hold = 1
    BY <1>0, <1>4, RawAssumption DEF Typed
<1>9. Parked => Parked' \/ label = "w_bump"
    BY <1>4, <1>7, <1>8 DEF Parked
<1>10. pc(t) \notin LxLabels /\ pc(t) \notin {"w_bump", "w_wake"}
    BY <1>1 DEF LxLabels
<1> QED BY <1>0, <1>1, <1>4, <1>5, <1>6, <1>7, <1>9, <1>10, WordStep, Zenon DEF Typed

LEMMA UnlockAllSharedStep ==
    ASSUME IInv, NEW t \in Threads, UnlockAllShared(t) \/ UaCas(t)
    PROVE  IInv'
<1>0. Typed(t)
    BY TypeFacts DEF IInv
<1>1. /\ pc(t) \in {"idle", "ua_cas"} /\ UNCHANGED <<readers, writers>>
      /\ pc(t) \notin LxLabels /\ pc(t) \notin {"w_bump", "w_wake"}
    BY DEF UnlockAllShared, UaCas, LxLabels
<1>2. CASE (Loaded(t, "ua_cas") \/ Return(t)) /\ UNCHANGED <<state, role>>
  <2>1. PICK label \in {"ua_cas", "idle"}, w \in Words : call' = [call EXCEPT ![t] = At(label, w)]
      BY <1>0, <1>2 DEF Loaded, Return, Goto, Typed
  <2>2. /\ label \in Labels
        /\ label \notin LxLabels \cup LsLabels \cup {"ux_cas", "dg_cas", "ts_cas", "ls_fast", "lx_wait"}
      BY DEF Labels, LxLabels, LsLabels
  <2> QED BY <1>0, <1>1, <1>2, <2>1, <2>2, MoveStep, Zenon DEF Typed
<1>3. CASE /\ state.hold \notin {0, ONE_WRITER} /\ state' = Word(0, state.rp, state.wp)
           /\ role' = [u \in Threads |-> IF role[u] = "reader" THEN "none" ELSE role[u]]
           /\ Goto(t, IF state.wp THEN "w_bump" ELSE "idle")
  <2>1. 0 \in 0..ONE_WRITER
      BY RawAssumption
  <2>2. state' \in Words /\ state'.hold = 0 /\ state'.wp = state.wp
      BY <1>0, <1>3, <2>1, WordFields DEF Typed
  <2>3. HoldersExact' /\ role' \in [Threads -> {"none", "reader", "writer"}]
      BY <1>3, <2>2, ReadersLeave DEF IInv
  <2>4. \A u \in Threads : role'[u] = role[u] \/ (role[u] = "reader" /\ role'[u] = "none")
      BY <1>3
  <2>5. PICK label \in {"idle", "w_bump"} :
          /\ call' = [call EXCEPT ![t] = At(label, UNLOCKED)]
          /\ state.wp => label = "w_bump"
      BY <1>3, Zenon DEF Goto
  <2>6. Parked => label = "w_bump"
      BY <2>5 DEF Parked
  <2> QED BY <1>0, <1>1, <2>2, <2>3, <2>4, <2>5, <2>6, WordStep, Zenon DEF Typed
<1>4. CASE UnlockAllShared(t)
    BY <1>2, <1>4 DEF UnlockAllShared
<1>5. CASE UaCas(t)
    BY <1>2, <1>3, <1>5 DEF UaCas
<1> QED BY <1>4, <1>5

-----------------------------------------------------------------------------
(* The theorems.                                                           *)

LEMMA Invariance == IInv /\ [Next]_vars => IInv'
<1> SUFFICES ASSUME IInv, [Next]_vars PROVE IInv'
    OBVIOUS
<1>1. CASE UNCHANGED vars
  <2>1. /\ \A u \in Threads : pc(u)' = pc(u) /\ seen(u)' = seen(u)
        /\ Parked' = Parked /\ \A r : Holding(r)' = Holding(r)
      BY <1>1 DEF vars, pc, seen, Parked, Holding
  <2>2. TypeOK' /\ HoldersExact'
      BY <1>1, <2>1 DEF vars, IInv, TypeOK, HoldersExact
  <2>3. CallInv'
      BY <1>1, <2>1 DEF vars, IInv, CallInv, CallOK
  <2>4. ParkedFlagHasWriter' /\ WakeInv'
      BY <1>1, <2>1 DEF vars, IInv, ParkedFlagHasWriter, WakeInv
  <2> QED BY <2>2, <2>3, <2>4 DEF IInv
<1>2. ASSUME NEW t \in Threads, Call(t) PROVE IInv'
    BY <1>2, LockExclusiveStep, UnlockExclusiveStep, TryLockSharedStep, UnlockSharedStep,
       UnlockAllSharedStep DEF Call
<1>3. ASSUME NEW t \in Threads, Continue(t) PROVE IInv'
    BY <1>3, LxLoadStep, LxAcquireStep, LxParkStep, LxCheckStep, LxWaitStep, UxCasStep, DgCasStep,
       WakeStep, ReadersWakeStep, TryLockSharedStep, LsStep, UnlockAllSharedStep DEF Continue
<1> QED BY <1>1, <1>2, <1>3, InterruptStep DEF Next

LEMMA Invariant == Spec => []IInv
BY InitIInv, Invariance, PTL DEF Spec

\* For any finite set of threads and any capacity, the word, the futexes, the
\* roles and the calls keep their types; the count stays below the pattern.
THEOREM TypeCorrect == Spec => []TypeOK
<1>1. IInv => TypeOK
    BY DEF IInv
<1> QED BY <1>1, Invariant, PTL

\* A writer is alone, and the holder bits count the holders exactly, bulk
\* releases and downgrades included.
THEOREM Accounting == Spec => []HoldersExact
<1>1. IInv => HoldersExact
    BY DEF IInv
<1> QED BY <1>1, Invariant, PTL

\* WRITERS_PARKED is set only while a thread is inside lock_exclusive_slow(),
\* which will clear it: no stale flag turns readers away for good.
THEOREM FlagsOwned == Spec => []ParkedFlagHasWriter
<1>1. IInv => ParkedFlagHasWriter
    BY DEF IInv
<1> QED BY <1>1, Invariant, PTL

\* A sleeping writer has its flag in a held word, or its wake is on the way.
THEOREM WritersNotStranded == Spec => []NoStrandedWriter
<1>1. IInv => NoStrandedWriter
  <2> SUFFICES ASSUME IInv PROVE NoStrandedWriter
      OBVIOUS
  <2>1. \A t \in writers.asleep : t \in Threads
      BY DEF IInv, TypeOK, Futexes
  <2> QED BY <2>1 DEF IInv, WakeInv, Parked, NoStrandedWriter
<1> QED BY <1>1, Invariant, PTL

\* With the flag set before and after a step, the holder bits do not grow.
LEMMA PreferenceStep ==
    ASSUME IInv, NEW t \in Threads, Call(t) \/ Continue(t) \/ Interrupt(t), state.wp, state'.wp
    PROVE  state'.hold <= state.hold
<1>0. Typed(t) /\ state.hold \in Nat
    BY TypeFacts, RawAssumption DEF IInv, Typed
<1>1. CASE UNCHANGED state
    BY <1>0, <1>1
<1>2. ASSUME EnterShared(t), Admits(seen(t)) PROVE FALSE
    BY <1>2 DEF EnterShared, Admits
<1>3. CASE LockExclusive(t)
    BY <1>1, <1>3, WordsTyped DEF LockExclusive, TryLockExclusive
<1>4. CASE UnlockExclusive(t)
    BY <1>1, <1>4, WordsTyped DEF UnlockExclusive
<1>5. CASE LxAcquire(t)
    BY <1>1, <1>5 DEF LxAcquire, Word
<1>6. CASE LxPark(t) \/ LsPark(t)
    BY <1>0, <1>1, <1>6 DEF LxPark, LsPark, Word
<1>7. CASE UxCas(t)
    BY <1>0, <1>1, <1>7 DEF UxCas, Word
<1>8. CASE DgCas(t)
  <2>1. role[t] = "writer"
      BY <1>8 DEF DgCas, IInv, CallInv, CallOK
  <2>2. state.hold = ONE_WRITER /\ ONE_WRITER \in Nat /\ ONE_WRITER > 1
      BY <2>1, HolderFacts, RawAssumption DEF IInv
  <2> QED BY <1>1, <1>8, <2>2 DEF DgCas, Word
<1>9. CASE UnlockShared(t)
    BY <1>0, <1>9 DEF UnlockShared, Word
<1>10. CASE UaCas(t)
    BY <1>0, <1>1, <1>10 DEF UaCas, Word
<1>11. CASE TsCas(t) \/ LsFast(t) \/ LsAcquire(t)
  <2>1. pc(t) \in {"ts_cas", "ls_fast"} => Admits(seen(t))
      BY DEF IInv, CallInv, CallOK
  <2> QED BY <1>1, <1>2, <1>11, <2>1 DEF TsCas, LsFast, LsAcquire
<1>12. CASE Downgrade(t) \/ TryLockShared(t) \/ LockShared(t) \/ UnlockAllShared(t) \/ Interrupt(t)
    BY <1>1, <1>12 DEF Downgrade, TryLockShared, LockShared, UnlockAllShared, Interrupt
<1>13. CASE LxLoad(t) \/ LxKey(t) \/ LxCheck(t) \/ LxWait(t) \/ LxResume(t)
    BY <1>1, <1>13 DEF LxLoad, LxKey, LxCheck, LxWait, LxResume
<1>14. CASE LsLoad(t) \/ LsKey(t) \/ LsCheck(t) \/ LsWait(t) \/ LsResume(t)
    BY <1>1, <1>14 DEF LsLoad, LsKey, LsCheck, LsWait, LsResume
<1>15. CASE WBump(t) \/ WWake(t) \/ RBump(t) \/ RWake(t)
    BY <1>1, <1>15 DEF WBump, WWake, RBump, RWake
<1> QED BY <1>3, <1>4, <1>5, <1>6, <1>7, <1>8, <1>9, <1>10, <1>11, <1>12, <1>13, <1>14, <1>15
        DEF Call, Continue

\* While a writer is parked no reader enters: the count only falls.
THEOREM WritersPreferred == Spec => WriterPreference
<1>1. IInv /\ [Next]_vars => [state.wp /\ state'.wp => state'.hold <= state.hold]_vars
    BY PreferenceStep DEF Next
<1> QED BY <1>1, Invariant, PTL DEF Spec, WriterPreference
=============================================================================
