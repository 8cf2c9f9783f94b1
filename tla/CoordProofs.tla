---------------------------- MODULE CoordProofs ----------------------------
(***************************************************************************)
(* Proofs, for any finite set of threads and any number of lanes, that     *)
(* Coord counts its pins exactly and implements OperationPins.             *)
(***************************************************************************)
EXTENDS Coord, FiniteSetTheorems, TLAPS

Private == 0..(LANES - 1)
Calls == [pc : Labels, i : Lanes, n : Nat]
Holder == {"publish", "try_publish", "scan", "try_scan", "unlock_writers"}
OnLane == {"recheck", "undo", "undo_store"}
Scanning == {"scan", "try_scan"}

\* register() passed over the first j lanes of t's search: others own them.
\* No lane is ever given back, so what was passed once is passed forever.
Passed(t, j) == \A i \in 0..(j - 1) : owners[(t + i) % LANES] \notin {None, t}

\* A lane's owner found it after passing over the lanes before it; searching
\* again the owner stops where it stopped then, and so owns no second lane.
OwnersInv ==
    /\ \A k \in Private, t \in Threads : owners[k] = t =>
          \E j \in Private : k = (t + j) % LANES /\ Passed(t, j)
    /\ \A k, l \in Private : owners[k] = owners[l] /\ owners[k] # None => k = l

\* What a thread knows at each label of its call.
CallOK(t) ==
    /\ last[t] \in Private => owners[last[t]] = t
    /\ pin[t] \in Private => owners[pin[t]] = t
    /\ pc(t) = "register" => Passed(t, call[t].i)
    /\ pc(t) \in OnLane \cup {"add", "assert", "spin"} => last[t] \in Lanes
    /\ pc(t) \notin {"idle", "drop_store"} => pin[t] = NoLane
    /\ pc(t) = "undo_store" => last[t] \in Private /\ call[t].n = readers[last[t]]
    /\ pc(t) = "drop_store" => pin[t] \in Private /\ call[t].n = readers[pin[t]]

CallInv == \A t \in Threads : CallOK(t)

\* Who may be inside exclusive(): the owner of the writers lock alone, and the
\* flag is up exactly while its owner scans or has been given exclusive access.
WriterInv ==
    /\ \A t \in Threads : pc(t) \in Holder => writers = t /\ excl = None
    /\ excl # None => writers = excl
    /\ writing <=> excl # None \/ \E t \in Threads : pc(t) \in Scanning

\* Each pin is on a lane the scan has yet to reach, and none is left at its end.
ScanInv ==
    \A u \in Threads : pin[u] # NoLane =>
        /\ excl = None
        /\ \A t \in Threads : pc(t) \in Scanning => pin[u] >= call[t].i

CountInv == \A l \in Lanes : readers[l] = Cardinality(Counted(l))

\* The inductive invariant.
IInv == TypeOK /\ CountInv /\ OwnersInv /\ CallInv /\ WriterInv /\ ScanInv

LEMMA LaneFacts ==
    /\ Private \subseteq Lanes /\ LANES \in Lanes /\ 0 \in Lanes /\ NoLane \notin Lanes
    /\ \A l \in Lanes : l \in Private <=> Owned(l)
    /\ \A l \in Lanes : l \in Private \/ l = LANES
    /\ \A l \in Lanes : l >= 0 /\ l <= LANES /\ l \in Nat
BY CoordAssumption DEF Private, Lanes, NoLane, Owned

LEMMA AtTyped ==
    ASSUME NEW label \in Labels, NEW i \in Lanes, NEW n \in Nat
    PROVE  /\ At(label, i, n) \in Calls
           /\ At(label, i, n).pc = label /\ At(label, i, n).i = i /\ At(label, i, n).n = n
BY DEF At, Calls

Moved(t, label, i, n) == call' = [call EXCEPT ![t] = At(label, i, n)]

\* A step of t moves t alone.
LEMMA Moves ==
    ASSUME TypeOK, NEW t \in Threads, NEW label \in Labels, NEW i \in Lanes, NEW n \in Nat,
           Moved(t, label, i, n)
    PROVE  /\ call' \in [Threads -> Calls]
           /\ pc(t)' = label /\ call'[t].i = i /\ call'[t].n = n
           /\ \A u \in Threads \ {t} : call'[u] = call[u] /\ pc(u)' = pc(u)
<1>1. call \in [Threads -> Calls]
    BY DEF TypeOK, Calls
<1>2. call'[t] = At(label, i, n) /\ \A u \in Threads \ {t} : call'[u] = call[u]
    BY <1>1 DEF Moved
<1>3. call' \in [Threads -> Calls]
    BY <1>1, AtTyped DEF Moved
<1> QED BY <1>2, <1>3, AtTyped DEF pc

LEMMA GotoMoves ==
    ASSUME TypeOK, NEW t \in Threads, NEW label \in Labels, Goto(t, label)
    PROVE  pc(t)' = label /\ \A u \in Threads \ {t} : pc(u)' = pc(u)
<1>1. Moved(t, label, 0, 0) /\ 0 \in Lanes /\ 0 \in Nat
    BY LaneFacts DEF Goto, Moved
<1> QED BY <1>1, Moves

LEMMA InitIInv == Init => IInv
<1> SUFFICES ASSUME Init PROVE IInv
    OBVIOUS
<1>1. \A t \in Threads : pc(t) = "idle" /\ pin[t] = NoLane /\ last[t] = NoLane
    BY DEF Init, At, pc
<1>2. At("idle", 0, 0) \in Calls
    BY AtTyped, LaneFacts DEF Labels
<1>3. TypeOK
    BY <1>2, Zenon DEF Init, TypeOK, Calls
<1>4. CountInv
  <2> SUFFICES ASSUME NEW l \in Lanes PROVE readers[l] = Cardinality(Counted(l))
      BY DEF CountInv
  <2>1. Counted(l) = {}
      BY <1>1, LaneFacts DEF Counted
  <2> QED BY <2>1, FS_EmptySet DEF Init
<1>5. OwnersInv
    BY CoordAssumption DEF Init, OwnersInv, Private
<1>6. CallInv
    BY <1>1, LaneFacts DEF CallInv, CallOK, OnLane
<1>7. WriterInv
    BY <1>1 DEF Init, WriterInv, Holder, Scanning
<1>8. ScanInv
    BY <1>1 DEF ScanInv
<1> QED BY <1>3, <1>4, <1>5, <1>6, <1>7, <1>8 DEF IInv

-----------------------------------------------------------------------------
(* What a step that leaves a part of the state alone preserves.            *)

LEMMA CountFrame ==
    ASSUME CountInv, UNCHANGED <<readers, pin>>,
           \A u \in Threads : /\ pc(u)' \in OnLane <=> pc(u) \in OnLane
                              /\ pc(u) \in OnLane => last'[u] = last[u]
    PROVE  CountInv'
<1> SUFFICES ASSUME NEW l \in Lanes PROVE readers'[l] = Cardinality(Counted(l)')
    BY DEF CountInv, Lanes
<1>1. Counted(l)' = Counted(l)
    BY DEF Counted, OnLane
<1> QED BY <1>1 DEF CountInv

LEMMA OwnersFrame ==
    ASSUME OwnersInv, UNCHANGED owners
    PROVE  /\ OwnersInv'
           /\ \A u \in Threads, j \in Lanes : Passed(u, j) => Passed(u, j)'
BY DEF OwnersInv, Passed, Private, Lanes

\* The threads other than t, when t changes no count of theirs.
LEMMA OthersFrame ==
    ASSUME TypeOK, CallInv, NEW t \in Threads,
           \A u \in Threads \ {t} : call'[u] = call[u] /\ last'[u] = last[u] /\ pin'[u] = pin[u],
           \A k \in Private, u \in Threads \ {t} :
               owners[k] = u => owners'[k] = u /\ readers'[k] = readers[k],
           \A u \in Threads, j \in Lanes : Passed(u, j) => Passed(u, j)',
           CallOK(t)'
    PROVE  CallInv'
<1> SUFFICES ASSUME NEW u \in Threads \ {t} PROVE CallOK(u)'
    BY DEF CallInv
<1>1. CallOK(u) /\ pc(u)' = pc(u) /\ call'[u] = call[u] /\ last'[u] = last[u] /\ pin'[u] = pin[u]
    BY DEF CallInv, pc
<1>2. call[u].i \in Lanes
    BY DEF TypeOK
<1>3. last[u] \in Private => owners'[last[u]] = u /\ readers'[last[u]] = readers[last[u]]
    BY <1>1 DEF CallOK
<1>4. pin[u] \in Private => owners'[pin[u]] = u /\ readers'[pin[u]] = readers[pin[u]]
    BY <1>1 DEF CallOK
<1>5. Passed(u, call[u].i) => Passed(u, call[u].i)'
    BY <1>1, <1>2
<1> QED BY <1>1, <1>3, <1>4, <1>5 DEF CallOK, Private, Lanes

LEMMA WriterFrame ==
    ASSUME WriterInv, UNCHANGED <<writing, writers, excl>>,
           \A u \in Threads : /\ pc(u)' \in Holder => pc(u) \in Holder
                              /\ pc(u)' \in Scanning <=> pc(u) \in Scanning
    PROVE  WriterInv'
BY DEF WriterInv

LEMMA ScanFrame ==
    ASSUME ScanInv, UNCHANGED excl,
           \A u \in Threads : /\ pin'[u] \in {pin[u], NoLane}
                              /\ pc(u)' \in Scanning =>
                                    pc(u) \in Scanning /\ call'[u].i = call[u].i
    PROVE  ScanInv'
<1> SUFFICES ASSUME NEW u \in Threads, pin'[u] # NoLane, NEW t \in Threads
             PROVE  excl' = None /\ (pc(t)' \in Scanning => pin'[u] >= call'[t].i)
    BY DEF ScanInv, NoLane
<1> QED BY DEF ScanInv

\* A step of t that touches no lane.
LEMMA OffLanes ==
    ASSUME IInv, NEW t \in Threads, NEW label \in Labels, NEW i \in Lanes, NEW n \in Nat,
           Moved(t, label, i, n),
           UNCHANGED <<readers, owners, last, pin>>,
           label \in OnLane <=> pc(t) \in OnLane,
           CallOK(t)'
    PROVE  CountInv' /\ OwnersInv' /\ CallInv'
<1>1. \A u \in Threads \ {t} : call'[u] = call[u] /\ pc(u)' = pc(u)
    BY Moves DEF IInv
<1>2. pc(t)' = label
    BY Moves DEF IInv
<1>3. CountInv'
    BY <1>1, <1>2, CountFrame DEF IInv
<1>4. OwnersInv' /\ \A u \in Threads, j \in Lanes : Passed(u, j) => Passed(u, j)'
    BY OwnersFrame DEF IInv
<1>5. CallInv'
    BY <1>1, <1>4, OthersFrame DEF IInv
<1> QED BY <1>3, <1>4, <1>5

\* A step of t that touches neither a lane nor the writer's state.
LEMMA QuietStep ==
    ASSUME IInv, NEW t \in Threads, NEW label \in Labels, NEW i \in Lanes, NEW n \in Nat,
           Moved(t, label, i, n),
           UNCHANGED <<readers, owners, last, writing, writers, pin, excl>>,
           label \in OnLane <=> pc(t) \in OnLane,
           pc(t) \notin Holder, label \notin Holder,
           CallOK(t)'
    PROVE  IInv'
<1>1. \A u \in Threads \ {t} : call'[u] = call[u] /\ pc(u)' = pc(u)
    BY Moves DEF IInv
<1>2. pc(t)' = label /\ call' \in [Threads -> Calls]
    BY Moves DEF IInv
<1>3. pc(t) \notin Scanning /\ label \notin Scanning
    BY DEF Holder, Scanning
<1>4. TypeOK'
    BY <1>2, Zenon DEF IInv, TypeOK, Calls, Lanes, Labels
<1>5. CountInv' /\ OwnersInv' /\ CallInv'
    BY OffLanes
<1>6. WriterInv'
    BY <1>1, <1>2, <1>3, WriterFrame DEF IInv
<1>7. ScanInv'
    BY <1>1, <1>2, <1>3, ScanFrame DEF IInv
<1> QED BY <1>4, <1>5, <1>6, <1>7 DEF IInv

LEMMA SharedStep == ASSUME IInv, NEW t \in Threads, Shared(t) PROVE IInv'
<1> DEFINE label == IF last[t] = NoLane THEN "register" ELSE "add"
<1>1. label \in Labels /\ 0 \in Lanes /\ 0 \in Nat
    BY LaneFacts DEF Labels
<1>2. Moved(t, label, 0, 0)
    BY DEF Shared, Goto, Moved
<1>3. UNCHANGED <<readers, owners, last, writing, writers, pin, excl>> /\ pc(t) = "idle" /\ pin[t] = NoLane
    BY DEF Shared
<1>4. pc(t)' = label /\ call'[t].i = 0
    BY <1>1, <1>2, Moves DEF IInv
<1>5. CallOK(t) /\ last[t] \in Lanes \cup {NoLane}
    BY DEF IInv, CallInv, TypeOK
<1>6. Passed(t, 0)'
    BY DEF Passed
<1>7. CallOK(t)'
    BY <1>3, <1>4, <1>5, <1>6, LaneFacts DEF CallOK, OnLane, Private, Lanes
<1> HIDE DEF label
<1>8. label \in {"register", "add"}
    BY DEF label
<1> QED BY <1>1, <1>2, <1>3, <1>7, <1>8, QuietStep DEF OnLane, Holder

LEMMA EvictStep == ASSUME IInv, NEW t \in Threads, Evict(t) PROVE IInv'
<1>1. /\ pc(t) = "idle" /\ last' = [last EXCEPT ![t] = NoLane]
      /\ UNCHANGED <<readers, owners, writing, writers, pin, excl, call>>
      /\ \A u \in Threads : pc(u)' = pc(u)
    BY DEF Evict, pc
<1>2. last' \in [Threads -> Lanes \cup {NoLane}] /\ last'[t] = NoLane
      /\ \A u \in Threads \ {t} : last'[u] = last[u]
    BY <1>1 DEF IInv, TypeOK
<1>3. TypeOK'
    BY <1>1, <1>2 DEF IInv, TypeOK, Lanes, NoLane, Labels
<1>4. CountInv'
  <2>1. \A u \in Threads : pc(u) \in OnLane => last'[u] = last[u]
      BY <1>1, <1>2 DEF OnLane
  <2> QED BY <1>1, <2>1, CountFrame DEF IInv
<1>5. OwnersInv' /\ \A u \in Threads, j \in Lanes : Passed(u, j) => Passed(u, j)'
    BY <1>1, OwnersFrame DEF IInv
<1>6. CallOK(t)'
  <2>1. CallOK(t)
      BY DEF IInv, CallInv
  <2> QED BY <1>1, <1>2, <2>1, LaneFacts DEF CallOK, OnLane, Private, Lanes
<1>7. CallInv'
    BY <1>1, <1>2, <1>5, <1>6, OthersFrame DEF IInv
<1>8. WriterInv'
    BY <1>1, WriterFrame DEF IInv
<1>9. ScanInv'
    BY <1>1, ScanFrame DEF IInv
<1> QED BY <1>3, <1>4, <1>5, <1>7, <1>8, <1>9 DEF IInv

\* A thread that takes a free lane owns no other: a lane it had found before
\* lies either behind the free one, which was not free then, or among those it
\* has just passed over.
LEMMA TakesOne ==
    ASSUME OwnersInv, NEW t \in Threads, NEW i \in Private, Passed(t, i),
           owners[(t + i) % LANES] = None, NEW k \in Private
    PROVE  owners[k] # t
<1> SUFFICES ASSUME owners[k] = t PROVE FALSE
    OBVIOUS
<1>1. PICK j \in Private : k = (t + j) % LANES /\ Passed(t, j)
    BY DEF OwnersInv
<1>2. CASE j < i
    BY <1>1, <1>2 DEF Passed, Private
<1>3. CASE i < j
    BY <1>1, <1>3 DEF Passed, Private
<1>4. CASE i = j
    BY <1>1, <1>4, CoordAssumption
<1> QED BY <1>2, <1>3, <1>4, CoordAssumption DEF Private

\* Taking lane (t + i) % LANES keeps OwnersInv, and takes it from nobody.
LEMMA TakeLane ==
    ASSUME IInv, NEW t \in Threads, NEW i \in Private, NEW lane, lane = (t + i) % LANES, Passed(t, i),
           owners[lane] \in {None, t}, owners' = [owners EXCEPT ![lane] = t]
    PROVE  /\ OwnersInv' /\ owners'[lane] = t
           /\ \A u \in Threads, j \in Lanes : Passed(u, j) => Passed(u, j)'
           /\ \A k \in Private : owners[k] # None => owners'[k] = owners[k]
<1>1. lane \in Private /\ t \in Nat /\ t # None
    BY CoordAssumption DEF Private
<1>2. owners \in [Private -> Threads \cup {None}]
    BY DEF IInv, TypeOK, Private
<1>3. owners'[lane] = t /\ \A k \in Private \ {lane} : owners'[k] = owners[k]
    BY <1>1, <1>2
<1>4. \A k \in Private : owners[k] # None => owners'[k] = owners[k]
    BY <1>3
<1>5. \A u \in Threads, j \in Private : (u + j) % LANES \in Private
    BY CoordAssumption DEF Private
<1>6. ASSUME NEW u \in Threads, NEW j \in Lanes, Passed(u, j)
      PROVE  Passed(u, j)'
  <2> SUFFICES ASSUME NEW m \in 0..(j - 1) PROVE owners'[(u + m) % LANES] \notin {None, u}
      BY DEF Passed
  <2>1. owners[(u + m) % LANES] \notin {None, u}
      BY <1>6 DEF Passed
  <2>2. m \in Private
      BY CoordAssumption DEF Private, Lanes
  <2> QED BY <1>4, <1>5, <2>1, <2>2
<1>7. ASSUME NEW k \in Private, NEW u \in Threads, owners'[k] = u
      PROVE  \E j \in Private : k = (u + j) % LANES /\ Passed(u, j)'
  <2>1. CASE k = lane
      BY <1>3, <1>6, <1>7, <2>1, LaneFacts
  <2>2. CASE k # lane
    <3>1. PICK j \in Private : k = (u + j) % LANES /\ Passed(u, j)
        BY <1>3, <1>7, <2>2 DEF IInv, OwnersInv
    <3> QED BY <1>6, <3>1, LaneFacts
  <2> QED BY <2>1, <2>2
<1>8. ASSUME NEW k \in Private, NEW l \in Private, owners'[k] = owners'[l], owners'[k] # None
      PROVE  k = l
  <2>1. CASE owners[lane] = t
    <3>1. \A m \in Private : owners'[m] = owners[m]
        BY <1>3, <2>1
    <3> QED BY <1>8, <3>1 DEF IInv, OwnersInv
  <2>2. CASE owners[lane] = None
    <3>1. \A m \in Private : owners[m] # t
        BY <2>2, TakesOne DEF IInv
    <3> QED BY <1>3, <1>8, <3>1 DEF IInv, OwnersInv
  <2> QED BY <2>1, <2>2
<1>9. OwnersInv'
    BY <1>7, <1>8 DEF OwnersInv, Private
<1> QED BY <1>3, <1>4, <1>6, <1>9

\* register() ends with t on lane l: LAST remembers it.
LEMMA Registered ==
    ASSUME IInv, NEW t \in Threads, NEW l \in Lanes, pc(t) = "register",
           last' = [last EXCEPT ![t] = l], Goto(t, "add"),
           UNCHANGED <<readers, writing, writers, pin, excl>>,
           owners' \in [0..(LANES - 1) -> Threads \cup {None}], OwnersInv',
           \A u \in Threads, j \in Lanes : Passed(u, j) => Passed(u, j)',
           \A k \in Private : owners[k] # None => owners'[k] = owners[k],
           l \in Private => owners'[l] = t
    PROVE  IInv'
<1>1. Moved(t, "add", 0, 0) /\ "add" \in Labels /\ 0 \in Lanes /\ 0 \in Nat
    BY LaneFacts DEF Moved, Goto, Labels
<1>2. /\ call' \in [Threads -> Calls] /\ pc(t)' = "add"
      /\ \A u \in Threads \ {t} : call'[u] = call[u] /\ pc(u)' = pc(u)
    BY <1>1, Moves DEF IInv
<1>3. /\ last' \in [Threads -> Lanes \cup {NoLane}] /\ last'[t] = l
      /\ \A u \in Threads \ {t} : last'[u] = last[u]
    BY DEF IInv, TypeOK
<1>4. TypeOK'
    BY <1>2, <1>3, Zenon DEF IInv, TypeOK, Calls, Lanes, NoLane, Labels
<1>5. CountInv'
  <2>1. \A u \in Threads : /\ pc(u)' \in OnLane <=> pc(u) \in OnLane
                           /\ pc(u) \in OnLane => last'[u] = last[u]
      BY <1>2, <1>3 DEF OnLane
  <2> QED BY <2>1, CountFrame DEF IInv
<1>6. CallOK(t) /\ t # None /\ pin[t] = NoLane
    BY CoordAssumption DEF IInv, CallInv, CallOK
<1>7. CallOK(t)'
    BY <1>2, <1>3, <1>6, LaneFacts DEF CallOK, OnLane, Private, Lanes, NoLane
<1>8. CallInv'
  <2>1. \A u \in Threads : u # None
      BY CoordAssumption
  <2> QED BY <1>2, <1>3, <1>7, <2>1, OthersFrame DEF IInv
<1>9. WriterInv'
    BY <1>2, WriterFrame DEF IInv, Holder, Scanning
<1>10. ScanInv'
    BY <1>2, ScanFrame DEF IInv, Scanning
<1> QED BY <1>4, <1>5, <1>8, <1>9, <1>10 DEF IInv

LEMMA RegisterStep == ASSUME IInv, NEW t \in Threads, Register(t) PROVE IInv'
<1> DEFINE i == call[t].i
           lane == (t + i) % LANES
<1>1. pc(t) = "register" /\ UNCHANGED <<readers, writing, writers, pin, excl>>
    BY DEF Register
<1>2. i \in Lanes /\ Passed(t, i) /\ CallOK(t) /\ pin[t] = NoLane
    BY <1>1 DEF IInv, TypeOK, CallInv, CallOK
<1>3. i < LANES => i \in Private /\ i + 1 \in Lanes /\ lane \in Private
    BY <1>2, CoordAssumption DEF Lanes, Private
<1>4. ASSUME i < LANES, owners[lane] \in {None, t}, owners' = [owners EXCEPT ![lane] = t],
             last' = [last EXCEPT ![t] = lane], Goto(t, "add")
      PROVE  IInv'
  <2>1. /\ OwnersInv' /\ owners'[lane] = t
        /\ \A u \in Threads, j \in Lanes : Passed(u, j) => Passed(u, j)'
        /\ \A k \in Private : owners[k] # None => owners'[k] = owners[k]
      BY <1>2, <1>3, <1>4, TakeLane, Zenon
  <2>2. owners' \in [0..(LANES - 1) -> Threads \cup {None}]
      BY <1>4, Zenon DEF IInv, TypeOK
  <2>3. lane \in Lanes
      BY <1>3, <1>4, LaneFacts
  <2> HIDE DEF lane
  <2> QED BY <1>1, <1>4, <2>1, <2>2, <2>3, Registered, Zenon
<1>5. ASSUME i < LANES, owners[lane] \notin {None, t}, GotoI(t, "register", i + 1),
             UNCHANGED <<owners, last>>
      PROVE  IInv'
  <2>1. /\ Moved(t, "register", i + 1, 0)
        /\ "register" \in Labels /\ i + 1 \in Lanes /\ 0 \in Nat
      BY <1>3, <1>5 DEF Moved, GotoI, Labels
  <2>2. pc(t)' = "register" /\ call'[t].i = i + 1
      BY <2>1, Moves DEF IInv
  <2>3. Passed(t, i + 1)
    <3> SUFFICES ASSUME NEW m \in 0..i PROVE owners[(t + m) % LANES] \notin {None, t}
        BY <1>2, LaneFacts DEF Passed
    <3>1. CASE m = i
        BY <1>5, <3>1
    <3>2. CASE m # i
      <4>1. m \in 0..(i - 1)
          BY <1>2, <3>2, LaneFacts
      <4> QED BY <1>2, <4>1 DEF Passed
    <3> QED BY <3>1, <3>2
  <2>4. Passed(t, call[t].i)'
      BY <1>5, <2>2, <2>3 DEF Passed
  <2>5. CallOK(t)'
      BY <1>1, <1>2, <1>5, <2>2, <2>4 DEF CallOK, OnLane, Private, Lanes, NoLane
  <2> HIDE DEF i
  <2> QED BY <1>1, <1>5, <2>1, <2>5, QuietStep DEF OnLane, Holder
<1>6. ASSUME i = LANES, last' = [last EXCEPT ![t] = LANES], Goto(t, "add"), UNCHANGED owners
      PROVE  IInv'
  <2>1. OwnersInv' /\ \A u \in Threads, j \in Lanes : Passed(u, j) => Passed(u, j)'
      BY <1>6, OwnersFrame DEF IInv
  <2>2. owners' \in [0..(LANES - 1) -> Threads \cup {None}]
      BY <1>6 DEF IInv, TypeOK
  <2>3. LANES \in Lanes /\ LANES \notin Private
      BY CoordAssumption DEF Lanes, Private
  <2> QED BY <1>1, <1>6, <2>1, <2>2, <2>3, Registered, Zenon
<1> QED BY <1>4, <1>5, <1>6 DEF Register

-----------------------------------------------------------------------------
(* The counts.                                                             *)

LEMMA CountedFinite ==
    ASSUME NEW l
    PROVE  IsFiniteSet(Counted(l)) /\ Cardinality(Counted(l)) \in Nat
<1>1. Counted(l) \in SUBSET Threads
    BY DEF Counted
<1> QED BY <1>1, FS_Subset, FS_CardinalityType, CoordAssumption

\* t joins lane m: its count goes up by one, the others stay.
LEMMA Joins ==
    ASSUME TypeOK, CountInv, NEW t \in Threads, NEW m \in Lanes,
           \A l \in Lanes : t \notin Counted(l),
           \A l \in Lanes : Counted(l)' = IF l = m THEN Counted(l) \cup {t} ELSE Counted(l),
           readers' = [readers EXCEPT ![m] = @ + 1]
    PROVE  CountInv' /\ readers' \in [Lanes -> Nat]
<1>1. readers \in [Lanes -> Nat]
    BY DEF TypeOK
<1>2. readers'[m] = readers[m] + 1 /\ \A l \in Lanes \ {m} : readers'[l] = readers[l]
    BY <1>1
<1> SUFFICES ASSUME NEW l \in Lanes PROVE readers'[l] = Cardinality(Counted(l)')
    BY <1>1 DEF CountInv, Lanes
<1>3. readers[l] = Cardinality(Counted(l))
    BY DEF CountInv
<1>4. CASE l = m
    BY <1>2, <1>3, <1>4, CountedFinite, FS_AddElement
<1>5. CASE l # m
    BY <1>2, <1>3, <1>5
<1> QED BY <1>4, <1>5

\* t leaves lane m: its count goes down by one and was not zero.
LEMMA Leaves ==
    ASSUME TypeOK, CountInv, NEW t \in Threads, NEW m \in Lanes,
           t \in Counted(m),
           \A l \in Lanes : Counted(l)' = IF l = m THEN Counted(l) \ {t} ELSE Counted(l),
           readers' = [readers EXCEPT ![m] = readers[m] - 1]
    PROVE  CountInv' /\ readers' \in [Lanes -> Nat]
<1>1. readers \in [Lanes -> Nat]
    BY DEF TypeOK
<1>2. readers'[m] = readers[m] - 1 /\ \A l \in Lanes \ {m} : readers'[l] = readers[l]
    BY <1>1
<1>3. readers[m] # 0
  <2>1. readers[m] = Cardinality(Counted(m))
      BY DEF CountInv
  <2> QED BY <2>1, CountedFinite, FS_EmptySet
<1>4. readers' \in [Lanes -> Nat]
    BY <1>1, <1>3
<1> SUFFICES ASSUME NEW l \in Lanes PROVE readers'[l] = Cardinality(Counted(l)')
    BY <1>4 DEF CountInv, Lanes
<1>5. readers[l] = Cardinality(Counted(l))
    BY DEF CountInv
<1>6. CASE l = m
    BY <1>2, <1>5, <1>6, CountedFinite, FS_RemoveElement
<1>7. CASE l # m
    BY <1>2, <1>5, <1>7
<1> QED BY <1>6, <1>7

\* A step of t that changes the count of lane m, t's own if it is private.
LEMMA LaneStep ==
    ASSUME IInv, NEW t \in Threads, NEW m \in Lanes, NEW c,
           m \in Private => owners[m] = t,
           readers' = [readers EXCEPT ![m] = c], readers' \in [Lanes -> Nat], CountInv',
           UNCHANGED <<owners, last, writing, writers, excl>>,
           pin' \in [Threads -> Lanes \cup {NoLane}],
           \A u \in Threads \ {t} : pin'[u] = pin[u],
           pin'[t] \in {pin[t], NoLane},
           NEW label \in Labels \ Holder, Goto(t, label), pc(t) \notin Holder,
           CallOK(t)'
    PROVE  IInv'
<1>1. Moved(t, label, 0, 0) /\ 0 \in Lanes /\ 0 \in Nat
    BY LaneFacts DEF Moved, Goto
<1>2. /\ call' \in [Threads -> Calls] /\ pc(t)' = label
      /\ \A u \in Threads \ {t} : call'[u] = call[u] /\ pc(u)' = pc(u)
    BY <1>1, Moves DEF IInv
<1>3. pc(t) \notin Scanning /\ label \notin Scanning
    BY DEF Holder, Scanning
<1>4. TypeOK'
    BY <1>2, Zenon DEF IInv, TypeOK, Calls, Lanes, NoLane, Labels
<1>5. OwnersInv' /\ \A u \in Threads, j \in Lanes : Passed(u, j) => Passed(u, j)'
    BY OwnersFrame DEF IInv
<1>6. ASSUME NEW k \in Private, NEW u \in Threads \ {t}, owners[k] = u
      PROVE  owners'[k] = u /\ readers'[k] = readers[k]
  <2>1. k # m /\ k \in Lanes
      BY <1>6, LaneFacts
  <2> QED BY <1>6, <2>1 DEF IInv, TypeOK
<1>7. CallInv'
    BY <1>2, <1>5, <1>6, OthersFrame DEF IInv
<1>8. WriterInv'
    BY <1>2, <1>3, WriterFrame DEF IInv
<1>9. ScanInv'
    BY <1>2, <1>3, ScanFrame DEF IInv
<1> QED BY <1>4, <1>5, <1>7, <1>8, <1>9 DEF IInv

LEMMA AddStep == ASSUME IInv, NEW t \in Threads, Add(t) PROVE IInv'
<1> DEFINE m == last[t]
<1>1. /\ pc(t) = "add" /\ readers' = [readers EXCEPT ![m] = @ + 1] /\ Goto(t, "recheck")
      /\ UNCHANGED <<owners, last, writing, writers, pin, excl>>
    BY DEF Add
<1>2. CallOK(t) /\ m \in Lanes /\ pin[t] = NoLane /\ (m \in Private => owners[m] = t)
    BY <1>1 DEF IInv, CallInv, CallOK
<1>3. pc(t)' = "recheck" /\ \A u \in Threads \ {t} : pc(u)' = pc(u)
    BY <1>1, GotoMoves DEF IInv, Labels
<1>4. \A l \in Lanes : t \notin Counted(l)
    BY <1>1, <1>2, LaneFacts DEF Counted
<1>5. \A l \in Lanes : Counted(l)' = IF l = m THEN Counted(l) \cup {t} ELSE Counted(l)
    BY <1>1, <1>2, <1>3, LaneFacts DEF Counted
<1>6. CountInv' /\ readers' \in [Lanes -> Nat]
    BY <1>1, <1>2, <1>4, <1>5, Joins, Zenon DEF IInv
<1>7. CallOK(t)'
    BY <1>1, <1>2, <1>3 DEF CallOK, OnLane, Private, Lanes, NoLane
<1>8. "recheck" \in Labels \ Holder /\ pc(t) \notin Holder
    BY <1>1 DEF Labels, Holder
<1>9. pin \in [Threads -> Lanes \cup {NoLane}]
    BY DEF IInv, TypeOK
<1> QED BY <1>1, <1>2, <1>6, <1>7, <1>8, <1>9, LaneStep, Zenon

LEMMA RecheckStep == ASSUME IInv, NEW t \in Threads, Recheck(t) PROVE IInv'
<1>1. pc(t) = "recheck" /\ UNCHANGED <<readers, owners, last, writing, writers, excl>>
    BY DEF Recheck
<1>2. CallOK(t) /\ last[t] \in Lanes /\ pin[t] = NoLane
    BY <1>1 DEF IInv, CallInv, CallOK, OnLane
<1>3. ASSUME writing, Goto(t, "undo"), UNCHANGED pin
      PROVE  IInv'
  <2>1. Moved(t, "undo", 0, 0) /\ "undo" \in Labels /\ 0 \in Lanes /\ 0 \in Nat
      BY <1>3, LaneFacts DEF Moved, Goto, Labels
  <2>2. pc(t)' = "undo"
      BY <2>1, Moves DEF IInv
  <2>3. CallOK(t)'
      BY <1>1, <1>2, <1>3, <2>2 DEF CallOK, OnLane, Private, Lanes, NoLane
  <2> QED BY <1>1, <1>3, <2>1, <2>3, QuietStep DEF OnLane, Holder
<1>4. ASSUME ~writing, Goto(t, "idle"), pin' = [pin EXCEPT ![t] = last[t]]
      PROVE  IInv'
  <2>1. Moved(t, "idle", 0, 0) /\ "idle" \in Labels /\ 0 \in Lanes /\ 0 \in Nat
      BY <1>4, LaneFacts DEF Moved, Goto, Labels
  <2>2. /\ call' \in [Threads -> Calls] /\ pc(t)' = "idle"
        /\ \A u \in Threads \ {t} : call'[u] = call[u] /\ pc(u)' = pc(u)
      BY <2>1, Moves DEF IInv
  <2>3. /\ pin' \in [Threads -> Lanes \cup {NoLane}] /\ pin'[t] = last[t]
        /\ \A u \in Threads \ {t} : pin'[u] = pin[u]
      BY <1>2, <1>4 DEF IInv, TypeOK
  <2>4. TypeOK'
      BY <1>1, <2>2, <2>3, Zenon DEF IInv, TypeOK, Calls, Lanes, NoLane, Labels
  <2>5. CountInv'
    <3> SUFFICES ASSUME NEW l \in Lanes PROVE readers'[l] = Cardinality(Counted(l)')
        BY DEF CountInv, Lanes
    <3>1. Counted(l)' = Counted(l)
        BY <1>1, <1>2, <2>2, <2>3, LaneFacts DEF Counted
    <3> QED BY <1>1, <3>1 DEF IInv, CountInv
  <2>6. OwnersInv' /\ \A u \in Threads, j \in Lanes : Passed(u, j) => Passed(u, j)'
      BY <1>1, OwnersFrame DEF IInv
  <2>7. CallOK(t)'
      BY <1>1, <1>2, <2>2, <2>3 DEF CallOK, OnLane, Private, Lanes
  <2>8. CallInv'
      BY <1>1, <2>2, <2>3, <2>6, <2>7, OthersFrame DEF IInv
  <2>9. WriterInv'
      BY <1>1, <2>2, WriterFrame DEF IInv, Holder, Scanning
  <2>10. excl' = None /\ \A u \in Threads : pc(u)' \notin Scanning
      BY <1>1, <1>4, <2>2 DEF IInv, WriterInv, Scanning
  <2>11. ScanInv'
      BY <2>10 DEF ScanInv
  <2> QED BY <2>4, <2>5, <2>6, <2>8, <2>9, <2>11 DEF IInv
<1> QED BY <1>3, <1>4 DEF Recheck

\* The load that begins a decrement of an owned lane.
LEMMA LoadStep ==
    ASSUME IInv, NEW t \in Threads, NEW m \in Private, NEW label \in {"undo_store", "drop_store"},
           Moved(t, label, 0, readers[m]),
           UNCHANGED <<readers, owners, last, writing, writers, pin, excl>>,
           label = "undo_store" => pc(t) = "undo" /\ m = last[t],
           label = "drop_store" => pc(t) = "idle" /\ m = pin[t]
    PROVE  IInv'
<1>1. label \in Labels /\ 0 \in Lanes /\ readers[m] \in Nat /\ CallOK(t)
    BY LaneFacts DEF Labels, IInv, TypeOK, CallInv
<1>2. pc(t)' = label /\ call'[t].n = readers[m]
    BY <1>1, Moves DEF IInv
<1>3. CallOK(t)'
    BY <1>1, <1>2, LaneFacts DEF CallOK, OnLane, Private, Lanes, NoLane
<1> QED BY <1>1, <1>3, QuietStep DEF OnLane, Holder

LEMMA UndoStep == ASSUME IInv, NEW t \in Threads, Undo(t) PROVE IInv'
<1> DEFINE m == last[t]
<1>1. pc(t) \in {"undo", "undo_store"} /\ UNCHANGED <<owners, last, writing, writers, pin, excl>>
    BY DEF Undo, Subtract, StoreBack
<1>2. CallOK(t) /\ m \in Lanes /\ pin[t] = NoLane /\ (m \in Private => owners[m] = t)
    BY <1>1 DEF IInv, CallInv, CallOK, OnLane
<1>3. ASSUME readers' = [readers EXCEPT ![m] = readers[m] - 1], Goto(t, "assert")
      PROVE  IInv'
  <2>1. pc(t)' = "assert" /\ \A u \in Threads \ {t} : pc(u)' = pc(u)
      BY <1>3, GotoMoves DEF IInv, Labels
  <2>2. t \in Counted(m)
      BY <1>1 DEF Counted
  <2>3. \A l \in Lanes : Counted(l)' = IF l = m THEN Counted(l) \ {t} ELSE Counted(l)
      BY <1>1, <1>2, <2>1, LaneFacts DEF Counted
  <2>4. CountInv' /\ readers' \in [Lanes -> Nat]
      BY <1>2, <1>3, <2>2, <2>3, Leaves, Zenon DEF IInv
  <2>5. CallOK(t)'
      BY <1>1, <1>2, <2>1 DEF CallOK, OnLane, Private, Lanes, NoLane
  <2>6. "assert" \in Labels \ Holder /\ pc(t) \notin Holder
      BY <1>1 DEF Labels, Holder
  <2>7. pin \in [Threads -> Lanes \cup {NoLane}]
      BY DEF IInv, TypeOK
  <2> QED BY <1>1, <1>2, <1>3, <2>4, <2>5, <2>6, <2>7, LaneStep, Zenon
<1>4. CASE Subtract(t, m, "undo", <<"undo_store", "assert">>)
  <2>1. CASE Owned(m)
    <3>1. /\ Moved(t, "undo_store", 0, readers[m]) /\ UNCHANGED readers
          /\ pc(t) = "undo"
        BY <1>4, <2>1 DEF Subtract, Moved
    <3>2. m \in Private
        BY <1>2, <2>1, LaneFacts
    <3> QED BY <1>1, <3>1, <3>2, LoadStep
  <2>2. CASE ~Owned(m)
    <3>1. readers' = [readers EXCEPT ![m] = readers[m] - 1] /\ Goto(t, "assert")
        BY <1>4, <2>2 DEF Subtract
    <3> QED BY <1>3, <3>1
  <2> QED BY <2>1, <2>2
<1>5. CASE StoreBack(t, m, "undo_store", "assert")
  <2>1. pc(t) = "undo_store" /\ call[t].n = readers[m]
      BY <1>2, <1>5 DEF StoreBack, CallOK
  <2>2. readers' = [readers EXCEPT ![m] = readers[m] - 1] /\ Goto(t, "assert")
      BY <1>5, <2>1 DEF StoreBack
  <2> QED BY <1>3, <2>2
<1> QED BY <1>4, <1>5 DEF Undo

LEMMA DropSharedStep == ASSUME IInv, NEW t \in Threads, DropShared(t) PROVE IInv'
<1> DEFINE m == pin[t]
<1>1. pc(t) \in {"idle", "drop_store"} /\ UNCHANGED <<owners, last, writing, writers, excl>>
    BY DEF DropShared, Subtract, StoreBack
<1>2. CallOK(t) /\ m \in Lanes \cup {NoLane} /\ (pc(t) = "drop_store" => m \in Private)
      /\ (m \in Private => owners[m] = t)
    BY DEF IInv, CallInv, CallOK, TypeOK
<1>3. m \in Lanes
    BY <1>1, <1>2, LaneFacts DEF DropShared, StoreBack
<1>4. ASSUME readers' = [readers EXCEPT ![m] = readers[m] - 1], Goto(t, "idle"),
             pin' = [pin EXCEPT ![t] = NoLane]
      PROVE  IInv'
  <2>1. pc(t)' = "idle" /\ \A u \in Threads \ {t} : pc(u)' = pc(u)
      BY <1>4, GotoMoves DEF IInv, Labels
  <2>2. /\ pin' \in [Threads -> Lanes \cup {NoLane}] /\ pin'[t] = NoLane
        /\ \A u \in Threads \ {t} : pin'[u] = pin[u]
      BY <1>4 DEF IInv, TypeOK
  <2>3. t \in Counted(m)
      BY DEF Counted
  <2>4. \A l \in Lanes : Counted(l)' = IF l = m THEN Counted(l) \ {t} ELSE Counted(l)
      BY <1>1, <2>1, <2>2, LaneFacts DEF Counted
  <2>5. CountInv' /\ readers' \in [Lanes -> Nat]
      BY <1>3, <1>4, <2>3, <2>4, Leaves, Zenon DEF IInv
  <2>6. CallOK(t)'
      BY <1>1, <1>2, <2>1, <2>2, LaneFacts DEF CallOK, OnLane, Private, Lanes
  <2>7. "idle" \in Labels \ Holder /\ pc(t) \notin Holder
      BY <1>1 DEF Labels, Holder
  <2> QED BY <1>1, <1>2, <1>3, <1>4, <2>2, <2>5, <2>6, <2>7, LaneStep, Zenon
<1>5. CASE /\ pc(t) = "idle" /\ Subtract(t, m, "idle", <<"drop_store", "idle">>)
           /\ pin' = IF Owned(m) THEN pin ELSE [pin EXCEPT ![t] = NoLane]
  <2>1. CASE Owned(m)
    <3>1. /\ Moved(t, "drop_store", 0, readers[m]) /\ UNCHANGED <<readers, pin>>
          /\ pc(t) = "idle"
        BY <1>5, <2>1 DEF Subtract, Moved
    <3>2. m \in Private
        BY <1>3, <2>1, LaneFacts
    <3> QED BY <1>1, <3>1, <3>2, LoadStep
  <2>2. CASE ~Owned(m)
    <3>1. readers' = [readers EXCEPT ![m] = readers[m] - 1] /\ Goto(t, "idle")
        BY <1>5, <2>2 DEF Subtract
    <3> QED BY <1>4, <1>5, <2>2, <3>1
  <2> QED BY <2>1, <2>2
<1>6. CASE StoreBack(t, m, "drop_store", "idle") /\ pin' = [pin EXCEPT ![t] = NoLane]
  <2>1. pc(t) = "drop_store" /\ call[t].n = readers[m]
      BY <1>2, <1>6 DEF StoreBack, CallOK
  <2>2. readers' = [readers EXCEPT ![m] = readers[m] - 1] /\ Goto(t, "idle")
      BY <1>6, <2>1 DEF StoreBack
  <2> QED BY <1>4, <1>6, <2>2
<1> QED BY <1>5, <1>6 DEF DropShared

-----------------------------------------------------------------------------
(* The writer, and the threads that wait for it.                           *)

LEMMA AssertStep == ASSUME IInv, NEW t \in Threads, Assert(t) PROVE IInv'
<1> DEFINE label == IF writers = t THEN "idle" ELSE "spin"
<1>1. /\ pc(t) = "assert" /\ Moved(t, label, 0, 0)
      /\ UNCHANGED <<readers, owners, last, writing, writers, pin, excl>>
    BY DEF Assert, Goto, Moved
<1>2. label \in {"idle", "spin"} /\ label \in Labels /\ 0 \in Lanes /\ 0 \in Nat
    BY LaneFacts DEF Labels
<1>3. CallOK(t) /\ last[t] \in Lanes /\ pin[t] = NoLane
    BY <1>1 DEF IInv, CallInv, CallOK
<1> HIDE DEF label
<1>4. pc(t)' = label
    BY <1>1, <1>2, Moves DEF IInv
<1>5. CallOK(t)'
    BY <1>1, <1>2, <1>3, <1>4 DEF CallOK, OnLane, Private, Lanes, NoLane
<1> QED BY <1>1, <1>2, <1>5, QuietStep DEF OnLane, Holder

LEMMA SpinStep == ASSUME IInv, NEW t \in Threads, Spin(t) PROVE IInv'
<1>1. /\ pc(t) = "spin" /\ Moved(t, "add", 0, 0)
      /\ UNCHANGED <<readers, owners, last, writing, writers, pin, excl>>
    BY DEF Spin, Goto, Moved
<1>2. "add" \in Labels /\ 0 \in Lanes /\ 0 \in Nat
    BY LaneFacts DEF Labels
<1>3. CallOK(t) /\ last[t] \in Lanes /\ pin[t] = NoLane
    BY <1>1 DEF IInv, CallInv, CallOK
<1>4. pc(t)' = "add"
    BY <1>1, <1>2, Moves DEF IInv
<1>5. CallOK(t)'
    BY <1>1, <1>3, <1>4 DEF CallOK, OnLane, Private, Lanes, NoLane
<1> QED BY <1>1, <1>2, <1>5, QuietStep DEF OnLane, Holder

\* A step of the writer: no lane changes, and t goes on at a label of
\* exclusive() or returns.
LEMMA WriterStep ==
    ASSUME IInv, NEW t \in Threads, NEW label \in Holder \cup {"idle"}, NEW i \in Lanes,
           Moved(t, label, i, 0),
           UNCHANGED <<readers, owners, last, pin>>,
           pc(t) \in Holder \cup {"idle"}, pin[t] = NoLane,
           writing' \in BOOLEAN, writers' \in Threads \cup {None}, excl' \in Threads \cup {None},
           WriterInv', ScanInv'
    PROVE  IInv'
<1>1. label \in Labels /\ 0 \in Nat
    BY DEF Holder, Labels
<1>2. call' \in [Threads -> Calls] /\ pc(t)' = label
    BY <1>1, Moves DEF IInv
<1>3. TypeOK'
    BY <1>2, Zenon DEF IInv, TypeOK, Calls, Lanes, NoLane, Labels
<1>4. CallOK(t)
    BY DEF IInv, CallInv
<1>5. CallOK(t)'
    BY <1>2, <1>4 DEF CallOK, OnLane, Holder, Private, Lanes, NoLane
<1>6. CountInv' /\ OwnersInv' /\ CallInv'
    BY <1>1, <1>5, OffLanes DEF OnLane, Holder
<1> QED BY <1>3, <1>6 DEF IInv

\* What is known of the others while t owns the writers lock.
LEMMA SoleWriter ==
    ASSUME IInv, NEW t \in Threads, pc(t) \in Holder
    PROVE  /\ writers = t /\ excl = None /\ pin[t] = NoLane
           /\ \A u \in Threads \ {t} : pc(u) \notin Holder
BY DEF IInv, WriterInv, CallInv, CallOK, Holder

LEMMA ScanningHolds == Scanning \subseteq Holder
BY DEF Scanning, Holder

LEMMA LockWritersStep == ASSUME IInv, NEW t \in Threads, LockWriters(t) PROVE IInv'
<1>1. /\ pc(t) = "idle" /\ pin[t] = NoLane /\ writers = None /\ writers' = t
      /\ UNCHANGED <<readers, owners, last, writing, pin, excl>>
    BY DEF LockWriters
<1>2. PICK label \in {"publish", "try_publish"} : Moved(t, label, 0, 0)
    BY DEF LockWriters, Goto, Moved
<1>3. label \in Labels /\ label \in Holder /\ label \notin Scanning /\ 0 \in Lanes /\ 0 \in Nat
    BY LaneFacts DEF Labels, Holder, Scanning
<1>4. pc(t)' = label /\ \A u \in Threads \ {t} : call'[u] = call[u] /\ pc(u)' = pc(u)
    BY <1>2, <1>3, Moves DEF IInv
<1>5. excl = None /\ \A u \in Threads : pc(u) \notin Holder
    BY <1>1, CoordAssumption DEF IInv, WriterInv
<1>6. WriterInv'
  <2>1. \A u \in Threads : pc(u)' \notin Scanning /\ pc(u) \notin Scanning
      BY <1>3, <1>4, <1>5, ScanningHolds, Zenon
  <2> QED BY <1>1, <1>4, <1>5, <2>1 DEF IInv, WriterInv
<1>7. ScanInv'
    BY <1>1, <1>3, <1>4, ScanFrame DEF IInv
<1>8. writing' \in BOOLEAN /\ writers' \in Threads \cup {None} /\ excl' \in Threads \cup {None}
    BY <1>1 DEF IInv, TypeOK
<1> QED BY <1>1, <1>2, <1>3, <1>6, <1>7, <1>8, WriterStep

LEMMA PublishStep == ASSUME IInv, NEW t \in Threads, Publish(t) PROVE IInv'
<1> DEFINE label == IF pc(t) = "publish" THEN "scan" ELSE "try_scan"
<1>1. /\ pc(t) \in {"publish", "try_publish"} /\ writing' = TRUE
      /\ Moved(t, label, 0, 0)
      /\ UNCHANGED <<readers, owners, last, writers, pin, excl>>
    BY DEF Publish, Goto, Moved
<1>2. label \in Labels /\ label \in Scanning /\ label \in Holder /\ 0 \in Lanes /\ 0 \in Nat
    BY LaneFacts DEF Labels, Holder, Scanning
<1> HIDE DEF label
<1>3. /\ pc(t)' = label /\ call'[t].i = 0
      /\ \A u \in Threads \ {t} : call'[u] = call[u] /\ pc(u)' = pc(u)
    BY <1>1, <1>2, Moves DEF IInv
<1>4. pc(t) \in Holder
    BY <1>1 DEF Holder
<1>5. writers = t /\ excl = None /\ pin[t] = NoLane /\ \A u \in Threads \ {t} : pc(u) \notin Holder
    BY <1>4, SoleWriter
<1>6. WriterInv'
    BY <1>1, <1>2, <1>3, <1>5 DEF WriterInv
<1>7. ScanInv'
  <2> SUFFICES ASSUME NEW u \in Threads, pin'[u] # NoLane, NEW v \in Threads, pc(v)' \in Scanning
               PROVE  pin'[u] >= call'[v].i
      BY <1>1, <1>5 DEF ScanInv, NoLane
  <2>1. v = t
      BY <1>3, <1>5, ScanningHolds
  <2>2. pin'[u] \in Lanes
      BY <1>1 DEF IInv, TypeOK
  <2> QED BY <1>3, <2>1, <2>2, LaneFacts
<1>8. writing' \in BOOLEAN /\ writers' \in Threads \cup {None} /\ excl' \in Threads \cup {None}
    BY <1>1 DEF IInv, TypeOK
<1> QED BY <1>1, <1>2, <1>4, <1>5, <1>6, <1>7, <1>8, WriterStep

\* A lane whose counter is read as zero has no pin on it: the scan may pass.
LEMMA EmptyLane ==
    ASSUME IInv, NEW l \in Lanes, readers[l] = 0, NEW u \in Threads
    PROVE  pin[u] # l
<1>1. Counted(l) = {}
    BY CountedFinite, FS_EmptySet DEF IInv, CountInv
<1> QED BY <1>1 DEF Counted

\* The pins when the scan of t has found lane i empty: all lie beyond it.
LEMMA PinsBeyond ==
    ASSUME IInv, NEW t \in Threads, pc(t) \in Scanning, NEW i \in Lanes, call[t].i = i,
           readers[i] = 0, NEW u \in Threads, pin[u] # NoLane
    PROVE  pin[u] \in Lanes /\ pin[u] > i
<1>1. pin[u] \in Lanes
    BY DEF IInv, TypeOK
<1>2. pin[u] >= i /\ pin[u] # i
    BY EmptyLane DEF IInv, ScanInv
<1> QED BY <1>1, <1>2, LaneFacts

\* At the last lane nobody is pinned any more: the scan ends in exclusive access.
LEMMA ScanEnds ==
    ASSUME IInv, NEW t \in Threads, pc(t) \in Scanning, call[t].i = LANES, readers[LANES] = 0,
           excl' = t, Goto(t, "idle"),
           UNCHANGED <<readers, owners, last, writing, writers, pin>>
    PROVE  IInv' /\ excl = None /\ \A u \in Threads : pin[u] = NoLane
<1>1. Moved(t, "idle", 0, 0) /\ "idle" \in Labels /\ 0 \in Lanes /\ 0 \in Nat
    BY LaneFacts DEF Moved, Goto, Labels
<1>2. pc(t)' = "idle" /\ \A u \in Threads \ {t} : call'[u] = call[u] /\ pc(u)' = pc(u)
    BY <1>1, Moves DEF IInv
<1>3. pc(t) \in Holder
    BY ScanningHolds
<1>4. writers = t /\ excl = None /\ pin[t] = NoLane /\ \A u \in Threads \ {t} : pc(u) \notin Holder
    BY <1>3, SoleWriter
<1>5. ASSUME NEW u \in Threads PROVE pin[u] = NoLane
  <2>1. pin[u] # NoLane => pin[u] \in Lanes /\ pin[u] > LANES
      BY PinsBeyond, LaneFacts
  <2>2. \A l \in Lanes : ~(l > LANES)
      BY CoordAssumption DEF Lanes
  <2> QED BY <2>1, <2>2
<1>6. writing /\ writers' \in Threads \cup {None} /\ writing' \in BOOLEAN /\ t # None
    BY CoordAssumption DEF IInv, WriterInv, TypeOK
<1>7. \A u \in Threads : pc(u)' \notin Holder
    BY <1>2, <1>4 DEF Holder
<1>8. WriterInv'
    BY <1>4, <1>6, <1>7 DEF WriterInv
<1>9. ScanInv'
    BY <1>5 DEF ScanInv, NoLane
<1>10. IInv'
    BY <1>1, <1>3, <1>4, <1>6, <1>8, <1>9, WriterStep
<1> QED BY <1>4, <1>5, <1>10

LEMMA ScanMoves ==
    ASSUME TypeOK, NEW t \in Threads, NEW label \in Scanning, NEW j \in Lanes, GotoI(t, label, j)
    PROVE  /\ pc(t)' = label /\ call'[t].i = j
           /\ \A u \in Threads \ {t} : call'[u] = call[u] /\ pc(u)' = pc(u)
<1>1. Moved(t, label, j, 0) /\ label \in Labels /\ 0 \in Nat
    BY DEF Moved, GotoI, Labels, Scanning
<1> QED BY <1>1, Moves

\* Elsewhere it goes on, with the lanes behind it empty.
LEMMA ScanGoesOn ==
    ASSUME IInv, NEW t \in Threads, pc(t) \in Scanning, NEW i \in Lanes, NEW j \in Lanes,
           \A l \in Lanes : l > i => l >= j,
           call[t].i = i, readers[i] = 0,
           NEW label \in Scanning, GotoI(t, label, j),
           UNCHANGED <<readers, owners, last, writing, writers, pin, excl>>
    PROVE  IInv'
<1>1. Moved(t, label, j, 0) /\ label \in Labels /\ 0 \in Nat
    BY DEF Moved, GotoI, Labels, Scanning
<1>2. /\ pc(t)' = label /\ call'[t].i = j
      /\ \A u \in Threads \ {t} : call'[u] = call[u] /\ pc(u)' = pc(u)
    BY ScanMoves DEF IInv
<1>3. pc(t) \in Holder /\ label \in Holder
    BY ScanningHolds
<1>4. writers = t /\ excl = None /\ pin[t] = NoLane /\ \A u \in Threads \ {t} : pc(u) \notin Holder
    BY <1>3, SoleWriter
<1>5. WriterInv'
    BY <1>2, <1>3, WriterFrame DEF IInv
<1>6. ScanInv'
  <2> SUFFICES ASSUME NEW u \in Threads, pin'[u] # NoLane, NEW v \in Threads, pc(v)' \in Scanning
               PROVE  pin'[u] >= call'[v].i
      BY <1>4 DEF ScanInv, NoLane
  <2>1. v = t
      BY <1>2, <1>4, ScanningHolds
  <2>2. pin[u] \in Lanes /\ pin[u] > i
      BY PinsBeyond
  <2> QED BY <1>2, <2>1, <2>2
<1>7. writing' \in BOOLEAN /\ writers' \in Threads \cup {None} /\ excl' \in Threads \cup {None}
    BY DEF IInv, TypeOK
<1> QED BY <1>1, <1>3, <1>4, <1>5, <1>6, <1>7, WriterStep

LEMMA AdvanceStep ==
    ASSUME IInv, NEW t \in Threads, NEW label \in Scanning, pc(t) = label,
           readers[call[t].i] = 0, Advance(t, label),
           UNCHANGED <<readers, owners, last, writing, writers, pin>>
    PROVE  /\ IInv'
           /\ excl' # excl => excl' = t /\ excl = None /\ \A u \in Threads : pin[u] = NoLane
<1>1. call[t].i \in Lanes
    BY DEF IInv, TypeOK
<1>2. CASE call[t].i = LANES
  <2>1. excl' = t /\ Goto(t, "idle")
      BY <1>2 DEF Advance
  <2> QED BY <1>2, <2>1, ScanEnds
<1>3. CASE call[t].i # LANES
  <2>1. excl' = excl /\ GotoI(t, label, call[t].i + 1)
      BY <1>3 DEF Advance
  <2>2. call[t].i + 1 \in Lanes
      BY <1>1, <1>3, CoordAssumption DEF Lanes
  <2>3. \A l \in Lanes : l > call[t].i => l >= call[t].i + 1
      BY <1>1, LaneFacts
  <2> QED BY <1>1, <2>1, <2>2, <2>3, ScanGoesOn
<1> QED BY <1>2, <1>3

LEMMA ScanStep == ASSUME IInv, NEW t \in Threads, Scan(t) PROVE IInv'
BY AdvanceStep DEF Scan, Scanning

LEMMA UnlockWritersStep == ASSUME IInv, NEW t \in Threads, UnlockWriters(t) PROVE IInv'
<1>1. /\ pc(t) = "unlock_writers" /\ writers' = None
      /\ Moved(t, "idle", 0, 0)
      /\ UNCHANGED <<readers, owners, last, writing, pin, excl>>
    BY DEF UnlockWriters, Goto, Moved
<1>2. "idle" \in Labels /\ 0 \in Lanes /\ 0 \in Nat /\ pc(t) \in Holder
    BY <1>1, LaneFacts DEF Labels, Holder
<1>3. pc(t)' = "idle" /\ \A u \in Threads \ {t} : call'[u] = call[u] /\ pc(u)' = pc(u)
    BY <1>1, <1>2, Moves DEF IInv
<1>4. writers = t /\ excl = None /\ pin[t] = NoLane /\ \A u \in Threads \ {t} : pc(u) \notin Holder
    BY <1>2, SoleWriter
<1>5. WriterInv'
  <2>1. \A u \in Threads : pc(u)' \notin Holder /\ (pc(u)' \in Scanning <=> pc(u) \in Scanning)
      BY <1>1, <1>3, <1>4 DEF Holder, Scanning
  <2> QED BY <1>1, <1>4, <2>1 DEF IInv, WriterInv
<1>6. ScanInv'
    BY <1>1, <1>3, ScanFrame DEF IInv, Scanning
<1> QED BY <1>1, <1>2, <1>4, <1>5, <1>6, WriterStep, Zenon DEF IInv, TypeOK

\* The flag goes down, and only then does the writers lock become free.
LEMMA LowersFlag ==
    ASSUME IInv, NEW t \in Threads, pc(t) \in Scanning \/ (pc(t) = "idle" /\ excl = t),
           writing' = FALSE, excl' = None, Goto(t, "unlock_writers"),
           UNCHANGED <<readers, owners, last, writers, pin>>
    PROVE  IInv'
<1>1. /\ Moved(t, "unlock_writers", 0, 0)
      /\ "unlock_writers" \in Labels /\ 0 \in Lanes /\ 0 \in Nat
    BY LaneFacts DEF Moved, Goto, Labels
<1>2. pc(t)' = "unlock_writers" /\ \A u \in Threads \ {t} : call'[u] = call[u] /\ pc(u)' = pc(u)
    BY <1>1, Moves DEF IInv
<1>3. t # None
    BY CoordAssumption
<1>4. writers = t /\ pin[t] = NoLane /\ \A u \in Threads \ {t} : pc(u) \notin Holder
  <2>1. CASE pc(t) \in Scanning
      BY <2>1, SoleWriter, ScanningHolds
  <2>2. CASE excl = t
      BY <1>3, <2>2 DEF IInv, WriterInv, ScanInv
  <2> QED BY <2>1, <2>2
<1>5. \A u \in Threads : pc(u)' \notin Scanning
    BY <1>2, <1>4, ScanningHolds DEF Scanning
<1>6. WriterInv'
    BY <1>2, <1>4, <1>5 DEF WriterInv
<1>7. ScanInv'
    BY <1>5 DEF ScanInv
<1>8. pc(t) \in Holder \cup {"idle"} /\ writers' \in Threads \cup {None}
    BY ScanningHolds DEF IInv, TypeOK
<1> QED BY <1>1, <1>4, <1>6, <1>7, <1>8, WriterStep, Zenon DEF Holder

LEMMA TryScanStep == ASSUME IInv, NEW t \in Threads, TryScan(t) PROVE IInv'
<1>1. pc(t) = "try_scan" /\ "try_scan" \in Scanning /\ "try_scan" \in Holder
    BY DEF TryScan, Scanning, Holder
<1>2. CASE readers[call[t].i] = 0
    BY <1>1, <1>2, AdvanceStep DEF TryScan
<1>3. CASE readers[call[t].i] # 0
  <2>1. excl = None
      BY <1>1, SoleWriter
  <2> QED BY <1>1, <1>3, <2>1, LowersFlag, Zenon DEF TryScan
<1> QED BY <1>2, <1>3

LEMMA DropExclusiveStep == ASSUME IInv, NEW t \in Threads, DropExclusive(t) PROVE IInv'
BY LowersFlag, Zenon DEF DropExclusive

-----------------------------------------------------------------------------
LEMMA NextIInv == IInv /\ [Next]_vars => IInv'
<1> SUFFICES ASSUME IInv, [Next]_vars PROVE IInv'
    OBVIOUS
<1>1. CASE Next
  <2>1. PICK t \in Threads :
            Shared(t) \/ Evict(t) \/ LockWriters(t) \/ DropExclusive(t) \/ Continue(t)
      BY <1>1 DEF Next
  <2> QED BY <2>1, SharedStep, EvictStep, LockWritersStep, DropExclusiveStep, RegisterStep,
             AddStep, RecheckStep, UndoStep, AssertStep, SpinStep, DropSharedStep, PublishStep,
             ScanStep, TryScanStep, UnlockWritersStep DEF Continue
<1>2. CASE UNCHANGED vars
  <2>1. UNCHANGED <<readers, owners, last, writing, writers, pin, excl, call>>
      BY <1>2 DEF vars
  <2>2. \A u \in Threads : pc(u)' = pc(u)
      BY <2>1 DEF pc
  <2>3. TypeOK'
      BY <2>1 DEF IInv, TypeOK, Lanes, NoLane, Labels
  <2>4. CountInv'
      BY <2>1, <2>2, CountFrame DEF IInv
  <2>5. OwnersInv'
      BY <2>1, OwnersFrame DEF IInv
  <2>6. CallInv'
      BY <2>1 DEF IInv, CallInv, CallOK, Passed, pc, Private, Lanes, OnLane, NoLane
  <2>7. WriterInv'
      BY <2>1, <2>2, WriterFrame DEF IInv
  <2>8. ScanInv'
      BY <2>1, <2>2, ScanFrame DEF IInv
  <2> QED BY <2>3, <2>4, <2>5, <2>6, <2>7, <2>8 DEF IInv
<1> QED BY <1>1, <1>2

\* A lane that is counted on is its owner's.
LEMMA IInvLanes == IInv => LanesExact
<1> SUFFICES ASSUME IInv PROVE LanesExact
    OBVIOUS
<1>1. ASSUME NEW l \in Private, NEW t \in Counted(l)
      PROVE  t = owners[l]
  <2>1. t \in Threads /\ CallOK(t) /\ (pin[t] = l \/ last[t] = l)
      BY <1>1 DEF Counted, IInv, CallInv
  <2> QED BY <1>1, <2>1 DEF CallOK
<1>2. \A l \in Private : Counted(l) \subseteq {owners[l]}
    BY <1>1
<1> QED BY <1>2 DEF IInv, CountInv, OwnersInv, LanesExact, Private

LEMMA Invariant == Spec => []IInv
<1> QED BY InitIInv, NextIInv, PTL DEF Spec

\* Every variable of Coord keeps its type; in particular no lane's counter is
\* ever taken below zero.
THEOREM TypeCorrect == Spec => []TypeOK
<1>1. IInv => TypeOK
    BY DEF IInv
<1> QED BY <1>1, Invariant, PTL

\* For any number of threads and lanes, every lane counts exactly the threads
\* on it, owned lanes are private, and no thread owns two.
THEOREM LanesCounted == Spec => []LanesExact
<1> QED BY IInvLanes, Invariant, PTL

-----------------------------------------------------------------------------
(* The refinement.                                                         *)

Pinned == {t \in Threads : pin[t] # NoLane}

LEMMA PinChanges ==
    ASSUME TypeOK, NEW t \in Threads
    PROVE  /\ pin' = pin => Pinned' = Pinned
           /\ \A l \in Lanes : pin' = [pin EXCEPT ![t] = l] => Pinned' = Pinned \cup {t}
           /\ pin' = [pin EXCEPT ![t] = NoLane] => Pinned' = Pinned \ {t}
<1>1. pin \in [Threads -> Lanes \cup {NoLane}] /\ NoLane \notin Lanes
    BY LaneFacts DEF TypeOK
<1>2. pin' = pin => Pinned' = Pinned
    BY DEF Pinned, NoLane
<1>3. ASSUME NEW l \in Lanes, pin' = [pin EXCEPT ![t] = l] PROVE Pinned' = Pinned \cup {t}
    BY <1>1, <1>3 DEF Pinned, NoLane
<1>4. ASSUME pin' = [pin EXCEPT ![t] = NoLane] PROVE Pinned' = Pinned \ {t}
    BY <1>1, <1>4 DEF Pinned, NoLane
<1> QED BY <1>2, <1>3, <1>4

\* The steps of shared() and its drop pin and unpin the thread, or do neither.
LEMMA SharedPins ==
    ASSUME IInv, NEW t \in Threads, Recheck(t) \/ DropShared(t)
    PROVE  Pins!Pin(t) \/ Pins!Unpin(t) \/ (Pinned' = Pinned /\ excl' = excl)
<1>1. TypeOK /\ excl' = excl
    BY DEF IInv, Recheck, DropShared, Subtract, StoreBack
<1>2. CASE pin' = pin
    BY <1>1, <1>2, PinChanges
<1>3. CASE Recheck(t) /\ pin' # pin
  <2>1. pin' = [pin EXCEPT ![t] = last[t]] /\ ~writing /\ pc(t) = "recheck"
      BY <1>3 DEF Recheck
  <2>2. last[t] \in Lanes /\ pin[t] = NoLane /\ excl = None
      BY <2>1 DEF IInv, CallInv, CallOK, OnLane, WriterInv
  <2>3. Pinned' = Pinned \cup {t}
      BY <1>1, <2>1, <2>2, PinChanges, Zenon
  <2>4. t \notin Pinned
      BY <2>2 DEF Pinned
  <2> QED BY <1>1, <2>2, <2>3, <2>4 DEF Pins!Pin, Pinned
<1>4. CASE DropShared(t) /\ pin' # pin
  <2>1. pin' = [pin EXCEPT ![t] = NoLane]
      BY <1>4 DEF DropShared
  <2>2. Pinned' = Pinned \ {t}
      BY <1>1, <2>1, PinChanges, Zenon
  <2>3. CASE t \in Pinned
      BY <1>1, <2>2, <2>3 DEF Pins!Unpin, Pinned
  <2>4. CASE t \notin Pinned
      BY <1>1, <2>2, <2>4
  <2> QED BY <2>3, <2>4
<1> QED BY <1>2, <1>3, <1>4

\* The steps of exclusive(), try_exclusive() and their drop begin and end
\* exclusive access, or do neither.
LEMMA ExclusivePins ==
    ASSUME IInv, NEW t \in Threads, Scan(t) \/ TryScan(t) \/ DropExclusive(t)
    PROVE  Pins!Seize(t) \/ Pins!Yield(t) \/ (Pinned' = Pinned /\ excl' = excl)
<1>1. Pinned' = Pinned
  <2>1. pin' = pin
      BY DEF Scan, TryScan, DropExclusive
  <2> QED BY <2>1 DEF Pinned, NoLane
<1>2. ASSUME NEW label \in Scanning, pc(t) = label, readers[call[t].i] = 0, Advance(t, label),
             UNCHANGED <<readers, owners, last, writing, writers, pin>>
      PROVE  Pins!Seize(t) \/ excl' = excl
  <2>1. excl' # excl => excl' = t /\ excl = None /\ \A u \in Threads : pin[u] = NoLane
      BY <1>2, AdvanceStep
  <2>2. excl' # excl => excl' = t /\ excl = None /\ Pinned = {}
      BY <2>1 DEF Pinned
  <2> QED BY <1>1, <2>2 DEF Pins!Seize, Pinned
<1>3. CASE Scan(t)
    BY <1>1, <1>2, <1>3 DEF Scan, Scanning
<1>4. CASE TryScan(t)
  <2>1. CASE readers[call[t].i] = 0
      BY <1>1, <1>2, <1>4, <2>1 DEF TryScan, Scanning
  <2>2. CASE readers[call[t].i] # 0
      BY <1>1, <1>4, <2>2 DEF TryScan
  <2> QED BY <2>1, <2>2
<1>5. CASE DropExclusive(t)
    BY <1>1, <1>5 DEF DropExclusive, Pins!Yield, Pinned
<1> QED BY <1>3, <1>4, <1>5

\* Every other step is a stutter of OperationPins.
LEMMA OtherPins ==
    ASSUME NEW t \in Threads,
           \/ Shared(t) \/ Evict(t) \/ LockWriters(t) \/ Register(t) \/ Add(t) \/ Undo(t)
           \/ Assert(t) \/ Spin(t) \/ Publish(t) \/ UnlockWriters(t)
    PROVE  Pinned' = Pinned /\ excl' = excl
<1>1. pin' = pin /\ excl' = excl
  <2>1. CASE Shared(t) \/ Evict(t) \/ LockWriters(t) \/ Publish(t) \/ UnlockWriters(t)
      BY <2>1 DEF Shared, Evict, LockWriters, Publish, UnlockWriters
  <2>2. CASE Add(t) \/ Assert(t) \/ Spin(t)
      BY <2>2 DEF Add, Assert, Spin
  <2>3. CASE Register(t)
      BY <2>3, Zenon DEF Register
  <2>4. CASE Undo(t)
      BY <2>4 DEF Undo, Subtract, StoreBack
  <2> QED BY <2>1, <2>2, <2>3, <2>4
<1> QED BY <1>1 DEF Pinned, NoLane

\* coord.rs:10-12, for any number of threads and lanes: Coord implements
\* OperationPins, so no operation is pinned while another is exclusive.
THEOREM RefinesPins == Spec => ImplementsPins
<1>1. Init => Pins!Init
    BY DEF Init, Pins!Init
<1>2. IInv /\ [Next]_vars => [Pins!Next]_<<Pinned, excl>>
  <2> SUFFICES ASSUME IInv, [Next]_vars PROVE [Pins!Next]_<<Pinned, excl>>
      OBVIOUS
  <2>1. CASE Next
    <3>1. PICK t \in Threads :
              Shared(t) \/ Evict(t) \/ LockWriters(t) \/ DropExclusive(t) \/ Continue(t)
        BY <2>1 DEF Next
    <3> QED BY <3>1, SharedPins, ExclusivePins, OtherPins DEF Continue, Pins!Next
  <2>2. CASE UNCHANGED vars
      BY <2>2 DEF vars, Pinned, NoLane
  <2> QED BY <2>1, <2>2
<1>3. IInv /\ [Next]_vars => [Pins!Next]_<<{t \in Threads : pin[t] # NoLane}, excl>>
    BY <1>2 DEF Pinned
<1> QED BY <1>1, <1>3, Invariant, PTL DEF Spec, ImplementsPins, Pins!Spec
=============================================================================
