----------------------- MODULE AtomicBufferFifoProofs -----------------------
(***************************************************************************)
(* Proofs, from the inductive invariant of AtomicBufferProofs, that push() *)
(* and pop() implement a bounded first-in first-out queue (BoundedFifo),   *)
(* and that they fail only when they have a reason to.                     *)
(***************************************************************************)
EXTENDS AtomicBufferProofs

-----------------------------------------------------------------------------
(* Sequences.                                                              *)

LEMMA SeqMade ==
    ASSUME NEW S, NEW n \in Nat, NEW s \in [1..n -> S]
    PROVE  s \in Seq(S) /\ Len(s) = n
OBVIOUS

LEMMA SeqShape ==
    ASSUME NEW S, NEW s \in Seq(S)
    PROVE  Len(s) \in Nat /\ DOMAIN s = 1..Len(s) /\ s \in [1..Len(s) -> S]
OBVIOUS

LEMMA SeqSame ==
    ASSUME NEW S, NEW s \in Seq(S), NEW r \in Seq(S), Len(s) = Len(r), \A i \in 1..Len(s) : s[i] = r[i]
    PROVE  s = r
OBVIOUS

LEMMA SeqEmpty ==
    ASSUME NEW S, NEW s \in Seq(S)
    PROVE  s = <<>> <=> Len(s) = 0
OBVIOUS

LEMMA SeqAppended ==
    ASSUME NEW S, NEW s \in Seq(S), NEW x \in S
    PROVE  /\ Append(s, x) \in Seq(S) /\ Len(Append(s, x)) = Len(s) + 1
           /\ \A i \in 1..Len(s) : Append(s, x)[i] = s[i]
           /\ Append(s, x)[Len(s) + 1] = x
OBVIOUS

LEMMA SeqTail ==
    ASSUME NEW S, NEW s \in Seq(S), s # <<>>
    PROVE  /\ Tail(s) \in Seq(S) /\ Len(Tail(s)) = Len(s) - 1 /\ Head(s) = s[1]
           /\ \A i \in 1..(Len(s) - 1) : Tail(s)[i] = s[i + 1]
OBVIOUS

-----------------------------------------------------------------------------
(* The queue.                                                              *)

\* The allocation queued at ticket k: with the thread that reserved the
\* position, or in the slot.
LEMMA QueuedIs ==
    ASSUME IInv, NEW p \in Words
    PROVE  /\ \A t \in Threads : pc(t) = "push_write" /\ Turn(t) = Ticket(p) => Queued(p) = call[t].v
           /\ (\A t \in Threads : pc(t) = "push_write" => Turn(t) # Ticket(p)) =>
                 Queued(p) = value[SlotOf(Ticket(p))]
<1>1. cap \in Capacities /\ Slot(p) = SlotOf(Ticket(p))
    BY Typed, SlotTicket DEF IInv
<1>2. \A t \in Threads : call[t].pos = p <=> Turn(t) = Ticket(p)
    BY <1>1, CallFacts, TicketInjective DEF Turn
<1>3. ASSUME NEW t \in Threads, pc(t) = "push_write", Turn(t) = Ticket(p)
      PROVE  Queued(p) = call[t].v
  <2>1. call[t].pos = p
      BY <1>2, <1>3
  <2>2. \A u \in Threads : pc(u) = "push_write" /\ call[u].pos = p => u = t
      BY <1>2, <1>3 DEF IInv, Ring, Apart, Inside, Pushing
  <2>3. (CHOOSE u \in Threads : pc(u) = "push_write" /\ call[u].pos = p) = t
      BY <1>3, <2>1, <2>2
  <2>4. \E u \in Threads : pc(u) = "push_write" /\ call[u].pos = p
      BY <1>3, <2>1
  <2> QED BY <2>3, <2>4, Zenon DEF Queued
<1>4. ASSUME \A t \in Threads : pc(t) = "push_write" => Turn(t) # Ticket(p)
      PROVE  Queued(p) = value[SlotOf(Ticket(p))]
  <2>1. ~ \E u \in Threads : pc(u) = "push_write" /\ call[u].pos = p
      BY <1>2, <1>4
  <2> QED BY <1>1, <2>1 DEF Queued
<1> QED BY <1>3, <1>4

\* The length of the queue, and where its elements are.
LEMMA QueueShape ==
    ASSUME IInv
    PROVE  /\ Length = Pushed - Popped /\ Length \in Nat /\ Length <= cap
           /\ \A i \in 0..(Length - 1) : Position(i) \in Words /\ Ticket(Position(i)) = Popped + i
<1>1. /\ cap \in Capacities /\ cap \in Nat \ {0} /\ Pushed \in Nat /\ Popped \in Nat /\ WORD \in Nat \ {0}
      /\ Popped <= Pushed /\ Pushed <= Popped + cap /\ Pushed <= MAX_PUSH /\ MAX_PUSH < WORD
      /\ tail \in Words /\ head \in Words /\ MAX_PUSH \in Nat
    BY Typed, CapFacts DEF IInv, TypeOK, Ring, Bounds
<1>2. Length = Pushed - Popped
  <2>1. /\ Pushed = IF tail < START THEN tail - START + WORD ELSE tail - START
        /\ Popped = IF head < START THEN head - START + WORD ELSE head - START
        /\ tail \in Int /\ head \in Int /\ START \in Int
        /\ 0 <= tail /\ tail < WORD /\ 0 <= head /\ head < WORD
      BY <1>1, CapFacts, TicketIs DEF Pushed, Popped, Words
  <2>2. PICK x \in Int : x = tail - head
      BY <2>1
  <2>3. -WORD <= x /\ x < 2 * WORD
      BY <1>1, <2>1, <2>2
  <2>4. x % WORD = IF x < 0 THEN x + WORD ELSE IF x < WORD THEN x ELSE x - WORD
      BY <1>1, <2>3, ModNear, Zenon
  <2>5. x < WORD
      BY <1>1, <2>1, <2>2
  <2>6. Length = IF x < 0 THEN x + WORD ELSE x
      BY <2>2, <2>4, <2>5 DEF Length
  <2> QED BY <1>1, <2>1, <2>2, <2>6
<1>3. Length \in Nat /\ Length <= cap
    BY <1>1, <1>2
<1>4. ASSUME NEW i \in 0..(Length - 1)
      PROVE  Position(i) \in Words /\ Ticket(Position(i)) = Popped + i
  <2>1. i \in Nat /\ Ticket(head) + i < WORD /\ Ticket(head) = Popped
      BY <1>1, <1>2, <1>3 DEF Popped
  <2> QED BY <1>1, <2>1, TicketPlus DEF Position
<1> QED BY <1>2, <1>3, <1>4

\* The queue of a ring is a sequence of that length.
LEMMA QueueIs ==
    ASSUME IInv, cap # 1
    PROVE  /\ Queue \in Seq(Values \cup {NULL}) /\ Len(Queue) = Length
           /\ \A i \in 1..Length : Queue[i] = Queued(Position(i - 1))
<1>1. Length \in Nat /\ \A i \in 0..(Length - 1) : Position(i) \in Words
    BY QueueShape
<1>2. ASSUME NEW p \in Words
      PROVE  Queued(p) \in Values \cup {NULL}
  <2>1. Ticket(p) \in Int /\ SlotOf(Ticket(p)) \in Slots
      BY Typed, SlotTicket, TicketIs DEF IInv, Words
  <2> QED BY <2>1, QueuedIs, PlaceTypes DEF IInv
<1>3. \A i \in 1..Length : Queued(Position(i - 1)) \in Values \cup {NULL}
  <2>1. \A i \in 1..Length : i - 1 \in 0..(Length - 1)
      BY <1>1
  <2> QED BY <1>1, <1>2, <2>1
<1>4. Queue = [i \in 1..Length |-> Queued(Position(i - 1))]
    BY DEF Queue
<1>5. Queue \in [1..Length -> Values \cup {NULL}]
    BY <1>3, <1>4
<1>6. Queue \in Seq(Values \cup {NULL})
    BY <1>1, <1>5, SeqMade
<1>7. Len(Queue) = Length
  <2>1. DOMAIN Queue = 1..Length /\ DOMAIN Queue = 1..Len(Queue) /\ Len(Queue) \in Nat
      BY <1>4, <1>6, SeqShape, Zenon
  <2> QED BY <1>1, <2>1
<1> QED BY <1>4, <1>6, <1>7, Zenon

\* The two facts, as invariants, so that they hold after a step as well.
QueuedOK ==
    \A p \in Words :
        /\ \A t \in Threads : pc(t) = "push_write" /\ Turn(t) = Ticket(p) => Queued(p) = call[t].v
        /\ (\A t \in Threads : pc(t) = "push_write" => Turn(t) # Ticket(p)) =>
              Queued(p) = value[SlotOf(Ticket(p))]

QueueOK ==
    /\ Length = Pushed - Popped /\ Length \in Nat /\ Pushed \in Nat /\ Popped \in Nat
    /\ cap # 1 => /\ Queue \in Seq(Values \cup {NULL}) /\ Len(Queue) = Length
                  /\ \A i \in 1..Length : Queue[i] = Queued(Position(i - 1))

LEMMA QueueInvariants == IInv => QueuedOK /\ QueueOK
BY QueuedIs, QueueIs, QueueShape, Typed DEF QueuedOK, QueueOK, IInv

LEMMA QueueInvariantsAfter == IInv' => QueuedOK' /\ QueueOK'
BY QueueInvariants, PTL

\* A step that leaves head and tail alone, and what is queued, does not change
\* the queue.
LEMMA QueueFrame ==
    ASSUME IInv, IInv', cap # 1, UNCHANGED <<cap, head, tail>>,
           \A p \in Words : Popped <= Ticket(p) /\ Ticket(p) < Pushed => Queued(p)' = Queued(p)
    PROVE  Queue' = Queue
<1>1. /\ Length \in Nat /\ Length = Pushed - Popped /\ Pushed \in Nat /\ Popped \in Nat
      /\ \A i \in 0..(Length - 1) : Position(i) \in Words /\ Ticket(Position(i)) = Popped + i
    BY QueueShape, Typed DEF IInv
<1>2. Length' = Length /\ \A i : Position(i)' = Position(i)
    BY DEF Length, Position, Plus
<1>3. ASSUME NEW i \in 1..Length
      PROVE  Queued(Position(i - 1))' = Queued(Position(i - 1))
  <2>1. PICK p \in Words : p = Position(i - 1) /\ Popped <= Ticket(p) /\ Ticket(p) < Pushed
    <3>1. i - 1 \in 0..(Length - 1)
        BY <1>1
    <3> QED BY <1>1, <3>1
  <2>2. p = Position(i - 1)'
      BY <1>2, <2>1
  <2>3. Queued(Position(i - 1))' = Queued(p)'
      BY <2>2 DEF Queued, Slot
  <2> QED BY <2>1, <2>3
<1>4. Queue = [i \in 1..Length |-> Queued(Position(i - 1))]
    BY DEF Queue
<1>5. Queue' = [i \in 1..Length' |-> Queued(Position(i - 1))']
    BY DEF Queue
<1> QED BY <1>2, <1>3, <1>4, <1>5

\* The queue stays as it is while no thread reserves or claims a position, and
\* none arrives at or leaves its slot.
LEMMA QueuedFrame ==
    ASSUME IInv, IInv', NEW t \in Threads, UNCHANGED <<cap, value>>,
           pc(t) # "push_write", pc(t)' # "push_write",
           \A u \in Threads \ {t} : pc(u)' = pc(u) /\ call'[u] = call[u],
           NEW p \in Words
    PROVE  Queued(p)' = Queued(p)
<1>1. Ticket(p)' = Ticket(p) /\ \A k : SlotOf(k)' = SlotOf(k)
    BY RingStays DEF Ticket
<1>2. \A u \in Threads \ {t} : Turn(u)' = Turn(u) /\ call'[u].v = call[u].v
    BY DEF Turn, Ticket
<1>3. /\ \A u \in Threads : pc(u)' = "push_write" /\ Turn(u)' = Ticket(p) => Queued(p)' = call'[u].v
      /\ (\A u \in Threads : pc(u)' = "push_write" => Turn(u)' # Ticket(p)) =>
            Queued(p)' = value[SlotOf(Ticket(p))]
    BY <1>1, QueueInvariantsAfter DEF QueuedOK, Words
<1>4. CASE \E u \in Threads : pc(u) = "push_write" /\ Turn(u) = Ticket(p)
  <2>1. PICK u \in Threads : pc(u) = "push_write" /\ Turn(u) = Ticket(p)
      BY <1>4
  <2>2. Queued(p) = call[u].v
      BY <2>1, QueuedIs, Zenon
  <2>3. u \in Threads \ {t}
      BY <2>1
  <2>4. pc(u)' = "push_write" /\ Turn(u)' = Ticket(p) /\ call'[u].v = call[u].v
      BY <1>2, <2>1, <2>3
  <2> QED BY <1>3, <2>2, <2>4
<1>5. CASE \A u \in Threads : pc(u) = "push_write" => Turn(u) # Ticket(p)
    BY <1>2, <1>3, <1>5, QueuedIs, Zenon
<1> QED BY <1>4, <1>5

\* push_write and pop_take move a pointer; the queue sees the same one.
LEMMA QueuedSwapped ==
    ASSUME IInv, IInv', NEW t \in Threads, NEW v, UNCHANGED <<cap, head, tail>>,
           value' = [value EXCEPT ![Slot(call[t].pos)] = v],
           \/ pc(t) = "push_write" /\ v = call[t].v
           \/ pc(t) = "pop_take",
           pc(t)' # "push_write",
           \A u \in Threads \ {t} : pc(u)' = pc(u) /\ call'[u] = call[u],
           NEW p \in Words, Popped <= Ticket(p), Ticket(p) < Pushed
    PROVE  Queued(p)' = Queued(p)
<1>1. \A k : SlotOf(k)' = SlotOf(k)
    BY RingStays
<1>2. \A u \in Threads \ {t} : Turn(u)' = Turn(u) /\ call'[u].v = call[u].v
    BY DEF Turn, Ticket
<1>3. PICK j \in Window : j = Turn(t)
    BY TurnFacts DEF IInv, Inside, Pushing, Popping
<1>4. value'[SlotOf(j)] = v /\ \A k \in Window : k # j => value'[SlotOf(k)] = value[SlotOf(k)]
    BY <1>3, SlotWritten, Zenon DEF IInv
<1>5. Ticket(p) \in Window
    BY Typed, TicketIs DEF IInv, Window, Ring, Bounds, Words
<1>6. /\ \A u \in Threads : pc(u)' = "push_write" /\ Turn(u)' = Ticket(p) => Queued(p)' = call'[u].v
      /\ (\A u \in Threads : pc(u)' = "push_write" => Turn(u)' # Ticket(p)) =>
            Queued(p)' = value'[SlotOf(Ticket(p))]
    BY <1>1, QueueInvariantsAfter DEF QueuedOK, Words
<1>7. CASE pc(t) = "push_write" /\ j = Ticket(p)
  <2>1. \A u \in Threads \ {t} : pc(u) = "push_write" => Turn(u) # Ticket(p)
      BY <1>3, <1>7, Zenon DEF IInv, Ring, Apart, Inside, Pushing
  <2>2. Queued(p) = call[t].v
      BY <1>3, <1>7, QueuedIs, Zenon
  <2> QED BY <1>2, <1>4, <1>6, <1>7, <2>1, <2>2, Zenon
<1>8. CASE pc(t) # "push_write" \/ j # Ticket(p)
  <2>1. j # Ticket(p)
    <3>1. pc(t) = "pop_take" => j < Popped
        BY <1>3, TurnFacts, Zenon DEF IInv, TurnOK, Popping
    <3> QED BY <1>3, <1>8, <3>1, Typed, TicketIs DEF IInv, Words
  <2>2. value'[SlotOf(Ticket(p))] = value[SlotOf(Ticket(p))]
      BY <1>4, <1>5, <2>1, Zenon
  <2>3. CASE \E u \in Threads : pc(u) = "push_write" /\ Turn(u) = Ticket(p)
      BY <1>2, <1>3, <1>6, <2>1, <2>3, QueuedIs, Zenon
  <2>4. CASE \A u \in Threads : pc(u) = "push_write" => Turn(u) # Ticket(p)
      BY <1>2, <1>6, <2>2, <2>4, QueuedIs, Zenon
  <2> QED BY <2>3, <2>4
<1> QED BY <1>7, <1>8, Zenon

\* What thread u holds for its caller.
Part(u) ==
    IF pc(u) \in {"push_seq", "push_load", "push_cas", "pop_release"} THEN {call[u].v}
    ELSE IF pc(u) = "pop_take" THEN {value[Slot(call[u].pos)]} ELSE {}

LEMMA OwnedIs == \A x : x \in Owned <=> x \in own \/ \E u \in Threads : x \in Part(u)
BY DEF Owned, Part

LEMMA OwnedIsAfter == \A x : x \in Owned' <=> x \in own' \/ \E u \in Threads : x \in Part(u)'
BY DEF Owned, Part

\* A step that keeps what t and the callers hold together.
LEMMA OwnedFrame ==
    ASSUME NEW t \in Threads, \A u \in Threads \ {t} : Part(u)' = Part(u),
           own' \cup Part(t)' = own \cup Part(t)
    PROVE  Owned' = Owned
<1>1. \A x : x \in own' \/ x \in Part(t)' <=> x \in own \/ x \in Part(t)
    OBVIOUS
<1>2. \A x : x \in Owned' <=> x \in Owned
    BY <1>1, OwnedIs, OwnedIsAfter
<1> QED BY <1>2

\* The others hold what they held, also while t swaps a pointer.
LEMMA PartFrame ==
    ASSUME IInv, NEW t \in Threads, cap' = cap,
           \A u \in Threads \ {t} : pc(u)' = pc(u) /\ call'[u] = call[u],
           \/ value' = value
           \/ pc(t) \in Inside /\ \E v : value' = [value EXCEPT ![Slot(call[t].pos)] = v]
    PROVE  \A u \in Threads \ {t} : Part(u)' = Part(u)
<1> SUFFICES ASSUME NEW u \in Threads, u # t, pc(u) = "pop_take"
             PROVE  value'[Slot(call[u].pos)] = value[Slot(call[u].pos)]
    BY Zenon DEF Part, Slot
<1>1. CASE value' = value
    BY <1>1
<1>2. CASE pc(t) \in Inside /\ \E v : value' = [value EXCEPT ![Slot(call[t].pos)] = v]
  <2>1. pc(u) \in Inside
      BY DEF Inside, Popping
  <2>2. Turn(t) \in Window /\ Turn(u) \in Window /\ Turn(t) # Turn(u)
      BY <1>2, <2>1, TurnFacts, Zenon DEF IInv, Ring, Apart
  <2>3. Slot(call[u].pos) = SlotOf(Turn(u))
      BY CallFacts, Typed, SlotTicket, Zenon DEF IInv, Turn
  <2>4. PICK v : value' = [value EXCEPT ![Slot(call[t].pos)] = v]
      BY <1>2, Zenon
  <2>5. PICK j \in Window : j = Turn(t)
      BY <2>2
  <2>6. \A k \in Window : k # j => value'[SlotOf(k)] = value[SlotOf(k)]
      BY <2>4, <2>5, SlotWritten, Zenon DEF IInv
  <2> QED BY <2>2, <2>3, <2>5, <2>6, Zenon
<1> QED BY <1>1, <1>2

-----------------------------------------------------------------------------
(* The refinement of BoundedFifo.                                          *)

\* push() takes effect where it reserves the position.
LEMMA ReserveEnqueues ==
    ASSUME IInv, IInv', NEW t \in Threads, Reserves(t)
    PROVE  Fifo!Enqueue(call[t].v)
<1> DEFINE v == call[t].v
           n == Length
<1>1. /\ cap # 1 /\ v \in Values /\ pc(t) = "push_cas" /\ call[t].pos \in Words
      /\ "push_write" \in Labels /\ v \in Values \cup {NULL} /\ NULL \notin Values /\ v # NULL
    BY CallFacts, BufferAssumption, Zenon DEF Reserves, Carrying, Labels
<1>2. /\ pc(t)' = "push_write" /\ call'[t].v = v /\ Turn(t)' = Pushed
      /\ \A u \in Threads \ {t} : pc(u)' = pc(u) /\ call'[u] = call[u] /\ Turn(u)' = Turn(u)
    BY <1>1, ReserveFacts, Moves, Zenon DEF IInv, Reserves, Turn
<1>3. /\ n \in Nat /\ n = Pushed - Popped /\ Pushed \in Nat /\ Popped \in Nat /\ Length' = n + 1 /\ n < cap
      /\ cap' = cap /\ value' = value /\ Pushed' = Pushed + 1 /\ Popped' = Popped
  <2>1. /\ Pushed' = Pushed + 1 /\ Popped' = Popped /\ Pushed < Popped + cap /\ cap \in Nat
        /\ cap' = cap /\ value' = value
      BY ReserveFacts, RingStays DEF Reserves
  <2>2. Length' = Pushed' - Popped'
      BY QueueInvariantsAfter DEF QueueOK
  <2> QED BY <2>1, <2>2, QueueInvariants DEF QueueOK
<1>4. /\ \A p \in Words, u \in Threads : pc(u)' = "push_write" /\ Turn(u)' = Ticket(p) => Queued(p)' = call'[u].v
      /\ \A p \in Words : (\A u \in Threads : pc(u)' = "push_write" => Turn(u)' # Ticket(p)) =>
            Queued(p)' = value[SlotOf(Ticket(p))]
  <2>1. \A k : SlotOf(k)' = SlotOf(k)
      BY <1>3, RingStays
  <2> QED BY <1>3, <2>1, QueueInvariantsAfter, Zenon DEF QueuedOK, Words
<1>5. ASSUME NEW p \in Words, Ticket(p) # Pushed
      PROVE  Queued(p)' = Queued(p)
  <2>1. CASE \E u \in Threads : pc(u) = "push_write" /\ Turn(u) = Ticket(p)
    <3>1. PICK u \in Threads : pc(u) = "push_write" /\ Turn(u) = Ticket(p)
        BY <2>1
    <3>2. u # t
        BY <1>1, <3>1
    <3>3. Queued(p) = call[u].v
        BY <3>1, QueuedIs, Zenon
    <3>4. pc(u)' = "push_write" /\ Turn(u)' = Ticket(p) /\ call'[u].v = call[u].v
        BY <1>2, <3>1, <3>2
    <3> QED BY <1>4, <3>3, <3>4
  <2>2. CASE \A u \in Threads : pc(u) = "push_write" => Turn(u) # Ticket(p)
      BY <1>2, <1>4, <1>5, <2>2, QueuedIs, Zenon
  <2> QED BY <2>1, <2>2
<1>6. ASSUME NEW p \in Words, Ticket(p) = Pushed
      PROVE  Queued(p)' = v
    BY <1>2, <1>4, <1>6, Zenon
<1>7. \A i \in 0..n : Position(i)' = Position(i) /\ Position(i) \in Words /\ Ticket(Position(i)) = Popped + i
  <2>1. ASSUME NEW i \in 0..n
        PROVE  Position(i)' = Position(i) /\ Position(i) \in Words /\ Ticket(Position(i)) = Popped + i
    <3>1. head' = head /\ head \in Words /\ Ticket(head) = Popped /\ i \in Nat
      <4>1. head \in Words /\ Ticket(head) = Popped
          BY CallFacts, Zenon
      <4> QED BY <2>1, <4>1, <1>3 DEF Reserves
    <3>2. Popped + i < WORD /\ cap \in Capacities
        BY <1>3, <2>1, Typed, CapFacts DEF IInv, Ring, Bounds
    <3> QED BY <3>1, <3>2, TicketPlus DEF Position, Plus
  <2> QED BY <2>1
<1>8. Queue' = Append(Queue, v)
  <2>1. /\ Queue \in Seq(Values \cup {NULL}) /\ Len(Queue) = n
        /\ \A i \in 1..n : Queue[i] = Queued(Position(i - 1))
      BY <1>1, QueueIs
  <2>2. /\ Queue' \in Seq(Values \cup {NULL}) /\ Len(Queue') = n + 1
        /\ \A i \in 1..(n + 1) : Queue'[i] = Queued(Position(i - 1))'
      BY <1>1, <1>3, QueueInvariantsAfter DEF QueueOK
  <2>3. ASSUME NEW i \in 1..(n + 1)
        PROVE  Queued(Position(i - 1))' = IF i <= n THEN Queued(Position(i - 1)) ELSE v
    <3>1. PICK p \in Words : p = Position(i - 1) /\ p = Position(i - 1)' /\ Ticket(p) = Popped + (i - 1)
        BY <1>3, <1>7, i - 1 \in 0..n
    <3>2. Queued(Position(i - 1))' = Queued(p)'
        BY <3>1, Zenon DEF Queued, Slot
    <3>3. i <= n => Ticket(p) # Pushed
        BY <1>3, <3>1
    <3>4. ~(i <= n) => Ticket(p) = Pushed
        BY <1>3, <3>1
    <3> QED BY <1>5, <1>6, <3>1, <3>2, <3>3, <3>4
  <2>4. /\ Append(Queue, v) \in Seq(Values \cup {NULL}) /\ Len(Append(Queue, v)) = n + 1
        /\ \A i \in 1..n : Append(Queue, v)[i] = Queue[i]
        /\ Append(Queue, v)[n + 1] = v
      BY <1>1, <2>1, SeqAppended
  <2>5. \A i \in 1..(n + 1) : Queue'[i] = Append(Queue, v)[i]
    <3> SUFFICES ASSUME NEW i \in 1..(n + 1) PROVE Queue'[i] = Append(Queue, v)[i]
        BY Zenon
    <3>1. CASE i <= n
      <4>1. i \in 1..n
          BY <1>3, <3>1
      <4>2. Queue'[i] = Queued(Position(i - 1))' /\ Queued(Position(i - 1))' = Queued(Position(i - 1))
          BY <2>2, <2>3, <3>1
      <4> QED BY <2>1, <2>4, <4>1, <4>2, Zenon
    <3>2. CASE ~(i <= n)
      <4>1. i = n + 1
          BY <1>3, <3>2
      <4> QED BY <2>2, <2>3, <2>4, <3>2, <4>1, Zenon
    <3> QED BY <3>1, <3>2, Zenon
  <2> QED BY <2>2, <2>4, <2>5, SeqSame
<1>9. v \in Owned /\ Owned' = Owned \ {v}
  <2>1. Part(t) = {v} /\ Part(t)' = {} /\ own' = own /\ v \notin own
      BY <1>1, <1>2, Zenon DEF Part, Reserves, IInv, Once
  <2>2. \A u \in Threads \ {t} : Part(u)' = Part(u)
      BY <1>2, PartFrame, Zenon DEF Reserves
  <2>3. ASSUME NEW u \in Threads \ {t}
        PROVE  v \notin Part(u)
    <3>1. call[u].v # v
        BY <1>1, Zenon DEF IInv, Once
    <3>2. Slot(call[u].pos) \in Slots
        BY CallFacts, Typed, SlotTicket, Zenon DEF IInv
    <3>3. value[Slot(call[u].pos)] # v
        BY <1>1, <3>2, Zenon DEF IInv, Once
    <3> QED BY <3>1, <3>3 DEF Part
  <2>4. v \in Owned
      BY <2>1, OwnedIs
  <2>5. \A x : x \in Owned' <=> x \in Owned /\ x # v
      BY <2>1, <2>2, <2>3, OwnedIs, OwnedIsAfter
  <2> QED BY <2>4, <2>5
<1>10. Len(Queue) < cap /\ cap' = cap
    BY <1>1, <1>3, QueueIs
<1> QED BY <1>8, <1>9, <1>10 DEF Fifo!Enqueue

\* pop() takes effect where it claims the oldest position.
LEMMA ClaimDequeues ==
    ASSUME IInv, IInv', NEW t \in Threads, Claims(t)
    PROVE  Fifo!Dequeue
<1> DEFINE n == Length
           w == value[SlotOf(Popped)]
<1>1. cap # 1 /\ pc(t) = "pop_cas" /\ call[t].pos \in Words /\ "pop_take" \in Labels /\ NULL \in Values \cup {NULL}
    BY CallFacts, Zenon DEF Claims, Labels
<1>2. /\ pc(t)' = "pop_take" /\ call'[t].pos = call[t].pos
      /\ \A u \in Threads \ {t} : pc(u)' = pc(u) /\ call'[u] = call[u]
  <2>1. DOMAIN call = Threads
      BY DEF IInv, TypeOK
  <2>2. call'[t].pos = call[t].pos
      BY <2>1 DEF Claims, Goto, At
  <2> QED BY <1>1, <2>2, Moves, Zenon DEF IInv, Claims
<1>3. /\ n \in Nat /\ n = Pushed - Popped /\ Pushed \in Nat /\ Popped \in Nat /\ Length' = n - 1 /\ n > 0
      /\ cap' = cap /\ value' = value /\ Pushed' = Pushed /\ Popped' = Popped + 1
  <2>1. /\ Popped' = Popped + 1 /\ Pushed' = Pushed /\ Popped < Pushed /\ cap' = cap /\ value' = value
      BY ClaimFacts DEF Claims, Pushed, Ticket
  <2>2. Length' = Pushed' - Popped'
      BY QueueInvariantsAfter DEF QueueOK
  <2> QED BY <2>1, <2>2, QueueInvariants DEF QueueOK
<1>4. \A p \in Words : Queued(p)' = Queued(p)
    BY <1>1, <1>2, <1>3, QueuedFrame, Zenon
<1>5. \A i \in 0..(n - 1) : Position(i) \in Words /\ Ticket(Position(i)) = Popped + i
    BY QueueShape
<1>6. \A i \in 0..(n - 2) : Position(i)' = Position(i + 1)
  <2>1. ASSUME NEW i \in 0..(n - 2)
        PROVE  Position(i)' = Position(i + 1)
    <3>1. head \in Words /\ Ticket(head) = Popped /\ i \in Nat /\ cap \in Capacities /\ WORD \in Nat \ {0}
      <4>1. head \in Words /\ Ticket(head) = Popped
          BY CallFacts, Zenon
      <4>2. cap \in Capacities
          BY Typed DEF IInv
      <4> QED BY <2>1, <4>1, <4>2, CapFacts
    <3>2. Popped + (i + 1) < WORD /\ Popped + 1 < WORD
        BY <1>3, <2>1, Typed, CapFacts DEF IInv, Ring, Bounds
    <3>3. /\ Plus(head, 1) \in Words /\ Ticket(Plus(head, 1)) = Popped + 1
          /\ Plus(head, i + 1) \in Words /\ Ticket(Plus(head, i + 1)) = Popped + (i + 1)
        BY <3>1, <3>2, TicketPlus
    <3>4. PICK h \in Words : h = Plus(head, 1) /\ Ticket(h) = Popped + 1 /\ head' = h
        BY <3>3 DEF Claims
    <3>5. Plus(h, i) \in Words /\ Ticket(Plus(h, i)) = Popped + (i + 1)
      <4>1. Ticket(h) + i < WORD /\ Ticket(h) + i = Popped + (i + 1)
          BY <1>3, <3>1, <3>2, <3>4
      <4> QED BY <3>1, <4>1, TicketPlus
    <3>6. Plus(h, i) = Plus(head, i + 1)
        BY <1>3, <3>1, <3>3, <3>5, TicketInjective
    <3>7. Position(i)' = Plus(h, i)
        BY <3>4 DEF Position, Plus
    <3> QED BY <3>6, <3>7 DEF Position
  <2> QED BY <2>1
<1>7. /\ Queue \in Seq(Values \cup {NULL}) /\ Len(Queue) = n
      /\ \A i \in 1..n : Queue[i] = Queued(Position(i - 1))
    BY <1>1, QueueIs
<1>8. Queue # <<>> /\ Head(Queue) = Queue[1]
    BY <1>3, <1>7, SeqEmpty
<1>9. Queue' = Tail(Queue)
  <2>1. /\ Queue' \in Seq(Values \cup {NULL}) /\ Len(Queue') = n - 1
        /\ \A i \in 1..(n - 1) : Queue'[i] = Queued(Position(i - 1))'
      BY <1>1, <1>3, QueueInvariantsAfter DEF QueueOK
  <2>2. /\ Tail(Queue) \in Seq(Values \cup {NULL}) /\ Len(Tail(Queue)) = n - 1
        /\ \A i \in 1..(n - 1) : Tail(Queue)[i] = Queue[i + 1]
      BY <1>7, <1>8, SeqTail
  <2>3. ASSUME NEW i \in 1..(n - 1)
        PROVE  Queue'[i] = Tail(Queue)[i]
    <3>1. i - 1 \in 0..(n - 2) /\ i - 1 + 1 = i /\ i \in 0..(n - 1) /\ i + 1 \in 1..n /\ i + 1 - 1 = i
        BY <1>3
    <3>2. PICK p \in Words : p = Position(i) /\ p = Position(i - 1)'
        BY <1>5, <1>6, <3>1
    <3>3. Queued(Position(i - 1))' = Queued(p)'
        BY <3>2 DEF Queued, Slot
    <3>4. Queue'[i] = Queued(p)'
        BY <2>1, <3>3
    <3>5. Tail(Queue)[i] = Queued(p)
      <4>1. PICK j \in 1..n : j = i + 1 /\ j - 1 = i
          BY <3>1
      <4>2. Tail(Queue)[i] = Queue[j]
          BY <2>2, <4>1, Zenon
      <4> QED BY <1>7, <3>2, <4>1, <4>2, Zenon
    <3> QED BY <1>4, <3>4, <3>5, Zenon
  <2> QED BY <2>1, <2>2, <2>3, SeqSame
<1>10. Queue[1] = w
  <2>1. PICK p \in Words : p = Position(0) /\ Ticket(p) = Popped
      BY <1>3, <1>5, 0 \in 0..(n - 1), Popped + 0 = Popped
  <2>2. \A u \in Threads : pc(u) = "push_write" => Turn(u) # Popped
      BY ClaimFacts DEF Inside, Pushing
  <2>3. Queued(p) = w
      BY <2>1, <2>2, QueuedIs
  <2>4. 1 \in 1..n /\ 1 - 1 = 0
      BY <1>3
  <2> QED BY <1>7, <2>1, <2>3, <2>4, Zenon
<1>11. Owned' = Owned \cup {w}
  <2>1. Part(t) = {} /\ Part(t)' = {w} /\ own' = own
    <3>1. Slot(call[t].pos) = SlotOf(Popped)
        BY CallFacts, Typed, SlotTicket, ClaimFacts, Zenon DEF IInv, Turn
    <3>2. (value[Slot(call[t].pos)])' = value[Slot(call[t].pos)]
        BY <1>2, <1>3 DEF Slot
    <3> QED BY <1>1, <1>2, <3>1, <3>2, Zenon DEF Part, Claims
  <2>2. \A u \in Threads \ {t} : Part(u)' = Part(u)
      BY <1>2, <1>3, PartFrame
  <2>3. \A x : x \in Owned' <=> x \in Owned \/ x = w
      BY <2>1, <2>2, OwnedIs, OwnedIsAfter
  <2> QED BY <2>3
<1> QED BY <1>3, <1>8, <1>9, <1>10, <1>11 DEF Fifo!Dequeue

\* A step that moves no counter, and leaves the slots alone or swaps its own
\* pointer, is not visible.
LEMMA Invisible ==
    ASSUME IInv, IInv', NEW t \in Threads, cap # 1, UNCHANGED <<cap, head, tail>>,
           pc(t)' # "push_write",
           \A u \in Threads \ {t} : pc(u)' = pc(u) /\ call'[u] = call[u],
           \/ value' = value /\ pc(t) # "push_write"
           \/ /\ pc(t) = "push_write"
              /\ value' = [value EXCEPT ![Slot(call[t].pos)] = call[t].v]
           \/ /\ pc(t) = "pop_take"
              /\ value' = [value EXCEPT ![Slot(call[t].pos)] = NULL],
           own' \cup Part(t)' = own \cup Part(t)
    PROVE  UNCHANGED <<cap, Queue, Owned>>
<1>1. \A p \in Words : Popped <= Ticket(p) /\ Ticket(p) < Pushed => Queued(p)' = Queued(p)
  <2>1. CASE value' = value /\ pc(t) # "push_write"
      BY <2>1, QueuedFrame, Zenon
  <2>2. CASE /\ pc(t) = "push_write"
             /\ value' = [value EXCEPT ![Slot(call[t].pos)] = call[t].v]
      BY <2>2, QueuedSwapped, Zenon
  <2>3. CASE /\ pc(t) = "pop_take"
             /\ value' = [value EXCEPT ![Slot(call[t].pos)] = NULL]
      BY <2>3, QueuedSwapped, Zenon
  <2> QED BY <2>1, <2>2, <2>3, Zenon
<1>2. Queue' = Queue
    BY <1>1, QueueFrame
<1>3. \/ value' = value
      \/ pc(t) \in Inside /\ \E v : value' = [value EXCEPT ![Slot(call[t].pos)] = v]
    BY Zenon DEF Inside, Pushing, Popping
<1>4. \A u \in Threads \ {t} : Part(u)' = Part(u)
    BY <1>3, PartFrame, Zenon
<1>5. Owned' = Owned
    BY <1>4, OwnedFrame
<1> QED BY <1>2, <1>5

\* Every other step of a call is invisible.
LEMMA PushInvisible ==
    ASSUME IInv, IInv', NEW t \in Threads,
           \/ \E v \in Values : Push(t, v)
           \/ PushSeq(t) \/ PushLoad(t) \/ PushWrite(t) \/ PushPublish(t)
    PROVE  UNCHANGED <<cap, Queue, Owned>>
<1>1. /\ call[t].pos \in Words /\ call[t].v \in Values \cup {NULL} /\ tail \in Words /\ 0 \in Words
      /\ NULL \in Values \cup {NULL} /\ (pc(t) # "idle" => cap # 1)
      /\ {"idle", "push_seq", "push_load", "push_cas", "push_write", "push_publish"} \subseteq Labels
    BY CallFacts, Zenon DEF Labels
<1>2. ASSUME NEW v \in Values, Push(t, v)
      PROVE  UNCHANGED <<cap, Queue, Owned>>
  <2>1. /\ pc(t) = "idle" /\ pc(t)' = "push_seq" /\ call'[t].v = v /\ cap # 1
        /\ \A u \in Threads \ {t} : pc(u)' = pc(u) /\ call'[u] = call[u]
    <3>1. pc(t) = "idle" /\ cap # 1 /\ Goto(t, "push_seq", tail, v)
        BY <1>2 DEF Push
    <3>2. TypeOK /\ v \in Values \cup {NULL} /\ "push_seq" \in Labels
        BY <1>1 DEF IInv
    <3> QED BY <1>1, <3>1, <3>2, Moves, Zenon
  <2>2. own' \cup Part(t)' = own \cup Part(t)
      BY <1>2, <2>1, Zenon DEF Part, Push
  <2> QED BY <1>2, <2>1, <2>2, Invisible, Zenon DEF Push
<1>3. CASE PushSeq(t)
  <2>1. PICK label \in {"push_cas", "push_load", "idle"}, p \in Words, v \in Values \cup {NULL} :
           /\ Goto(t, label, p, v)
           /\ \/ label = "idle" /\ own' = own \cup {call[t].v}
              \/ label # "idle" /\ own' = own /\ v = call[t].v
      BY <1>1, <1>3, Zenon DEF PushSeq, Return
  <2>2. label \in Labels
      BY <1>1, <2>1, Zenon
  <2>3. /\ pc(t)' = label /\ call'[t].v = v
        /\ \A u \in Threads \ {t} : pc(u)' = pc(u) /\ call'[u] = call[u]
      BY <2>1, <2>2, Moves, Zenon DEF IInv
  <2>4. pc(t) = "push_seq" /\ cap # 1
      BY <1>1, <1>3, Zenon DEF PushSeq
  <2>5. own' \cup Part(t)' = own \cup Part(t)
      BY <2>1, <2>3, <2>4, Zenon DEF Part
  <2> QED BY <1>3, <2>3, <2>4, <2>5, Invisible, Zenon DEF PushSeq
<1>4. CASE PushLoad(t)
  <2>1. /\ pc(t) = "push_load" /\ pc(t)' = "push_seq" /\ call'[t].v = call[t].v /\ cap # 1
        /\ \A u \in Threads \ {t} : pc(u)' = pc(u) /\ call'[u] = call[u]
      BY <1>1, <1>4, Moves, Zenon DEF IInv, PushLoad
  <2>2. own' \cup Part(t)' = own \cup Part(t)
      BY <1>4, <2>1, Zenon DEF Part, PushLoad
  <2> QED BY <1>4, <2>1, <2>2, Invisible, Zenon DEF PushLoad
<1>5. CASE PushWrite(t)
  <2>1. /\ pc(t) = "push_write" /\ pc(t)' = "push_publish" /\ cap # 1
        /\ \A u \in Threads \ {t} : pc(u)' = pc(u) /\ call'[u] = call[u]
      BY <1>1, <1>5, Moves, Zenon DEF IInv, PushWrite
  <2>2. own' \cup Part(t)' = own \cup Part(t)
      BY <1>5, <2>1, Zenon DEF Part, PushWrite
  <2> QED BY <1>5, <2>1, <2>2, Invisible, Zenon DEF PushWrite
<1>6. CASE PushPublish(t)
  <2>1. /\ pc(t) = "push_publish" /\ pc(t)' = "idle" /\ cap # 1
        /\ \A u \in Threads \ {t} : pc(u)' = pc(u) /\ call'[u] = call[u]
      BY <1>1, <1>6, Moves, Zenon DEF IInv, PushPublish, Return
  <2>2. own' \cup Part(t)' = own \cup Part(t)
      BY <1>6, <2>1, Zenon DEF Part, PushPublish
  <2> QED BY <1>6, <2>1, <2>2, Invisible, Zenon DEF PushPublish
<1> QED BY <1>2, <1>3, <1>4, <1>5, <1>6

LEMMA PopInvisible ==
    ASSUME IInv, IInv', NEW t \in Threads,
           Pop(t) \/ PopSeq(t) \/ PopTail(t) \/ PopLoad(t) \/ PopTake(t) \/ PopRelease(t)
    PROVE  UNCHANGED <<cap, Queue, Owned>>
<1>1. /\ call[t].pos \in Words /\ call[t].v \in Values \cup {NULL} /\ head \in Words /\ 0 \in Words
      /\ NULL \in Values \cup {NULL} /\ (pc(t) # "idle" => cap # 1)
      /\ {"idle", "pop_seq", "pop_tail", "pop_load", "pop_cas", "pop_take", "pop_release"} \subseteq Labels
    BY CallFacts, Zenon DEF Labels
<1>2. CASE Pop(t) \/ PopSeq(t) \/ PopTail(t) \/ PopLoad(t)
  <2>1. PICK label \in {"idle"} \cup Looking, p \in Words : Goto(t, label, p, NULL)
      BY <1>1, <1>2, Zenon DEF Pop, PopSeq, PopTail, PopLoad, Return, Looking
  <2>2. label \in Labels
      BY <1>1, <2>1, Zenon DEF Looking
  <2>3. /\ pc(t)' = label
        /\ \A u \in Threads \ {t} : pc(u)' = pc(u) /\ call'[u] = call[u]
      BY <1>1, <2>1, <2>2, Moves, Zenon DEF IInv
  <2>4. pc(t) \in {"idle", "pop_seq", "pop_tail", "pop_load"} /\ cap # 1 /\ UNCHANGED <<cap, head, tail, value, own>>
    <3>1. CASE Pop(t)
        BY <3>1 DEF Pop
    <3>2. CASE PopSeq(t)
        BY <1>1, <3>2 DEF PopSeq
    <3>3. CASE PopTail(t)
        BY <1>1, <3>3 DEF PopTail
    <3>4. CASE PopLoad(t)
        BY <1>1, <3>4 DEF PopLoad
    <3> QED BY <1>2, <3>1, <3>2, <3>3, <3>4
  <2>5. own' \cup Part(t)' = own \cup Part(t)
      BY <2>1, <2>3, <2>4, Zenon DEF Part, Looking
  <2> QED BY <2>1, <2>3, <2>4, <2>5, Invisible, Zenon DEF Looking
<1>3. CASE PopTake(t)
  <2>1. value[Slot(call[t].pos)] \in Values \cup {NULL}
    <3>1. Slot(call[t].pos) \in Slots
        BY CallFacts, Typed, SlotTicket, Zenon DEF IInv
    <3> QED BY <3>1, PlaceTypes, Zenon DEF IInv
  <2>2. /\ pc(t) = "pop_take" /\ pc(t)' = "pop_release" /\ cap # 1 /\ call'[t].v = value[Slot(call[t].pos)]
        /\ \A u \in Threads \ {t} : pc(u)' = pc(u) /\ call'[u] = call[u]
      BY <1>1, <1>3, <2>1, Moves, Zenon DEF IInv, PopTake
  <2>3. own' \cup Part(t)' = own \cup Part(t)
      BY <1>3, <2>2, Zenon DEF Part, PopTake
  <2> QED BY <1>3, <2>2, <2>3, Invisible, Zenon DEF PopTake
<1>4. CASE PopRelease(t)
  <2>1. /\ pc(t) = "pop_release" /\ pc(t)' = "idle" /\ cap # 1
        /\ \A u \in Threads \ {t} : pc(u)' = pc(u) /\ call'[u] = call[u]
      BY <1>1, <1>4, Moves, Zenon DEF IInv, PopRelease, Return
  <2>2. own' \cup Part(t)' = own \cup Part(t)
      BY <1>4, <2>1, Zenon DEF Part, PopRelease
  <2> QED BY <1>4, <2>1, <2>2, Invisible, Zenon DEF PopRelease
<1> QED BY <1>2, <1>3, <1>4

\* Capacity one: a single pointer is a queue of at most one.
LEMMA SingleQueue ==
    ASSUME IInv, cap = 1
    PROVE  /\ Queue = (IF single = NULL THEN <<>> ELSE <<single>>) /\ Owned = own
           /\ single \in Values \cup {NULL} /\ NULL \notin Values
<1>1. \A t \in Threads : pc(t) = "idle"
    BY DEF IInv, Split
<1>2. \A t \in Threads : Part(t) = {}
    BY <1>1 DEF Part
<1>3. Owned = own
    BY <1>2, OwnedIs
<1> QED BY <1>3, PlaceTypes, BufferAssumption, Zenon DEF Queue, IInv

SingleQueueOK ==
    cap = 1 => Queue = (IF single = NULL THEN <<>> ELSE <<single>>) /\ Owned = own

LEMMA SingleQueueAfter == IInv' => SingleQueueOK'
<1>1. IInv => SingleQueueOK
    BY SingleQueue DEF SingleQueueOK
<1> QED BY <1>1, PTL

LEMMA SingleEnqueues ==
    ASSUME IInv, IInv', NEW v \in Values, PushSingle(v)
    PROVE  Fifo!Enqueue(v)
<1>1. cap = 1 /\ cap' = 1 /\ single = NULL /\ single' = v /\ v \in own /\ own' = own \ {v}
    BY DEF PushSingle
<1>2. Queue = <<>> /\ Owned = own /\ v # NULL
    BY <1>1, SingleQueue
<1>3. Queue' = <<v>> /\ Owned' = own'
    BY <1>1, <1>2, SingleQueueAfter DEF SingleQueueOK
<1>4. Len(Queue) < cap /\ Append(Queue, v) = <<v>>
    BY <1>1, <1>2
<1> QED BY <1>1, <1>2, <1>3, <1>4 DEF Fifo!Enqueue

LEMMA SingleDequeues ==
    ASSUME IInv, IInv', PopSingle
    PROVE  Fifo!Dequeue
<1>1. cap = 1 /\ cap' = 1 /\ single # NULL /\ single' = NULL /\ own' = own \cup {single}
    BY DEF PopSingle
<1>2. Queue = <<single>> /\ Owned = own
    BY <1>1, SingleQueue
<1>3. Queue' = <<>> /\ Owned' = own'
    BY <1>1, <1>2, SingleQueueAfter DEF SingleQueueOK
<1>4. Queue # <<>> /\ Head(Queue) = single /\ Tail(Queue) = <<>>
    BY <1>2
<1> QED BY <1>1, <1>2, <1>3, <1>4 DEF Fifo!Dequeue

LEMMA InitFifo == Init => Fifo!Init
<1> SUFFICES ASSUME Init PROVE Fifo!Init
    OBVIOUS
<1>1. cap \in Capacities
    BY DEF Init
<1>2. Queue = <<>>
  <2>1. CASE cap = 1
      BY <2>1 DEF Queue, Init
  <2>2. CASE cap # 1
    <3>1. Length = 0 /\ Len(Queue) = Length /\ Queue \in Seq(Values \cup {NULL})
      <4>1. IInv /\ Pushed = Popped
          BY InitIInv DEF Init, Pushed, Popped
      <4> QED BY <2>2, <4>1, QueueShape, QueueIs, Typed DEF IInv
    <3> QED BY <3>1, SeqEmpty
  <2> QED BY <2>1, <2>2
<1>3. Owned = Values
  <2>1. own = Values /\ \A t \in Threads : pc(t) = "idle"
      BY DEF Init, pc, At
  <2>2. \A t \in Threads : Part(t) = {}
      BY <2>1 DEF Part
  <2> QED BY <2>1, <2>2, OwnedIs
<1> QED BY <1>1, <1>2, <1>3 DEF Fifo!Init

LEMMA NextFifo ==
    IInv /\ IInv' /\ [Next]_vars => [Fifo!Next]_<<cap, Queue, Owned>>
<1> SUFFICES ASSUME IInv, IInv', [Next]_vars PROVE [Fifo!Next]_<<cap, Queue, Owned>>
    OBVIOUS
<1>1. CASE UNCHANGED vars
  <2>1. Queue' = Queue
      BY <1>1 DEF vars, Queue, Length, Position, Plus, Queued, pc, Slot
  <2>2. Owned' = Owned
      BY <1>1 DEF vars, Owned, pc, Slot
  <2> QED BY <1>1, <2>1, <2>2 DEF vars
<1>2. CASE PopSingle
    BY <1>2, SingleDequeues DEF Fifo!Next
<1>3. CASE \E v \in Values : PushSingle(v)
    BY <1>3, SingleEnqueues DEF Fifo!Next
<1>4. ASSUME NEW t \in Threads,
             \/ \E v \in Values : Push(t, v)
             \/ PushSeq(t) \/ PushLoad(t) \/ PushWrite(t) \/ PushPublish(t)
      PROVE  UNCHANGED <<cap, Queue, Owned>>
    BY <1>4, PushInvisible
<1>5. ASSUME NEW t \in Threads,
             Pop(t) \/ PopSeq(t) \/ PopTail(t) \/ PopLoad(t) \/ PopTake(t) \/ PopRelease(t)
      PROVE  UNCHANGED <<cap, Queue, Owned>>
    BY <1>5, PopInvisible
<1>6. ASSUME NEW t \in Threads, PushCas(t)
      PROVE  [Fifo!Next]_<<cap, Queue, Owned>>
  <2>1. CASE Reserves(t)
    <3>1. call[t].v \in Values
        BY <2>1, CallFacts, Zenon DEF Reserves, Carrying
    <3> QED BY <2>1, <3>1, ReserveEnqueues DEF Fifo!Next
  <2>2. CASE /\ pc(t) = "push_cas" /\ Goto(t, "push_seq", tail, call[t].v)
             /\ UNCHANGED <<cap, head, tail, sequence, value, single, own, pushes>>
    <3>1. /\ tail \in Words /\ call[t].v \in Values \cup {NULL} /\ "push_seq" \in Labels /\ cap # 1
        BY <2>2, CallFacts, Zenon DEF Labels
    <3>2. /\ pc(t)' = "push_seq" /\ call'[t].v = call[t].v
          /\ \A u \in Threads \ {t} : pc(u)' = pc(u) /\ call'[u] = call[u]
        BY <2>2, <3>1, Moves, Zenon DEF IInv
    <3>3. own' \cup Part(t)' = own \cup Part(t)
        BY <2>2, <3>2, Zenon DEF Part
    <3> QED BY <2>2, <3>1, <3>2, <3>3, Invisible, Zenon
  <2> QED BY <1>6, <2>1, <2>2 DEF PushCas, Reserves
<1>7. ASSUME NEW t \in Threads, PopCas(t)
      PROVE  [Fifo!Next]_<<cap, Queue, Owned>>
  <2>1. CASE Claims(t)
      BY <2>1, ClaimDequeues DEF Fifo!Next
  <2>2. CASE /\ pc(t) = "pop_cas" /\ Goto(t, "pop_seq", head, NULL)
             /\ UNCHANGED <<cap, head, tail, sequence, value, single, own, pushes>>
    <3>1. head \in Words /\ NULL \in Values \cup {NULL} /\ "pop_seq" \in Labels /\ cap # 1
        BY <2>2, CallFacts DEF Labels
    <3>2. /\ pc(t)' = "pop_seq"
          /\ \A u \in Threads \ {t} : pc(u)' = pc(u) /\ call'[u] = call[u]
        BY <2>2, <3>1, Moves, Zenon DEF IInv
    <3>3. own' \cup Part(t)' = own \cup Part(t)
        BY <2>2, <3>2, Zenon DEF Part
    <3> QED BY <2>2, <3>1, <3>2, <3>3, Invisible, Zenon
  <2> QED BY <1>7, <2>1, <2>2 DEF PopCas, Claims
<1> QED BY <1>1, <1>2, <1>3, <1>4, <1>5, <1>6, <1>7 DEF Next

\* push() and pop() implement a bounded first-in first-out queue: they take
\* effect where tail and head are exchanged, and no allocation is lost,
\* duplicated or overtaken, for any capacities, threads and values, and
\* wherever the positions wrap.
THEOREM BufferIsFifo == Spec => ImplementsFifo
BY InductiveInvariant, InitFifo, NextFifo, PTL DEF Spec, ImplementsFifo, Fifo!Spec

-----------------------------------------------------------------------------
(* When a call fails.                                                      *)

\* pop() finds the tail at its position: the queue is empty.
LEMMA EmptyAtTail ==
    ASSUME IInv, NEW t \in Threads, pc(t) = "pop_tail", tail = call[t].pos
    PROVE  Queue = <<>>
<1>1. cap # 1 /\ Turn(t) = Pushed /\ Turn(t) <= Popped /\ Pushed \in Nat /\ Popped \in Nat
    BY CallFacts, Zenon DEF TurnOK, Looking
<1>2. Length = 0
    BY <1>1, QueueShape
<1> QED BY <1>1, <1>2, QueueIs, SeqEmpty

\* push() finds a sequence number behind its position: the previous lap still
\* uses the slot, so it is the position after the last free one.
LEMMA BehindIsFull ==
    ASSUME IInv, NEW t \in Threads, pc(t) = "push_seq",
           Diff(sequence[Slot(call[t].pos)], call[t].pos) < 0
    PROVE  Length = cap \/ \E u \in Threads : pc(u) \in {"pop_take", "pop_release"}
<1>1. /\ cap \in Capacities /\ cap \in Nat \ {0} /\ Pushed \in Nat /\ Popped \in Nat
      /\ Popped <= Pushed /\ Pushed <= Popped + cap
    BY Typed DEF IInv, Ring, Bounds
<1>2. PICK k \in Nat : k = Turn(t) /\ k <= Pushed /\ Mark(k) \in Nat /\ Mark(k) < k
  <2>1. Turn(t) \in Nat /\ Mark(Turn(t)) \in Nat /\ Turn(t) <= Pushed
      BY CallFacts, Zenon DEF TurnOK, Searching
  <2>2. Mark(Turn(t)) - Turn(t) < 0
      BY PushDiff DEF Searching
  <2> QED BY <2>1, <2>2
<1>3. ASSUME NEW j \in Window
      PROVE  j \in Int /\ Mark(j) >= j
    BY <1>1, <1>3, Typed DEF IInv, Ring, Phases, Window
<1>4. k = Pushed
  <2>1. k \notin Window
      BY <1>2, <1>3
  <2>2. k \in Int /\ SlotOf(k) \in Slots /\ Pushed - cap \in Int
      BY <1>1, <1>2, Typed DEF IInv
  <2>3. PICK j \in (Pushed - cap)..((Pushed - cap) + cap - 1) : SlotOf(j) = SlotOf(k)
      BY <1>1, <2>2, SlotInWindow, Zenon
  <2>4. j \in Window /\ Mark(j) = Mark(k)
      BY <1>1, <2>3 DEF Window, Mark
  <2>5. j <= Mark(k)
      BY <1>3, <2>4
  <2> QED BY <1>1, <1>2, <2>1, <2>3, <2>5 DEF Window
<1>5. PICK j \in Window : j = Pushed - cap /\ Mark(j) < j + cap
    BY <1>1, <1>2, <1>4, WindowSlots DEF IInv
<1>6. CASE Popped <= j
    BY <1>1, <1>5, <1>6, QueueShape
<1>7. CASE ~(Popped <= j)
  <2>1. j < Popped /\ Mark(j) # j + cap
      BY <1>1, <1>3, <1>5, <1>7
  <2>2. \E u \in Threads : pc(u) \in Popping
      BY <2>1 DEF IInv, Ring, Phases
  <2> QED BY <2>2 DEF Popping
<1> QED BY <1>6, <1>7

\* A call ends in its own step.
LEMMA Returns ==
    ASSUME IInv, NEW t \in Threads, Next, pc(t) \in {"pop_tail", "push_seq"}, pc(t)' = "idle"
    PROVE  \/ pc(t) = "pop_tail" /\ tail = call[t].pos
           \/ pc(t) = "push_seq" /\ Diff(sequence[Slot(call[t].pos)], call[t].pos) < 0
<1>1. DOMAIN call = Threads
    BY DEF IInv, TypeOK
<1>2. call' # call
    BY Zenon DEF pc
<1>3. ASSUME NEW u \in Threads, NEW label, NEW p, NEW v, Goto(u, label, p, v)
      PROVE  u = t /\ label = "idle"
    BY <1>1, <1>3 DEF Goto, At, pc
<1>4. ASSUME NEW u \in Threads,
             \/ \E v \in Values : Push(u, v)
             \/ PushSeq(u) \/ PushLoad(u) \/ PushCas(u) \/ PushWrite(u) \/ PushPublish(u)
      PROVE  pc(t) = "push_seq" /\ Diff(sequence[Slot(call[t].pos)], call[t].pos) < 0
  <2>1. ~ PushLoad(u) /\ ~ PushCas(u) /\ ~ PushWrite(u) /\ \A v \in Values : ~ Push(u, v)
      BY <1>3, Zenon DEF Push, PushLoad, PushCas, PushWrite
  <2>2. ~ PushPublish(u)
      BY <1>3 DEF PushPublish, Return
  <2>3. PushSeq(u)
      BY <1>4, <2>1, <2>2
  <2>4. u = t
      BY <1>3, <2>3, Zenon DEF PushSeq, Return
  <2>5. /\ ~ Goto(t, "push_cas", call[t].pos, call[t].v)
        /\ ~ Goto(t, "push_load", call[t].pos, call[t].v)
      BY <1>3
  <2> QED BY <2>3, <2>4, <2>5, Zenon DEF PushSeq
<1>5. ASSUME NEW u \in Threads,
             \/ Pop(u) \/ PopSeq(u) \/ PopTail(u) \/ PopLoad(u) \/ PopCas(u) \/ PopTake(u)
             \/ PopRelease(u)
      PROVE  pc(t) = "pop_tail" /\ tail = call[t].pos
  <2>1. ~ Pop(u) /\ ~ PopSeq(u) /\ ~ PopLoad(u) /\ ~ PopCas(u) /\ ~ PopTake(u)
      BY <1>3, Zenon DEF Pop, PopSeq, PopLoad, PopCas, PopTake
  <2>2. ~ PopRelease(u)
      BY <1>3 DEF PopRelease, Return
  <2>3. PopTail(u)
      BY <1>5, <2>1, <2>2
  <2> QED BY <1>3, <2>3 DEF PopTail, Return
<1> QED BY <1>2, <1>4, <1>5 DEF Next, PopSingle, PushSingle

\* pop() returns None only if the queue is empty when it loads the tail, and
\* push() returns Err only if the queue is full or a pop that already counts as
\* done has not handed its slot back.
THEOREM FailuresAreJustified == Spec => FailuresJustified
<1>1. ASSUME IInv, [Next]_vars
      PROVE  [\A t \in Threads :
                 /\ pc(t) = "pop_tail" /\ pc(t)' = "idle" => Queue = <<>>
                 /\ pc(t) = "push_seq" /\ pc(t)' = "idle" =>
                       Length = cap \/ \E u \in Threads : pc(u) \in {"pop_take", "pop_release"}]_vars
  <2> SUFFICES ASSUME Next, NEW t \in Threads
               PROVE  /\ pc(t) = "pop_tail" /\ pc(t)' = "idle" => Queue = <<>>
                      /\ pc(t) = "push_seq" /\ pc(t)' = "idle" =>
                            Length = cap \/ \E u \in Threads : pc(u) \in {"pop_take", "pop_release"}
      BY <1>1
  <2> QED BY <1>1, Returns, EmptyAtTail, BehindIsFull
<1> QED BY <1>1, InductiveInvariant, PTL DEF Spec, FailuresJustified
=============================================================================
