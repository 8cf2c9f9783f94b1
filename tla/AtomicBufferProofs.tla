------------------------- MODULE AtomicBufferProofs -------------------------
(***************************************************************************)
(* Proofs, for any threads, values, capacities and word size, of what      *)
(* AtomicBuffer promises: threads never meet in a slot, and allocations    *)
(* are neither lost nor duplicated.  AtomicBufferFifoProofs continues with *)
(* the queue that push() and pop() implement.                              *)
(***************************************************************************)
EXTENDS AtomicBuffer, TLAPS

\* Positions are compared through their tickets: how many positions the queue
\* has handed out before this one.  MAX_PUSH keeps tickets far from WORD, so
\* unlike positions they are ordered and do not wrap.
Ticket(pos) == (pos - START) % WORD
SlotOf(k) == (START + k) % cap

Pushed == Ticket(tail)
Popped == Ticket(head)
Turn(t) == Ticket(call[t].pos)
Mark(k) == Ticket(sequence[SlotOf(k)])

\* The last ticket of every slot.
Window == (Pushed - cap)..(Pushed - 1)

Searching == {"push_seq", "push_load", "push_cas"}
Pushing == {"push_write", "push_publish"}
Looking == {"pop_seq", "pop_tail", "pop_load", "pop_cas"}
Popping == {"pop_take", "pop_release"}
Inside == Pushing \cup Popping
Carrying == {"push_seq", "push_load", "push_cas", "push_write", "pop_release"}

\* head and tail: never more than cap positions apart.
Bounds == Pushed = pushes /\ Popped <= Pushed /\ Pushed <= Popped + cap

\* What a thread in a call knows about its ticket k and the slot of it.
TurnOK(t, k) ==
    /\ pc(t) \in Searching => k <= Pushed
    /\ pc(t) \in Looking => k <= Popped
    /\ pc(t) \in Pushing => Popped <= k /\ k < Pushed /\ Mark(k) = k
    /\ pc(t) \in Popping => Pushed - cap <= k /\ k < Popped /\ Mark(k) = k + 1
    /\ pc(t) = "push_cas" /\ k = Pushed => Mark(k) = k
    /\ pc(t) = "pop_cas" /\ k = Popped => Mark(k) = k + 1
    /\ pc(t) \in {"push_write", "pop_release"} => value[SlotOf(k)] = NULL
    /\ pc(t) \in {"push_publish", "pop_take"} => value[SlotOf(k)] # NULL

Turns == \A t \in Threads : \A k \in Words : Turn(t) = k => TurnOK(t, k)

\* No two threads use one position.
Apart == \A t, u \in Threads : pc(t) \in Inside /\ pc(u) \in Inside /\ Turn(t) = Turn(u) => t = u

\* The sequence number of a slot says how far its last ticket has come:
\* reserved, pushed, and handed to the next lap.
Phases ==
    \A k \in Window :
        /\ Popped <= k => Mark(k) = k + 1 \/ (Mark(k) = k /\ \E t \in Threads : pc(t) \in Pushing /\ Turn(t) = k)
        /\ k < Popped => Mark(k) = k + cap \/ (Mark(k) = k + 1 /\ \E t \in Threads : pc(t) \in Popping /\ Turn(t) = k)

\* A slot holds a pointer from push_write to pop_take.
Filled ==
    \A k \in Window :
        /\ Mark(k) = k + cap => value[SlotOf(k)] = NULL
        /\ Popped <= k /\ Mark(k) = k + 1 => value[SlotOf(k)] # NULL

\* An allocation is in one place: with callers, in a call, in a slot.
Once ==
    /\ \A t \in Threads : (call[t].v \in Values <=> pc(t) \in Carrying) /\ call[t].v \notin own
    /\ \A t, u \in Threads : call[t].v # NULL /\ call[t].v = call[u].v => t = u
    /\ \A i, j \in Slots : value[i] # NULL /\ value[i] = value[j] => i = j
    /\ \A t \in Threads, i \in Slots : call[t].v # NULL => call[t].v # value[i]
    /\ \A i \in Slots : value[i] \notin own
    /\ single \notin own

Covered ==
    \A v \in Values : \/ v \in own \/ v = single
                      \/ \E t \in Threads : call[t].v = v
                      \/ \E i \in Slots : value[i] = v

\* A buffer of capacity one uses only the single pointer, others never do.
Split ==
    IF cap = 1 THEN (\A t \in Threads : pc(t) = "idle") /\ (\A i \in Slots : value[i] = NULL)
    ELSE single = NULL

Ring == Bounds /\ Turns /\ Apart /\ Phases /\ Filled

\* The inductive invariant.
IInv == TypeOK /\ Ring /\ Once /\ Covered /\ Split
-----------------------------------------------------------------------------
(* Arithmetic.                                                             *)

LEMMA DivMod ==
    ASSUME NEW n \in Nat \ {0}, NEW x \in Int
    PROVE  x \div n \in Int /\ x % n \in 0..(n - 1) /\ x = n * (x \div n) + (x % n)
OBVIOUS

LEMMA SmallMultiple ==
    ASSUME NEW n \in Nat \ {0}, NEW k \in Int, -n < n * k, n * k < n
    PROVE  k = 0
OBVIOUS

LEMMA ModUnique ==
    ASSUME NEW n \in Nat \ {0}, NEW x \in Int, NEW q \in Int, NEW r \in 0..(n - 1), x = n * q + r
    PROVE  x % n = r
<1>1. x \div n \in Int /\ x = n * (x \div n) + (x % n) /\ x % n \in 0..(n - 1)
    BY DivMod, Zenon
<1>2. n * (x \div n - q) = r - (x % n)
    BY <1>1
<1>3. x \div n - q = 0
    BY <1>1, <1>2, SmallMultiple
<1> QED BY <1>1, <1>3

\* Adding multiples of the divisor changes nothing.
LEMMA ModShift ==
    ASSUME NEW n \in Nat \ {0}, NEW x \in Int, NEW m \in Int, NEW y \in Int, y = x + n * m
    PROVE  y % n = x % n
<1>1. y = n * (x \div n + m) + (x % n)
    BY DivMod
<1>2. x \div n + m \in Int /\ x % n \in 0..(n - 1)
    BY DivMod
<1> QED BY <1>1, <1>2, ModUnique, Zenon

\* Numbers less than n apart differ modulo n.
LEMMA ModApart ==
    ASSUME NEW n \in Nat \ {0}, NEW x \in Int, NEW y \in Int, x % n = y % n, x <= y, y < x + n
    PROVE  x = y
<1>1. x \div n \in Int /\ x = n * (x \div n) + (x % n)
    BY DivMod
<1>2. y \div n \in Int /\ y = n * (y \div n) + (y % n)
    BY DivMod
<1>3. y - x = n * (y \div n - x \div n)
    BY <1>1, <1>2
<1>4. y \div n - x \div n = 0
    BY <1>1, <1>2, <1>3, SmallMultiple
<1> QED BY <1>1, <1>2, <1>4

\* Numbers at most one divisor away from the remainders.
LEMMA ModNear ==
    ASSUME NEW n \in Nat \ {0}, NEW x \in Int, -n <= x, x < 2 * n
    PROVE  x % n = IF x < 0 THEN x + n ELSE IF x < n THEN x ELSE x - n
<1>1. CASE x < 0
    BY <1>1, ModUnique, x = n * (-1) + (x + n), x + n \in 0..(n - 1), -1 \in Int
<1>2. CASE 0 <= x /\ x < n
    BY <1>2, ModUnique, x = n * 0 + x, x \in 0..(n - 1)
<1>3. CASE n <= x
    BY <1>3, ModUnique, x = n * 1 + (x - n), x - n \in 0..(n - 1)
<1> QED BY <1>1, <1>2, <1>3

LEMMA CapFacts ==
    ASSUME cap \in Capacities
    PROVE  /\ cap \in Nat \ {0} /\ WORD \in Nat \ {0} /\ START \in Words /\ MAX_PUSH \in Nat
           /\ 2 * (MAX_PUSH + cap) < WORD /\ WORD % cap = 0
<1>1. cap \in Nat \ {0} /\ WORD \in Nat /\ START \in 0..(WORD - 1) /\ MAX_PUSH \in Nat
    BY BufferAssumption
<1>2. 2 * (MAX_PUSH + cap) < WORD /\ WORD % cap = 0
    BY BufferAssumption
<1> QED BY <1>1, <1>2 DEF Words

LEMMA TicketIs ==
    ASSUME cap \in Capacities, NEW p \in Words
    PROVE  Ticket(p) \in Words /\ Ticket(p) = IF p < START THEN p - START + WORD ELSE p - START
<1>1. p \in Int /\ START \in Int /\ 0 <= p /\ p < WORD /\ 0 <= START /\ START < WORD /\ WORD \in Nat \ {0}
    BY CapFacts DEF Words
<1>2. (p - START) % WORD = IF p - START < 0 THEN p - START + WORD
                           ELSE IF p - START < WORD THEN p - START ELSE p - START - WORD
  <2>1. PICK x \in Int : x = p - START
      BY <1>1
  <2>2. -WORD <= x /\ x < 2 * WORD
      BY <1>1, <2>1
  <2>3. x % WORD = IF x < 0 THEN x + WORD ELSE IF x < WORD THEN x ELSE x - WORD
      BY <1>1, <2>2, ModNear, Zenon
  <2> QED BY <2>1, <2>3
<1> QED BY <1>1, <1>2 DEF Ticket, Words

LEMMA TicketInjective ==
    ASSUME cap \in Capacities, NEW p \in Words, NEW q \in Words, Ticket(p) = Ticket(q)
    PROVE  p = q
BY TicketIs, CapFacts DEF Words

LEMMA PlusIs ==
    ASSUME cap \in Capacities, NEW p \in Words, NEW d \in Nat, d <= WORD
    PROVE  Plus(p, d) = IF p + d < WORD THEN p + d ELSE p + d - WORD
<1>1. p \in Int /\ p + d \in Int /\ 0 <= p + d /\ p + d < 2 * WORD /\ WORD \in Nat \ {0}
    BY CapFacts DEF Words
<1>2. PICK x \in Int : x = p + d
    BY <1>1
<1>3. WORD \in Nat \ {0} /\ 0 <= x /\ -WORD <= x /\ x < 2 * WORD
    BY <1>1, <1>2
<1>4. x % WORD = IF x < 0 THEN x + WORD ELSE IF x < WORD THEN x ELSE x - WORD
    BY <1>3, ModNear, Zenon
<1>5. Plus(p, d) = x % WORD
    BY <1>2 DEF Plus
<1> QED BY <1>1, <1>2, <1>3, <1>4, <1>5

LEMMA TicketPlus ==
    ASSUME cap \in Capacities, NEW p \in Words, NEW n \in Nat, Ticket(p) + n < WORD
    PROVE  Plus(p, n) \in Words /\ Ticket(Plus(p, n)) = Ticket(p) + n
<1>1. n <= WORD /\ Ticket(p) \in Nat
    BY TicketIs, CapFacts DEF Words
<1>2. Plus(p, n) = IF p + n < WORD THEN p + n ELSE p + n - WORD
    BY <1>1, PlusIs
<1>3. Plus(p, n) \in Words
    BY <1>1, <1>2, CapFacts DEF Words
<1> QED BY <1>1, <1>2, <1>3, TicketIs, CapFacts DEF Words

\* Comparing two positions, or a sequence number and a position, compares
\* their tickets.
LEMMA DiffIs ==
    ASSUME cap \in Capacities, NEW p \in Words, NEW q \in Words,
           Ticket(p) <= MAX_PUSH + cap, Ticket(q) <= MAX_PUSH + cap
    PROVE  Diff(p, q) = Ticket(p) - Ticket(q)
<1> DEFINE half == WORD \div 2
           d == Ticket(p) - Ticket(q)
<1>1. half \in Nat /\ 2 * half <= WORD /\ WORD <= 2 * half + 1
    BY CapFacts
<1>2. d \in Int /\ 0 <= d + half /\ d + half < WORD
    BY <1>1, CapFacts, TicketIs DEF Words
<1>3. \E m \in {-1, 0, 1} : p - q + half = d + half + WORD * m
  <2>1. /\ Ticket(p) = IF p < START THEN p - START + WORD ELSE p - START
        /\ Ticket(q) = IF q < START THEN q - START + WORD ELSE q - START
        /\ p \in Int /\ q \in Int /\ START \in Int /\ WORD \in Int
      BY CapFacts, TicketIs DEF Words
  <2>2. p - q = d \/ p - q = d + WORD \/ p - q = d - WORD
      BY <2>1
  <2> QED BY <2>1, <2>2, <1>1, <1>2
<1>4. (p - q + half) % WORD = (d + half) % WORD
    BY <1>1, <1>2, <1>3, ModShift, CapFacts, p - q + half \in Int, d + half \in Int DEF Words
<1>5. (d + half) % WORD = d + half
    BY <1>1, <1>2, ModNear, CapFacts, d + half \in Int, -WORD <= d + half, d + half < 2 * WORD
<1> QED BY <1>1, <1>2, <1>4, <1>5 DEF Diff

LEMMA SlotTicket ==
    ASSUME cap \in Capacities, NEW p \in Words
    PROVE  Slot(p) = SlotOf(Ticket(p)) /\ Slot(p) \in Slots
<1>1. cap \in Nat \ {0} /\ p \in Int /\ START \in Int /\ WORD \in Int /\ Ticket(p) \in Int
    BY CapFacts, TicketIs DEF Words
<1>2. WORD \div cap \in Int /\ WORD = cap * (WORD \div cap)
    BY <1>1, CapFacts, DivMod
<1>3. START + Ticket(p) = p \/ START + Ticket(p) = p + WORD
    BY TicketIs, CapFacts DEF Words
<1>4. (START + Ticket(p)) % cap = p % cap
  <2>1. CASE START + Ticket(p) = p
      BY <2>1
  <2>2. CASE START + Ticket(p) = p + WORD
    <3>1. START + Ticket(p) = p + cap * (WORD \div cap)
        BY <1>2, <2>2
    <3>2. PICK y \in Int, m \in Int : y = START + Ticket(p) /\ m = WORD \div cap
        BY <1>1, <1>2
    <3>3. y = p + cap * m
        BY <3>1, <3>2
    <3>4. y % cap = p % cap
        BY <1>1, <3>3, ModShift, Zenon
    <3> QED BY <3>2, <3>4
  <2> QED BY <1>3, <2>1, <2>2
<1>5. p % cap \in 0..(cap - 1)
    BY <1>1, DivMod
<1> QED BY <1>4, <1>5 DEF Slot, SlotOf, Slots

LEMMA SlotFacts ==
    ASSUME cap \in Capacities, NEW j \in Int
    PROVE  /\ SlotOf(j) \in Slots /\ SlotOf(j + cap) = SlotOf(j)
           /\ \A k \in Int : SlotOf(k) = SlotOf(j) /\ j <= k /\ k < j + cap => k = j
<1>1. cap \in Nat \ {0} /\ START \in Int /\ START + j \in Int /\ START + (j + cap) \in Int
    BY CapFacts DEF Words
<1>2. SlotOf(j) \in Slots
    BY <1>1, DivMod DEF SlotOf, Slots
<1>3. SlotOf(j + cap) = SlotOf(j)
  <2>1. START + (j + cap) = START + j + cap * 1 /\ 1 \in Int
      BY <1>1
  <2> QED BY <1>1, <2>1, ModShift, Zenon DEF SlotOf
<1>4. ASSUME NEW k \in Int, SlotOf(k) = SlotOf(j), j <= k, k < j + cap
      PROVE  k = j
  <2>1. START + k \in Int /\ START + j <= START + k /\ START + k < START + j + cap
      BY <1>1, <1>4
  <2>2. START + j = START + k
      BY <1>1, <1>4, <2>1, ModApart, Zenon DEF SlotOf
  <2> QED BY <1>1, <2>2
<1> QED BY <1>2, <1>3, <1>4

\* Every slot has one ticket among any cap consecutive ones.
LEMMA SlotInWindow ==
    ASSUME cap \in Capacities, NEW i \in Slots, NEW b \in Int
    PROVE  \E k \in b..(b + cap - 1) : SlotOf(k) = i
<1>1. cap \in Nat \ {0} /\ START \in Int /\ i \in 0..(cap - 1)
    BY CapFacts DEF Words, Slots
<1> DEFINE x == i - START - b
           k == b + (x % cap)
<1>2. x \in Int /\ x \div cap \in Int /\ x % cap \in 0..(cap - 1) /\ x = cap * (x \div cap) + (x % cap)
  <2>1. x \in Int
      BY <1>1
  <2> QED BY <1>1, <2>1, DivMod, Zenon
<1>3. START + k = i + cap * (-(x \div cap)) /\ -(x \div cap) \in Int /\ START + k \in Int /\ i \in Int
    BY <1>1, <1>2
<1>4. (START + k) % cap = i % cap
    BY <1>1, <1>3, ModShift, Zenon
<1>5. i % cap = i
    BY <1>1, ModNear, i \in Int, -cap <= i, i < 2 * cap
<1>6. k \in b..(b + cap - 1)
    BY <1>1, <1>2
<1> QED BY <1>4, <1>5, <1>6 DEF SlotOf

-----------------------------------------------------------------------------
(* The state through tickets.                                              *)

LEMMA Typed ==
    ASSUME TypeOK
    PROVE  /\ cap \in Capacities /\ cap \in Nat \ {0} /\ pushes \in 0..MAX_PUSH
           /\ Pushed \in Nat /\ Popped \in Nat
           /\ \A t \in Threads : pc(t) \in Labels /\ call[t].pos \in Words /\ Turn(t) \in Nat
           /\ \A k \in Int : SlotOf(k) \in Slots /\ Mark(k) \in Nat
<1>1. cap \in Capacities /\ cap \in Nat \ {0} /\ pushes \in 0..MAX_PUSH
    BY CapFacts DEF TypeOK
<1>2. \A p \in Words : Ticket(p) \in Nat
    BY <1>1, TicketIs, CapFacts DEF Words
<1>3. Pushed \in Nat /\ Popped \in Nat
    BY <1>2 DEF TypeOK, Pushed, Popped
<1>4. ASSUME NEW t \in Threads
      PROVE  pc(t) \in Labels /\ call[t].pos \in Words /\ Turn(t) \in Nat
    BY <1>2 DEF TypeOK, pc, Turn
<1>5. ASSUME NEW k \in Int
      PROVE  SlotOf(k) \in Slots /\ Mark(k) \in Nat
  <2>1. SlotOf(k) \in Slots
      BY <1>1, SlotFacts
  <2>2. sequence[SlotOf(k)] \in Words
      BY <2>1 DEF TypeOK
  <2> QED BY <1>2, <2>1, <2>2 DEF Mark
<1> QED BY <1>1, <1>3, <1>4, <1>5

\* A thread moves on: nothing changes for the others.
LEMMA Moves ==
    ASSUME TypeOK, NEW t \in Threads, NEW label \in Labels, NEW p \in Words,
           NEW v \in Values \cup {NULL}, Goto(t, label, p, v)
    PROVE  /\ call' \in [Threads -> [pc : Labels, pos : Words, v : Values \cup {NULL}]]
           /\ pc(t)' = label /\ Turn(t)' = Ticket(p) /\ call'[t].v = v
           /\ \A u \in Threads \ {t} : /\ pc(u)' = pc(u) /\ Turn(u)' = Turn(u)
                                       /\ call'[u] = call[u]
<1>1. call \in [Threads -> [pc : Labels, pos : Words, v : Values \cup {NULL}]]
    BY DEF TypeOK
<1>2. At(label, p, v) \in [pc : Labels, pos : Words, v : Values \cup {NULL}]
    BY DEF At
<1>3. call' \in [Threads -> [pc : Labels, pos : Words, v : Values \cup {NULL}]]
    BY <1>1, <1>2 DEF Goto
<1>4. call'[t] = At(label, p, v) /\ \A u \in Threads \ {t} : call'[u] = call[u]
    BY <1>1 DEF Goto
<1>5. pc(t)' = label /\ call'[t].pos = p /\ call'[t].v = v
    BY <1>4 DEF pc, At
<1>6. Turn(t)' = Ticket(p)
    BY <1>5 DEF Turn, Ticket
<1>7. \A u \in Threads \ {t} : pc(u)' = pc(u) /\ Turn(u)' = Turn(u)
    BY <1>4 DEF pc, Turn, Ticket
<1> QED BY <1>3, <1>4, <1>5, <1>6, <1>7

\* Where head, tail and the slots stay as they are.
LEMMA RingStays ==
    ASSUME cap' = cap
    PROVE  /\ \A k : SlotOf(k)' = SlotOf(k)
           /\ head' = head => Popped' = Popped
           /\ tail' = tail => Pushed' = Pushed
           /\ sequence' = sequence => \A k : Mark(k)' = Mark(k)
BY DEF SlotOf, Popped, Pushed, Ticket, Mark

\* Two tickets of the window have two slots, and the next ticket has the slot
\* of the first.
LEMMA WindowSlots ==
    ASSUME TypeOK
    PROVE  /\ \A j, k \in Window : SlotOf(j) = SlotOf(k) => j = k
           /\ Pushed - cap \in Window /\ SlotOf(Pushed) = SlotOf(Pushed - cap)
           /\ Mark(Pushed) = Mark(Pushed - cap)
<1>1. cap \in Capacities /\ cap \in Nat \ {0} /\ Pushed \in Nat
    BY Typed
<1>2. ASSUME NEW j \in Window, NEW k \in Window, SlotOf(j) = SlotOf(k)
      PROVE  j = k
  <2>1. j \in Int /\ k \in Int /\ j < k + cap /\ k < j + cap
      BY <1>1 DEF Window
  <2>2. CASE j <= k
      BY <1>1, <1>2, <2>1, <2>2, SlotFacts
  <2>3. CASE k <= j
      BY <1>1, <1>2, <2>1, <2>3, SlotFacts
  <2> QED BY <2>1, <2>2, <2>3
<1>3. Pushed - cap \in Window /\ Pushed - cap \in Int
    BY <1>1 DEF Window
<1>4. SlotOf((Pushed - cap) + cap) = SlotOf(Pushed - cap)
    BY <1>1, <1>3, SlotFacts
<1>5. SlotOf(Pushed) = SlotOf(Pushed - cap)
    BY <1>1, <1>4, (Pushed - cap) + cap = Pushed
<1> QED BY <1>2, <1>3, <1>5 DEF Mark

\* A write to the slot of a ticket of the window is seen at that ticket alone.
LEMMA SlotWritten ==
    ASSUME TypeOK, NEW t \in Threads, NEW j \in Window, Turn(t) = j, cap' = cap
    PROVE  /\ Slot(call[t].pos) = SlotOf(j) /\ SlotOf(j) \in Slots
           /\ \A w : sequence' = [sequence EXCEPT ![Slot(call[t].pos)] = w] =>
                 /\ Mark(j)' = Ticket(w)
                 /\ \A k \in Window : k # j => Mark(k)' = Mark(k)
                 /\ \A k \in Int : k = Pushed /\ j # Pushed - cap => Mark(k)' = Mark(k)
           /\ \A v : value' = [value EXCEPT ![Slot(call[t].pos)] = v] =>
                 /\ value'[SlotOf(j)] = v
                 /\ \A k \in Window : k # j => value'[SlotOf(k)] = value[SlotOf(k)]
<1>1. cap \in Capacities /\ call[t].pos \in Words /\ Window \subseteq Int
    BY Typed DEF Window
<1>2. Slot(call[t].pos) = SlotOf(j) /\ SlotOf(j) \in Slots
    BY <1>1, SlotTicket DEF Turn
<1>3. /\ \A k \in Window : SlotOf(k) \in Slots /\ (k # j => SlotOf(k) # SlotOf(j))
      /\ SlotOf(Pushed) \in Slots /\ (j # Pushed - cap => SlotOf(Pushed) # SlotOf(j))
    BY <1>1, WindowSlots, Typed
<1>4. \A k : SlotOf(k)' = SlotOf(k)
    BY RingStays
<1>5. sequence \in [Slots -> Words] /\ value \in [Slots -> Values \cup {NULL}]
    BY DEF TypeOK
<1>6. ASSUME NEW w, sequence' = [sequence EXCEPT ![Slot(call[t].pos)] = w]
      PROVE  /\ Mark(j)' = Ticket(w)
             /\ \A k \in Window : k # j => Mark(k)' = Mark(k)
             /\ \A k \in Int : k = Pushed /\ j # Pushed - cap => Mark(k)' = Mark(k)
  <2>1. sequence'[SlotOf(j)] = w /\ \A i \in Slots : i # SlotOf(j) => sequence'[i] = sequence[i]
      BY <1>2, <1>5, <1>6
  <2>2. \A k : Mark(k)' = Ticket(sequence'[SlotOf(k)])
      BY <1>4 DEF Mark, Ticket
  <2>3. Mark(j)' = Ticket(w)
      BY <2>1, <2>2
  <2>4. \A k \in Window : k # j => Mark(k)' = Mark(k)
      BY <1>3, <2>1, <2>2 DEF Mark
  <2>5. \A k \in Int : k = Pushed /\ j # Pushed - cap => Mark(k)' = Mark(k)
      BY <1>3, <2>1, <2>2 DEF Mark
  <2> QED BY <2>3, <2>4, <2>5
<1>7. ASSUME NEW v, value' = [value EXCEPT ![Slot(call[t].pos)] = v]
      PROVE  /\ value'[SlotOf(j)] = v
             /\ \A k \in Window : k # j => value'[SlotOf(k)] = value[SlotOf(k)]
    BY <1>2, <1>3, <1>5, <1>7
<1> QED BY <1>2, <1>6, <1>7

\* What the ring's invariant says of a thread in a call.
LEMMA TurnFacts ==
    ASSUME TypeOK, Ring, NEW t \in Threads
    PROVE  TurnOK(t, Turn(t)) /\ (pc(t) \in Inside => Turn(t) \in Window)
<1>1. Turn(t) \in Words
    BY Typed, TicketIs DEF Turn
<1>2. TurnOK(t, Turn(t))
    BY <1>1 DEF Ring, Turns
<1>3. pc(t) \in Inside => Turn(t) \in Window
    BY <1>2, Typed DEF TurnOK, Inside, Pushing, Popping, Window, Ring, Bounds
<1> QED BY <1>2, <1>3

\* A popper that is about to exchange the head finds a position that was pushed.
LEMMA PopCasFacts ==
    ASSUME TypeOK, Ring, NEW k \in Nat, k = Popped, Mark(k) = k + 1, cap # 1
    PROVE  Popped < Pushed /\ k \in Window
<1>1. cap \in Nat \ {0, 1} /\ Pushed \in Nat /\ Popped \in Nat /\ Popped <= Pushed /\ Pushed <= Popped + cap
    BY Typed DEF Ring, Bounds
<1>2. Popped # Pushed
  <2> SUFFICES ASSUME Popped = Pushed PROVE FALSE
      OBVIOUS
  <2>1. Pushed - cap \in Window /\ Mark(Pushed - cap) = Pushed + 1
      BY WindowSlots
  <2>2. Pushed - cap < Popped
      BY <1>1
  <2>3. Mark(Pushed - cap) = (Pushed - cap) + cap \/ Mark(Pushed - cap) = (Pushed - cap) + 1
      BY <2>1, <2>2 DEF Ring, Phases
  <2> QED BY <1>1, <2>1, <2>3
<1> QED BY <1>1, <1>2 DEF Window

\* A step of a thread that is and stays outside the slots.
LEMMA RingOutside ==
    ASSUME TypeOK, Ring, NEW t \in Threads, UNCHANGED <<cap, head, tail, sequence, value, pushes>>,
           pc(t) \notin Inside, pc(t)' \notin Inside,
           \A u \in Threads \ {t} : pc(u)' = pc(u) /\ Turn(u)' = Turn(u),
           \A k \in Words : Turn(t)' = k => TurnOK(t, k)'
    PROVE  Ring'
<1>1. /\ Pushed' = Pushed /\ Popped' = Popped /\ cap' = cap /\ value' = value /\ Window' = Window
      /\ \A k : Mark(k)' = Mark(k) /\ SlotOf(k)' = SlotOf(k)
    BY RingStays DEF Window
<1>2. Bounds'
    BY <1>1 DEF Ring, Bounds
<1>3. Turns'
  <2> SUFFICES ASSUME NEW u \in Threads, NEW k \in Words, Turn(u)' = k, u # t
               PROVE  TurnOK(u, k)'
      BY DEF Turns, Words
  <2>1. TurnOK(u, k)
      BY DEF Ring, Turns
  <2> QED BY <1>1, <2>1 DEF TurnOK
<1>4. Apart'
    BY DEF Ring, Apart
<1>5. Phases'
  <2> SUFFICES ASSUME NEW k \in Window
               PROVE  /\ Popped <= k => Mark(k) = k + 1 \/ (Mark(k) = k /\ \E u \in Threads : pc(u)' \in Pushing /\ Turn(u)' = k)
                      /\ k < Popped => Mark(k) = k + cap \/ (Mark(k) = k + 1 /\ \E u \in Threads : pc(u)' \in Popping /\ Turn(u)' = k)
      BY <1>1 DEF Phases, Pushing, Popping
  <2>1. \A u \in Threads : pc(u) \in Pushing \cup Popping => u # t
      BY DEF Inside
  <2> QED BY <2>1 DEF Ring, Phases
<1>6. Filled'
    BY <1>1 DEF Ring, Filled
<1> QED BY <1>2, <1>3, <1>4, <1>5, <1>6 DEF Ring

\* The step that reserves a position, PushCas where the tail is found.
Reserves(t) ==
    /\ pc(t) = "push_cas" /\ tail = call[t].pos /\ pushes < MAX_PUSH
    /\ tail' = Plus(tail, 1)
    /\ pushes' = pushes + 1
    /\ Goto(t, "push_write", call[t].pos, call[t].v)
    /\ UNCHANGED <<cap, head, sequence, value, single, own>>

\* The next ticket's slot was handed back, and nobody is in it.
LEMMA ReserveFacts ==
    ASSUME IInv, NEW t \in Threads, Reserves(t)
    PROVE  /\ cap \in Nat \ {0, 1} /\ Turn(t) = Pushed /\ Pushed < Popped + cap
           /\ Mark(Pushed) = Pushed /\ value[SlotOf(Pushed)] = NULL
           /\ \A u \in Threads : pc(u) \in Inside => Turn(u) # Pushed - cap
           /\ Pushed' = Pushed + 1
<1>1. cap \in Nat \ {0, 1} /\ cap \in Capacities
    BY Typed DEF IInv, Split, Reserves
<1>2. Turn(t) = Pushed /\ Pushed \in Nat /\ Popped \in Nat /\ pushes = Pushed
    BY Typed DEF IInv, Reserves, Turn, Pushed, Ring, Bounds
<1>3. Mark(Pushed) = Pushed
    BY <1>2, TurnFacts DEF IInv, Reserves, TurnOK
<1>4. Pushed - cap \in Window /\ Mark(Pushed - cap) = Pushed /\ SlotOf(Pushed) = SlotOf(Pushed - cap)
    BY <1>3, WindowSlots DEF IInv
<1>5. Pushed - cap < Popped
  <2> SUFFICES ASSUME Popped <= Pushed - cap PROVE FALSE
      BY <1>1, <1>2
  <2>1. Mark(Pushed - cap) = (Pushed - cap) + 1 \/ Mark(Pushed - cap) = Pushed - cap
      BY <1>4 DEF IInv, Ring, Phases
  <2> QED BY <1>1, <1>2, <1>4, <2>1
<1>6. value[SlotOf(Pushed)] = NULL
  <2>1. Mark(Pushed - cap) = (Pushed - cap) + cap
      BY <1>1, <1>2, <1>4
  <2> QED BY <1>4, <2>1 DEF IInv, Ring, Filled
<1>7. ASSUME NEW u \in Threads, pc(u) \in Inside, Turn(u) = Pushed - cap
      PROVE  FALSE
  <2>1. Mark(Pushed - cap) = Pushed - cap \/ Mark(Pushed - cap) = (Pushed - cap) + 1
      BY <1>7, TurnFacts DEF IInv, TurnOK, Inside
  <2> QED BY <1>1, <1>2, <1>4, <2>1
<1>8. Pushed' = Pushed + 1
  <2>1. tail \in Words /\ Ticket(tail) = Pushed /\ Pushed + 1 < WORD /\ MAX_PUSH \in Nat
      BY <1>1, <1>2, CapFacts, Typed DEF IInv, TypeOK, Pushed, Reserves
  <2>2. Ticket(Plus(tail, 1)) = Pushed + 1
      BY <1>1, <2>1, TicketPlus
  <2> QED BY <2>2 DEF Reserves, Pushed, Ticket
<1> QED BY <1>1, <1>2, <1>3, <1>5, <1>6, <1>7, <1>8

LEMMA RingReserves ==
    ASSUME IInv, NEW t \in Threads, Reserves(t)
    PROVE  Ring'
<1>1. /\ cap \in Nat \ {0, 1} /\ Pushed \in Nat /\ Popped \in Nat
      /\ Popped <= Pushed /\ Pushed <= Popped + cap /\ Pushed = pushes
    BY Typed, ReserveFacts DEF IInv, Ring, Bounds
<1>2. /\ Popped' = Popped /\ cap' = cap /\ value' = value /\ Pushed' = Pushed + 1
      /\ \A k : Mark(k)' = Mark(k) /\ SlotOf(k)' = SlotOf(k)
    BY RingStays, ReserveFacts DEF Reserves
<1>3. /\ pc(t)' = "push_write" /\ Turn(t)' = Pushed
      /\ \A u \in Threads \ {t} : pc(u)' = pc(u) /\ Turn(u)' = Turn(u)
  <2>1. call[t].pos \in Words /\ call[t].v \in Values \cup {NULL} /\ Turn(t) = Pushed
      BY Typed, ReserveFacts DEF IInv, TypeOK
  <2> QED BY <2>1, Moves DEF IInv, Reserves, Labels, Turn
<1>4. Window' = (Pushed + 1 - cap)..Pushed /\ \A k \in Window' : k \in Window \/ k = Pushed
    BY <1>1, <1>2 DEF Window
<1>5. Bounds'
    BY <1>1, <1>2, ReserveFacts DEF Bounds, Reserves
<1>6. Turns'
  <2> SUFFICES ASSUME NEW u \in Threads, NEW k \in Words, Turn(u)' = k
               PROVE  TurnOK(u, k)'
      BY DEF Turns, Words
  <2>1. CASE u = t
      BY <1>1, <1>2, <1>3, <2>1, ReserveFacts DEF TurnOK, Searching, Looking, Pushing, Popping
  <2>2. CASE u # t
    <3>1. pc(u)' = pc(u) /\ Turn(u) = k /\ TurnOK(u, k) /\ k \in Nat
        BY <1>3, <2>2, Typed DEF IInv, Ring, Turns
    <3>2. pc(u) \in Inside => k # Pushed - cap
        BY <3>1, ReserveFacts
    <3>3. pc(u) \in Searching => k <= Pushed
        BY <3>1 DEF TurnOK
    <3>4. pc(u) = "push_cas" => k # Pushed + 1
        BY <1>1, <3>1, <3>3 DEF Searching
    <3>5. pc(u) \in Popping => Pushed + 1 - cap <= k
        BY <1>1, <3>1, <3>2 DEF TurnOK, Inside
    <3> QED BY <1>1, <1>2, <3>1, <3>3, <3>4, <3>5 DEF TurnOK
  <2> QED BY <2>1, <2>2
<1>7. Apart'
  <2>1. \A u \in Threads : pc(u) \in Inside => Turn(u) # Pushed
      BY <1>1, TurnFacts DEF Window, IInv
  <2> QED BY <1>3, <2>1 DEF IInv, Ring, Apart
<1>8. Phases'
  <2> SUFFICES ASSUME NEW k \in Window'
               PROVE  /\ Popped <= k => Mark(k) = k + 1 \/ (Mark(k) = k /\ \E u \in Threads : pc(u)' \in Pushing /\ Turn(u)' = k)
                      /\ k < Popped => Mark(k) = k + cap \/ (Mark(k) = k + 1 /\ \E u \in Threads : pc(u)' \in Popping /\ Turn(u)' = k)
      BY <1>2 DEF Phases, Pushing, Popping
  <2>1. CASE k = Pushed
      BY <1>1, <1>3, <2>1, ReserveFacts DEF Pushing
  <2>2. CASE k \in Window
    <3>1. \A u \in Threads : pc(u) \in Pushing \cup Popping => u # t
        BY DEF Reserves, Pushing, Popping
    <3> QED BY <1>3, <2>2, <3>1 DEF IInv, Ring, Phases
  <2> QED BY <1>4, <2>1, <2>2
<1>9. Filled'
  <2> SUFFICES ASSUME NEW k \in Window'
               PROVE  /\ Mark(k) = k + cap => value[SlotOf(k)] = NULL
                      /\ Popped <= k /\ Mark(k) = k + 1 => value[SlotOf(k)] # NULL
      BY <1>2 DEF Filled
  <2>1. CASE k = Pushed
      BY <1>1, <2>1, ReserveFacts
  <2>2. CASE k \in Window
      BY <2>2 DEF IInv, Ring, Filled
  <2> QED BY <1>4, <2>1, <2>2
<1> QED BY <1>5, <1>6, <1>7, <1>8, <1>9 DEF Ring

\* The step that takes the oldest position, PopCas where the head is found.
Claims(t) ==
    /\ pc(t) = "pop_cas" /\ head = call[t].pos
    /\ head' = Plus(head, 1)
    /\ Goto(t, "pop_take", call[t].pos, NULL)
    /\ UNCHANGED <<cap, tail, sequence, value, single, own, pushes>>

\* The oldest position is pushed, and nobody is in its slot.
LEMMA ClaimFacts ==
    ASSUME IInv, NEW t \in Threads, Claims(t)
    PROVE  /\ cap \in Nat \ {0, 1} /\ Turn(t) = Popped /\ Popped < Pushed /\ Popped \in Window
           /\ Mark(Popped) = Popped + 1 /\ value[SlotOf(Popped)] # NULL
           /\ \A u \in Threads : pc(u) \in Inside => Turn(u) # Popped
           /\ Popped' = Popped + 1
<1>1. cap \in Nat \ {0, 1} /\ cap \in Capacities
    BY Typed DEF IInv, Split, Claims
<1>2. Turn(t) = Popped /\ Pushed \in Nat /\ Popped \in Nat /\ pushes = Pushed /\ pushes <= MAX_PUSH
    BY Typed DEF IInv, Claims, Turn, Popped, Ring, Bounds
<1>3. Mark(Popped) = Popped + 1
    BY <1>2, TurnFacts DEF IInv, Claims, TurnOK
<1>4. Popped < Pushed /\ Popped \in Window
    BY <1>1, <1>2, <1>3, PopCasFacts DEF IInv
<1>5. value[SlotOf(Popped)] # NULL
    BY <1>2, <1>3, <1>4 DEF IInv, Ring, Filled
<1>6. ASSUME NEW u \in Threads, pc(u) \in Inside, Turn(u) = Popped
      PROVE  FALSE
    BY <1>2, <1>3, <1>6, TurnFacts DEF IInv, TurnOK, Inside
<1>7. Popped' = Popped + 1
  <2>1. head \in Words /\ Ticket(head) = Popped /\ Popped + 1 < WORD /\ MAX_PUSH \in Nat
      BY <1>1, <1>2, <1>4, CapFacts, Typed DEF IInv, TypeOK, Popped
  <2>2. Ticket(Plus(head, 1)) = Popped + 1
      BY <1>1, <2>1, TicketPlus
  <2> QED BY <2>2 DEF Claims, Popped, Ticket
<1> QED BY <1>1, <1>2, <1>3, <1>4, <1>5, <1>6, <1>7

LEMMA RingClaims ==
    ASSUME IInv, NEW t \in Threads, Claims(t)
    PROVE  Ring'
<1>1. /\ cap \in Nat \ {0, 1} /\ Pushed \in Nat /\ Popped \in Nat
      /\ Popped < Pushed /\ Pushed <= Popped + cap /\ Pushed = pushes
    BY Typed, ClaimFacts DEF IInv, Ring, Bounds
<1>2. /\ Pushed' = Pushed /\ cap' = cap /\ value' = value /\ Popped' = Popped + 1
      /\ \A k : Mark(k)' = Mark(k) /\ SlotOf(k)' = SlotOf(k)
    BY RingStays, ClaimFacts DEF Claims
<1>3. /\ pc(t)' = "pop_take" /\ Turn(t)' = Popped
      /\ \A u \in Threads \ {t} : pc(u)' = pc(u) /\ Turn(u)' = Turn(u)
  <2>1. call[t].pos \in Words /\ Turn(t) = Popped
      BY Typed, ClaimFacts DEF IInv
  <2> QED BY <2>1, Moves DEF IInv, Claims, Labels, Turn
<1>4. Window' = Window
    BY <1>2 DEF Window
<1>5. Bounds'
    BY <1>1, <1>2 DEF Bounds, Claims
<1>6. Turns'
  <2> SUFFICES ASSUME NEW u \in Threads, NEW k \in Words, Turn(u)' = k
               PROVE  TurnOK(u, k)'
      BY DEF Turns, Words
  <2>1. CASE u = t
      BY <1>1, <1>2, <1>3, <2>1, ClaimFacts DEF TurnOK, Searching, Looking, Pushing, Popping
  <2>2. CASE u # t
    <3>1. pc(u)' = pc(u) /\ Turn(u) = k /\ TurnOK(u, k) /\ k \in Nat
        BY <1>3, <2>2, Typed DEF IInv, Ring, Turns
    <3>2. pc(u) \in Pushing => Popped + 1 <= k
        BY <1>1, <3>1, ClaimFacts DEF TurnOK, Inside
    <3>3. pc(u) \in Looking => k <= Popped
        BY <3>1 DEF TurnOK
    <3>4. pc(u) = "pop_cas" => k # Popped + 1
        BY <1>1, <3>1, <3>3 DEF Looking
    <3> QED BY <1>1, <1>2, <3>1, <3>2, <3>3, <3>4 DEF TurnOK
  <2> QED BY <2>1, <2>2
<1>7. Apart'
    BY <1>3, ClaimFacts DEF IInv, Ring, Apart
<1>8. Phases'
  <2> SUFFICES ASSUME NEW k \in Window
               PROVE  /\ Popped + 1 <= k => Mark(k) = k + 1 \/ (Mark(k) = k /\ \E u \in Threads : pc(u)' \in Pushing /\ Turn(u)' = k)
                      /\ k < Popped + 1 => Mark(k) = k + cap \/ (Mark(k) = k + 1 /\ \E u \in Threads : pc(u)' \in Popping /\ Turn(u)' = k)
      BY <1>2, <1>4 DEF Phases, Pushing, Popping
  <2>0. k \in Int
      BY <1>1 DEF Window
  <2>1. CASE k = Popped
      BY <1>1, <1>3, <2>1, ClaimFacts DEF Popping
  <2>2. CASE k # Popped
    <3>1. \A u \in Threads : pc(u) \in Pushing \cup Popping => u # t
        BY DEF Claims, Pushing, Popping
    <3>2. (Popped + 1 <= k => Popped <= k) /\ (k < Popped + 1 => k < Popped)
        BY <1>1, <2>0, <2>2
    <3> QED BY <1>3, <3>1, <3>2 DEF IInv, Ring, Phases
  <2> QED BY <2>1, <2>2
<1>9. Filled'
  <2> SUFFICES ASSUME NEW k \in Window
               PROVE  /\ Mark(k) = k + cap => value[SlotOf(k)] = NULL
                      /\ Popped + 1 <= k /\ Mark(k) = k + 1 => value[SlotOf(k)] # NULL
      BY <1>2, <1>4 DEF Filled
  <2>1. k \in Int
      BY <1>1 DEF Window
  <2> QED BY <1>1, <2>1 DEF IInv, Ring, Filled
<1> QED BY <1>5, <1>6, <1>7, <1>8, <1>9 DEF Ring

\* A thread inside fills or empties its slot.
LEMMA RingSwaps ==
    ASSUME IInv, NEW t \in Threads, NEW v, UNCHANGED <<cap, head, tail, sequence, pushes>>,
           value' = [value EXCEPT ![Slot(call[t].pos)] = v],
           \/ pc(t) = "push_write" /\ pc(t)' = "push_publish" /\ v # NULL
           \/ pc(t) = "pop_take" /\ pc(t)' = "pop_release" /\ v = NULL,
           Turn(t)' = Turn(t),
           \A u \in Threads \ {t} : pc(u)' = pc(u) /\ Turn(u)' = Turn(u)
    PROVE  Ring'
<1>1. cap \in Nat \ {0, 1} /\ Pushed \in Nat /\ Popped \in Nat
    BY Typed DEF IInv, Split
<1>2. /\ Pushed' = Pushed /\ Popped' = Popped /\ cap' = cap /\ Window' = Window
      /\ \A k : Mark(k)' = Mark(k) /\ SlotOf(k)' = SlotOf(k)
    BY RingStays DEF Window
<1>3. PICK j \in Window : j = Turn(t)
    BY TurnFacts DEF IInv, Inside, Pushing, Popping
<1>4. value'[SlotOf(j)] = v /\ \A k \in Window : k # j => value'[SlotOf(k)] = value[SlotOf(k)]
    BY <1>3, SlotWritten, Zenon DEF IInv
<1>5. TurnOK(t, j) /\ j \in Int
    BY <1>1, <1>3, TurnFacts DEF IInv, Window
<1>6. \A u \in Threads \ {t} : pc(u) \in Inside => Turn(u) \in Window /\ Turn(u) # j
  <2>1. pc(t) \in Inside
      BY DEF Inside, Pushing, Popping
  <2> QED BY <1>3, <2>1, TurnFacts DEF IInv, Ring, Apart
<1>7. Bounds'
    BY <1>2 DEF IInv, Ring, Bounds
<1>8. Turns'
  <2> SUFFICES ASSUME NEW u \in Threads, NEW k \in Words, Turn(u)' = k
               PROVE  TurnOK(u, k)'
      BY DEF Turns, Words
  <2>1. CASE u = t
      BY <1>2, <1>3, <1>4, <1>5, <2>1 DEF TurnOK, Searching, Looking, Pushing, Popping
  <2>2. CASE u # t
    <3>1. pc(u)' = pc(u) /\ Turn(u) = k /\ TurnOK(u, k)
        BY <2>2 DEF IInv, Ring, Turns
    <3>2. pc(u) \in Inside => value'[SlotOf(k)] = value[SlotOf(k)]
        BY <1>4, <1>6, <2>2, <3>1
    <3> QED BY <1>2, <3>1, <3>2 DEF TurnOK, Inside, Pushing, Popping
  <2> QED BY <2>1, <2>2
<1>9. Apart'
    BY DEF IInv, Ring, Apart, Inside, Pushing, Popping
<1>10. Phases'
  <2> SUFFICES ASSUME NEW k \in Window
               PROVE  /\ Popped <= k => Mark(k) = k + 1 \/ (Mark(k) = k /\ \E u \in Threads : pc(u)' \in Pushing /\ Turn(u)' = k)
                      /\ k < Popped => Mark(k) = k + cap \/ (Mark(k) = k + 1 /\ \E u \in Threads : pc(u)' \in Popping /\ Turn(u)' = k)
      BY <1>2 DEF Phases, Pushing, Popping
  <2>1. \A u \in Threads : /\ pc(u) \in Pushing <=> pc(u)' \in Pushing
                           /\ pc(u) \in Popping <=> pc(u)' \in Popping
                           /\ Turn(u)' = Turn(u)
      BY DEF Pushing, Popping
  <2> QED BY <2>1 DEF IInv, Ring, Phases
<1>11. Filled'
  <2> SUFFICES ASSUME NEW k \in Window
               PROVE  /\ Mark(k) = k + cap => value'[SlotOf(k)] = NULL
                      /\ Popped <= k /\ Mark(k) = k + 1 => value'[SlotOf(k)] # NULL
      BY <1>2 DEF Filled
  <2>1. CASE k = j
      BY <1>1, <1>5, <2>1 DEF TurnOK, Pushing, Popping
  <2>2. CASE k # j
      BY <1>4, <2>2 DEF IInv, Ring, Filled
  <2> QED BY <2>1, <2>2
<1> QED BY <1>7, <1>8, <1>9, <1>10, <1>11 DEF Ring

\* A thread inside publishes its slot, or hands it to the next lap, and leaves.
LEMMA RingPublishes ==
    ASSUME IInv, NEW t \in Threads, NEW n \in Nat, UNCHANGED <<cap, head, tail, value, pushes>>,
           sequence' = [sequence EXCEPT ![Slot(call[t].pos)] = Plus(call[t].pos, n)],
           \/ pc(t) = "push_publish" /\ n = 1
           \/ pc(t) = "pop_release" /\ n = cap,
           pc(t)' = "idle",
           \A u \in Threads \ {t} : pc(u)' = pc(u) /\ Turn(u)' = Turn(u)
    PROVE  Ring'
<1>1. /\ cap \in Nat \ {0, 1} /\ Pushed \in Nat /\ Popped \in Nat /\ Pushed <= MAX_PUSH
      /\ Popped <= Pushed /\ Pushed <= Popped + cap
    BY Typed DEF IInv, Split, Ring, Bounds
<1>2. /\ Pushed' = Pushed /\ Popped' = Popped /\ cap' = cap /\ Window' = Window /\ value' = value
      /\ \A k : SlotOf(k)' = SlotOf(k)
    BY RingStays DEF Window
<1>3. PICK j \in Window : j = Turn(t)
    BY TurnFacts DEF IInv, Inside, Pushing, Popping
<1>4. TurnOK(t, j) /\ j \in Nat /\ j < Pushed
    BY <1>1, <1>3, TurnFacts, Typed DEF IInv, Window
<1>5. /\ Mark(j)' = j + n
      /\ \A k \in Window : k # j => Mark(k)' = Mark(k)
      /\ \A k \in Int : k = Pushed /\ j # Pushed - cap => Mark(k)' = Mark(k)
  <2>1. Ticket(call[t].pos) + n < WORD /\ call[t].pos \in Words
      BY <1>1, <1>3, <1>4, Typed, CapFacts DEF IInv, Turn
  <2>2. Ticket(Plus(call[t].pos, n)) = j + n
      BY <1>3, <2>1, Typed, TicketPlus DEF IInv, Turn
  <2> QED BY <1>3, <2>2, SlotWritten, Zenon DEF IInv
<1>6. \A u \in Threads \ {t} : pc(u) \in Inside => Turn(u) \in Window /\ Turn(u) # j
  <2>1. pc(t) \in Inside
      BY DEF Inside, Pushing, Popping
  <2> QED BY <1>3, <2>1, TurnFacts DEF IInv, Ring, Apart
<1>7. Bounds'
    BY <1>2 DEF IInv, Ring, Bounds
<1>8. Turns'
  <2> SUFFICES ASSUME NEW u \in Threads, NEW k \in Words, Turn(u)' = k, u # t
               PROVE  TurnOK(u, k)'
      BY DEF Turns, Words, TurnOK, Searching, Looking, Pushing, Popping
  <2>1. pc(u)' = pc(u) /\ Turn(u) = k /\ TurnOK(u, k) /\ k \in Nat
      BY Typed DEF IInv, Ring, Turns
  <2>2. pc(u) \in Inside => Mark(k)' = Mark(k)
      BY <1>5, <1>6, <2>1
  <2>3. pc(u) = "push_cas" /\ k = Pushed => Mark(k)' = Mark(k)
    <3> SUFFICES ASSUME pc(u) = "push_cas", k = Pushed PROVE j # Pushed - cap
        BY <1>5, <2>1
    <3>1. Mark(Pushed - cap) = Pushed
        BY <2>1, WindowSlots DEF TurnOK, IInv
    <3>2. Mark(j) = j \/ Mark(j) = j + 1
        BY <1>4 DEF TurnOK, Pushing, Popping
    <3> QED BY <1>1, <3>1, <3>2
  <2>4. pc(u) = "pop_cas" /\ k = Popped => Mark(k)' = Mark(k)
    <3> SUFFICES ASSUME pc(u) = "pop_cas", k = Popped PROVE k \in Window /\ k # j
        BY <1>5
    <3>1. Mark(k) = k + 1
        BY <2>1 DEF TurnOK
    <3>2. k \in Window
        BY <1>1, <2>1, <3>1, PopCasFacts DEF IInv
    <3>3. (Popped <= j => Mark(j) = j)
        BY <1>1, <1>4 DEF TurnOK, Pushing, Popping
    <3> QED BY <1>1, <3>1, <3>2, <3>3
  <2> QED BY <1>2, <2>1, <2>2, <2>3, <2>4 DEF TurnOK, Inside
<1>9. Apart'
    BY DEF IInv, Ring, Apart, Inside, Pushing, Popping
<1>10. Phases'
  <2> SUFFICES ASSUME NEW k \in Window
               PROVE  /\ Popped <= k => Mark(k)' = k + 1 \/ (Mark(k)' = k /\ \E u \in Threads : pc(u)' \in Pushing /\ Turn(u)' = k)
                      /\ k < Popped => Mark(k)' = k + cap \/ (Mark(k)' = k + 1 /\ \E u \in Threads : pc(u)' \in Popping /\ Turn(u)' = k)
      BY <1>2 DEF Phases, Pushing, Popping
  <2>1. CASE k = j
      BY <1>1, <1>4, <1>5, <2>1 DEF TurnOK, Pushing, Popping
  <2>2. CASE k # j
    <3>1. \A u \in Threads : Turn(u) = k => u # t
        BY <1>3, <2>2
    <3> QED BY <1>5, <2>2, <3>1 DEF IInv, Ring, Phases
  <2> QED BY <2>1, <2>2
<1>11. Filled'
  <2> SUFFICES ASSUME NEW k \in Window
               PROVE  /\ Mark(k)' = k + cap => value[SlotOf(k)] = NULL
                      /\ Popped <= k /\ Mark(k)' = k + 1 => value[SlotOf(k)] # NULL
      BY <1>2 DEF Filled
  <2>1. CASE k = j
      BY <1>1, <1>4, <1>5, <2>1 DEF TurnOK, Pushing, Popping
  <2>2. CASE k # j
      BY <1>5, <2>2 DEF IInv, Ring, Filled
  <2> QED BY <2>1, <2>2
<1> QED BY <1>7, <1>8, <1>9, <1>10, <1>11 DEF Ring

-----------------------------------------------------------------------------
(* Where the allocations are.                                              *)

LEMMA PlaceTypes ==
    ASSUME TypeOK
    PROVE  /\ NULL \notin Values /\ own \subseteq Values /\ single \in Values \cup {NULL}
           /\ \A t \in Threads : call[t].v \in Values \cup {NULL}
           /\ \A i \in Slots : value[i] \in Values \cup {NULL}
           /\ value \in [Slots -> Values \cup {NULL}]
BY BufferAssumption DEF TypeOK

\* A call that keeps what it carries.
LEMMA PlacesKept ==
    ASSUME IInv, NEW t \in Threads, UNCHANGED <<cap, value, single, own>>,
           call'[t].v = call[t].v, pc(t) \in Carrying <=> pc(t)' \in Carrying,
           cap # 1, \A u \in Threads \ {t} : call'[u] = call[u] /\ pc(u)' = pc(u)
    PROVE  Once' /\ Covered' /\ Split'
<1>1. Slots' = Slots /\ \A u \in Threads : call'[u].v = call[u].v
    BY DEF Slots
<1>2. Once'
    BY <1>1 DEF IInv, Once
<1>3. Covered'
    BY <1>1 DEF IInv, Covered
<1>4. Split'
    BY <1>1 DEF IInv, Split
<1> QED BY <1>2, <1>3, <1>4

\* push() takes an allocation from its caller.
LEMMA PlacesTaken ==
    ASSUME IInv, NEW t \in Threads, NEW v \in own, UNCHANGED <<cap, value, single>>,
           own' = own \ {v}, call'[t].v = v, pc(t) \notin Carrying, pc(t)' \in Carrying,
           cap # 1, \A u \in Threads \ {t} : call'[u] = call[u] /\ pc(u)' = pc(u)
    PROVE  Once' /\ Covered' /\ Split'
<1>1. /\ Slots' = Slots /\ v \in Values /\ v # NULL /\ call[t].v = NULL /\ NULL \notin Values
      /\ \A u \in Threads \ {t} : call'[u].v = call[u].v /\ call[u].v # v
      /\ \A i \in Slots : value[i] # v
    BY PlaceTypes DEF IInv, Once, Slots
<1>2. Once'
    BY <1>1 DEF IInv, Once
<1>3. Covered'
  <2> SUFFICES ASSUME NEW w \in Values
               PROVE  \/ w \in own \ {v} \/ w = single
                      \/ \E u \in Threads : call'[u].v = w
                      \/ \E i \in Slots : value[i] = w
      BY <1>1 DEF Covered
  <2>1. w # call[t].v
      BY <1>1
  <2> QED BY <1>1, <2>1 DEF IInv, Covered
<1>4. Split'
    BY <1>1 DEF IInv, Split
<1> QED BY <1>2, <1>3, <1>4

\* A call hands its allocation to the caller and ends.
LEMMA PlacesReturned ==
    ASSUME IInv, NEW t \in Threads, UNCHANGED <<cap, value, single>>,
           own' = own \cup {call[t].v}, call'[t].v = NULL, pc(t) \in Carrying, pc(t)' \notin Carrying,
           cap # 1, \A u \in Threads \ {t} : call'[u] = call[u] /\ pc(u)' = pc(u)
    PROVE  own' \subseteq Values /\ Once' /\ Covered' /\ Split'
<1>1. /\ Slots' = Slots /\ call[t].v \in Values /\ call[t].v # NULL /\ NULL \notin Values /\ single = NULL
      /\ \A u \in Threads \ {t} : call'[u].v = call[u].v /\ call[u].v # call[t].v
      /\ \A i \in Slots : value[i] # call[t].v
    BY PlaceTypes DEF IInv, Once, Slots, Split
<1>2. own' \subseteq Values
    BY <1>1, PlaceTypes DEF IInv
<1>3. Once'
  <2>1. \A u \in Threads : (call'[u].v \in Values <=> pc(u)' \in Carrying) /\ call'[u].v \notin own'
      BY <1>1, <1>2 DEF IInv, Once
  <2>2. single' \notin own' /\ \A i \in Slots : value'[i] \notin own'
      BY <1>1, <1>2 DEF IInv, Once
  <2>3. /\ \A r, u \in Threads : call'[r].v # NULL /\ call'[r].v = call'[u].v => r = u
        /\ \A u \in Threads, i \in Slots : call'[u].v # NULL => call'[u].v # value'[i]
      BY <1>1 DEF IInv, Once
  <2> QED BY <1>1, <2>1, <2>2, <2>3 DEF IInv, Once
<1>4. Covered'
  <2> SUFFICES ASSUME NEW w \in Values
               PROVE  \/ w \in own' \/ w = single
                      \/ \E u \in Threads : call'[u].v = w
                      \/ \E i \in Slots : value[i] = w
      BY <1>1 DEF Covered
  <2> QED BY <1>1 DEF IInv, Covered
<1>5. Split'
    BY <1>1 DEF IInv, Split
<1> QED BY <1>2, <1>3, <1>4, <1>5

\* A pointer changes places between a call and an empty slot, either way.
LEMMA PlacesSwapped ==
    ASSUME IInv, NEW t \in Threads, NEW s \in Slots, UNCHANGED <<cap, single, own>>,
           call[t].v = NULL \/ value[s] = NULL,
           value' = [value EXCEPT ![s] = call[t].v], call'[t].v = value[s],
           pc(t)' \in Carrying <=> value[s] # NULL,
           cap # 1, \A u \in Threads \ {t} : call'[u] = call[u] /\ pc(u)' = pc(u)
    PROVE  value' \in [Slots -> Values \cup {NULL}] /\ Once' /\ Covered' /\ Split'
<1>1. /\ Slots' = Slots /\ NULL \notin Values /\ single = NULL
      /\ \A u \in Threads \ {t} : call'[u].v = call[u].v
      /\ value'[s] = call[t].v /\ \A i \in Slots \ {s} : value'[i] = value[i]
      /\ value' \in [Slots -> Values \cup {NULL}]
    BY PlaceTypes DEF IInv, Slots, Split
<1>2. Once'
  <2>1. \A u \in Threads : (call'[u].v \in Values <=> pc(u)' \in Carrying) /\ call'[u].v \notin own'
      BY <1>1, PlaceTypes DEF IInv, Once
  <2>2. single' \notin own' /\ \A i \in Slots : value'[i] \notin own'
      BY <1>1 DEF IInv, Once
  <2>3. \A r, u \in Threads : call'[r].v # NULL /\ call'[r].v = call'[u].v => r = u
      BY <1>1 DEF IInv, Once
  <2>4. \A i, j \in Slots : value'[i] # NULL /\ value'[i] = value'[j] => i = j
      BY <1>1 DEF IInv, Once
  <2>5. \A u \in Threads, i \in Slots : call'[u].v # NULL => call'[u].v # value'[i]
    <3> SUFFICES ASSUME NEW u \in Threads, NEW i \in Slots, call'[u].v # NULL, call'[u].v = value'[i]
                 PROVE  FALSE
        OBVIOUS
    <3>1. CASE u = t
        BY <1>1, <3>1 DEF IInv, Once
    <3>2. CASE u # t
        BY <1>1, <3>2 DEF IInv, Once
    <3> QED BY <3>1, <3>2
  <2> QED BY <1>1, <2>1, <2>2, <2>3, <2>4, <2>5 DEF Once
<1>3. Covered'
  <2> SUFFICES ASSUME NEW w \in Values
               PROVE  \/ w \in own \/ w = single
                      \/ \E u \in Threads : call'[u].v = w
                      \/ \E i \in Slots : value'[i] = w
      BY <1>1 DEF Covered
  <2>1. CASE \E u \in Threads : call[u].v = w
      BY <1>1, <2>1
  <2>2. CASE \E i \in Slots : value[i] = w
      BY <1>1, <2>2
  <2> QED BY <2>1, <2>2 DEF IInv, Covered
<1>4. Split'
    BY <1>1 DEF IInv, Split
<1> QED BY <1>1, <1>2, <1>3, <1>4

-----------------------------------------------------------------------------
(* The steps.                                                              *)

LEMMA InitIInv == Init => IInv
<1> SUFFICES ASSUME Init PROVE IInv
    OBVIOUS
<1>1. /\ cap \in Capacities /\ cap \in Nat \ {0} /\ WORD \in Nat \ {0} /\ START \in Words /\ MAX_PUSH \in Nat
      /\ 0 \in Words /\ 2 * (MAX_PUSH + cap) < WORD
    BY CapFacts DEF Init, Words
<1>2. Ticket(START) = 0 /\ Pushed = 0 /\ Popped = 0
    BY <1>1, TicketIs DEF Init, Words, Pushed, Popped
<1>3. ASSUME NEW i \in Slots
      PROVE  sequence[i] \in Words /\ Ticket(sequence[i]) = (i + cap - Slot(START)) % cap
  <2>1. i + cap - Slot(START) \in Int
      BY <1>1, SlotTicket DEF Slots
  <2>2. PICK d \in 0..(cap - 1) : d = (i + cap - Slot(START)) % cap
      BY <1>1, <2>1, DivMod
  <2>3. d \in Nat /\ Ticket(START) + d < WORD
      BY <1>1, <1>2, <2>2
  <2>4. Plus(START, d) \in Words /\ Ticket(Plus(START, d)) = d
      BY <1>1, <1>2, <2>3, TicketPlus
  <2>5. sequence[i] = Plus(START, d)
      BY <2>2 DEF Init
  <2> QED BY <2>2, <2>4, <2>5
<1>4. TypeOK
  <2>1. sequence \in [Slots -> Words]
      BY <1>3 DEF Init
  <2>2. call \in [Threads -> [pc : Labels, pos : Words, v : Values \cup {NULL}]]
      BY <1>1 DEF Init, At, Labels
  <2> QED BY <1>1, <2>1, <2>2 DEF Init, TypeOK
<1>5. \A t \in Threads : pc(t) = "idle" /\ call[t].v = NULL
    BY DEF Init, pc, At
<1>6. Window = (-cap)..(-1)
    BY <1>1, <1>2 DEF Window
<1>7. ASSUME NEW k \in Window
      PROVE  Mark(k) = k + cap
  <2>1. k \in Int /\ k + cap \in 0..(cap - 1) /\ SlotOf(k) \in Slots /\ START \in Int
      BY <1>1, <1>6, SlotFacts DEF Words
  <2>2. Mark(k) = (SlotOf(k) + cap - Slot(START)) % cap
      BY <1>3, <2>1 DEF Mark
  <2>3. /\ (START + k) \div cap \in Int /\ START + k = cap * ((START + k) \div cap) + SlotOf(k)
        /\ START \div cap \in Int /\ START = cap * (START \div cap) + Slot(START)
        /\ SlotOf(k) \in Int /\ Slot(START) \in Int
      BY <1>1, <2>1, DivMod DEF SlotOf, Slot, Slots
  <2>4. PICK m \in Int : m = START \div cap - (START + k) \div cap
      BY <2>3
  <2>5. SlotOf(k) + cap - Slot(START) = (k + cap) + cap * m
      BY <1>1, <2>1, <2>3, <2>4
  <2>6. (SlotOf(k) + cap - Slot(START)) % cap = (k + cap) % cap
    <3>1. PICK x \in Int, y \in Int : x = SlotOf(k) + cap - Slot(START) /\ y = k + cap
        BY <1>1, <2>1, <2>3
    <3>2. x = y + cap * m
        BY <2>5, <3>1
    <3>3. x % cap = y % cap
        BY <1>1, <3>2, ModShift, Zenon
    <3> QED BY <3>1, <3>3
  <2>7. (k + cap) % cap = k + cap
      BY <1>1, <2>1, ModNear, k + cap \in Int, -cap <= k + cap, k + cap < 2 * cap
  <2> QED BY <2>2, <2>6, <2>7
<1>8. Ring
  <2>1. Bounds
      BY <1>1, <1>2 DEF Init, Bounds
  <2>2. Turns
      BY <1>5 DEF Turns, TurnOK, Searching, Looking, Pushing, Popping
  <2>3. Apart
      BY <1>5 DEF Apart, Inside, Pushing, Popping
  <2>4. Phases
      BY <1>1, <1>2, <1>6, <1>7 DEF Phases
  <2>5. Filled
    <3> SUFFICES ASSUME NEW k \in Window
                 PROVE  value[SlotOf(k)] = NULL /\ ~(Popped <= k)
        BY DEF Filled
    <3>1. k \in Int /\ k < 0 /\ SlotOf(k) \in Slots
        BY <1>1, <1>6, SlotFacts
    <3> QED BY <1>2, <3>1 DEF Init
  <2> QED BY <2>1, <2>2, <2>3, <2>4, <2>5 DEF Ring
<1>9. Once /\ Covered /\ Split
    BY <1>5, BufferAssumption DEF Init, Once, Covered, Split, Carrying
<1> QED BY <1>4, <1>8, <1>9 DEF IInv

\* Sequence numbers and positions are close enough to be compared.
LEMMA MarkBound ==
    ASSUME IInv, NEW k \in Int
    PROVE  Mark(k) <= MAX_PUSH + cap
<1>1. /\ cap \in Capacities /\ cap \in Nat \ {0} /\ Pushed \in Nat /\ Pushed <= MAX_PUSH /\ MAX_PUSH \in Nat
      /\ SlotOf(k) \in Slots
    BY Typed, CapFacts DEF IInv, Ring, Bounds
<1>2. PICK j \in (Pushed - cap)..((Pushed - cap) + cap - 1) : SlotOf(j) = SlotOf(k)
    BY <1>1, SlotInWindow, Pushed - cap \in Int, Zenon
<1>3. j \in Window /\ j \in Int /\ j < Pushed
    BY <1>1, <1>2 DEF Window
<1>4. Mark(j) = j \/ Mark(j) = j + 1 \/ Mark(j) = j + cap
    BY <1>1, <1>3, Typed DEF IInv, Ring, Phases
<1>5. Mark(k) = Mark(j)
    BY <1>2 DEF Mark
<1> QED BY <1>1, <1>3, <1>4, <1>5

LEMMA PushDiff ==
    ASSUME IInv, NEW t \in Threads, pc(t) \in Searching
    PROVE  Diff(sequence[Slot(call[t].pos)], call[t].pos) = Mark(Turn(t)) - Turn(t)
<1>1. /\ cap \in Capacities /\ call[t].pos \in Words /\ Turn(t) \in Nat /\ Turn(t) <= MAX_PUSH + cap
      /\ Slot(call[t].pos) = SlotOf(Turn(t)) /\ Slot(call[t].pos) \in Slots
  <2>1. Turn(t) <= Pushed /\ Pushed <= MAX_PUSH
      BY TurnFacts, Typed DEF IInv, TurnOK, Ring, Bounds
  <2> QED BY <2>1, Typed, CapFacts, SlotTicket DEF IInv, Turn
<1>2. sequence[Slot(call[t].pos)] \in Words /\ Ticket(sequence[Slot(call[t].pos)]) = Mark(Turn(t))
    BY <1>1 DEF IInv, TypeOK, Mark
<1>3. Mark(Turn(t)) <= MAX_PUSH + cap
    BY <1>1, MarkBound
<1> QED BY <1>1, <1>2, <1>3, DiffIs DEF Turn

LEMMA PopDiff ==
    ASSUME IInv, NEW t \in Threads, pc(t) \in Looking
    PROVE  Diff(sequence[Slot(call[t].pos)], Plus(call[t].pos, 1)) = Mark(Turn(t)) - (Turn(t) + 1)
<1>1. /\ cap \in Capacities /\ call[t].pos \in Words /\ Turn(t) \in Nat /\ Turn(t) + 1 <= MAX_PUSH + cap
      /\ MAX_PUSH + cap < WORD /\ Slot(call[t].pos) = SlotOf(Turn(t)) /\ Slot(call[t].pos) \in Slots
  <2>1. Turn(t) <= Pushed /\ Pushed <= MAX_PUSH
      BY TurnFacts, Typed DEF IInv, TurnOK, Ring, Bounds
  <2> QED BY <2>1, Typed, CapFacts, SlotTicket DEF IInv, Turn
<1>2. sequence[Slot(call[t].pos)] \in Words /\ Ticket(sequence[Slot(call[t].pos)]) = Mark(Turn(t))
    BY <1>1 DEF IInv, TypeOK, Mark
<1>3. Mark(Turn(t)) <= MAX_PUSH + cap
    BY <1>1, MarkBound
<1>4. Plus(call[t].pos, 1) \in Words /\ Ticket(Plus(call[t].pos, 1)) = Turn(t) + 1
  <2>1. Ticket(call[t].pos) + 1 < WORD
      BY <1>1, CapFacts DEF Turn
  <2> QED BY <1>1, <2>1, TicketPlus DEF Turn
<1> QED BY <1>1, <1>2, <1>3, <1>4, DiffIs

\* A step of a thread that is and stays outside the slots, to `label' with the
\* position p in hand.
LEMMA OutsideStep ==
    ASSUME IInv, NEW t \in Threads, NEW label \in Labels \ Inside, NEW p \in Words,
           NEW v \in Values \cup {NULL}, Goto(t, label, p, v), pc(t) \notin Inside,
           UNCHANGED <<cap, head, tail, sequence, value, single, pushes>>,
           label \in Searching => Ticket(p) <= Pushed,
           label \in Looking => Ticket(p) <= Popped,
           label = "push_cas" => Mark(Ticket(p)) = Ticket(p),
           label = "pop_cas" => Mark(Ticket(p)) = Ticket(p) + 1
    PROVE  Ring' /\ (own' \subseteq Values => TypeOK')
<1>1. /\ call' \in [Threads -> [pc : Labels, pos : Words, v : Values \cup {NULL}]]
      /\ pc(t)' = label /\ Turn(t)' = Ticket(p)
      /\ \A u \in Threads \ {t} : pc(u)' = pc(u) /\ Turn(u)' = Turn(u)
    BY Moves, Zenon DEF IInv
<1>2. own' \subseteq Values => TypeOK'
    BY <1>1 DEF IInv, TypeOK, Slots, Labels
<1>3. ASSUME NEW k \in Words, Turn(t)' = k
      PROVE  TurnOK(t, k)'
  <2>1. Pushed' = Pushed /\ Popped' = Popped /\ Mark(k)' = Mark(k)
      BY RingStays
  <2>2. label \notin Pushing /\ label \notin Popping /\ k = Ticket(p)
      BY <1>1, <1>3 DEF Inside
  <2> QED BY <1>1, <2>1, <2>2 DEF TurnOK, Searching, Looking, Pushing, Popping
<1> QED BY <1>1, <1>2, <1>3, RingOutside DEF IInv

\* The same, keeping the allocation it carries.
LEMMA OutsideKeeping ==
    ASSUME IInv, NEW t \in Threads, NEW label \in Labels \ Inside, NEW p \in Words,
           NEW v \in Values \cup {NULL}, Goto(t, label, p, v), pc(t) \notin Inside, cap # 1,
           UNCHANGED <<cap, head, tail, sequence, value, single, own, pushes>>,
           call[t].v = v, pc(t) \in Carrying <=> label \in Carrying,
           label \in Searching => Ticket(p) <= Pushed,
           label \in Looking => Ticket(p) <= Popped,
           label = "push_cas" => Mark(Ticket(p)) = Ticket(p),
           label = "pop_cas" => Mark(Ticket(p)) = Ticket(p) + 1
    PROVE  IInv'
<1>1. Ring' /\ TypeOK'
  <2>1. own' \subseteq Values
      BY DEF IInv, TypeOK
  <2> QED BY <2>1, OutsideStep
<1>2. /\ pc(t)' = label /\ call'[t].v = v
      /\ \A u \in Threads \ {t} : pc(u)' = pc(u) /\ call'[u] = call[u]
    BY Moves, Zenon DEF IInv
<1>3. Once' /\ Covered' /\ Split'
    BY <1>2, PlacesKept, Zenon
<1> QED BY <1>1, <1>3 DEF IInv

\* What the steps below know: a thread in a call uses a ring, and carries an
\* allocation or nothing.
LEMMA CallFacts ==
    ASSUME IInv, NEW t \in Threads
    PROVE  /\ pc(t) # "idle" => cap # 1
           /\ call[t].pos \in Words /\ call[t].v \in Values \cup {NULL}
           /\ pc(t) \in Carrying => call[t].v \in Values
           /\ pc(t) \notin Carrying => call[t].v = NULL
           /\ tail \in Words /\ head \in Words /\ 0 \in Words /\ NULL \in Values \cup {NULL}
           /\ Ticket(tail) = Pushed /\ Ticket(head) = Popped /\ Pushed \in Nat /\ Popped \in Nat
           /\ Ticket(call[t].pos) = Turn(t) /\ Turn(t) \in Nat /\ Mark(Turn(t)) \in Nat
           /\ TurnOK(t, Turn(t))
<1>1. pc(t) # "idle" => cap # 1
    BY DEF IInv, Split
<1>2. /\ call[t].v \in Values \cup {NULL} /\ (pc(t) \in Carrying => call[t].v \in Values)
      /\ (pc(t) \notin Carrying => call[t].v = NULL)
    BY PlaceTypes DEF IInv, Once
<1>3. tail \in Words /\ head \in Words /\ 0 \in Words
    BY CapFacts DEF IInv, TypeOK, Words
<1>4. call[t].pos \in Words /\ Pushed \in Nat /\ Popped \in Nat /\ Turn(t) \in Nat /\ Mark(Turn(t)) \in Nat
    BY Typed DEF IInv
<1> QED BY <1>1, <1>2, <1>3, <1>4, TurnFacts DEF IInv, Pushed, Popped, Turn

LEMMA PushStep ==
    ASSUME IInv, NEW t \in Threads, NEW v \in Values, Push(t, v)
    PROVE  IInv'
<1>1. pc(t) = "idle" /\ cap # 1 /\ v \in own /\ own' = own \ {v} /\ Goto(t, "push_seq", tail, v)
    BY Typed DEF IInv, Push
<1>2. "push_seq" \in Labels \ Inside /\ "push_seq" \in Carrying /\ "idle" \notin Carrying \cup Inside
    BY DEF Labels, Inside, Pushing, Popping, Carrying
<1>3. Ring' /\ TypeOK'
  <2>1. own' \subseteq Values
      BY <1>1 DEF IInv, TypeOK
  <2>2. "push_seq" \notin Looking /\ Ticket(tail) <= Pushed
      BY Typed DEF IInv, Pushed, Looking
  <2> QED BY <1>1, <1>2, <2>1, <2>2, CallFacts, OutsideStep, Zenon DEF Push
<1>4. Once' /\ Covered' /\ Split'
  <2>1. /\ pc(t)' = "push_seq" /\ call'[t].v = v
        /\ \A u \in Threads \ {t} : pc(u)' = pc(u) /\ call'[u] = call[u]
      BY <1>1, <1>2, CallFacts, Moves, Zenon DEF IInv
  <2> QED BY <1>1, <1>2, <2>1, PlacesTaken, Zenon DEF Push
<1> QED BY <1>3, <1>4 DEF IInv

LEMMA PushSeqStep ==
    ASSUME IInv, NEW t \in Threads, PushSeq(t)
    PROVE  IInv'
<1> DEFINE diff == Diff(sequence[Slot(call[t].pos)], call[t].pos)
<1>1. /\ pc(t) = "push_seq" /\ pc(t) \in Searching /\ pc(t) \in Carrying /\ pc(t) \notin Inside
      /\ UNCHANGED <<cap, head, tail, sequence, value, single, pushes>>
      /\ "push_cas" \in Labels \ Inside /\ "push_load" \in Labels \ Inside /\ "idle" \in Labels \ Inside
      /\ "push_cas" \in Carrying /\ "push_load" \in Carrying /\ "idle" \notin Carrying
      /\ "idle" \notin Searching \cup Looking /\ {"push_cas", "push_load"} \cap Looking = {}
    BY DEF PushSeq, Searching, Looking, Inside, Pushing, Popping, Carrying, Labels
<1>2. diff = Mark(Turn(t)) - Turn(t) /\ Turn(t) <= Pushed
    BY <1>1, PushDiff, CallFacts, Zenon DEF TurnOK
<1>3. CASE diff = 0 /\ Goto(t, "push_cas", call[t].pos, call[t].v) /\ UNCHANGED own
  <2>1. Mark(Ticket(call[t].pos)) = Ticket(call[t].pos)
    <3>1. Turn(t) \in Nat /\ Mark(Turn(t)) \in Nat /\ Ticket(call[t].pos) = Turn(t)
        BY CallFacts, Zenon
    <3> QED BY <1>2, <1>3, <3>1
  <2> QED BY <1>1, <1>2, <1>3, <2>1, CallFacts, OutsideKeeping, Zenon
<1>4. CASE diff < 0 /\ Return(t) /\ own' = own \cup {call[t].v}
  <2>1. Goto(t, "idle", 0, NULL)
      BY <1>4 DEF Return
  <2>2. /\ pc(t)' = "idle" /\ call'[t].v = NULL
        /\ \A u \in Threads \ {t} : pc(u)' = pc(u) /\ call'[u] = call[u]
      BY <1>1, <2>1, CallFacts, Moves, Zenon DEF IInv
  <2>3. own' \subseteq Values /\ Once' /\ Covered' /\ Split'
      BY <1>1, <1>4, <2>2, CallFacts, PlacesReturned, Zenon
  <2>4. Ring' /\ TypeOK'
      BY <1>1, <2>1, <2>3, CallFacts, OutsideStep, Zenon
  <2> QED BY <2>3, <2>4 DEF IInv
<1>5. CASE diff > 0 /\ Goto(t, "push_load", call[t].pos, call[t].v) /\ UNCHANGED own
    BY <1>1, <1>2, <1>5, CallFacts, OutsideKeeping, Zenon
<1> QED BY <1>3, <1>4, <1>5 DEF PushSeq

\* Back to the sequence number, with the tail just loaded.
LEMMA PushAgain ==
    ASSUME IInv, NEW t \in Threads, pc(t) \in {"push_load", "push_cas"},
           Goto(t, "push_seq", tail, call[t].v),
           UNCHANGED <<cap, head, tail, sequence, value, single, own, pushes>>
    PROVE  IInv'
<1>1. /\ pc(t) \in Carrying /\ pc(t) \notin Inside /\ "push_seq" \in Labels \ Inside
      /\ "push_seq" \in Carrying /\ "push_seq" \notin Looking /\ pc(t) # "idle"
    BY DEF Inside, Pushing, Popping, Carrying, Labels, Looking
<1>2. Ticket(tail) <= Pushed
    BY Typed DEF IInv, Pushed
<1> QED BY <1>1, <1>2, CallFacts, OutsideKeeping, Zenon

LEMMA PushLoadStep == ASSUME IInv, NEW t \in Threads, PushLoad(t) PROVE IInv'
BY PushAgain DEF PushLoad

LEMMA PushCasStep ==
    ASSUME IInv, NEW t \in Threads, PushCas(t)
    PROVE  IInv'
<1>1. CASE Reserves(t)
  <2>1. Ring'
      BY <1>1, RingReserves
  <2>2. "push_write" \in Labels /\ "push_write" \in Carrying /\ "push_cas" \in Carrying /\ pc(t) = "push_cas"
      BY <1>1 DEF Labels, Carrying, Reserves
  <2>3. /\ call' \in [Threads -> [pc : Labels, pos : Words, v : Values \cup {NULL}]]
        /\ pc(t)' = "push_write" /\ call'[t].v = call[t].v
        /\ \A u \in Threads \ {t} : pc(u)' = pc(u) /\ call'[u] = call[u]
      BY <1>1, <2>2, CallFacts, Moves, Zenon DEF IInv, Reserves
  <2>4. TypeOK'
    <3>1. tail' \in Words
      <4>1. Ticket(tail) + 1 < WORD /\ cap \in Capacities
        <5>1. cap \in Capacities /\ Pushed = pushes /\ pushes \in 0..MAX_PUSH
            BY Typed DEF IInv, Ring, Bounds
        <5> QED BY <5>1, CapFacts DEF Pushed
      <4> QED BY <1>1, <4>1, CallFacts, TicketPlus, Zenon DEF Reserves
    <3>2. pushes' \in 0..MAX_PUSH
        BY <1>1, Typed, CapFacts DEF IInv, Reserves
    <3> QED BY <1>1, <2>3, <3>1, <3>2 DEF IInv, TypeOK, Reserves, Slots
  <2>5. Once' /\ Covered' /\ Split'
      BY <1>1, <2>2, <2>3, CallFacts, PlacesKept, Zenon DEF Reserves
  <2> QED BY <2>1, <2>4, <2>5 DEF IInv
<1>2. CASE ~Reserves(t)
    BY <1>2, PushAgain DEF PushCas, Reserves
<1> QED BY <1>1, <1>2

LEMMA PushWriteStep ==
    ASSUME IInv, NEW t \in Threads, PushWrite(t)
    PROVE  IInv'
<1>1. /\ pc(t) = "push_write" /\ pc(t) \in Carrying /\ pc(t) \in Inside
      /\ "push_publish" \in Labels /\ "push_publish" \notin Carrying
      /\ UNCHANGED <<cap, head, tail, sequence, single, own, pushes>>
    BY DEF PushWrite, Carrying, Inside, Pushing, Labels
<1>2. /\ call' \in [Threads -> [pc : Labels, pos : Words, v : Values \cup {NULL}]]
      /\ pc(t)' = "push_publish" /\ call'[t].v = NULL /\ Turn(t)' = Turn(t)
      /\ \A u \in Threads \ {t} : pc(u)' = pc(u) /\ call'[u] = call[u] /\ Turn(u)' = Turn(u)
    BY <1>1, CallFacts, Moves, Zenon DEF IInv, PushWrite
<1>3. Slot(call[t].pos) \in Slots /\ value[Slot(call[t].pos)] = NULL
  <2>1. Turn(t) \in Window /\ value[SlotOf(Turn(t))] = NULL
      BY <1>1, TurnFacts DEF IInv, TurnOK
  <2> QED BY <1>1, <2>1, SlotWritten DEF IInv
<1>4. call[t].v # NULL /\ cap # 1
    BY <1>1, CallFacts, BufferAssumption, Zenon
<1>5. Ring'
    BY <1>1, <1>2, <1>4, RingSwaps, Zenon DEF PushWrite
<1>6. value' \in [Slots -> Values \cup {NULL}] /\ Once' /\ Covered' /\ Split'
    BY <1>1, <1>2, <1>3, <1>4, PlacesSwapped, Zenon DEF PushWrite
<1>7. TypeOK'
    BY <1>1, <1>2, <1>6 DEF IInv, TypeOK, Slots
<1> QED BY <1>5, <1>6, <1>7 DEF IInv

LEMMA PopTakeStep ==
    ASSUME IInv, NEW t \in Threads, PopTake(t)
    PROVE  IInv'
<1>1. /\ pc(t) = "pop_take" /\ pc(t) \notin Carrying /\ pc(t) \in Inside
      /\ "pop_release" \in Labels /\ "pop_release" \in Carrying
      /\ UNCHANGED <<cap, head, tail, sequence, single, own, pushes>>
    BY DEF PopTake, Carrying, Inside, Popping, Labels
<1>2. /\ Slot(call[t].pos) \in Slots /\ value[Slot(call[t].pos)] # NULL
      /\ value[Slot(call[t].pos)] \in Values \cup {NULL}
  <2>1. Turn(t) \in Window /\ value[SlotOf(Turn(t))] # NULL
      BY <1>1, TurnFacts DEF IInv, TurnOK
  <2>2. Slot(call[t].pos) = SlotOf(Turn(t)) /\ SlotOf(Turn(t)) \in Slots
      BY <1>1, <2>1, SlotWritten DEF IInv
  <2> QED BY <2>1, <2>2, PlaceTypes DEF IInv
<1>3. /\ call' \in [Threads -> [pc : Labels, pos : Words, v : Values \cup {NULL}]]
      /\ pc(t)' = "pop_release" /\ call'[t].v = value[Slot(call[t].pos)] /\ Turn(t)' = Turn(t)
      /\ \A u \in Threads \ {t} : pc(u)' = pc(u) /\ call'[u] = call[u] /\ Turn(u)' = Turn(u)
    BY <1>1, <1>2, CallFacts, Moves, Zenon DEF IInv, PopTake
<1>4. call[t].v = NULL /\ cap # 1
    BY <1>1, CallFacts, Zenon
<1>5. Ring'
    BY <1>1, <1>3, <1>4, RingSwaps, Zenon DEF PopTake
<1>6. value' \in [Slots -> Values \cup {NULL}] /\ Once' /\ Covered' /\ Split'
    BY <1>1, <1>2, <1>3, <1>4, PlacesSwapped, Zenon DEF PopTake
<1>7. TypeOK'
    BY <1>1, <1>3, <1>6 DEF IInv, TypeOK, Slots
<1> QED BY <1>5, <1>6, <1>7 DEF IInv

\* Both ways out of a slot write a word and leave.
LEMMA LeaveSlot ==
    ASSUME IInv, NEW t \in Threads, NEW n \in Nat, UNCHANGED <<cap, head, tail, value, single, pushes>>,
           sequence' = [sequence EXCEPT ![Slot(call[t].pos)] = Plus(call[t].pos, n)],
           \/ pc(t) = "push_publish" /\ n = 1
           \/ pc(t) = "pop_release" /\ n = cap,
           Return(t)
    PROVE  /\ Ring' /\ (own' \subseteq Values => TypeOK')
           /\ pc(t)' = "idle" /\ call'[t].v = NULL
           /\ \A u \in Threads \ {t} : pc(u)' = pc(u) /\ call'[u] = call[u]
<1>1. /\ call' \in [Threads -> [pc : Labels, pos : Words, v : Values \cup {NULL}]]
      /\ pc(t)' = "idle" /\ call'[t].v = NULL
      /\ \A u \in Threads \ {t} : pc(u)' = pc(u) /\ call'[u] = call[u] /\ Turn(u)' = Turn(u)
  <2>1. "idle" \in Labels
      BY DEF Labels
  <2> QED BY <2>1, CallFacts, Moves, Zenon DEF IInv, Return
<1>2. Ring'
    BY <1>1, RingPublishes, Zenon
<1>3. sequence' \in [Slots -> Words]
  <2>1. pc(t) \in Inside
      BY DEF Inside, Pushing, Popping
  <2>2. Slot(call[t].pos) \in Slots
      BY <2>1, TurnFacts, SlotWritten DEF IInv
  <2>3. Ticket(call[t].pos) + n < WORD /\ cap \in Capacities
    <3>1. Turn(t) < Pushed /\ Pushed <= MAX_PUSH /\ cap \in Nat \ {0} /\ cap \in Capacities
        BY <2>1, TurnFacts, Typed DEF IInv, Window, Ring, Bounds
    <3>2. Turn(t) \in Nat /\ Pushed \in Nat
        BY Typed DEF IInv
    <3> QED BY <3>1, <3>2, CapFacts DEF Turn
  <2>4. Plus(call[t].pos, n) \in Words
      BY <2>3, CallFacts, TicketPlus, Zenon
  <2> QED BY <2>2, <2>4 DEF IInv, TypeOK
<1>4. own' \subseteq Values => TypeOK'
    BY <1>1, <1>3 DEF IInv, TypeOK, Slots
<1> QED BY <1>1, <1>2, <1>4, Zenon

LEMMA PushPublishStep ==
    ASSUME IInv, NEW t \in Threads, PushPublish(t)
    PROVE  IInv'
<1>1. pc(t) = "push_publish" /\ pc(t) \notin Carrying /\ "idle" \notin Carrying
    BY DEF PushPublish, Carrying
<1>2. /\ Ring' /\ (own' \subseteq Values => TypeOK') /\ pc(t)' = "idle" /\ call'[t].v = NULL
      /\ \A u \in Threads \ {t} : pc(u)' = pc(u) /\ call'[u] = call[u]
    BY <1>1, LeaveSlot, 1 \in Nat, Zenon DEF PushPublish
<1>3. TypeOK'
    BY <1>2 DEF PushPublish, IInv, TypeOK
<1>4. Once' /\ Covered' /\ Split'
    BY <1>1, <1>2, CallFacts, PlacesKept, Zenon DEF PushPublish
<1> QED BY <1>2, <1>3, <1>4, Zenon DEF IInv

LEMMA PopReleaseStep ==
    ASSUME IInv, NEW t \in Threads, PopRelease(t)
    PROVE  IInv'
<1>1. pc(t) = "pop_release" /\ pc(t) \in Carrying /\ "idle" \notin Carrying /\ cap \in Nat
    BY Typed DEF IInv, PopRelease, Carrying
<1>2. /\ Ring' /\ (own' \subseteq Values => TypeOK') /\ pc(t)' = "idle" /\ call'[t].v = NULL
      /\ \A u \in Threads \ {t} : pc(u)' = pc(u) /\ call'[u] = call[u]
    BY <1>1, LeaveSlot, Zenon DEF PopRelease
<1>3. own' \subseteq Values /\ Once' /\ Covered' /\ Split'
    BY <1>1, <1>2, CallFacts, PlacesReturned, Zenon DEF PopRelease
<1> QED BY <1>2, <1>3, Zenon DEF IInv

\* A popper's step outside the slots, with a position no later than the head.
LEMMA PopOutside ==
    ASSUME IInv, NEW t \in Threads, NEW label \in {"idle", "pop_seq", "pop_tail", "pop_load", "pop_cas"},
           NEW p \in Words, Goto(t, label, p, NULL), pc(t) \in Looking \cup {"idle"}, cap # 1,
           UNCHANGED <<cap, head, tail, sequence, value, single, own, pushes>>,
           label \in Looking => Ticket(p) <= Popped,
           label = "pop_cas" => Mark(Ticket(p)) = Ticket(p) + 1
    PROVE  IInv'
<1>1. /\ pc(t) \notin Carrying /\ pc(t) \notin Inside /\ label \in Labels \ Inside
      /\ label \notin Carrying /\ label \notin Searching
    BY DEF Inside, Pushing, Popping, Carrying, Labels, Looking, Searching
<1> QED BY <1>1, CallFacts, OutsideKeeping, Zenon

LEMMA PopStep == ASSUME IInv, NEW t \in Threads, Pop(t) PROVE IInv'
<1>1. cap # 1 /\ Ticket(head) <= Popped
  <2>1. Ticket(head) = Popped /\ Popped \in Nat
      BY Typed DEF IInv, Popped
  <2> QED BY <2>1 DEF Pop
<1> QED BY <1>1, CallFacts, PopOutside, Zenon DEF Pop

LEMMA PopSeqStep ==
    ASSUME IInv, NEW t \in Threads, PopSeq(t)
    PROVE  IInv'
<1> DEFINE diff == Diff(sequence[Slot(call[t].pos)], Plus(call[t].pos, 1))
<1>1. /\ pc(t) = "pop_seq" /\ pc(t) \in Looking /\ cap # 1
      /\ UNCHANGED <<cap, head, tail, sequence, value, single, own, pushes>>
    BY CallFacts, Zenon DEF PopSeq, Looking
<1>2. diff = Mark(Turn(t)) - (Turn(t) + 1) /\ Ticket(call[t].pos) <= Popped
    BY <1>1, PopDiff, CallFacts, Zenon DEF TurnOK
<1>3. CASE diff = 0 /\ Goto(t, "pop_cas", call[t].pos, NULL)
  <2>1. Mark(Ticket(call[t].pos)) = Ticket(call[t].pos) + 1
    <3>1. Turn(t) \in Nat /\ Mark(Turn(t)) \in Nat /\ Ticket(call[t].pos) = Turn(t)
        BY CallFacts, Zenon
    <3> QED BY <1>2, <1>3, <3>1
  <2> QED BY <1>1, <1>2, <1>3, <2>1, CallFacts, PopOutside, Zenon
<1>4. CASE Goto(t, "pop_tail", call[t].pos, NULL)
    BY <1>1, <1>2, <1>4, CallFacts, PopOutside, Zenon
<1>5. CASE Goto(t, "pop_load", call[t].pos, NULL)
    BY <1>1, <1>2, <1>5, CallFacts, PopOutside, Zenon
<1> QED BY <1>3, <1>4, <1>5 DEF PopSeq

LEMMA PopTailStep ==
    ASSUME IInv, NEW t \in Threads, PopTail(t)
    PROVE  IInv'
<1>1. /\ pc(t) = "pop_tail" /\ pc(t) \in Looking /\ cap # 1 /\ Ticket(call[t].pos) <= Popped
      /\ UNCHANGED <<cap, head, tail, sequence, value, single, own, pushes>>
    BY CallFacts, Zenon DEF PopTail, Looking, TurnOK
<1>2. CASE Goto(t, "pop_load", call[t].pos, NULL)
    BY <1>1, <1>2, CallFacts, PopOutside, Zenon
<1>3. CASE Goto(t, "idle", 0, NULL)
  <2>1. "idle" \notin Looking
      BY DEF Looking
  <2> QED BY <1>1, <1>3, <2>1, CallFacts, PopOutside, Zenon
<1> QED BY <1>2, <1>3, Zenon DEF PopTail, Return

\* Back to the sequence number, with the head just loaded.
LEMMA PopLoadStep == ASSUME IInv, NEW t \in Threads, PopLoad(t) PROVE IInv'
<1>1. cap # 1 /\ Ticket(head) <= Popped /\ pc(t) \in Looking
  <2>1. Ticket(head) = Popped /\ Popped \in Nat
      BY Typed DEF IInv, Popped
  <2>2. pc(t) \in Looking /\ pc(t) # "idle"
      BY DEF PopLoad, Looking
  <2>3. cap # 1
      BY <2>2, CallFacts, Zenon
  <2> QED BY <2>1, <2>2, <2>3
<1> QED BY <1>1, CallFacts, PopOutside, Zenon DEF PopLoad

LEMMA PopCasStep ==
    ASSUME IInv, NEW t \in Threads, PopCas(t)
    PROVE  IInv'
<1>1. CASE Claims(t)
  <2>1. Ring'
      BY <1>1, RingClaims
  <2>2. "pop_take" \in Labels /\ "pop_take" \notin Carrying /\ "pop_cas" \notin Carrying /\ pc(t) = "pop_cas"
      BY <1>1 DEF Labels, Carrying, Claims
  <2>3. /\ call' \in [Threads -> [pc : Labels, pos : Words, v : Values \cup {NULL}]]
        /\ pc(t)' = "pop_take" /\ call'[t].v = NULL
        /\ \A u \in Threads \ {t} : pc(u)' = pc(u) /\ call'[u] = call[u]
      BY <1>1, <2>2, CallFacts, Moves, Zenon DEF IInv, Claims
  <2>4. TypeOK'
    <3>1. head' \in Words
      <4>1. Ticket(head) + 1 < WORD /\ cap \in Capacities
        <5>1. cap \in Capacities /\ Pushed = pushes /\ pushes \in 0..MAX_PUSH /\ Popped \in Nat
            BY Typed DEF IInv, Ring, Bounds
        <5>2. Popped < Pushed
            BY <1>1, ClaimFacts
        <5> QED BY <5>1, <5>2, CapFacts DEF Popped
      <4> QED BY <1>1, <4>1, CallFacts, TicketPlus, Zenon DEF Claims
    <3> QED BY <1>1, <2>3, <3>1 DEF IInv, TypeOK, Claims, Slots
  <2>5. Once' /\ Covered' /\ Split'
      BY <1>1, <2>2, <2>3, CallFacts, PlacesKept, Zenon DEF Claims
  <2> QED BY <2>1, <2>4, <2>5 DEF IInv
<1>2. CASE ~Claims(t)
  <2>1. pc(t) \in Looking /\ pc(t) # "idle" /\ Goto(t, "pop_seq", head, NULL)
        /\ UNCHANGED <<cap, head, tail, sequence, value, single, own, pushes>>
      BY <1>2 DEF PopCas, Claims, Looking
  <2>2. Ticket(head) <= Popped
      BY Typed DEF IInv, Popped
  <2> QED BY <2>1, <2>2, CallFacts, PopOutside, Zenon
<1> QED BY <1>1, <1>2

\* Capacity one: only the single pointer and its owner change.
LEMMA SingleStep ==
    ASSUME IInv, NEW v \in Values, cap = 1,
           UNCHANGED <<cap, head, tail, sequence, value, pushes, call>>,
           \/ single = NULL /\ v \in own /\ single' = v /\ own' = own \ {v}
           \/ single = v /\ single' = NULL /\ own' = own \cup {v}
    PROVE  IInv'
<1>1. /\ Slots' = Slots /\ NULL \notin Values
      /\ \A t \in Threads : pc(t) = "idle" /\ pc(t)' = pc(t) /\ Turn(t)' = Turn(t) /\ call[t].v = NULL
      /\ \A i \in Slots : value[i] = NULL
    BY CallFacts, BufferAssumption, Zenon DEF IInv, Split, Slots, pc, Turn, Ticket, Carrying
<1>2. TypeOK'
    BY <1>1 DEF IInv, TypeOK
<1>3. Ring'
  <2>1. /\ Pushed' = Pushed /\ Popped' = Popped /\ Window' = Window
        /\ \A k : Mark(k)' = Mark(k) /\ SlotOf(k)' = SlotOf(k)
      BY RingStays DEF Window
  <2>2. Bounds' /\ Apart' /\ Filled'
      BY <1>1, <2>1, Zenon DEF IInv, Ring, Bounds, Apart, Filled
  <2>3. Turns'
      BY <1>1, Zenon DEF Turns, TurnOK, Searching, Looking, Pushing, Popping
  <2>4. Phases'
      BY <1>1, <2>1, Zenon DEF IInv, Ring, Phases
  <2> QED BY <2>2, <2>3, <2>4 DEF Ring
<1>4. Once'
  <2>1. own' \subseteq Values /\ single' \notin own'
      BY <1>1, PlaceTypes DEF IInv
  <2>2. /\ \A t \in Threads : call'[t].v = NULL /\ pc(t)' \notin Carrying
        /\ \A i \in Slots : value'[i] = NULL
      BY <1>1 DEF Carrying
  <2> QED BY <1>1, <2>1, <2>2 DEF Once
<1>5. Covered'
    BY <1>1 DEF IInv, Covered
<1>6. Split'
    BY <1>1 DEF IInv, Split
<1> QED BY <1>2, <1>3, <1>4, <1>5, <1>6 DEF IInv

LEMMA StutterStep == ASSUME IInv, UNCHANGED vars PROVE IInv'
<1>1. /\ Slots' = Slots /\ Pushed' = Pushed /\ Popped' = Popped /\ Window' = Window
      /\ \A k : Mark(k)' = Mark(k) /\ SlotOf(k)' = SlotOf(k)
      /\ \A t : pc(t)' = pc(t) /\ Turn(t)' = Turn(t)
    BY RingStays DEF vars, Slots, Window, pc, Turn, Ticket
<1>2. TypeOK'
    BY <1>1 DEF IInv, TypeOK, vars
<1>3. Ring'
  <2>1. Bounds' /\ Apart' /\ Filled'
      BY <1>1, Zenon DEF IInv, Ring, Bounds, Apart, Filled, vars
  <2>2. Turns'
      BY <1>1, Zenon DEF IInv, Ring, Turns, TurnOK, vars
  <2>3. Phases'
      BY <1>1, Zenon DEF IInv, Ring, Phases, vars
  <2> QED BY <2>1, <2>2, <2>3 DEF Ring
<1>4. Once' /\ Covered' /\ Split'
    BY <1>1, Zenon DEF IInv, Once, Covered, Split, vars
<1> QED BY <1>2, <1>3, <1>4 DEF IInv

LEMMA NextIInv == IInv /\ [Next]_vars => IInv'
<1> SUFFICES ASSUME IInv, [Next]_vars PROVE IInv'
    OBVIOUS
<1>1. CASE UNCHANGED vars
    BY <1>1, StutterStep
<1>2. CASE PopSingle
  <2>1. single \in Values
      BY <1>2, PlaceTypes DEF IInv, PopSingle
  <2> QED BY <1>2, <2>1, SingleStep DEF PopSingle
<1>3. CASE \E v \in Values : PushSingle(v)
    BY <1>3, SingleStep DEF PushSingle
<1>4. ASSUME NEW t \in Threads,
             \/ \E v \in Values : Push(t, v)
             \/ PushSeq(t) \/ PushLoad(t) \/ PushCas(t) \/ PushWrite(t) \/ PushPublish(t)
      PROVE  IInv'
    BY <1>4, PushStep, PushSeqStep, PushLoadStep, PushCasStep, PushWriteStep, PushPublishStep
<1>5. ASSUME NEW t \in Threads,
             \/ Pop(t) \/ PopSeq(t) \/ PopTail(t) \/ PopLoad(t) \/ PopCas(t) \/ PopTake(t)
             \/ PopRelease(t)
      PROVE  IInv'
    BY <1>5, PopStep, PopSeqStep, PopTailStep, PopLoadStep, PopCasStep, PopTakeStep, PopReleaseStep
<1> QED BY <1>1, <1>2, <1>3, <1>4, <1>5 DEF Next

THEOREM InductiveInvariant == Spec => []IInv
BY InitIInv, NextIInv, PTL DEF Spec

\* The fields of a buffer have their types: positions and sequence numbers are
\* words, whatever wraps.
THEOREM TypeCorrect == Spec => []TypeOK
<1>1. IInv => TypeOK
    BY DEF IInv
<1> QED BY <1>1, InductiveInvariant, PTL

\* Two threads are never between their reservation and their hand-over at the
\* same slot, so its plain cell is not raced on.
THEOREM SlotsNotShared == Spec => []NoSlotRace
<1>1. IInv => NoSlotRace
  <2> SUFFICES ASSUME IInv, NEW t \in Threads, NEW u \in Threads, t # u,
                      pc(t) \in Inside, pc(u) \in Inside
               PROVE  Slot(call[t].pos) # Slot(call[u].pos)
      BY DEF NoSlotRace, Inside, Pushing, Popping
  <2>1. Turn(t) \in Window /\ Turn(u) \in Window /\ Turn(t) # Turn(u)
      BY TurnFacts DEF IInv, Ring, Apart
  <2>2. Slot(call[t].pos) = SlotOf(Turn(t)) /\ Slot(call[u].pos) = SlotOf(Turn(u))
      BY CallFacts, Typed, SlotTicket, Zenon DEF IInv, Turn
  <2> QED BY <2>1, <2>2, WindowSlots DEF IInv
<1> QED BY <1>1, InductiveInvariant, PTL

\* Drop of the ring frees what is left in the slots: between calls those are
\* the queued allocations, each in one slot, and none that a caller owns.
THEOREM DropFreesQueue == Spec => []SlotsOwnQueue
<1>1. IInv => SlotsOwnQueue
  <2> SUFFICES ASSUME IInv, \A t \in Threads : pc(t) = "idle"
               PROVE  /\ {value[i] : i \in Slots} \ {NULL} = Values \ (own \cup {single})
                      /\ \A i, j \in Slots : value[i] = value[j] /\ value[i] # NULL => i = j
      BY Zenon DEF SlotsOwnQueue
  <2>1. \A t \in Threads : call[t].v = NULL
      BY CallFacts DEF Carrying
  <2>2. /\ NULL \notin Values /\ \A i \in Slots : value[i] \in Values \cup {NULL} /\ value[i] \notin own
      BY PlaceTypes DEF IInv, Once
  <2>3. \A i \in Slots : value[i] # NULL => value[i] # single
      BY DEF IInv, Split
  <2>4. ASSUME NEW v \in Values, v \notin own, v # single
        PROVE  \E i \in Slots : value[i] = v
      BY <2>1, <2>2, <2>4 DEF IInv, Covered
  <2>5. {value[i] : i \in Slots} \ {NULL} = Values \ (own \cup {single})
      BY <2>2, <2>3, <2>4
  <2> QED BY <2>5, Zenon DEF IInv, Once
<1> QED BY <1>1, InductiveInvariant, PTL
=============================================================================
