---------------------------- MODULE AtomicBuffer ----------------------------
(***************************************************************************)
(* AtomicBuffer (atomic/buffer.rs): a bounded queue of owned allocations.  *)
(* Each slot of the ring carries a sequence number that says which         *)
(* position may use it next and whether it is empty or full.  A capacity   *)
(* of one is a single pointer instead.                                     *)
(*                                                                         *)
(* Positions and sequence numbers are machine words that wrap at WORD.     *)
(* The model starts after START values went through the queue, so that the *)
(* wrap happens early, and makes at most MAX_PUSH pushes, fewer than half  *)
(* of WORD: no thread is overtaken by 2^63 operations inside one call.     *)
(***************************************************************************)
EXTENDS Integers, Sequences, FiniteSets

CONSTANTS Threads, Values, NULL,
          Capacities,\* the capacities with_capacity() is called with, powers of two
          WORD,      \* number of machine words, a larger power of two
          START,     \* initial head and tail
          MAX_PUSH   \* bound on pushes that reserve a slot

ASSUME BufferAssumption ==
    /\ Capacities \subseteq Nat \ {0} /\ WORD \in Nat /\ MAX_PUSH \in Nat
    /\ \A n \in Capacities : WORD % n = 0 /\ 2 * (MAX_PUSH + n) < WORD
    /\ START \in 0..(WORD - 1)
    /\ NULL \notin Values

VARIABLES cap,       \* capacity
          head, tail,
          sequence,  \* slot -> sequence number
          value,     \* slot -> allocation or NULL
          single,    \* the one slot of a buffer of capacity 1
          own,       \* allocations owned by callers outside any call
          pushes,    \* slots reserved so far
          call       \* thread -> [pc, pos, v]

vars == <<cap, head, tail, sequence, value, single, own, pushes, call>>

Words == 0..(WORD - 1)
Slots == 0..(cap - 1)
Slot(pos) == pos % cap

\* Fault: addition that does not wrap.
PlusNoWrap(pos, n) == pos + n

\* wrapping_add, and wrapping_sub read as a signed number.
Plus(pos, n) == (pos + n) % WORD
Diff(a, b) == ((a - b + WORD \div 2) % WORD) - WORD \div 2

At(label, pos, v) == [pc |-> label, pos |-> pos, v |-> v]
Goto(t, label, pos, v) == call' = [call EXCEPT ![t] = At(label, pos, v)]
Return(t) == Goto(t, "idle", 0, NULL)
pc(t) == call[t].pc

\* with_capacity(), after START pairs of push and pop.
Init ==
    /\ cap \in Capacities
    /\ head = START /\ tail = START
    /\ sequence = [i \in Slots |-> Plus(START, (i + cap - Slot(START)) % cap)]
    /\ value = [i \in Slots |-> NULL]
    /\ single = NULL
    /\ own = Values
    /\ pushes = 0
    /\ call = [t \in Threads |-> At("idle", 0, NULL)]

-----------------------------------------------------------------------------
(* push()                                                                  *)

\* Capacity one: exchange null for the pointer.
PushSingle(v) ==
    /\ cap = 1 /\ single = NULL
    /\ v \in own
    /\ single' = v
    /\ own' = own \ {v}
    /\ UNCHANGED <<cap, head, tail, sequence, value, pushes, call>>

Push(t, v) ==
    /\ cap > 1 /\ pc(t) = "idle"
    /\ v \in own
    /\ own' = own \ {v}
    /\ Goto(t, "push_seq", tail, v)
    /\ UNCHANGED <<cap, head, tail, sequence, value, single, pushes>>

\* Look at the slot's sequence number: free, still in use by the previous lap
\* (return Err: full), or already ahead (reload the tail).
PushSeq(t) ==
    LET c == call[t]
        diff == Diff(sequence[Slot(c.pos)], c.pos)
    IN  /\ pc(t) = "push_seq"
        /\ \/ diff = 0 /\ Goto(t, "push_cas", c.pos, c.v) /\ UNCHANGED own
           \/ diff < 0 /\ Return(t) /\ own' = own \cup {c.v}
           \/ diff > 0 /\ Goto(t, "push_load", c.pos, c.v) /\ UNCHANGED own
        /\ UNCHANGED <<cap, head, tail, sequence, value, single, pushes>>

PushLoad(t) ==
    /\ pc(t) = "push_load"
    /\ Goto(t, "push_seq", tail, call[t].v)
    /\ UNCHANGED <<cap, head, tail, sequence, value, single, own, pushes>>

\* Fault: the sequence number is published with the reservation.
PushCasPublish(t) ==
    LET c == call[t]
    IN  /\ pc(t) = "push_cas"
        /\ \/ /\ tail = c.pos /\ pushes < MAX_PUSH
              /\ tail' = Plus(tail, 1)
              /\ pushes' = pushes + 1
              /\ sequence' = [sequence EXCEPT ![Slot(c.pos)] = Plus(c.pos, 1)]
              /\ Goto(t, "push_write", c.pos, c.v)
           \/ /\ Goto(t, "push_seq", tail, c.v)
              /\ UNCHANGED <<tail, pushes, sequence>>
        /\ UNCHANGED <<cap, head, value, single, own>>

\* Reserve the position, or continue from the tail that was found.
PushCas(t) ==
    LET c == call[t]
    IN  /\ pc(t) = "push_cas"
        /\ \/ /\ tail = c.pos /\ pushes < MAX_PUSH
              /\ tail' = Plus(tail, 1)
              /\ pushes' = pushes + 1
              /\ Goto(t, "push_write", c.pos, c.v)
           \/ /\ Goto(t, "push_seq", tail, c.v)
              /\ UNCHANGED <<tail, pushes>>
        /\ UNCHANGED <<cap, head, sequence, value, single, own>>

PushWrite(t) ==
    LET c == call[t]
    IN  /\ pc(t) = "push_write"
        /\ value' = [value EXCEPT ![Slot(c.pos)] = c.v]
        /\ Goto(t, "push_publish", c.pos, NULL)
        /\ UNCHANGED <<cap, head, tail, sequence, single, own, pushes>>

PushPublish(t) ==
    LET c == call[t]
    IN  /\ pc(t) = "push_publish"
        /\ sequence' = [sequence EXCEPT ![Slot(c.pos)] = Plus(c.pos, 1)]
        /\ Return(t)
        /\ UNCHANGED <<cap, head, tail, value, single, own, pushes>>

-----------------------------------------------------------------------------
(* pop()                                                                   *)

\* Capacity one: swap the pointer for null.
PopSingle ==
    /\ cap = 1 /\ single # NULL
    /\ own' = own \cup {single}
    /\ single' = NULL
    /\ UNCHANGED <<cap, head, tail, sequence, value, pushes, call>>

Pop(t) ==
    /\ cap > 1 /\ pc(t) = "idle"
    /\ Goto(t, "pop_seq", head, NULL)
    /\ UNCHANGED <<cap, head, tail, sequence, value, single, own, pushes>>

\* Fault: a reserved slot is taken for a full one.
PopSeqEarly(t) ==
    LET c == call[t]
        diff == Diff(sequence[Slot(c.pos)], Plus(c.pos, 1))
    IN  /\ pc(t) = "pop_seq"
        /\ \/ (diff = 0 \/ (diff = -1 /\ tail # c.pos)) /\ Goto(t, "pop_cas", c.pos, NULL)
           \/ diff < 0 /\ Goto(t, "pop_tail", c.pos, NULL)
           \/ diff > 0 /\ Goto(t, "pop_load", c.pos, NULL)
        /\ UNCHANGED <<cap, head, tail, sequence, value, single, own, pushes>>

PopSeq(t) ==
    LET c == call[t]
        diff == Diff(sequence[Slot(c.pos)], Plus(c.pos, 1))
    IN  /\ pc(t) = "pop_seq"
        /\ \/ diff = 0 /\ Goto(t, "pop_cas", c.pos, NULL)
           \/ diff < 0 /\ Goto(t, "pop_tail", c.pos, NULL)
           \/ diff > 0 /\ Goto(t, "pop_load", c.pos, NULL)
        /\ UNCHANGED <<cap, head, tail, sequence, value, single, own, pushes>>

\* Fault: None is returned without a look at the tail.
PopTailNone(t) ==
    /\ pc(t) = "pop_tail"
    /\ Return(t)
    /\ UNCHANGED <<cap, head, tail, sequence, value, single, own, pushes>>

\* Not yet written: empty if the tail is still here (return None), else a
\* pusher is on its way.
PopTail(t) ==
    /\ pc(t) = "pop_tail"
    /\ IF tail = call[t].pos THEN Return(t) ELSE Goto(t, "pop_load", call[t].pos, NULL)
    /\ UNCHANGED <<cap, head, tail, sequence, value, single, own, pushes>>

PopLoad(t) ==
    /\ pc(t) = "pop_load"
    /\ Goto(t, "pop_seq", head, NULL)
    /\ UNCHANGED <<cap, head, tail, sequence, value, single, own, pushes>>

PopCas(t) ==
    LET c == call[t]
    IN  /\ pc(t) = "pop_cas"
        /\ \/ /\ head = c.pos
              /\ head' = Plus(head, 1)
              /\ Goto(t, "pop_take", c.pos, NULL)
           \/ /\ Goto(t, "pop_seq", head, NULL)
              /\ UNCHANGED head
        /\ UNCHANGED <<cap, tail, sequence, value, single, own, pushes>>

\* Fault: the pointer is read and left in the slot.
PopTakeCopy(t) ==
    LET c == call[t]
    IN  /\ pc(t) = "pop_take"
        /\ Goto(t, "pop_release", c.pos, value[Slot(c.pos)])
        /\ UNCHANGED <<cap, head, tail, value, sequence, single, own, pushes>>

\* ptr::replace(slot.value, null).
PopTake(t) ==
    LET c == call[t]
    IN  /\ pc(t) = "pop_take"
        /\ value' = [value EXCEPT ![Slot(c.pos)] = NULL]
        /\ Goto(t, "pop_release", c.pos, value[Slot(c.pos)])
        /\ UNCHANGED <<cap, head, tail, sequence, single, own, pushes>>

\* Hand the slot to the next lap and the allocation to the caller.
PopRelease(t) ==
    LET c == call[t]
    IN  /\ pc(t) = "pop_release"
        /\ sequence' = [sequence EXCEPT ![Slot(c.pos)] = Plus(c.pos, cap)]
        /\ own' = own \cup {c.v}
        /\ Return(t)
        /\ UNCHANGED <<cap, head, tail, value, single, pushes>>

Next ==
    \/ PopSingle
    \/ \E v \in Values : PushSingle(v)
    \/ \E t \in Threads :
          \/ \E v \in Values : Push(t, v)
          \/ PushSeq(t) \/ PushLoad(t) \/ PushCas(t) \/ PushWrite(t) \/ PushPublish(t)
          \/ Pop(t) \/ PopSeq(t) \/ PopTail(t) \/ PopLoad(t) \/ PopCas(t) \/ PopTake(t) \/ PopRelease(t)

Spec == Init /\ [][Next]_vars

-----------------------------------------------------------------------------
Labels == {"idle", "push_seq", "push_load", "push_cas", "push_write", "push_publish",
           "pop_seq", "pop_tail", "pop_load", "pop_cas", "pop_take", "pop_release"}

TypeOK ==
    /\ cap \in Capacities
    /\ head \in Words /\ tail \in Words
    /\ sequence \in [Slots -> Words]
    /\ value \in [Slots -> Values \cup {NULL}]
    /\ single \in Values \cup {NULL}
    /\ own \subseteq Values
    /\ pushes \in 0..MAX_PUSH
    /\ call \in [Threads -> [pc : Labels, pos : Words, v : Values \cup {NULL}]]

\* slot.value is a plain cell: two threads never have unordered accesses to
\* the same one ahead of them.
NoSlotRace ==
    \A t, u \in Threads :
        /\ t # u
        /\ pc(t) \in {"push_write", "push_publish", "pop_take", "pop_release"}
        /\ pc(u) \in {"push_write", "push_publish", "pop_take", "pop_release"}
        => Slot(call[t].pos) # Slot(call[u].pos)

\* The position at distance i from the head, and the allocation queued there:
\* in its slot, or still with the thread that reserved the position.
Position(i) == Plus(head, i)
Length == (tail - head) % WORD
Queued(pos) ==
    IF \E t \in Threads : pc(t) = "push_write" /\ call[t].pos = pos
    THEN call[CHOOSE t \in Threads : pc(t) = "push_write" /\ call[t].pos = pos].v
    ELSE value[Slot(pos)]
Queue ==
    IF cap = 1
    THEN IF single = NULL THEN <<>> ELSE <<single>>
    ELSE [i \in 1..Length |-> Queued(Position(i - 1))]

\* Drop of Slot frees every pointer left in the ring: between calls those are
\* the queued allocations, each in one slot, and none that a caller owns.
SlotsOwnQueue ==
    (\A t \in Threads : pc(t) = "idle") =>
        /\ {value[i] : i \in Slots} \ {NULL} = Values \ (own \cup {single})
        /\ \A i, j \in Slots : value[i] = value[j] /\ value[i] # NULL => i = j

\* The allocations of callers, those inside calls included: a push that has
\* not reserved, or a pop that has.
Owned ==
    own \cup {call[t].v : t \in {u \in Threads :
                  pc(u) \in {"push_seq", "push_load", "push_cas", "pop_release"}}}
        \cup {value[Slot(call[t].pos)] : t \in {u \in Threads : pc(u) = "pop_take"}}

Fifo == INSTANCE BoundedFifo WITH q <- Queue, own <- Owned

\* push() and pop() implement a bounded first-in first-out queue: no allocation
\* is lost, duplicated or overtaken, whatever the interleaving.  They take
\* effect where tail and head are exchanged.
ImplementsFifo == Fifo!Spec

\* pop() returns None only if the queue is empty when it loads the tail, and
\* push() returns Err only if the queue is full or a pop that already counts as
\* done has not handed its slot back.
FailuresJustified ==
    [][\A t \in Threads :
          /\ pc(t) = "pop_tail" /\ pc(t)' = "idle" => Queue = <<>>
          /\ pc(t) = "push_seq" /\ pc(t)' = "idle" =>
                Length = cap \/ \E u \in Threads : pc(u) \in {"pop_take", "pop_release"}]_vars
=============================================================================
