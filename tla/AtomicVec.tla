----------------------------- MODULE AtomicVec -----------------------------
(***************************************************************************)
(* AtomicVec (atomic/vec.rs): a queue kept in a chain of blocks.  push()   *)
(* claims a slot with a CAS of the tail index and fills it; who claims the *)
(* last slot of a block links the next block first.  pop() claims with a   *)
(* CAS of the head index, waits for the value and reads it; who reads a    *)
(* block's last value retires the block, and retired blocks are recycled   *)
(* while no operation is pinned.  remove(), reverse(), as_vec() and        *)
(* reset_with() run the same push and pop code with exclusive access.      *)
(*                                                                         *)
(* An index counts CAP positions per block, of which the last has no slot. *)
(* Pinning is what Coord implements (OperationPins) and the pool of free   *)
(* blocks what AtomicBuffer implements (BoundedFifo).  A slot's value and  *)
(* its state word are one variable: only the claimant touches the value    *)
(* before the state is WRITE, and only one popper after.                   *)
(***************************************************************************)
EXTENDS Integers, FiniteSets, SequencesExt

CONSTANTS Threads,
          CAP,        \* BLOCK_CAP, 32 in the code: CAP - 1 slots in a block
          RECLAIM,    \* retired blocks between reclamations, 64 in the code
          FORCE,      \* backlog that forces a grace period, 512 in the code
          POOL,       \* capacity of the pool, 512 in the code
          WORD,       \* indices are computed modulo WORD, 2^64 in the code
          Ops,        \* the operations the clients call
          PREFILL,    \* bound: blocks with_capacity() puts in the pool
          NBLOCKS,    \* bound: blocks allocated at a time
          MAXPUSHES,  \* bound: values made in a behaviour
          MAXCALLS,   \* bound: calls made in a behaviour
          MAXARG,     \* bound: largest index or count passed to a call
          None        \* no exclusive operation

VecAssumption ==
    /\ IsFiniteSet(Threads) /\ None \notin Threads
    /\ CAP \in Nat \ {0, 1} /\ RECLAIM \in Nat \ {0} /\ FORCE \in Nat
    /\ PREFILL \in 0..POOL /\ PREFILL < NBLOCKS /\ WORD % CAP = 0

VARIABLES head,     \* [i, has, b]: index, its HAS_NEXT bit, block
          tail,     \* [i, b]
          mem,      \* block -> [next, count, slot]
          alloc,    \* blocks that are allocated
          cache,    \* block_array: entry -> [tag, b]
          pool,     \* free_list
          retired,  \* first block of the retired list
          backlog,  \* retired_count
          pins, excl,
          ins,      \* history: the values in the order their pushes claimed slots
          outs,     \* history: the number of pops that claimed a slot
          ticket,   \* values made so far
          calls,    \* calls made so far
          call      \* thread -> the locals of its operation

vars == <<head, tail, mem, alloc, cache, pool, retired, backlog, pins, excl, ins, outs,
          ticket, calls, call>>
position == <<head, tail>>
blocks == <<mem, alloc, cache, pool, retired, backlog>>
coord == <<pins, excl>>
hist == <<ins, outs>>
budget == <<ticket, calls>>

Coord == INSTANCE OperationPins

Blocks == 1..NBLOCKS
Null == 0
EMPTY == 0   \* a slot that holds no value; as a result, None
READ == -1   \* a slot that has been read
Values == 1..MAXPUSHES

Off(i) == i % CAP
BlockNo(i) == i \div CAP

\* Block::new() and Block::reset()
FreshBlock == [next |-> Null, count |-> 0, slot |-> [o \in 0..(CAP - 2) |-> EMPTY]]

NoTag == -1

\* The entry of block_array for block number k.
Entry(k) == k % CAP

Idle == [pc |-> "idle", op |-> "none", i |-> 0, has |-> FALSE, nh |-> FALSE, b |-> Null,
         n |-> Null, v |-> 0, due |-> 0, todo |-> <<>>, arg |-> 0, before |-> <<>>]

\* The values pushed and not popped, oldest first.
Contents == SubSeq(ins, outs + 1, Len(ins))

pc(t) == call[t].pc
Put(t, r) == call' = [call EXCEPT ![t] = [f \in DOMAIN @ |-> IF f \in DOMAIN r THEN r[f] ELSE @[f]]]
Goto(t, label) == Put(t, [pc |-> label])
Return(t) == call' = [call EXCEPT ![t] = Idle]

\* new() and with_capacity()
Init ==
    /\ head = [i |-> 0, has |-> FALSE, b |-> 1] /\ tail = [i |-> 0, b |-> 1]
    /\ mem = [b \in Blocks |-> FreshBlock]
    /\ cache = [k \in 0..(CAP - 1) |-> IF k = 0 THEN [tag |-> 0, b |-> 1]
                                     ELSE [tag |-> NoTag, b |-> Null]]
    /\ \E k \in 0..PREFILL :
         alloc = 1..(k + 1) /\ pool = [j \in 1..k |-> j + 1]
    /\ retired = Null /\ backlog = 0
    /\ Coord!Init
    /\ ins = <<>> /\ outs = 0 /\ ticket = 0 /\ calls = 0
    /\ call = [t \in Threads |-> Idle]

Begin(t, op) == pc(t) = "idle" /\ op \in Ops /\ calls < MAXCALLS /\ calls' = calls + 1

-----------------------------------------------------------------------------
(* push(), push_internal()                                                 *)

Push(t) ==
    /\ Begin(t, "push") /\ ticket < MAXPUSHES
    /\ Coord!Pin(t)
    /\ ticket' = ticket + 1
    /\ Put(t, [pc |-> "p_index", op |-> "push", v |-> ticket'])
    /\ UNCHANGED <<position, blocks, hist>>

PushIndex(t) ==
    /\ pc(t) = "p_index"
    /\ Put(t, [pc |-> "p_block", i |-> tail.i])
    /\ UNCHANGED <<position, blocks, coord, hist, budget>>

\* The block is loaded after the index; a full block's last position means
\* that the next block is being linked.
PushBlock(t) ==
    /\ pc(t) = "p_block"
    /\ Put(t, [pc |-> IF Off(call[t].i) = CAP - 1 THEN "p_index" ELSE "p_cas", b |-> tail.b])
    /\ UNCHANGED <<position, blocks, coord, hist, budget>>

PushCasOk(t) ==
    /\ pc(t) = "p_cas" /\ tail.i = call[t].i
    /\ tail' = [tail EXCEPT !.i = @ + 1]
    /\ ins' = Append(ins, call[t].v)
    /\ Goto(t, IF Off(call[t].i) + 1 = CAP - 1 THEN "p_acquire" ELSE "p_write")
    /\ UNCHANGED <<head, blocks, coord, outs, budget>>

PushCasFailed(t) ==
    /\ pc(t) = "p_cas" /\ tail.i # call[t].i
    /\ Put(t, [pc |-> "p_block", i |-> tail.i])
    /\ UNCHANGED <<position, blocks, coord, hist, budget>>

\* acquire_block(): a recycled block or a new one.
AcquireBlock(t) ==
    /\ pc(t) = "p_acquire"
    /\ IF pool # <<>>
       THEN /\ Put(t, [pc |-> "p_next", n |-> Head(pool)])
            /\ pool' = Tail(pool) /\ UNCHANGED <<mem, alloc>>
       ELSE /\ alloc # Blocks
            /\ LET new == CHOOSE b \in Blocks \ alloc : TRUE IN
               /\ Put(t, [pc |-> "p_next", n |-> new])
               /\ alloc' = alloc \cup {new}
               /\ mem' = [mem EXCEPT ![new] = FreshBlock]
            /\ UNCHANGED pool
    /\ UNCHANGED <<position, cache, retired, backlog, coord, hist, budget>>

\* Fault: block_array remembers the new block under the old block's number.
CacheBlockEarly(k, b) == cache' = [cache EXCEPT ![Entry(k - 1)] = [tag |-> k - 1, b |-> b]]

\* block_array.set(k, b)
CacheBlock(k, b) == cache' = [cache EXCEPT ![Entry(k)] = [tag |-> k, b |-> b]]

LinkNext(t) ==
    /\ pc(t) = "p_next"
    /\ mem' = [mem EXCEPT ![call[t].b].next = call[t].n]
    /\ CacheBlock(BlockNo(call[t].i) + 1, call[t].n)
    /\ Goto(t, "p_tblock")
    /\ UNCHANGED <<position, alloc, pool, retired, backlog, coord, hist, budget>>

LinkTailBlock(t) ==
    /\ pc(t) = "p_tblock"
    /\ tail' = [tail EXCEPT !.b = call[t].n]
    /\ Goto(t, "p_tindex")
    /\ UNCHANGED <<head, blocks, coord, hist, budget>>

LinkTailIndex(t) ==
    /\ pc(t) = "p_tindex"
    /\ tail' = [tail EXCEPT !.i = call[t].i + 2]
    /\ Goto(t, "p_write")
    /\ UNCHANGED <<head, blocks, coord, hist, budget>>

WriteSlot(t) ==
    /\ pc(t) = "p_write"
    /\ mem' = [mem EXCEPT ![call[t].b].slot[Off(call[t].i)] = call[t].v]
    /\ Goto(t, "pushed")
    /\ UNCHANGED <<position, alloc, cache, pool, retired, backlog, coord, hist, budget>>

PushReturn(t) ==
    /\ pc(t) = "pushed" /\ call[t].op = "push"
    /\ Coord!Unpin(t)
    /\ Return(t)
    /\ UNCHANGED <<position, blocks, hist, budget>>

-----------------------------------------------------------------------------
(* pop(), pop_raw()                                                        *)

Pop(t) ==
    /\ Begin(t, "pop")
    /\ Coord!Pin(t)
    /\ Put(t, [pc |-> "q_index", op |-> "pop"])
    /\ UNCHANGED <<position, blocks, hist, ticket>>

PopIndex(t) ==
    /\ pc(t) = "q_index"
    /\ Put(t, [pc |-> "q_block", i |-> head.i, has |-> head.has])
    /\ UNCHANGED <<position, blocks, coord, hist, budget>>

PopBlock(t) ==
    /\ pc(t) = "q_block"
    /\ Put(t, [pc |-> IF Off(call[t].i) = CAP - 1 \/ head.b = Null THEN "q_index"
                      ELSE IF call[t].has THEN "q_cas" ELSE "q_tail",
               b |-> head.b, nh |-> call[t].has])
    /\ UNCHANGED <<position, blocks, coord, hist, budget>>

\* Fault: "empty" is told from the blocks, before the tail index is looked at.
SeesEmptyByBlock(t) == tail.b = call[t].b /\ tail.i <= call[t].i + 1

SeesEmpty(t) == tail.i = call[t].i

\* Without HAS_NEXT the tail tells whether there is a value to claim, and
\* whether the tail has left this block.  `due' numbers the pop.
PopTail(t) ==
    /\ pc(t) = "q_tail"
    /\ IF SeesEmpty(t)
       THEN Put(t, [pc |-> "popped", v |-> EMPTY, due |-> IF Contents = <<>> THEN 0 ELSE outs + 1])
       ELSE Put(t, [pc |-> "q_cas", nh |-> BlockNo(call[t].i) # BlockNo(tail.i)])
    /\ UNCHANGED <<position, blocks, coord, hist, budget>>

PopCasOk(t) ==
    /\ pc(t) = "q_cas" /\ head.i = call[t].i /\ head.has = call[t].has
    /\ head' = [head EXCEPT !.i = @ + 1, !.has = call[t].nh]
    /\ outs' = outs + 1
    /\ Put(t, [pc |-> IF Off(call[t].i) + 1 = CAP - 1 THEN "q_next" ELSE "q_read",
               due |-> outs'])
    /\ UNCHANGED <<tail, blocks, coord, ins, budget>>

PopCasFailed(t) ==
    /\ pc(t) = "q_cas" /\ ~(head.i = call[t].i /\ head.has = call[t].has)
    /\ Put(t, [pc |-> "q_block", i |-> head.i, has |-> head.has])
    /\ UNCHANGED <<position, blocks, coord, hist, budget>>

\* wait_next()
WaitNext(t) ==
    /\ pc(t) = "q_next" /\ mem[call[t].b].next # Null
    /\ Put(t, [pc |-> "q_nextnext", n |-> mem[call[t].b].next])
    /\ UNCHANGED <<position, blocks, coord, hist, budget>>

GetNext(t) ==
    /\ pc(t) = "q_nextnext"
    /\ Put(t, [pc |-> "q_hblock", nh |-> mem[call[t].n].next # Null])
    /\ UNCHANGED <<position, blocks, coord, hist, budget>>

MoveHeadBlock(t) ==
    /\ pc(t) = "q_hblock"
    /\ head' = [head EXCEPT !.b = call[t].n]
    /\ Goto(t, "q_hindex")
    /\ UNCHANGED <<tail, blocks, coord, hist, budget>>

MoveHeadIndex(t) ==
    /\ pc(t) = "q_hindex"
    /\ head' = [head EXCEPT !.i = call[t].i + 2, !.has = call[t].nh]
    /\ Goto(t, "q_read")
    /\ UNCHANGED <<tail, blocks, coord, hist, budget>>

\* wait_write_raw(): WRITE is replaced by READ, so a read slot waits forever.
Written(s) == s \notin {EMPTY, READ}

ReadSlot(t) ==
    /\ pc(t) = "q_read"
    /\ LET s == mem[call[t].b].slot[Off(call[t].i)] IN
       /\ Written(s)
       /\ mem' = [mem EXCEPT ![call[t].b].slot[Off(call[t].i)] = READ]
       /\ Put(t, [pc |-> "q_count", v |-> s])
    /\ UNCHANGED <<position, alloc, cache, pool, retired, backlog, coord, hist, budget>>

\* Fault: the popper of the last slot retires the block, read or not.
AllReadByLast(t) == Off(call[t].i) + 1 = CAP - 1

\* Fault: one reader too many is waited for.
AllReadNever(t) == mem[call[t].b].count + 1 = CAP

\* The reader that completes the count retires the block.
AllRead(t) == mem[call[t].b].count + 1 = CAP - 1

CountRead(t) ==
    /\ pc(t) = "q_count"
    /\ mem' = [mem EXCEPT ![call[t].b].count = @ + 1]
    /\ Put(t, [pc |-> IF AllRead(t) THEN "q_retire" ELSE "popped", nh |-> FALSE])
    /\ UNCHANGED <<position, alloc, cache, pool, retired, backlog, coord, hist, budget>>

\* retire(): the loop ends with the CAS that sees the list it linked to.
Retire(t) ==
    /\ pc(t) = "q_retire"
    /\ mem' = [mem EXCEPT ![call[t].b].next = retired]
    /\ retired' = call[t].b
    /\ Goto(t, "q_backlog")
    /\ UNCHANGED <<position, alloc, cache, pool, backlog, coord, hist, budget>>

\* Fault: slots are counted, not blocks.
CountRetiredSlots(t) ==
    /\ pc(t) = "q_backlog"
    /\ backlog' = backlog + CAP
    /\ Put(t, [pc |-> "popped", nh |-> backlog' % RECLAIM = 0])
    /\ UNCHANGED <<position, mem, alloc, cache, pool, retired, coord, hist, budget>>

\* pop_raw() asks for a reclamation every RECLAIM blocks; nh says so.
CountRetired(t) ==
    /\ pc(t) = "q_backlog"
    /\ backlog' = backlog + 1
    /\ Put(t, [pc |-> "popped", nh |-> backlog' % RECLAIM = 0])
    /\ UNCHANGED <<position, mem, alloc, cache, pool, retired, coord, hist, budget>>

\* The pin is dropped before the reclamation, which may need exclusive access.
PopReturn(t) ==
    /\ pc(t) = "popped" /\ call[t].op = "pop"
    /\ Coord!Unpin(t)
    /\ IF call[t].nh THEN call' = [call EXCEPT ![t] = [Idle EXCEPT !.pc = "r_load", !.op = "pop"]]
                     ELSE Return(t)
    /\ UNCHANGED <<position, blocks, hist, budget>>

-----------------------------------------------------------------------------
(* Reclamation                                                             *)

RECURSIVE Chain(_)

\* The blocks reached from b through next.
Chain(b) == IF b = Null THEN <<>> ELSE <<b>> \o Chain(mem[b].next)

\* reclaim_retired(): what the pool has no room for is deallocated.
Kept == SubSeq(Chain(retired), 1, IF Len(Chain(retired)) <= POOL - Len(pool)
                                  THEN Len(Chain(retired)) ELSE POOL - Len(pool))

Wiped == [b \in Blocks |-> IF b \in ToSet(Chain(retired)) THEN FreshBlock ELSE mem[b]]

ReclaimRetired ==
    /\ pool' = pool \o Kept
    /\ alloc' = alloc \ (ToSet(Chain(retired)) \ ToSet(Kept))
    /\ retired' = Null /\ backlog' = 0

\* A long backlog is worth waiting for exclusive access.
Forced == backlog >= FORCE

\* try_reclaim()
LoadBacklog(t) ==
    /\ pc(t) = "r_load"
    /\ IF backlog = 0 THEN Return(t)
       ELSE Goto(t, IF Forced THEN "r_force" ELSE "r_try")
    /\ UNCHANGED <<position, blocks, coord, hist, budget>>

GracePeriod(t) ==
    /\ pc(t) \in {"r_force", "r_try"}
    /\ Coord!Seize(t)
    /\ Goto(t, "r_do")
    /\ UNCHANGED <<position, blocks, hist, budget>>

\* try_exclusive() fails while an operation runs or comes and goes.
NoGracePeriod(t) ==
    /\ pc(t) = "r_try"
    /\ Return(t)
    /\ UNCHANGED <<position, blocks, coord, hist, budget>>

TryReclaim(t) ==
    /\ pc(t) = "r_do"
    /\ ReclaimRetired /\ mem' = Wiped
    /\ Coord!Yield(t)
    /\ Return(t)
    /\ UNCHANGED <<position, cache, hist, budget>>

-----------------------------------------------------------------------------
(* len(), capacity() (not pinned) and the operations with exclusive access *)

\* calc_len(): Off(i) <= CAP - 1, so the code's min() is the identity.
CalcLen(start, end) ==
    IF end <= start THEN 0
    ELSE BlockNo(end) * (CAP - 1) + Off(end) - (BlockNo(start) * (CAP - 1) + Off(start))

CapacityOf(start, end) ==
    LET d == (end - start) % WORD IN ((d - (d % CAP)) + CAP) % WORD

\* len() and capacity() load the head index first.
Measure(t, op) ==
    /\ Begin(t, op)
    /\ Put(t, [pc |-> "m_tail", op |-> op, i |-> head.i])
    /\ UNCHANGED <<position, blocks, coord, hist, ticket>>

MeasureTail(t) ==
    /\ pc(t) = "m_tail"
    /\ Put(t, [pc |-> "m_done", v |-> IF call[t].op = "len" THEN CalcLen(call[t].i, tail.i)
                                     ELSE CapacityOf(call[t].i, tail.i)])
    /\ UNCHANGED <<position, blocks, coord, hist, budget>>

MeasureReturn(t) ==
    /\ pc(t) = "m_done"
    /\ Return(t)
    /\ UNCHANGED <<position, blocks, coord, hist, budget>>

Bulk == {"remove", "reverse", "as_vec", "reset"}

\* wait_exclusive(), then pop everything.  remove() looks at the index first.
BeginBulk(t, op, a) ==
    /\ Begin(t, op) /\ Coord!Seize(t)
    /\ Put(t, [pc |-> IF op = "remove" /\ a >= CalcLen(head.i, tail.i) THEN "x_done" ELSE "q_index",
               op |-> op, arg |-> a, before |-> Contents])
    /\ UNCHANGED <<position, blocks, hist, ticket>>

Collect(t) ==
    /\ pc(t) = "popped" /\ call[t].op \in Bulk /\ call[t].v # EMPTY
    /\ Put(t, [pc |-> "q_index", todo |-> Append(call[t].todo, call[t].v)])
    /\ UNCHANGED <<position, blocks, coord, hist, budget>>

Reversed(values) == Reverse(values)

\* remove_inner() and reverse_inner() push the values back.
Emptied(t) ==
    /\ pc(t) = "popped" /\ call[t].op \in {"remove", "reverse"} /\ call[t].v = EMPTY
    /\ LET values == call[t].todo
           a == call[t].arg IN
       Put(t, [pc |-> "x_push",
               due |-> IF a < Len(values) THEN values[a + 1] ELSE EMPTY,
               todo |-> IF call[t].op = "reverse" THEN Reversed(values)
                        ELSE IF a < Len(values) THEN RemoveAt(values, a + 1) ELSE values])
    /\ UNCHANGED <<position, blocks, coord, hist, budget>>

AsVec(t) ==
    /\ pc(t) = "popped" /\ call[t].op = "as_vec" /\ call[t].v = EMPTY
    /\ ReclaimRetired /\ mem' = Wiped
    /\ Goto(t, "x_done")
    /\ UNCHANGED <<position, cache, coord, hist, budget>>

\* reset_with(): the values are dropped, then the head index restarts.
ResetHead(t) ==
    /\ pc(t) = "popped" /\ call[t].op = "reset" /\ call[t].v = EMPTY
    /\ ReclaimRetired /\ mem' = Wiped
    /\ head' = [head EXCEPT !.i = 0, !.has = FALSE]
    /\ ins' = <<>> /\ outs' = 0
    /\ Put(t, [pc |-> "x_reset", todo |-> <<>>])
    /\ UNCHANGED <<tail, cache, coord, budget>>

\* block_array.set(i, null) for all i, then set(0, head.block)
CacheCleared == cache' = [k \in 0..(CAP - 1) |-> [tag |-> k, b |-> IF k = 0 THEN head.b ELSE Null]]

ResetTail(t) ==
    /\ pc(t) = "x_reset"
    /\ tail' = [i |-> 0, b |-> head.b]
    /\ mem' = [mem EXCEPT ![head.b] = FreshBlock]
    /\ CacheCleared
    /\ Goto(t, "x_push")
    /\ UNCHANGED <<head, alloc, pool, retired, backlog, coord, hist, budget>>

\* The next value to push: one taken out before, or the next result of init().
PushBack(t) ==
    /\ pc(t) \in {"x_push", "pushed"} /\ call[t].op \in {"remove", "reverse"}
    /\ call[t].todo # <<>>
    /\ Put(t, [pc |-> "p_index", v |-> Head(call[t].todo), todo |-> Tail(call[t].todo)])
    /\ UNCHANGED <<position, blocks, coord, hist, budget>>

PushInit(t) ==
    /\ pc(t) \in {"x_push", "pushed"} /\ call[t].op = "reset"
    /\ call[t].arg > 0 /\ ticket < MAXPUSHES
    /\ ticket' = ticket + 1
    /\ Put(t, [pc |-> "p_index", v |-> ticket', arg |-> call[t].arg - 1])
    /\ UNCHANGED <<position, blocks, coord, hist, calls>>

\* Nothing is left to push; or init() panics and the guard is dropped.
BulkDone(t) ==
    /\ pc(t) \in {"x_push", "pushed"} /\ call[t].op \in Bulk
    /\ call[t].todo = <<>>
    /\ Goto(t, "x_done")
    /\ UNCHANGED <<position, blocks, coord, hist, budget>>

BulkReturn(t) ==
    /\ pc(t) = "x_done"
    /\ Coord!Yield(t)
    /\ Return(t)
    /\ UNCHANGED <<position, blocks, hist, budget>>

-----------------------------------------------------------------------------
(* The operations that read in place, each under exclusive access          *)

RECURSIVE SlotsFrom(_, _, _)

\* The loop of the traversals: the slots from offset o of block b, whose
\* positions begin at `start', up to the tail index.
SlotsFrom(b, start, o) ==
    IF start >= tail.i \/ b = Null THEN <<>>
    ELSE LET end == IF start + CAP - 1 < tail.i THEN start + CAP - 1 ELSE tail.i IN
         [k \in 1..(end - start - o) |-> mem[b].slot[o + k - 1]]
           \o SlotsFrom(mem[b].next, start + CAP, 0)

Slots == SlotsFrom(head.b, head.i - Off(head.i), Off(head.i))

ForEach == SelectSeq(Slots, Written)

\* index_of(): a logical index, or -1 for None; it counts every slot.
IndexOf(v) == IF v \in ToSet(Slots) THEN SelectInSeq(Slots, LAMBDA s : s = v) - 1 ELSE -1

FirstIn(seq, predicate) ==
    LET hits == SelectSeq(seq, LAMBDA v : v \in predicate)
    IN  IF hits = <<>> THEN EMPTY ELSE Head(hits)

\* A closure is the set of the values it holds of, or a function of its arguments.
Find(predicate) == FirstIn(ForEach, predicate)

Fold(f, init) == FoldLeft(LAMBDA a, v : f[a, v], init, ForEach)

Reduce(f) ==
    IF head.i >= tail.i \/ ForEach = <<>> THEN EMPTY
    ELSE FoldLeft(LAMBDA a, v : f[a, v], Head(ForEach), Tail(ForEach))

\* block_array.get(k)
Cached(k) == IF cache[Entry(k)].tag = k THEN cache[Entry(k)].b ELSE Null

\* get_block_at(): the remembered block, else a walk from the head's block.
GetBlockAt(k) ==
    LET hops == k - BlockNo(head.i)
        chain == Chain(head.b) IN
    IF Cached(k) # Null THEN Cached(k)
    ELSE IF hops < Len(chain) THEN chain[hops + 1] ELSE Null

\* get_slot_ptr(): block and offset of a logical index.
GetSlot(index) ==
    LET logical == Off(head.i) + index IN
    [b |-> GetBlockAt(BlockNo(head.i) + logical \div (CAP - 1)), o |-> logical % (CAP - 1)]

SlotValue(p) == IF p.b = Null THEN EMPTY ELSE mem[p.b].slot[p.o]

Get(index) ==
    IF index >= CalcLen(head.i, tail.i) \/ ~Written(SlotValue(GetSlot(index))) THEN EMPTY
    ELSE SlotValue(GetSlot(index))

\* swap(): false, and no effect, when an index is out of range.
Swap(t, i, j) ==
    /\ Begin(t, "swap") /\ i # j
    /\ pins = {} /\ excl = None
    /\ LET len == CalcLen(head.i, tail.i)
           a == GetSlot(i)
           b == GetSlot(j) IN
       IF i >= len \/ j >= len \/ a.b = Null \/ b.b = Null THEN UNCHANGED <<mem, ins>>
       ELSE /\ mem' = [mem EXCEPT ![a.b].slot[a.o] = SlotValue(b), ![b.b].slot[b.o] = SlotValue(a)]
            /\ ins' = [ins EXCEPT ![outs + i + 1] = ins[outs + j + 1], ![outs + j + 1] = ins[outs + i + 1]]
    /\ UNCHANGED <<position, alloc, cache, pool, retired, backlog, coord, outs, ticket, call>>

\* drop of the last handle: every block goes back to the allocator.
Dropped == Chain(head.b) \o pool \o Chain(retired)

-----------------------------------------------------------------------------
Step(t) ==
    \/ PushIndex(t) \/ PushBlock(t) \/ PushCasOk(t) \/ PushCasFailed(t)
    \/ AcquireBlock(t) \/ LinkNext(t) \/ LinkTailBlock(t) \/ LinkTailIndex(t)
    \/ WriteSlot(t) \/ PushReturn(t)
    \/ PopIndex(t) \/ PopBlock(t) \/ PopTail(t) \/ PopCasOk(t) \/ PopCasFailed(t)
    \/ WaitNext(t) \/ GetNext(t) \/ MoveHeadBlock(t) \/ MoveHeadIndex(t)
    \/ ReadSlot(t) \/ CountRead(t) \/ Retire(t) \/ CountRetired(t) \/ PopReturn(t)
    \/ LoadBacklog(t) \/ GracePeriod(t) \/ NoGracePeriod(t) \/ TryReclaim(t)
    \/ MeasureTail(t) \/ MeasureReturn(t)
    \/ Collect(t) \/ Emptied(t) \/ AsVec(t) \/ ResetHead(t) \/ ResetTail(t)
    \/ PushBack(t) \/ PushInit(t) \/ BulkDone(t) \/ BulkReturn(t)

\* compare_exchange_weak may fail for no reason.
WeakFailure(t) ==
    /\ pc(t) \in {"p_cas", "q_cas"}
    /\ Goto(t, IF pc(t) = "p_cas" THEN "p_block" ELSE "q_block")
    /\ UNCHANGED <<position, blocks, coord, hist, budget>>

Next ==
    \E t \in Threads :
        \/ Push(t) \/ Pop(t) \/ Measure(t, "len") \/ Measure(t, "capacity")
        \/ BeginBulk(t, "reverse", 0) \/ BeginBulk(t, "as_vec", 0)
        \/ \E a \in 0..MAXARG : BeginBulk(t, "remove", a) \/ BeginBulk(t, "reset", a)
        \/ \E i, j \in 0..MAXARG : Swap(t, i, j)
        \/ Step(t) \/ WeakFailure(t)

Spec == Init /\ [][Next]_vars

-----------------------------------------------------------------------------
Labels == {"idle", "p_index", "p_block", "p_cas", "p_acquire", "p_next", "p_tblock", "p_tindex",
           "p_write", "pushed", "q_index", "q_block", "q_tail", "q_cas", "q_next", "q_nextnext",
           "q_hblock", "q_hindex", "q_read", "q_count", "q_retire", "q_backlog", "popped",
           "r_load", "r_force", "r_try", "r_do", "m_tail", "m_done", "x_reset", "x_push", "x_done"}

TypeOK ==
    /\ head.i \in Nat /\ head.has \in BOOLEAN /\ head.b \in alloc
    /\ tail.i \in Nat /\ tail.b \in alloc
    /\ alloc \subseteq Blocks /\ retired \in alloc \cup {Null}
    /\ \A b \in Blocks : /\ mem[b].next \in alloc \cup {Null} /\ mem[b].count \in 0..(CAP - 1)
                         /\ mem[b].slot \in [0..(CAP - 2) -> Values \cup {EMPTY, READ}]
    /\ pool \in Seq(alloc) /\ Len(pool) <= POOL /\ backlog \in Nat
    /\ pins \subseteq Threads /\ excl \in Threads \cup {None}
    /\ \A t \in Threads : pc(t) \in Labels

\* The k-th pop to claim a slot returns the value of the k-th push to claim
\* one, and a pop returns None only when no value is there, whatever runs
\* beside it (pop_raw(); the bulk operations rely on it too).
PopsInOrder ==
    \A t \in Threads : pc(t) = "popped" =>
        call[t].v = IF call[t].due = 0 THEN EMPTY ELSE ins[call[t].due]

\* test/atomic/vec.rs:110 asserts that pop() of an empty vector is None: a pop
\* never claims a slot that no push has claimed, to wait for a value there.
EmptyPopIsNone == outs <= Len(ins)

\* Blocks whose address a thread is about to use.
Held(t) ==
    (IF pc(t) \in {"p_acquire", "p_next", "p_tblock", "p_tindex", "p_write", "q_next", "q_nextnext",
                   "q_hblock", "q_hindex", "q_read", "q_count", "q_retire"} THEN {call[t].b} ELSE {})
    \cup (IF pc(t) \in {"p_next", "p_tblock", "p_tindex", "q_nextnext", "q_hblock"}
          THEN {call[t].n} ELSE {})

\* A block is retired when its last user is done with it: no operation uses a
\* block that is retired, in the pool or deallocated, not even the late reader
\* of an early slot or the push that linked the next block (vec.rs:978).
NoRetiredAccess ==
    \A t \in Threads : Held(t) \subseteq alloc \ (ToSet(pool) \cup ToSet(Chain(retired)))

\* Every allocated block is in one place: in the chain of the vector, in the
\* pool, in the retired list, or only in the hands of an operation; drop frees
\* each block once.  Retired blocks hold no value that dealloc_empty() leaks.
BlocksOwnedOnce ==
    /\ Cardinality(ToSet(Dropped)) = Len(Dropped)
    /\ alloc \ ToSet(Dropped) \subseteq UNION {Held(t) : t \in Threads}
    /\ \A b \in ToSet(Chain(retired)) : \A o \in 0..(CAP - 2) : mem[b].slot[o] = READ

Quiet == pins = {} /\ excl = None

\* With exclusive access, all the ways to look at the vector agree with the
\* values pushed and not popped, in order: the traversals, the logical indices
\* that get(), swap() and index_of() use (also through block_array, which may
\* remember blocks recycled since), and len().
QuietContents ==
    Quiet =>
        LET q == Contents IN
        /\ ForEach = q
        /\ Fold([a \in Seq(Values), v \in Values |-> Append(a, v)], <<>>) = q
        /\ Reduce([a, v \in Values |-> v]) = IF q = <<>> THEN EMPTY ELSE Last(q)
        /\ CalcLen(head.i, tail.i) = Len(q)
        /\ \A k \in 0..Len(q) : Get(k) = IF k < Len(q) THEN q[k + 1] ELSE EMPTY
        /\ \A v \in Values :
             /\ v \notin ToSet(q) => IndexOf(v) = -1
             /\ v \in ToSet(q) => q[IndexOf(v) + 1] = v
             /\ LET later == {s \in Values : s >= v} IN Find(later) = FirstIn(q, later)

\* remove(), reverse(), as_vec() and reset_with() do what their names say,
\* although they take the vector apart and rebuild it; a panic of init() leaves
\* the values made so far.
BulkExact ==
    \A t \in Threads : pc(t) = "x_done" =>
        LET before == call[t].before
            a == call[t].arg
            q == Contents IN
        CASE call[t].op = "reverse" -> q = Reverse(before)
          [] call[t].op = "as_vec" -> q = <<>> /\ call[t].todo = before
          [] call[t].op = "remove" -> IF a < Len(before)
                                      THEN q = RemoveAt(before, a + 1) /\ call[t].due = before[a + 1]
                                      ELSE q = before
          [] call[t].op = "reset" -> \A k \in DOMAIN q : q[k] = ticket - Len(q) + k

\* vec.rs:320, "Force a grace period at a bounded backlog, even under
\* continuous load": every popper that finds a long backlog waits for the
\* grace period, so the backlog outgrows the limit by a batch per other thread
\* at most.
BacklogBounded == backlog <= FORCE + RECLAIM * (Cardinality(Threads) - 1)

\* len() is not pinned: reset_with() may restart the indices between its two
\* loads.  The subtraction of calc_len() never underflows.
LenNoUnderflow ==
    \A t \in Threads : pc(t) = "m_done" /\ call[t].op = "len" => call[t].v >= 0

\* Nobody is left in a call: no operation waits forever for a slot, for the
\* next block, for a position to move on, or for exclusive access.
Settled == \A t \in Threads : pc(t) = "idle"
=============================================================================
