# A TLA+ model of crossync

crossync is a Rust crate of concurrent containers (`AtomicVec`, `AtomicArray`,
`AtomicHashMap`, `AtomicBuffer`, `Atomic`, `AtomicCell`), a channel (`Mpmc`) and
the locks they stand on.  The project models the crate bottom up: first the locks
and the coordinator, which all the containers trust, then the containers over
their abstract specifications.  Every definition is translated from the Rust
source; `PROJECT.json` maps each one to its lines.

## Conventions

* **Step.** An action is one access to shared memory plus the local computation
  up to the next one.  Interleavings are sequentially consistent.  Weaker orders
  (`Relaxed`, `Acquire`, `Release`) are not modelled: a claim below says the
  protocol is right, not that its memory orders are.
* **Local state.** `call[t]` holds a thread's program counter and the values it
  read earlier, so "read, then act on it later" is explicit.
* **Packed words** are records, one field per bit field.  A word is always read
  and written whole, as in the code.  The width of a count is a constant, set
  small so that it saturates.
* **Weak exchanges** may fail with the word unchanged.
* **Backoff** is only delay: a thread may wait any time before its next step.
* **Futex.** `Futex.tla` keeps, per thread, whether the word was bumped since the
  thread read it (`fresh`) and who sleeps (`asleep`).  This is exact unless a
  32-bit word is bumped 2^32 times between a read and its wait.  A sleep may end
  without a wake.
* **Panics** end the call: the thread is idle again with what it held.
* **Faults.** An operator under a comment starting with "Fault" is a plausible
  bug.  No specification uses it.  `PROJECT.json` pairs each property with a
  fault that breaks it.

## The system

| Part | Source (under `src/src/`) | State | Operations | What makes it hard |
|---|---|---|---|---|
| Futex | `core/futex/` | word, sleepers | wait, wake one, wake all | compare-and-sleep against bump-and-wake |
| SerialMutex | `core/serial.rs` | owner, count, WRITE, WAIT in one word; futex | read/write guard, try_write, drop | reentrance, guards dropped by other threads, lost wakeups, saturation |
| RawMutex | `core/mutex.rs` | holders and two parked flags; two futexes; reference count | try/lock/unlock exclusive and shared, bulk release, downgrade | stale flags, lost wakeups, count against writer pattern |
| Coord | `core/coord.rs` | lane counts and owners, intent flag, writer lock | shared, exclusive, try_exclusive | store/load handshake, plain stores on owned lanes, oversubscription |
| AtomicBuffer | `atomic/buffer.rs` | ring, sequences, head, tail | push, pop, drain | reservation before publication, wrap, spurious full/empty |
| SMutex | `core/smutex.rs` | lock word, owner, recursion | lock, lock_group, unlock | wake-one with two kinds of waiter on one word |
| SCondVar, Mpmc | `core/scondvar.rs`, `channels/mpmc.rs` | tokens, waiters, futex; queue, mutex, closed flag | wait, notify; send, recv, try_recv, close | stolen tokens, message queued while every receiver sleeps |
| Barrier | `sync/barrier.rs` | remaining, generation, bucket | wait, release | phases overlapping, release during arrival |
| ThreadParker | `core/thread.rs` | token futex | park, unpark | token added before the wait, one sleeper woken |
| SpinCell | `lock_free/splcell.rs` | word as RawMutex, no futex | lock/unlock exclusive and shared, bulk release | reader count near the writer pattern, stale flags |
| RwLock, guards | `sync/` | RawMutex and a value; guards naming a lock | lock, try_lock, downcast, drop | order of unlock and release of the storage |
| AtomicVec | `atomic/vec.rs` | blocks, head, tail, retired list, pool, block cache | push, pop, get, swap, remove, reverse, reset, iteration | block hand-over, retirement while poppers hold addresses |
| AtomicArray | `atomic/array.rs` | slots, tail, len, RawMutex | push, get, get_mut, for_each, reset | length ahead of contents, reset against live guards |
| AtomicHashMap | `atomic/hashmap.rs` | shards of bucket chains with locks and counts | insert, get, remove, clear, as_vec | clear against held guards, partial detach |
| Atomic, AtomicCell | `atomic/atomic.rs`, `atomic/cell.rs` | a value and its lock | load, store, update, guards, into_inner | user code under the lock, guard lifetime against last drop |
| Reference counts | `core/mod.rs`, every handle | count | clone, drop | overflow, last drop |

AtomicVec pins its operations with Coord, keeps its block pool in an AtomicBuffer,
and Coord's writers exclude each other with a SerialMutex.  AtomicArray and
AtomicHashMap put a RawMutex (directly, or through RwLock) around slots or buckets
that each have a SerialMutex.  Mpmc is a queue under an SMutex with an SCondVar.
A module that uses a component uses its promise: AtomicVec has a variable of pins
that moves as `OperationPins` says, the containers hold `SerialLock` locks.

## Modules

| Module | Models |
|---|---|
| `Futex` | the futex word and its queue |
| `SerialLock` | what SerialMutex promises: a writer is alone, read aliases belong to one thread |
| `SerialMutex` | `core/serial.rs`, every operation |
| `RawMutex` | `core/mutex.rs`, every locking operation |
| `Coord` | `core/coord.rs`, with the writer lock as an abstract lock |
| `BoundedFifo` | what AtomicBuffer promises: a bounded queue of owned allocations |
| `AtomicBuffer` | `atomic/buffer.rs`, push and pop, ring and single slot |
| `OperationPins` | what Coord promises AtomicVec: while a writer is exclusive nobody is pinned |
| `SMutex` | `core/smutex.rs`, every operation |
| `Mpmc` | `channels/mpmc.rs` over `core/scondvar.rs`, the mutex as an abstract lock |
| `ThreadParker`, `Barrier`, `SpinCell` | the file of that name, every operation |
| `AtomicVec` | `atomic/vec.rs`, with Coord as pins and the pool as a bounded sequence |
| `AtomicArray` | `atomic/array.rs` and its guards, slot locks as `SerialLock` |
| `PinnedMap` | what AtomicHashMap promises: a dictionary whose guarded entries stay |
| `AtomicHashMap` | `atomic/hashmap.rs` and its guards, bucket locks as `SerialLock` |
| `Atomic` | `atomic/atomic.rs`, with user code that calls back and panics |
| `Handles` | clone, drop and free of a reference-counted handle, as all containers do it |
| `RwLock`, `AtomicCell` | `sync/rw_lock.rs` and `atomic/cell.rs` over `Handles`, with their guards |
| `*Proofs` | the theorems about the module of that name; `PrimitivesProofs` about `MCPrimitives` |
| `MCSerialMutex`, `MCRawMutex`, `MCCoord`, `MCAtomicBuffer` | the component with its symmetry, for TLC |
| `MCLocks` | SerialMutex, RawMutex and Coord side by side, for liveness |
| `MCPrimitives` | SMutex, Mpmc, ThreadParker, Barrier and SpinCell side by side |
| `MCContainers` | AtomicArray, AtomicHashMap, Atomic, RwLock, AtomicCell and AtomicVec side by side |
| `MCAtomicVec` | three instances of AtomicVec side by side |

The last four are *suites*.  A variable `which` (or `scenario`) chooses the
component in the initial state and never changes; the registers `r1`, `r2`, ... are
that component's variables.  A behaviour of a suite is a behaviour of one component,
so a suite's property is the conjunction of what it says of each, and one run
answers one question ("are all counts exact?") for all of them.

**SerialMutex.** `state` is the word, `wake` the futex, `guard` the live guards
with the thread that acquired and the thread that holds each.  `Lock` and
`TryWriteGuard` are the entry points.  `Snapshot`, `LoadState`, `AcquireCas`,
`RegisterCas`, `Wait`, `Resume` are the loop of `lock_slow`.  `UnlockRead`,
`ReleaseCas`, `UnlockWrite`, `NotifyBump`, `NotifyWake` are the release.
`Transfer` sends a guard to another thread, which its `Send` allows.

**RawMutex.** `Lx*` are the steps of `lock_exclusive_slow`, `Ls*` those of
`lock_shared_slow`, `UxCas` is `unlock_exclusive_slow`, `Ts*` and `Ua*` are
`try_lock_shared` and `unlock_all_shared`, `Dg*` is `downgrade`.  `role[t]` says
what t holds: at most one acquisition per thread.  `ONE_WRITER` is the holder
pattern of a writer, and so one more than the largest reader count.

**Coord.** `Shared`, `Register`, `Add`, `Recheck`, `Undo`, `Assert`, `Spin` are
`shared()`.  The undo and the drop on an owned lane are a load and a store, two
steps.  `LockWriters`, `Publish`, `Scan`, `TryScan` are `exclusive()` and
`try_exclusive()`.  `Evict` is the use of another Coord, which overwrites the
thread's `LAST` cell.

**AtomicBuffer.** Positions live in 0..WORD-1 and start at START, close to the
wrap.  `own` is what callers own.  The refinement maps the queue to the positions
between head and tail, so push and pop take effect at their exchange.

**SMutex.** `Lock*` and `Group*` are the loops of `lock` and `lock_group`,
`RawUnlock`, `Release`, `Wake` and `RawUnlockGroup` the two releases.  Threads
sleep on the value of the word, so the futex is the set `asleep` and the value
each call expects.  `MAXGROUP` caps the group count, `MAXCALLS` the calls.

**Mpmc.** `Send`, `Push`, `NotifyOne`, `AddOne`, `Bump`, `WakeOne` are `send` with
`notify_one`; `Recv`, `Pop`, `Wait*` are `recv` with the loop of `SCondVar::wait`;
`Close`, `Shut`, `NotifyAll`, `AddAll`, `Bump`, `WakeAll` are `close`.  Messages
are counted, since the queue underneath is a FIFO of its own.

**ThreadParker, Barrier, SpinCell.** One action per access, named after
the function.  Barrier's condition variable may return spuriously.  SpinCell's
waiters spin: `LxPark`, `LsPark` publish the flags and `LsSpin` waits.

**AtomicVec.** `head` and `tail` have an index and a block, `mem` the blocks,
`cache` the array of recent blocks, `retired` and `pool` the lists.  A push is
`PushIndex`, `PushBlock`, the exchange, then either `WriteSlot` or first
`AcquireBlock`, `LinkNext`, `LinkTailBlock`, `LinkTailIndex`; a pop mirrors it and
ends in `CountRead`, `Retire`, and the reclaim of `LoadBacklog` to `TryReclaim`.
Bulk operations hold the exclusive pin but step through their stores, because
`len` and `capacity` read without a pin.  `for_each`, `index_of`, `find`, `fold`,
`reduce`, `get` are operators on a state, compared in quiet states.

**AtomicArray.** `coord` and `excl` are the RawMutex around the storage; a guard keeps one
count of it.  `Get`, `GetLen`, `WaitWrite`, `GetLock` are `get` and `get_mut`;
`Each*` the three iterations; `Reset*` the loop of `reset_with`, which inspects the
slots as a reader between attempts and panics if the caller holds one of them.

**AtomicHashMap.** `LockBucket` up to `UnlockShard` are the keyed operations,
`Walk*` are `as_vec` and `len`, `Clear*` the loop of `clear` with `try_detach`.
Keys are hashes: `ShardOf` and `BucketOf` are the arithmetic of the code.  `gone`
records where every inserted value went.

**Atomic.** `stack[t]` is a stack of calls, since a closure, a destructor or an
equality test may call the same cell again.  `Panic` unwinds one call.

**Handles, RwLock, AtomicCell.** A handle is live, dropping, forgotten or gone.  A
guard borrows its handle, as its lifetime says; a guard being dropped has unlocked
but not yet finished the wake.  `MAXREFS` is the limit at which
`increment_ref_count` aborts.

## Runs

| Run | Bounds | Checks |
|---|---|---|
| `serial_mutex_safety` | 3 threads, 3 guards, COUNT 2 | guards never alias; the word counts them; no lost wakeup; a removed registration is handed to a notifier; implements `SerialLock` |
| `raw_mutex_safety` | 3 threads, ONE_WRITER 3, all operations | holder bits exact at saturation; WRITERS_PARKED always has a writer; no stranded writer; parked writers keep readers out |
| `lock_liveness` | 3 threads; 1 guard, COUNT 1; 2 writers and a reader; 1 lane and overflow | nobody waits for ever in SerialMutex, as a writer of RawMutex, or in Coord's scan, on a lock that keeps becoming free; no bound on calls |
| `raw_mutex_readers_stranded` | 2 threads | **violated**: a reader can sleep on a free lock |
| `raw_mutex_downgrade_flag` | 2 threads, downgrade | **violated**: READERS_PARKED outlives its waiters |
| `coord_safety` | 4 threads, 2 lanes and overflow | lane counts exact and lanes private; implements `OperationPins` |
| `atomic_buffer_safety` | 3 threads, 3 values, capacities 1 and 2, 5 pushes | no race on a slot; slots own exactly the queue; implements `BoundedFifo`; empty and full are justified |
| `primitives` | 3 threads; 5 calls of SMutex, 3 sends and 3 receives, 8 parks, 7 barrier calls, 8 calls of SpinCell | lock words name their holders; waiters, tokens and arrivals counted exactly; no lost wakeup; parked flags have a writer; every call returns that has no reason to wait |
| `atomic_vec_safety` | 3 threads that push and pop (5 calls), 2 that call everything (5), 2 that retire a block with each pop (7) | results exact and in order; no retired block touched; every block in one place; contents and iteration agree; backlog bounded |
| `atomic_vec_empty_pop` | 3 threads, 2 pushes | **violated**: a pop on an empty vector spins |
| `containers_safety` | array: 3 threads, 2 guards, 2 resets; map: 2 threads, 1 guard, 3 keys in 2 shards; atomic: 2 threads, nesting 2; handles: 3, with 2 guards; 3 or 4 calls each | storage outlives guards; guards see written values; locks and counts exact; every value and storage ends once; chunks partition; as_vec has no key twice; the map implements `PinnedMap`; updates are atomic and panics change nothing |
| `containers_liveness` | the same with 2 threads and 2 keys, and AtomicVec | every call returns |

`CHECK_DEADLOCK` is off in the suites with call budgets and in the two RawMutex
violations, where a behaviour may end; it is on for the locks, the coordinator and
the buffer, whose callers may always go on.

**Why the bounds are enough.** Three threads give a lock a holder, a releaser on
its way to notify and a waiter, or a holder and two waiters of different kinds:
every argument in the locks is about such a triple.  COUNT 2 and ONE_WRITER 3 let
the counts saturate.  Four threads on two lanes put two in the overflow lane,
where an update could be lost, beside two owned lanes.  Five pushes through two
slots are more than two laps and cross the wrap.  WORD exceeds twice what any
thread can be overtaken by, as 2^64 does; the assumption in the module states it.

The primitives and the containers bound the number of calls, not only of threads.
Blocks of three have two usable slots, so three pushes cross a block boundary and
retire and reuse a block; five calls leave room for a pop to be overtaken by a whole
block.  The instance with blocks of two retires one with every pop, so that the
backlog passes both limits.  Two shards and hashes that collide in a bucket, share a
shard, and do neither are three keys.  A guard, a walker and a clear need three
roles but two threads, since one thread may hold the guard and walk.  A call budget
is also what makes "every call returns" meaningful for retry loops, which only an
endless stream of other calls could starve.

**Fairness.** The liveness runs ask weak fairness of the steps inside a call, per
thread: the operating system keeps scheduling runnable threads.  A sleeping
thread's step is disabled.  `lock_liveness` assumes nothing of callers, so it is
conditional on the lock becoming free again and again, nor of spurious wakeups; that
a pinned operation ends is part of the fairness of Coord, as every `AtomicVec`
operation ends whose closure returns.  `primitives` and `containers_liveness` bound
the calls instead, and assume that callers drop the guards they hold, and that weak
exchanges and spurious wake-ups do not happen for ever (`Hiccup`, `WeakFailure`).
One step needs strong fairness: in AtomicHashMap's `WalkShard` a walker competes
with the retries of `clear`, which take and give back the shard's lock, and
RawMutex's writer preference ends that race.  In AtomicArray one reset runs at a
time: two may fail each other's attempt for ever.

## What the violations show

`raw_mutex_readers_stranded`: a reader sets READERS_PARKED and pauses.  The writer
unlocks, clears the flag, bumps and wakes.  It locks again by the fast path.  The
reader now reads the new futex key, sees a writer and sleeps; `LsCheck` does not
ask whether its flag survived, as `LxCheck` does for writers.  The next unlock
takes the fast path and wakes nobody.  The comment on `unlock_exclusive` says it
"Wakes waiting threads if necessary."

`raw_mutex_downgrade_flag`: `downgrade` wakes the parked readers but leaves
READERS_PARKED set, and `unlock_shared` does not clear it.  With no holder left,
`is_locked()` is true and `try_lock_exclusive()` fails, until an exclusive lock
and unlock clears the word.  Only tests call `downgrade` today.

`atomic_vec_empty_pop`: the push that takes a block's last slot links the next
block before it moves the tail.  A pop of that last slot follows the link and moves
the head.  A second pop sees a head and a tail in different blocks, takes that as
proof of a further element, claims the next position and spins on a slot nobody is
going to write, while `pop` on an empty vector is `None`.  It ends with the next
push; until then `pop` blocks, and so does every exclusive operation.  Storing
the link after the tail makes the property hold on the same instance.

## Observations

Met while modelling, kept here because no run states them.

* `AtomicVec::capacity` (`atomic/vec.rs:262`) reads head and tail unpinned.  A
  `reset_with` between the loads makes their difference negative; adding a block to
  the wrapped value gives 0, or overflows with debug assertions on.  `len` guards
  against the same race and is part of `ResultsExact`.
* `remove` and `reverse` drain through `pop_internal` (`atomic/vec.rs:911`), which
  drops the reclaim request of `pop_raw`: a workload of these alone never reclaims,
  against the "bounded backlog" of the comment at line 320.  `BacklogBounded` is
  therefore stated for pushes and pops.
* `SMutex` (`core/smutex.rs:140`): two group lockers sleep while a thread holds the
  lock exclusively.  Its release wakes one, which makes the word a group's.  The
  other would be admitted but is woken only when the group has left.  Nobody is
  lost: `EveryCallReturns` holds.
* `SpinCell`'s slow shared path (`lock_free/splcell.rs:175`) lacks the fast path's
  test for the writer pattern (line 153).  It takes 2^62 - 1 readers.
* `Backoff::is_yielding` (`core/backoff.rs:134`) uses `>=` where `snooze` (line 106)
  uses `<=` on the same limit.

## Proofs

`SerialMutexProofs` proves, for any set of threads, any finite set of guards and
any COUNT the guards can reach (`SerialAssumption`):

* `TypeCorrect`, `Exclusion`, `Accounting`, `WakeupsKept`: the invariants
  `TypeOK`, `NoAliasing`, `WordCountsGuards`, `NoLostWakeup`;
* `RegistrationKept`: the action property `RegistrationHandedOn`;
* `Refinement`: SerialMutex implements SerialLock.

The inductive invariant is `IInv == TypeOK /\ NoAliasing /\ WordCountsGuards /\
CallInv /\ WakeInv`.  `CallInv` ties what a thread remembers to where it is: a
word it will exchange to acquire is free or its own with room for one more, a
guard it is dropping is live and its own.  Without it a stale exchange could do
anything.  `WakeInv` extends `NoLostWakeup` back to threads that have registered
but do not sleep yet with an unchanged snapshot.  The cardinality facts (one guard
more, one fewer) are lemmas.  Each action has one step, each conjunct it can
disturb one below it.

`RawMutexProofs` proves, for any finite set of threads and any reader capacity
(`RawAssumption`), downgrades and bulk releases included:

* `TypeCorrect`, `Accounting`, `FlagsOwned`, `WritersNotStranded`: the invariants
  `TypeOK`, `HoldersExact`, `ParkedFlagHasWriter`, `NoStrandedWriter`;
* `WritersPreferred`: the action property `WriterPreference`.

Here `IInv == TypeOK /\ HoldersExact /\ CallInv /\ ParkedFlagHasWriter /\ WakeInv`.
`CallInv` says that only the writer is at its release or downgrade exchange, that a
waiting thread holds nothing, and that the word a reader compares with had room for
it.  `WakeInv` is again the wakeup promise extended to writers that are about to wait
on a snapshot that still matches.  It does not hold of readers, for which
`raw_mutex_readers_stranded` is the counterexample.  Seven lemmas say how the holders
change with the word (a writer enters, a reader leaves, all readers leave, ...), two
say what a step of one thread leaves alone for the others.

`CoordProofs` proves, for any finite set of threads and any number of lanes
(`CoordAssumption`):

* `TypeCorrect`, `LanesCounted`: the invariants `TypeOK` and `LanesExact`;
* `RefinesPins`: Coord implements OperationPins.

Here `IInv == TypeOK /\ CountInv /\ OwnersInv /\ CallInv /\ WriterInv /\ ScanInv`.
`OwnersInv` is why a thread that registers again, because LAST forgot its lane, never
gets a second one: the lanes before its own in its search order belong to others, and
no lane is ever given back.  `CallInv` says that the count a thread loaded for its plain
store is still the lane's, which holds because only the owner changes an owned lane.
`WriterInv` says that the flag is up exactly while the owner of the writers lock scans
or has exclusive access.  `ScanInv` is the argument of `coord.rs:10-12`: while a scan is
at lane i every pin is on lane i or beyond, since a thread counted behind the scan meets
the flag at its recheck.  At the last lane no pin is left.

`AtomicBufferProofs` proves, for any threads, allocations, capacities, word size and
starting position, under `BufferAssumption`:

* `TypeCorrect`, `SlotsNotShared`, `DropFreesQueue`: the invariants `TypeOK`,
  `NoSlotRace`, `SlotsOwnQueue`.

The assumption asks that every capacity divides the word (`with_capacity` asserts
powers of two) and that fewer than half a word of positions is handed out in a
behaviour.  That last bound replaces the usual proviso of such queues, that no thread
sleeps through a whole lap of the counters; START may be anywhere, so the positions
do wrap.  The proof does not reason about wrapping positions but about tickets, how many
positions were handed out before this one, which are ordered.  Fifteen lemmas of
modular arithmetic say that `Diff`, `Plus` and `Slot` on positions are difference, sum
and residue on tickets.  The inductive invariant is `IInv == TypeOK /\ Ring /\ Once /\
Covered /\ Split`.  `Ring` bounds head and tail by each other (`Bounds`), says what a
thread in a call knows about its ticket and its slot (`Turns`), that no two threads
have one ticket (`Apart`), that the sequence number of a slot is its last ticket
reserved, pushed or handed to the next lap (`Phases`), and that the slot is full in
between (`Filled`).  `Once` and `Covered` say that each allocation is in exactly one
place: with the callers, in a call, in a slot.  `Split` separates the buffer of
capacity one from the ring.

`AtomicBufferFifoProofs` continues from that invariant:

* `BufferIsFifo`: AtomicBuffer implements BoundedFifo;
* `FailuresAreJustified`: the action property `FailuresJustified`.

A push takes effect where it reserves its position and a pop where it claims one, so
the queue counts an allocation that its pusher has not written yet.  `QueuedIs` and
`QueueIs` describe that queue through tickets; `ReserveEnqueues` and `ClaimDequeues`
show the two steps to be Enqueue and Dequeue, `Invisible` every other one to leave it
alone.

`PrimitivesProofs` proves of the five primitives of the `primitives` run, for any
finite set of threads and any number of calls (`PrimitivesAssumption`):

* `TypeCorrect`, `WordsCountHolders`, `CountersAreExact`, `NobodyForgotten`,
  `ParkedFlagsHaveWriter`: the invariants `TypeOK`, `HoldersExact`, `CountsExact`,
  `NoLostWakeup`, `FlagsHaveWriter`.

It holds the proofs of ThreadParker, Barrier and SpinCell; those of SMutex and Mpmc are
in `SMutexProofs` (`MutexSafe`) and `MpmcProofs` (`ChannelSafe`), and are instantiated.
Only SpinCell's assumption limits the threads, to fewer than the holder count of a
writer, because its slow shared path does not test for room.

* SMutex: `IInv == TypeOK /\ ThreadsExact /\ OneExclusive /\ GroupCounted /\
  SleepersWait /\ WakeComing`.  `ThreadsExact` says that the owner is between calls and
  its recursion counts its guards, that a thread in `lock()` has no guard, and that a
  group exchange was begun with a word that was not LOCKED.  `WakeComing` is stronger
  than `NoLostWakeup`: a thread about to panic because the group is full will not look
  at the lock again, so it does not count as a wake on its way.
* Mpmc: beside the exact counts, `IInv` says where every token and every message can
  still go.  `TokensReach`: while anyone sleeps, there are no more tokens than threads
  awake that will take one or wake another.  `MessagesReach`: while anyone waits,
  there are no more messages than tokens and threads on their way.  `LastLook`: a
  waiter about to sleep with a matching snapshot saw no token, or the bump is still to
  come.  `NoStrandedReceiver` follows from these by counting.
* Barrier: `PhaseExact` is suspended while the last arrival completes the phase, and
  `PhasesCounted` bounds the generations by the calls.
* ThreadParker and SpinCell are inductive with one addition each: a sleeper is in the
  loop of `park()`, and a thread in a call does not hold the lock.

Model-checked only: every liveness property, which is out of the prover's reach; all
of AtomicVec, whose chain of blocks is a RECURSIVE operator, which the prover does not
take, and the suite that instantiates it beside the other containers; the containers (AtomicArray,
AtomicHashMap, Atomic, AtomicCell, RwLock, Handles), which have no proof yet.

## Not modelled

Memory orders weaker than sequential consistency; the platform system calls and
the instruction of `cpu_relax`; `Backoff`, which only delays; allocation failure; formatting (`Debug`,
`Display`).  `SCondVar::wait_until` and `wait_for_waiters` serve tests only.
AtomicHashMap's lock around the hasher: a hash is a function of the key.  The
String, Vec and Option methods of `Atomic` are `with` and `with_mut` with a fixed
closure.  `len_approx` of AtomicBuffer is an estimate without a promise.  A closure
of `AtomicVec::for_each` that pins the same vector again can wait for a writer that
waits for it; the API does not prevent it and no property covers it.
