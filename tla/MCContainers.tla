---------------------------- MODULE MCContainers ----------------------------
(***************************************************************************)
(* The containers built on the locks, side by side: a behaviour of this    *)
(* module is a behaviour of the one named by `which'.  The registers are   *)
(* that container's variables, in the order its INSTANCE lists them; the   *)
(* others stay None.                                                       *)
(***************************************************************************)
EXTENDS Naturals, TLC

CONSTANTS Which,                \* the containers of this run
          Many, Few, One,       \* disjoint sets of values that stand for threads, guards, handles
          Keys, Args,           \* AtomicHashMap's hashes, Atomic's arguments
          Transfers, MAXRESETS, \* of AtomicArray
          None

VARIABLES which, r1, r2, r3, r4, r5, r6, r7, r8, r9, r10, r11, r12, r13, r14, r15

vars == <<which, r1, r2, r3, r4, r5, r6, r7, r8, r9, r10, r11, r12, r13, r14, r15>>

AR == INSTANCE AtomicArray WITH Threads <- Many, Guards <- Few,
    MAXCAP <- 2, MAXCALLS <- 4, MAXLEN <- 4,
    gen <- r1, capacity <- r2, written <- r3, tail <- r4, len <- r5, coord <- r6, excl <- r7,
    guard <- r8, calls <- r9, call <- r10

HM == INSTANCE AtomicHashMap WITH Threads <- Few, Guards <- One,
    SHARDS <- 2, CAPACITY <- 2, WORD <- 1024, MAXINSERTS <- 2, MAXCLEARS <- 1, MAXCALLS <- 4,
    chain <- r1, count <- r2, readers <- r3, excl <- r4, lock <- r5, guard <- r6, gone <- r7,
    values <- r8, clears <- r9, calls <- r10, call <- r11

AT == INSTANCE Atomic WITH Threads <- Few, WORD <- 4, MAXDEPTH <- 2, MAXCALLS <- 3,
    value <- r1, holds <- r2, stack <- r3, left <- r4, calls <- r5

RW == INSTANCE RwLock WITH Ids <- Many, Guards <- Few, WORD <- 8, MAXREFS <- 4,
    MAXFORGETS <- 7, MAXCALLS <- 4,
    readers <- r1, writer <- r2, guard <- r3, leaked <- r4, calls <- r5,
    count <- r6, handle <- r7, forgotten <- r8, freed <- r9, aborted <- r10

CE == INSTANCE AtomicCell WITH Threads <- Few, Ids <- Many, Guards <- Few,
    WORD <- 8, MAXREFS <- 4, MAXFORGETS <- 3, MAXVALUES <- 4, MAXCALLS <- 4,
    value <- r1, made <- r2, ends <- r3, guard <- r4, unwrap <- r5, calls <- r6,
    count <- r7, handle <- r8, forgotten <- r9, freed <- r10, aborted <- r11

VE == INSTANCE AtomicVec WITH Threads <- Few, Ops <- {"push", "pop", "reverse", "reset"},
    CAP <- 3, RECLAIM <- 1, FORCE <- 2, POOL <- 1, WORD <- 30, PREFILL <- 0, NBLOCKS <- 6,
    MAXPUSHES <- 3, MAXCALLS <- 5, MAXARG <- 1,
    head <- r1, tail <- r2, mem <- r3, alloc <- r4, cache <- r5, pool <- r6, retired <- r7,
    backlog <- r8, pins <- r9, excl <- r10, ins <- r11, outs <- r12, ticket <- r13,
    calls <- r14, call <- r15

ASSUME ContainersAssumption ==
    /\ AR!ArrayAssumption /\ HM!MapAssumption /\ AT!AtomicAssumption
    /\ RW!HandlesAssumption /\ CE!HandlesAssumption /\ VE!VecAssumption
    /\ Many \cap Few = {} /\ (Many \cup Few) \cap One = {}

Array == which = "array"
Map == which = "map"
Single == which = "atomic"
Rw == which = "rwlock"
Cell == which = "cell"
Vec == which = "vec"

\* The registers from the 6th, the 11th and the 12th on, and their values in
\* the behaviours of the containers that do not use them.
From12 == <<r12, r13, r14, r15>>
From11 == <<r11, From12>>
From6 == <<r6, r7, r8, r9, r10, From11>>

Blank12 == r12 = None /\ r13 = None /\ r14 = None /\ r15 = None
Blank11 == r11 = None /\ Blank12
Blank6 == r6 = None /\ r7 = None /\ r8 = None /\ r9 = None /\ r10 = None /\ Blank11

Init ==
    /\ which \in Which
    /\ \/ Array /\ AR!Init /\ Blank11
       \/ Map /\ HM!Init /\ Blank12
       \/ Single /\ AT!Init /\ Blank6
       \/ Rw /\ RW!Init /\ Blank11
       \/ Cell /\ CE!Init /\ Blank12
       \/ Vec /\ VE!Init

Next ==
    /\ UNCHANGED which
    /\ \/ Array /\ AR!Next /\ UNCHANGED From11
       \/ Map /\ HM!Next /\ UNCHANGED From12
       \/ Single /\ AT!Next /\ UNCHANGED From6
       \/ Rw /\ RW!Next /\ UNCHANGED From11
       \/ Cell /\ CE!Next /\ UNCHANGED From12
       \/ Vec /\ VE!Next

Spec == Init /\ [][Next]_vars

Symmetry == Permutations(Many) \cup Permutations(Few)

\* What a thread that is scheduled does: go on with its call, and drop the
\* guards it holds.
Step(t) ==
    /\ UNCHANGED which
    /\ \/ Array /\ t \in Many /\ AR!Step(t) /\ UNCHANGED From11
       \/ Map /\ t \in Few /\ HM!Step(t) /\ UNCHANGED From12
       \/ Single /\ t \in Few /\ AT!Step(t) /\ UNCHANGED From6
       \/ Vec /\ t \in Few /\ VE!Step(t)

\* Every thread is scheduled, user code returns, clients drop their guards, and
\* no weak exchange fails forever for no reason.  Calls are finitely many, so no
\* lock needs to be fair, but for one: a clear() that waits for a guard takes
\* and releases the shard's lock again and again, with a snooze in between, and
\* a thread that waits for the shared lock gets in (SF).
FairSpec ==
    /\ Spec
    /\ \A t \in Many \cup Few : WF_vars(Step(t))
    /\ \A t \in Few : SF_vars(UNCHANGED which /\ Map /\ HM!WalkShard(t) /\ UNCHANGED From12)
    /\ <>[][\A t \in Few : ~(Vec /\ VE!WeakFailure(t))]_vars

-----------------------------------------------------------------------------
\* Each container's variables have their types.
TypeOK ==
    /\ Array => AR!TypeOK
    /\ Map => HM!TypeOK
    /\ Single => AT!TypeOK
    /\ Rw => RW!TypeOK
    /\ Cell => CE!TypeOK

\* Storage outlives everything that refers to it: reset_with() exchanges no
\* storage under a guard or an operation of AtomicArray, and the last handle of
\* a RwLock frees none under a guard, not even under one that still wakes.
StoragePinned == (Array => AR!StoragePinned) /\ (Rw => RW!GuardsKeepStorage)

\* AtomicArray: guards and callbacks see slots whose value has been written.
GuardsSeeValues == Array => AR!GuardsSeeValues

\* Every hold of a lock belongs to a guard or to a call in progress, through
\* panics, hand-overs, downcasts and failed attempts; a destructor that store()
\* runs finds the Atomic unlocked.
LocksExact ==
    /\ Array => AR!HoldsExact
    /\ Map => HM!LocksExact
    /\ Single => AT!HoldsHaveCalls /\ AT!StoreDropsUnlocked
    /\ Rw => RW!LockExact

\* Counts are exact: AtomicArray's len and tail when nobody is inside, a shard's
\* count of entries, and the reference count, which never wraps.
CountsExact ==
    /\ Array => AR!QuietDense
    /\ Map => HM!CountExact
    /\ Rw => RW!CountExact
    /\ Cell => CE!CountExact

\* Everything comes to its end once: a value given to a map or a cell is handed
\* back or dropped in one place, into_inner() takes it only as the sole owner,
\* and the storage is freed once, when no handle is left.
EndsOnce ==
    /\ Map => HM!ValuesOnce
    /\ Rw => RW!FreedOnce
    /\ Cell => CE!FreedOnce /\ CE!ValuesEndOnce /\ CE!SoleOwner

\* chunk_indices() partitions the indices of an array, and a map has the
\* capacity it was asked for.
SizesExact == (Array => AR!ChunksPartition) /\ (Map => HM!CapacityEnough)

\* AtomicHashMap: as_vec() returns no key twice.
VecKeysOnce == Map => HM!VecKeysOnce

\* AtomicHashMap implements PinnedMap: insertions, removals and each shard's
\* turn of clear() are atomic, and never happen under a live guard.
ImplementsDictionary == (Map => HM!DictionaryInit) /\ [][Map => HM!DictionaryStep]_vars

\* Atomic: the value does not change under a reader, no update is lost between
\* reading the value and writing it, and a panic leaves the value as it was.
UpdatesAtomic ==
    Single => AT!ReadersSeeOneValue /\ AT!OldIsPrevious /\ AT!PanicChangesNothing

Settled ==
    /\ Array => AR!Settled
    /\ Map => HM!Settled
    /\ Single => AT!Settled
    /\ Vec => VE!Settled

\* Every call of an AtomicVec, AtomicArray, AtomicHashMap or Atomic returns.
EveryCallReturns == <>[]Settled
=============================================================================
