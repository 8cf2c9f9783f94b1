--------------------------- MODULE AtomicHashMap ---------------------------
(***************************************************************************)
(* AtomicHashMap (atomic/hashmap.rs): shards of buckets, each bucket a     *)
(* chain of entries under a SerialMutex, each shard under a RwLock that    *)
(* operations take shared.  get() and get_mut() return a guard that keeps  *)
(* only the bucket's lock.  clear() takes each shard exclusively and all   *)
(* its buckets, by trying, before it detaches the chains.                  *)
(*                                                                         *)
(* A key is the hash of a key: keys that differ have hashes that differ,   *)
(* but share buckets.  The shard locks are used as reader/writer locks     *)
(* whose writer only tries; the bucket locks as SerialLock.  A value is    *)
(* the number of the insert() that brought it.  A chain is a sequence; it  *)
(* is only touched with its bucket locked.                                 *)
(***************************************************************************)
EXTENDS Integers, FiniteSets, SequencesExt, FiniteSetsExt

CONSTANTS Threads,
          Guards,      \* places where clients keep a live guard
          Keys,        \* hashes, naturals below WORD
          SHARDS,      \* a power of two above 1
          CAPACITY,    \* buckets of a shard
          WORD,        \* hashes are computed modulo WORD, 2^64 in the code
          MAXINSERTS,  \* bound: insertions in a behaviour
          MAXCLEARS,   \* bound: calls of clear()
          MAXCALLS,    \* bound: calls in a behaviour
          None

MapAssumption ==
    /\ IsFiniteSet(Threads) /\ None \notin Threads
    /\ SHARDS \in Nat \ {0, 1} /\ WORD % SHARDS = 0 /\ CAPACITY \in Nat \ {0}
    /\ Keys \subseteq 0..(WORD - 1)

VARIABLES chain,    \* bucket -> its entries, [key, value]
          count,    \* shard -> number of entries
          readers,  \* shard -> shared holds of its lock
          excl,     \* shard -> thread that holds its lock exclusively, or None
          lock,     \* bucket -> the holds of its lock, [by, owner, read]
          guard,    \* Guards -> None or [owner, key, read]
          gone,     \* values given back to callers or destroyed
          values, clears, calls,  \* insertions and calls made so far
          call      \* thread -> [pc, op, key, s, i, g, seen]

vars == <<chain, count, readers, excl, lock, guard, gone, values, clears, calls, call>>
map == <<chain, count, gone>>
shardLocks == <<readers, excl>>
budget == <<values, clears, calls>>

-----------------------------------------------------------------------------
(* The constructors' arithmetic                                            *)

\* determine_shard(): seven bits are shifted out at the top, then the shift
\* leaves the log2(SHARDS) highest of the others.
ShardOf(h) == ((h * 128) % WORD) \div (WORD \div SHARDS)

\* get_slot()
BucketOf(h) == <<ShardOf(h), h % CAPACITY>>

\* with_capacity_hasher_and_shard_amount()
PerShard(capacity, shards) ==
    IF capacity = 0 THEN 16
    ELSE LET up == capacity + shards - 1 IN (up - (up % shards)) \div shards

Shards == 0..(SHARDS - 1)
Buckets == Shards \X (0..(CAPACITY - 1))

Idle == [pc |-> "idle", op |-> "none", key |-> 0, s |-> 0, i |-> 0, g |-> None, seen |-> <<>>]
pc(t) == call[t].pc
Put(t, r) == call' = [call EXCEPT ![t] = [f \in DOMAIN @ |-> IF f \in DOMAIN r THEN r[f] ELSE @[f]]]
Goto(t, label) == Put(t, [pc |-> label])
Return(t) == call' = [call EXCEPT ![t] = Idle]

Init ==
    /\ chain = [b \in Buckets |-> <<>>] /\ count = [s \in Shards |-> 0] /\ gone = {}
    /\ readers = [s \in Shards |-> 0] /\ excl = [s \in Shards |-> None]
    /\ lock = [b \in Buckets |-> {}]
    /\ guard = [g \in Guards |-> None]
    /\ values = 0 /\ clears = 0 /\ calls = 0
    /\ call = [t \in Threads |-> Idle]

-----------------------------------------------------------------------------
(* Locks                                                                   *)

\* lock_shared() of a shard
LockShared(s) == excl[s] = None /\ readers' = [readers EXCEPT ![s] = @ + 1] /\ UNCHANGED excl

\* The drop of the shard's guard
UnlockShared(s) == readers' = [readers EXCEPT ![s] = @ - 1] /\ UNCHANGED excl

Hold(by, t, rd) == [by |-> by, owner |-> t, read |-> rd]

\* SerialLock: a writer is alone, read aliases belong to one thread.
Available(t, b, rd) == \A h \in lock[b] : rd /\ h.read /\ h.owner = t
Reentrant(t, b, rd) == \E h \in lock[b] : h.owner = t /\ ~(rd /\ h.read)

ReadOps == {"get", "contains"}
Bucket(t) == BucketOf(call[t].key)

\* The buckets whose lock the call itself holds.
Unlocked(t) == [b \in Buckets |-> {h \in lock[b] : h.by # t}]

-----------------------------------------------------------------------------
(* insert(), remove(), get(), get_mut(), contains_key()                    *)

\* "Acquire distinct locks in a consistent order" (CONCURRENCY.md): a client
\* asks for no bucket that comes before one it has a guard on.
InOrder(t, b) ==
    \A h \in Guards : guard[h] # None /\ guard[h].owner = t =>
        LET c == BucketOf(guard[h].key) IN c[1] < b[1] \/ (c[1] = b[1] /\ c[2] <= b[2])

\* hash(), determine_shard() and the shard's lock
Begin(t, op, k, g) ==
    /\ pc(t) = "idle" /\ calls < MAXCALLS /\ calls' = calls + 1
    /\ op = "insert" => values < MAXINSERTS
    /\ op \in {"get", "get_mut"} => guard[g] = None /\ \A u \in Threads : call[u].g # g
    /\ InOrder(t, BucketOf(k))
    /\ LockShared(ShardOf(k))
    /\ values' = IF op = "insert" THEN values + 1 ELSE values
    /\ Put(t, [pc |-> "lock", op |-> op, key |-> k, s |-> ShardOf(k), i |-> values', g |-> g])
    /\ UNCHANGED <<map, lock, guard, clears>>

LockBucket(t) ==
    /\ pc(t) = "lock"
    /\ LET rd == call[t].op \in ReadOps IN
       /\ Available(t, Bucket(t), rd)
       /\ lock' = [lock EXCEPT ![Bucket(t)] = @ \cup {Hold(t, t, rd)}]
    /\ Goto(t, "search")
    /\ UNCHANGED <<map, shardLocks, guard, budget>>

\* Conflicting reentrance panics, and so may a comparison of keys: the guards
\* are dropped on the way out.
Panic(t) ==
    /\ \/ pc(t) = "lock" /\ Reentrant(t, Bucket(t), call[t].op \in ReadOps)
       \/ pc(t) = "search"
    /\ Goto(t, "unlock")
    /\ gone' = IF call[t].op = "insert" THEN gone \cup {call[t].i} ELSE gone
    /\ UNCHANGED <<chain, count, shardLocks, lock, guard, budget>>

\* Position of the key in its bucket's chain, 0 if it is not there.
Position(t) == SelectInSeq(chain[Bucket(t)], LAMBDA e : e.key = call[t].key)

\* Fault: an entry that is there is not looked for.
PresentNever(t) == FALSE

Present(t) == Position(t) # 0

\* ptr::read() of the value that was there, for the caller
GiveBack(t) == gone' = gone \cup {chain[Bucket(t)][Position(t)].value}

\* Shard::insert(): replace the value, or link a new entry at the head.
InsertKey(t) ==
    /\ pc(t) = "search" /\ call[t].op = "insert"
    /\ LET e == [key |-> call[t].key, value |-> call[t].i] IN
       IF Present(t)
       THEN /\ GiveBack(t)
            /\ chain' = [chain EXCEPT ![Bucket(t)][Position(t)] = e]
            /\ Goto(t, "unlock")
       ELSE /\ chain' = [chain EXCEPT ![Bucket(t)] = <<e>> \o @]
            /\ Goto(t, "count")
            /\ UNCHANGED gone
    /\ UNCHANGED <<count, shardLocks, lock, guard, budget>>

\* Shard::remove(): unlink the entry and give its value back.
RemoveKey(t) ==
    /\ pc(t) = "search" /\ call[t].op = "remove"
    /\ IF Present(t)
       THEN /\ GiveBack(t)
            /\ chain' = [chain EXCEPT ![Bucket(t)] = RemoveAt(@, Position(t))]
            /\ Goto(t, "count")
       ELSE Goto(t, "unlock") /\ UNCHANGED <<chain, gone>>
    /\ UNCHANGED <<count, shardLocks, lock, guard, budget>>

CountEntry(t) ==
    /\ pc(t) = "count"
    /\ count' = [count EXCEPT ![call[t].s] = IF call[t].op = "insert" THEN @ + 1 ELSE @ - 1]
    /\ Goto(t, "unlock")
    /\ UNCHANGED <<chain, gone, shardLocks, lock, guard, budget>>

\* Fault: the bucket's lock is released with the call.
HandOverNot(t) == lock' = Unlocked(t)

\* mem::forget(slot_guard): the lock now belongs to the returned guard.
HandOver(t) ==
    lock' = [lock EXCEPT ![Bucket(t)] =
               {h \in @ : h.by # t} \cup {Hold(call[t].g, t, call[t].op = "get")}]

\* get() and get_mut() of a key that is there return a guard.
GetGuard(t) ==
    /\ pc(t) = "search" /\ call[t].op \in {"get", "get_mut"} /\ Present(t)
    /\ guard' = [guard EXCEPT ![call[t].g] = [owner |-> t, key |-> call[t].key, read |-> call[t].op = "get"]]
    /\ HandOver(t)
    /\ Goto(t, "unlock_shard")
    /\ UNCHANGED <<map, shardLocks, budget>>

NoGuard(t) ==
    /\ pc(t) = "search"
    /\ call[t].op \in {"contains", "get", "get_mut"} /\ (Present(t) => call[t].op = "contains")
    /\ Goto(t, "unlock")
    /\ UNCHANGED <<map, shardLocks, lock, guard, budget>>


\* The end of a call: the bucket's guard, then the shard's.
UnlockBucket(t) ==
    /\ pc(t) = "unlock"
    /\ lock' = Unlocked(t)
    /\ Goto(t, "unlock_shard")
    /\ UNCHANGED <<map, shardLocks, guard, budget>>

UnlockShard(t) ==
    /\ pc(t) = "unlock_shard"
    /\ UnlockShared(call[t].s)
    /\ Return(t)
    /\ UNCHANGED <<map, lock, guard, budget>>

DropGuard(t, g) ==
    /\ pc(t) = "idle" /\ guard[g] # None /\ guard[g].owner = t
    /\ lock' = [b \in Buckets |-> {h \in lock[b] : h.by # g}]
    /\ guard' = [guard EXCEPT ![g] = None]
    /\ UNCHANGED <<map, shardLocks, budget, call>>

-----------------------------------------------------------------------------
(* as_vec() and len(): shard by shard, as_vec() bucket by bucket           *)

Walk(t, op) ==
    /\ pc(t) = "idle" /\ calls < MAXCALLS /\ calls' = calls + 1
    /\ op = "as_vec" => InOrder(t, <<0, 0>>)
    /\ Put(t, [pc |-> "w_shard", op |-> op])
    /\ UNCHANGED <<map, shardLocks, lock, guard, values, clears>>

WalkShard(t) ==
    /\ pc(t) = "w_shard"
    /\ LockShared(call[t].s)
    /\ Put(t, [pc |-> IF call[t].op = "len" THEN "w_count" ELSE "w_lock"])
    /\ UNCHANGED <<map, lock, guard, budget>>

\* len() adds the shard's count to the sum (kept in "i").
WalkCount(t) ==
    /\ pc(t) = "w_count"
    /\ Put(t, [pc |-> "w_next", i |-> call[t].i + count[call[t].s]])
    /\ UNCHANGED <<map, shardLocks, lock, guard, budget>>

WalkLock(t) ==
    /\ pc(t) = "w_lock"
    /\ LET b == <<call[t].s, call[t].i>> IN
       /\ Available(t, b, TRUE)
       /\ lock' = [lock EXCEPT ![b] = @ \cup {Hold(t, t, TRUE)}]
    /\ Goto(t, "w_read")
    /\ UNCHANGED <<map, shardLocks, guard, budget>>

\* read_guard() of a bucket this thread holds for writing panics.
WalkPanic(t) ==
    /\ pc(t) = "w_lock" /\ Reentrant(t, <<call[t].s, call[t].i>>, TRUE)
    /\ Goto(t, "unlock_shard")
    /\ UNCHANGED <<map, shardLocks, lock, guard, budget>>

\* The entries are cloned and the bucket is released.
WalkRead(t) ==
    /\ pc(t) = "w_read"
    /\ lock' = Unlocked(t)
    /\ LET more == call[t].i + 1 < CAPACITY IN
       Put(t, [pc |-> IF more THEN "w_lock" ELSE "w_next",
               i |-> IF more THEN call[t].i + 1 ELSE 0,
               seen |-> call[t].seen \o chain[<<call[t].s, call[t].i>>]])
    /\ UNCHANGED <<map, shardLocks, guard, budget>>

WalkNext(t) ==
    /\ pc(t) = "w_next"
    /\ UnlockShared(call[t].s)
    /\ IF call[t].s + 1 < SHARDS THEN Put(t, [pc |-> "w_shard", s |-> call[t].s + 1])
       ELSE Return(t)
    /\ UNCHANGED <<map, lock, guard, budget>>

-----------------------------------------------------------------------------
(* clear()                                                                 *)

Clear(t) ==
    /\ pc(t) = "idle" /\ calls < MAXCALLS /\ calls' = calls + 1
    /\ clears < MAXCLEARS /\ clears' = clears + 1
    /\ InOrder(t, <<0, 0>>)
    /\ Put(t, [pc |-> "c_try", op |-> "clear"])
    /\ UNCHANGED <<map, shardLocks, lock, guard, values>>

Alone(s) == excl[s] = None /\ readers[s] = 0

\* try_lock() of the shard: into try_detach(), or into the inspection.
ClearTry(t) ==
    /\ pc(t) = "c_try"
    /\ IF Alone(call[t].s)
       THEN /\ excl' = [excl EXCEPT ![call[t].s] = t]
            /\ Put(t, [pc |-> "c_bucket", i |-> 0])
       ELSE Goto(t, "c_inspect") /\ UNCHANGED excl
    /\ UNCHANGED <<map, readers, lock, guard, budget>>

\* try_detach(): try_write_guard() of the next bucket.
ClearBucket(t) ==
    /\ pc(t) = "c_bucket" /\ lock[<<call[t].s, call[t].i>>] = {}
    /\ lock' = [lock EXCEPT ![<<call[t].s, call[t].i>>] = {Hold(t, t, FALSE)}]
    /\ LET more == call[t].i + 1 < CAPACITY IN
       Put(t, [pc |-> IF more THEN "c_bucket" ELSE "c_detach", i |-> call[t].i + 1])
    /\ UNCHANGED <<map, shardLocks, guard, budget>>

\* Fault: the bucket taken last is kept.
GiveUpBucketsButOne(t) ==
    lock' = [b \in Buckets |-> {h \in lock[b] : h.by # t \/ b[2] = call[t].i - 1}]

\* "Failed attempts release all locks before waiting."
GiveUpBuckets(t) == lock' = Unlocked(t)

\* A bucket is held by a guard: this thread's own is a panic, another's means
\* another round.  Either way the buckets and the shard are released.
ClearBusy(t) ==
    /\ pc(t) = "c_bucket" /\ lock[<<call[t].s, call[t].i>>] # {}
    /\ GiveUpBuckets(t)
    /\ excl' = [excl EXCEPT ![call[t].s] = None]
    /\ IF \E h \in lock[<<call[t].s, call[t].i>>] : h.owner = t THEN Return(t)
       ELSE Put(t, [pc |-> "c_try", i |-> 0])
    /\ UNCHANGED <<map, readers, guard, budget>>

InShard(s) == {b \in Buckets : b[1] = s}
Entries(s) == MapThenSumSet(LAMBDA b : Len(chain[b]), InShard(s))
ValuesIn(b) == {chain[b][n].value : n \in DOMAIN chain[b]}

\* Fault: the count of the chains is not subtracted.
CountClearedNot(s) == count' = count

CountCleared(s) == count' = [count EXCEPT ![s] = @ - Entries(s)]

\* Every bucket is held: the chains are detached, the buckets and the shard
\* are released, and the values are destroyed.
ClearDetach(t) ==
    /\ pc(t) = "c_detach"
    /\ LET s == call[t].s IN
       /\ chain' = [b \in Buckets |-> IF b[1] = s THEN <<>> ELSE chain[b]]
       /\ CountCleared(s)
       /\ gone' = gone \cup UNION {ValuesIn(b) : b \in InShard(s)}
       /\ lock' = Unlocked(t)
       /\ excl' = [excl EXCEPT ![s] = None]
       /\ IF s + 1 < SHARDS THEN Put(t, [pc |-> "c_try", s |-> s + 1, i |-> 0]) ELSE Return(t)
    /\ UNCHANGED <<readers, guard, budget>>

\* The shard is in use: wait for its shared lock, then look for own guards.
ClearInspect(t) ==
    /\ pc(t) = "c_inspect"
    /\ LockShared(call[t].s)
    /\ Goto(t, "c_assert")
    /\ UNCHANGED <<map, lock, guard, budget>>

ClearAssert(t) ==
    /\ pc(t) = "c_assert"
    /\ UnlockShared(call[t].s)
    /\ IF \E b \in InShard(call[t].s) : \E h \in lock[b] : h.owner = t THEN Return(t)
       ELSE Goto(t, "c_try")
    /\ UNCHANGED <<map, lock, guard, budget>>

-----------------------------------------------------------------------------
Step(t) ==
    \/ LockBucket(t) \/ InsertKey(t) \/ RemoveKey(t) \/ CountEntry(t) \/ GetGuard(t) \/ NoGuard(t)
    \/ UnlockBucket(t) \/ UnlockShard(t) \/ Panic(t)
    \/ WalkShard(t) \/ WalkCount(t) \/ WalkLock(t) \/ WalkPanic(t) \/ WalkRead(t) \/ WalkNext(t)
    \/ ClearTry(t) \/ ClearBucket(t) \/ ClearBusy(t) \/ ClearDetach(t)
    \/ ClearInspect(t) \/ ClearAssert(t)
    \/ \E g \in Guards : DropGuard(t, g)

Next ==
    \E t \in Threads :
        \/ \E k \in Keys, op \in {"insert", "remove", "contains"} : Begin(t, op, k, None)
        \/ \E k \in Keys, op \in {"get", "get_mut"}, g \in Guards : Begin(t, op, k, g)
        \/ Walk(t, "as_vec") \/ Walk(t, "len")
        \/ Clear(t)
        \/ Step(t)

Spec == Init /\ [][Next]_vars

-----------------------------------------------------------------------------
Labels == {"idle", "lock", "search", "count", "unlock", "unlock_shard", "w_shard", "w_count",
           "w_lock", "w_read", "w_next", "c_try", "c_bucket", "c_detach", "c_inspect", "c_assert"}
HoldType == [by : Threads \cup Guards, owner : Threads, read : BOOLEAN]

\* Every field has its type: the shards' counts never wrap below zero, and a
\* shard has no more shared holds than there are calls.
TypeOK ==
    /\ \A b \in Buckets : \A n \in DOMAIN chain[b] :
          chain[b][n].key \in Keys /\ chain[b][n].value \in 1..MAXINSERTS
    /\ gone \subseteq 1..MAXINSERTS
    /\ count \in [Shards -> 0..MAXINSERTS]
    /\ readers \in [Shards -> 0..Cardinality(Threads)]
    /\ excl \in [Shards -> Threads \cup {None}]
    /\ \A b \in Buckets : lock[b] \subseteq HoldType
    /\ guard \in [Guards -> {None} \cup [owner : Threads, key : Keys, read : BOOLEAN]]
    /\ \A t \in Threads : pc(t) \in Labels /\ call[t].s \in Shards

\* with_capacity_hasher_and_shard_amount() never makes a map with fewer buckets
\* than it was asked for, nor a shard without buckets (get_slot() divides by
\* their number).  The capacities are the numbers of calls made.
CapacityEnough ==
    \A n \in {2, 4, 8} : PerShard(calls, n) >= 1 /\ PerShard(calls, n) * n >= calls

\* A shard's count is the number of its entries, but for the entries a call
\* has linked or unlinked and not counted yet: it never drifts, and clear()
\* subtracts what it detaches.
CountExact ==
    \A s \in Shards :
        LET pending(op) == Cardinality({t \in Threads :
                pc(t) = "count" /\ call[t].s = s /\ call[t].op = op}) IN
        count[s] + pending("insert") - pending("remove") = Entries(s)

\* Every value insert() took is in the map, in a call that still searches, or
\* was given back or destroyed: once, and in one place.
ValuesOnce ==
    LET at(v) == {<<b, n>> \in Buckets \X (1..MAXINSERTS) :
                    n \in DOMAIN chain[b] /\ chain[b][n].value = v}
        asked(v) == {t \in Threads : call[t].op = "insert" /\ call[t].i = v
                                      /\ pc(t) \in {"lock", "search"}} IN
    \A v \in 1..values :
        Cardinality(at(v)) + Cardinality(asked(v)) + (IF v \in gone THEN 1 ELSE 0) = 1

\* The bucket locks are held by the live guards and the running calls that
\* locked them and by nobody else: a failed clear() and a panic leave none.
LocksExact ==
    \A b \in Buckets : \A h \in lock[b] :
        \/ h.by \in Guards /\ guard[h.by] # None /\ BucketOf(guard[h.by].key) = b
        \/ h.by \in Threads /\
             \/ pc(h.by) \in {"search", "count", "unlock"} /\ Bucket(h.by) = b
             \/ pc(h.by) = "w_read" /\ <<call[h.by].s, call[h.by].i>> = b
             \/ pc(h.by) \in {"c_bucket", "c_detach"} /\ call[h.by].s = b[1] /\ b[2] < call[h.by].i

\* as_vec(), which visits the buckets one by one while others insert and
\* remove, never returns two entries with one key.
VecKeysOnce ==
    \A t \in Threads : \A m, n \in DOMAIN call[t].seen :
        m # n => call[t].seen[m].key # call[t].seen[n].key

\* The dictionary the chains hold.
Lookup(k) ==
    LET at == {n \in DOMAIN chain[BucketOf(k)] : chain[BucketOf(k)][n].key = k} IN
    IF at = {} THEN None ELSE chain[BucketOf(k)][Min(at)].value

dict == [k \in Keys |-> Lookup(k)]

Dictionary == INSTANCE PinnedMap WITH
    Owners <- Threads, Values <- 1..MAXINSERTS,
    Groups <- {{k \in Keys : ShardOf(k) = s} : s \in Shards},
    pins <- guard

\* The map is a dictionary with pinned entries: insert(), remove() and each
\* shard's turn of clear() take effect at once and never under a live guard.
DictionaryInit == Dictionary!Init
DictionaryStep == Dictionary!Next \/ UNCHANGED <<dict, guard>>

\* Nobody is left in a call, clear() included, when its clients drop their
\* guards, take buckets in order, and one of them clears at a time.
Settled == \A t \in Threads : pc(t) = "idle"
=============================================================================
