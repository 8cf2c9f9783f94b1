---------------------------- MODULE MCAtomicVec ----------------------------
(***************************************************************************)
(* AtomicVec on three instances: three threads that push and pop, two that *)
(* also call the bulk operations on a vector with a filled pool, and two   *)
(* that retire a block with every pop (CAP = 2, one slot per block).       *)
(***************************************************************************)
EXTENDS Integers, TLC

CONSTANTS Three, Two,                            \* disjoint sets of threads
          QUEUECALLS, BULKCALLS, BACKLOGCALLS,   \* bounds: calls made on the instances
          None

VARIABLES scenario, head, tail, mem, alloc, cache, pool, retired, backlog, pins, excl, ins, outs,
          ticket, calls, call

Queue == INSTANCE AtomicVec WITH
    Threads <- Three, Ops <- {"push", "pop"}, PREFILL <- 0, CAP <- 3, NBLOCKS <- 6,
    MAXCALLS <- QUEUECALLS, RECLAIM <- 1, FORCE <- 2, POOL <- 1, WORD <- 30, MAXPUSHES <- 4,
    MAXARG <- 1

Bulk == INSTANCE AtomicVec WITH
    Threads <- Two, PREFILL <- 1, CAP <- 3, NBLOCKS <- 6,
    Ops <- {"push", "pop", "len", "capacity", "reverse", "remove", "as_vec", "reset", "swap"},
    MAXCALLS <- BULKCALLS, RECLAIM <- 1, FORCE <- 2, POOL <- 1, WORD <- 30, MAXPUSHES <- 4,
    MAXARG <- 1

Backlog == INSTANCE AtomicVec WITH
    Threads <- Two, Ops <- {"push", "pop"}, PREFILL <- 0, CAP <- 2, NBLOCKS <- 7,
    MAXCALLS <- BACKLOGCALLS, RECLAIM <- 1, FORCE <- 1, POOL <- 1, WORD <- 30, MAXPUSHES <- 4,
    MAXARG <- 1

ASSUME VecAssumptions ==
    /\ Three \cap Two = {}
    /\ Queue!VecAssumption /\ Bulk!VecAssumption /\ Backlog!VecAssumption

vars == <<scenario, Queue!vars>>

IsQueue == scenario = "queue"
IsBulk == scenario = "bulk"
IsBacklog == scenario = "backlog"

Init == (IsQueue /\ Queue!Init) \/ (IsBulk /\ Bulk!Init) \/ (IsBacklog /\ Backlog!Init)

Next ==
    /\ UNCHANGED scenario
    /\ (IsQueue /\ Queue!Next) \/ (IsBulk /\ Bulk!Next) \/ (IsBacklog /\ Backlog!Next)

Spec == Init /\ [][Next]_vars

\* A behaviour has threads of one set only.
Symmetry == Permutations(Three) \cup Permutations(Two)

-----------------------------------------------------------------------------
\* Every operation returns what it should: pops the values in the order their
\* pushes claimed slots, remove(), reverse(), as_vec() and reset_with() what
\* their names say, and len() no underflow while reset_with() restarts the
\* indices.
ResultsExact ==
    /\ IsQueue => Queue!PopsInOrder
    /\ IsBulk => Bulk!PopsInOrder /\ Bulk!BulkExact /\ Bulk!LenNoUnderflow
    /\ IsBacklog => Backlog!PopsInOrder

\* No operation uses a block that has been retired.
NoRetiredAccess ==
    /\ IsQueue => Queue!NoRetiredAccess
    /\ IsBulk => Bulk!NoRetiredAccess
    /\ IsBacklog => Backlog!NoRetiredAccess

\* Every field has its type, every block is in one place, and drop() frees each
\* once.
BlocksOwnedOnce ==
    /\ IsQueue => Queue!TypeOK /\ Queue!BlocksOwnedOnce
    /\ IsBulk => Bulk!TypeOK /\ Bulk!BlocksOwnedOnce
    /\ IsBacklog => Backlog!TypeOK /\ Backlog!BlocksOwnedOnce

\* Traversals, logical indices and len() agree with the queue of values.
QuietContents ==
    /\ IsQueue => Queue!QuietContents
    /\ IsBulk => Bulk!QuietContents
    /\ IsBacklog => Backlog!QuietContents

\* Poppers keep the backlog of retired blocks bounded.
BacklogBounded == IsBacklog => Backlog!BacklogBounded
=============================================================================
