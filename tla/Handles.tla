------------------------------ MODULE Handles ------------------------------
(***************************************************************************)
(* The reference-counted handles of RwLock, AtomicCell, AtomicVec,         *)
(* AtomicArray, AtomicHashMap and Mpmc: clone() counts, drop() counts down *)
(* and the last one frees the storage.  Handles may be forgotten           *)
(* (mem::forget), so the count can grow without bound: "Bound forgotten-   *)
(* clone counts before overflow can free live storage" (core/mod.rs).      *)
(* The line numbers are RwLock's.                                          *)
(***************************************************************************)
EXTENDS Naturals, FiniteSets

CONSTANTS Ids,     \* places where clients keep a handle
          WORD,    \* the count is modulo WORD, 2^64 in the code
          MAXREFS  \* isize::MAX

\* Every clone() that has counted and not yet aborted still fits.
HandlesAssumption == IsFiniteSet(Ids) /\ MAXREFS + Cardinality(Ids) < WORD

VARIABLES count,     \* ref_count
          handle,    \* Ids -> "none", "live", "doomed" or "last"
          forgotten, \* handles that were forgotten
          freed,     \* how often the storage was freed
          aborted    \* process::abort() was called

handles == <<count, handle, forgotten, freed, aborted>>

\* new(): one handle, counted.
HandlesInit ==
    /\ count = 1 /\ forgotten = 0 /\ freed = 0 /\ aborted = FALSE
    /\ \E h \in Ids : handle = [i \in Ids |-> IF i = h THEN "live" ELSE "none"]

Live(h) == handle[h] = "live" /\ ~aborted
Becomes(h, st) == handle' = [handle EXCEPT ![h] = st]

TooMany == count >= MAXREFS

\* clone(): fetch_add, then the test of the count it returned ...
Clone(h, new) ==
    /\ Live(h) /\ handle[new] = "none"
    /\ count' = (count + 1) % WORD
    /\ Becomes(new, IF TooMany THEN "doomed" ELSE "live")
    /\ UNCHANGED <<forgotten, freed, aborted>>

\* ... and abort().
Abort(h) ==
    /\ handle[h] = "doomed" /\ aborted' = TRUE
    /\ UNCHANGED <<count, handle, forgotten, freed>>

Forget(h) ==
    /\ Live(h)
    /\ Becomes(h, "none") /\ forgotten' = forgotten + 1
    /\ UNCHANGED <<count, freed, aborted>>

IsLast == count = 1

\* drop(): fetch_sub ...
Drop(h) ==
    /\ Live(h)
    /\ count' = (count + WORD - 1) % WORD
    /\ Becomes(h, IF IsLast THEN "last" ELSE "none")
    /\ UNCHANGED <<forgotten, freed, aborted>>

\* ... and the handle that counted down from one frees the storage.
Free(h) ==
    /\ handle[h] = "last" /\ ~aborted
    /\ Becomes(h, "none") /\ freed' = freed + 1
    /\ UNCHANGED <<count, forgotten, aborted>>

-----------------------------------------------------------------------------
InState(st) == {h \in Ids : handle[h] = st}

HandlesTypeOK ==
    /\ count \in 0..(WORD - 1) /\ forgotten \in Nat /\ freed \in Nat /\ aborted \in BOOLEAN
    /\ handle \in [Ids -> {"none", "live", "doomed", "last"}]

\* Every handle, the forgotten ones too, is counted, and the count never wraps.
CountExact == count = Cardinality(InState("live") \cup InState("doomed")) + forgotten

\* The storage is freed once, by the last handle, and only when no handle is
\* left, not even a forgotten one, through which its data could be reached.
FreedOnce ==
    /\ freed + Cardinality(InState("last")) <= 1
    /\ freed + Cardinality(InState("last")) = 1 <=> InState("live") = {} /\ forgotten = 0
=============================================================================
