----------------------------- MODULE PinnedMap -----------------------------
(***************************************************************************)
(* What AtomicHashMap promises: a dictionary whose entries can be pinned.  *)
(* Setting, deleting and wiping are atomic, and never touch an entry that  *)
(* a guard shows to somebody.  A guard for writing is alone on its key; the *)
(* guards for reading one key belong to one thread.                        *)
(***************************************************************************)
CONSTANTS Keys, Guards, Owners, Values, Groups, None

VARIABLES dict,  \* key -> its value or None
          pins   \* guard -> None or [owner, key, read]

Pinned(k) == \E g \in Guards : pins[g] # None /\ pins[g].key = k

Init == dict = [k \in Keys |-> None] /\ pins = [g \in Guards |-> None]

\* insert(), of a new key or over an old value
Set(k, v) == ~Pinned(k) /\ dict' = [dict EXCEPT ![k] = v] /\ UNCHANGED pins

\* remove()
Del(k) == ~Pinned(k) /\ dict' = [dict EXCEPT ![k] = None] /\ UNCHANGED pins

\* One shard's turn of clear()
Wipe(ks) ==
    /\ \A k \in ks : ~Pinned(k)
    /\ dict' = [k \in Keys |-> IF k \in ks THEN None ELSE dict[k]]
    /\ UNCHANGED pins

\* get() and get_mut() that find their key
Pin(g, t, k, rd) ==
    /\ pins[g] = None /\ dict[k] # None
    /\ \A h \in Guards : pins[h] # None /\ pins[h].key = k =>
          rd /\ pins[h].read /\ pins[h].owner = t
    /\ pins' = [pins EXCEPT ![g] = [owner |-> t, key |-> k, read |-> rd]]
    /\ UNCHANGED dict

\* The guard's drop
Unpin(g) == pins[g] # None /\ pins' = [pins EXCEPT ![g] = None] /\ UNCHANGED dict

Next ==
    \/ \E k \in Keys : Del(k) \/ \E v \in Values : Set(k, v)
    \/ \E ks \in Groups : Wipe(ks)
    \/ \E g \in Guards : Unpin(g) \/ \E t \in Owners, k \in Keys, rd \in BOOLEAN : Pin(g, t, k, rd)

Spec == Init /\ [][Next]_<<dict, pins>>
=============================================================================
