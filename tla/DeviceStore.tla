----------------------------- MODULE DeviceStore -----------------------------
(***************************************************************************)
(* What the aggregator (src/core/aggregator.c) promises to its callers,    *)
(* with no threads, locks, nodes or counters: a map from MAC digests to    *)
(* device records on which every call of the API in                        *)
(* include/core/aggregator.h takes effect in one instant.                  *)
(* Aggregator.tla implements this specification.                           *)
(***************************************************************************)
EXTENDS DeviceRecord, FiniteSets

CONSTANT None  \* "no such device", "no snapshot held", "no answer pending"

VARIABLES
    store,  \* the record of each digest, or None
    snap,   \* the snapshot the caller holds, or None
    answer  \* the last device count not yet consumed, or None

vars == <<store, snap, answer>>

Present == {d \in Digests : store[d] # None}

Empty == [d \in Digests |-> None]

Init ==
    /\ store = Empty
    /\ snap = None
    /\ answer = None

\* aggregator_update: first sighting of d, or a refresh of its record.
Sight(d, p, s, t) ==
    /\ store' = [store EXCEPT ![d] =
                    IF store[d] = None THEN NewRecord(d, p, s, t)
                    ELSE WithSighting(WithSignal(store[d], s), p, t)]
    /\ UNCHANGED <<snap, answer>>

\* aggregator_prune_stale: every record stale at t goes, all others stay.
PruneStale(t) ==
    /\ store' = [d \in Digests |->
                    IF store[d] = None THEN None
                    ELSE IF Stale(store[d], t) THEN None ELSE store[d]]
    /\ UNCHANGED <<snap, answer>>

\* aggregator_snapshot and aggregator_free_snapshot.
Snapshot ==
    /\ snap' = store
    /\ UNCHANGED <<store, answer>>

FreeSnapshot ==
    /\ snap' = None
    /\ UNCHANGED <<store, answer>>

\* aggregator_device_count, and the caller done with its result.
DeviceCount ==
    /\ answer' = Cardinality(Present)
    /\ UNCHANGED <<store, snap>>

DropAnswer ==
    /\ answer' = None
    /\ UNCHANGED <<store, snap>>

\* aggregator_destroy.
Destroy ==
    /\ store' = Empty
    /\ UNCHANGED <<snap, answer>>

Next ==
    \/ \E d \in Digests, p \in Protocols, s \in Signals, t \in Times : Sight(d, p, s, t)
    \/ \E t \in Times : PruneStale(t)
    \/ Snapshot
    \/ FreeSnapshot
    \/ DeviceCount
    \/ DropAnswer
    \/ Destroy

Spec == Init /\ [][Next]_vars
==============================================================================
