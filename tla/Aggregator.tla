------------------------------ MODULE Aggregator ------------------------------
(***************************************************************************)
(* src/core/aggregator.c: the shared device table and its reader/writer    *)
(* lock, used by the capture threads (Writers: BLE scanner, Wi-Fi scanner, *)
(* replay feeder) and by the estimation loop (Main).                       *)
(*                                                                         *)
(* A step is one access to shared state, so every interleaving the lock    *)
(* leaves open is explored.  calloc may fail at any call.  Nodes are heap  *)
(* addresses; rec[n] = None says that n is not allocated.  The chains of   *)
(* the 1024 buckets are abstracted to the set "linked": a bucket is a      *)
(* function of the digest, so searching one chain is searching the table,  *)
(* and a traversal visits the linked nodes in an arbitrary order.          *)
(***************************************************************************)
EXTENDS DeviceRecord, FiniteSets, Sequences

CONSTANTS
    Writers,          \* capture threads
    Main,             \* the estimation loop's thread
    Macs,             \* pd_mac_t values on the air
    Digest,           \* compute_mac_hash: FNV-1a of each MAC
    Reports,          \* (MAC, protocol) pairs each capture thread may report
    Nodes,            \* heap addresses of pd_agg_node_t
    ClockMayStepBack, \* whether CLOCK_REALTIME can be set back
    None

\* What a writer has in hand: the arguments of its call and a clock reading.
Call == [digest: Digests, protocol: Protocols, signal: Signals, now: Times]

ASSUME AggregatorAssumption ==
    /\ Main \notin Writers
    /\ Digest \in [Macs -> Digests]
    /\ Reports \in [Writers -> SUBSET (Macs \X Protocols)]
    /\ IsFiniteSet(Nodes)
    /\ None \notin Record \cup Call
    /\ None \notin Seq(Record)
    /\ None \notin Nat
    /\ None \notin Nodes
    /\ None \notin Writers \cup {Main}

Threads == Writers \cup {Main}

VARIABLES
    clock,    \* CLOCK_REALTIME, tv_sec
    writer,   \* rwlock: the thread holding it for writing, or None
    readers,  \* rwlock: the threads holding it for reading
    rec,      \* the record at each allocated node
    linked,   \* the nodes reachable from agg->buckets
    count,    \* agg->count
    pc,       \* where each thread is
    call,     \* arguments and clock reading of each writer's call in progress,
              \* None between calls and once it has failed
    node,     \* the writer's local "node"
    now,      \* the pruner's local "now"
    todo,     \* nodes a traversal by Main has still to visit
    cap,      \* slots in the buffer of a snapshot being taken
    copied,   \* the records written to that buffer; its length is idx
    snap,     \* the snapshot Main owns, or None
    answer    \* the device count Main was given, or None

lockVars == <<writer, readers>>
tableVars == <<rec, linked, count>>
writerVars == <<call, node>>
mainVars == <<now, todo, cap, copied, snap, answer>>
vars == <<clock, lockVars, tableVars, pc, writerVars, mainVars>>

Goto(t, l) == pc' = [pc EXCEPT ![t] = l]

Init ==
    /\ clock = 0
    /\ writer = None /\ readers = {}
    /\ rec = [n \in Nodes |-> None] /\ linked = {} /\ count = 0
    /\ pc = [t \in Threads |-> "idle"]
    /\ call = [w \in Writers |-> None] /\ node = [w \in Writers |-> None]
    /\ now = 0 /\ todo = {} /\ cap = 0 /\ copied = <<>>
    /\ snap = None /\ answer = None

Tick ==
    /\ clock' \in Times \ {clock}
    /\ ClockMayStepBack \/ clock' > clock
    /\ UNCHANGED <<lockVars, tableVars, pc, writerVars, mainVars>>

-------------------------------------------------------------------------------
(* pthread_rwlock_t *)

WrLock(t) == writer = None /\ readers = {} /\ writer' = t /\ UNCHANGED readers

RdLock(t) == writer = None /\ readers' = readers \cup {t} /\ UNCHANGED writer

WrUnlock == writer' = None /\ UNCHANGED readers

RdUnlock(t) == readers' = readers \ {t} /\ UNCHANGED writer

-------------------------------------------------------------------------------
(* aggregator_update *)

\* Hashes the MAC and reads the clock, both before the lock is taken.
UpdateCall(w) ==
    /\ pc[w] = "idle"
    /\ \E r \in Reports[w], s \in Signals :
          call' = [call EXCEPT ![w] = [digest |-> Digest[r[1]], protocol |-> r[2],
                                       signal |-> s, now |-> clock]]
    /\ Goto(w, "lock")
    /\ UNCHANGED <<clock, lockVars, tableVars, node, mainVars>>

\* Mutant: the update takes the lock for reading.
UpdateLockShared(w) ==
    /\ pc[w] = "lock"
    /\ RdLock(w)
    /\ Goto(w, "find")
    /\ UNCHANGED <<clock, tableVars, writerVars, mainVars>>

UpdateLock(w) ==
    /\ pc[w] = "lock"
    /\ WrLock(w)
    /\ Goto(w, "find")
    /\ UNCHANGED <<clock, tableVars, writerVars, mainVars>>

\* find_node
Matches(w) == {n \in linked : rec[n].hash = call[w].digest}

FindHit(w) ==
    /\ pc[w] = "find"
    /\ \E n \in Matches(w) : node' = [node EXCEPT ![w] = n]
    /\ Goto(w, "signal")
    /\ UNCHANGED <<clock, lockVars, tableVars, call, mainVars>>

FindMiss(w) ==
    /\ pc[w] = "find"
    /\ Matches(w) = {}
    /\ Goto(w, "alloc")
    /\ UNCHANGED <<clock, lockVars, tableVars, writerVars, mainVars>>

StoreSignal(w) ==
    /\ pc[w] = "signal"
    /\ rec' = [rec EXCEPT ![node[w]] = WithSignal(@, call[w].signal)]
    /\ Goto(w, "seen")
    /\ UNCHANGED <<clock, lockVars, linked, count, writerVars, mainVars>>

StoreSeen(w) ==
    /\ pc[w] = "seen"
    /\ rec' = [rec EXCEPT ![node[w]] = WithSighting(@, call[w].protocol, call[w].now)]
    /\ Goto(w, "unlock")
    /\ UNCHANGED <<clock, lockVars, linked, count, writerVars, mainVars>>

AllocNode(w) ==
    /\ pc[w] = "alloc"
    /\ \E n \in Nodes :
          /\ rec[n] = None
          /\ rec' = [rec EXCEPT ![n] = NewRecord(call[w].digest, call[w].protocol,
                                                 call[w].signal, call[w].now)]
          /\ node' = [node EXCEPT ![w] = n]
    /\ Goto(w, "link")
    /\ UNCHANGED <<clock, lockVars, linked, count, call, mainVars>>

\* Mutant: the failing path returns with the lock held.
AllocFailsLocked(w) ==
    /\ pc[w] = "alloc"
    /\ call' = [call EXCEPT ![w] = None]
    /\ Goto(w, "idle")
    /\ UNCHANGED <<clock, lockVars, tableVars, node, mainVars>>

\* calloc returned NULL: the lock is released and the call returns -1.
AllocFails(w) ==
    /\ pc[w] = "alloc"
    /\ call' = [call EXCEPT ![w] = None]
    /\ Goto(w, "unlock")
    /\ UNCHANGED <<clock, lockVars, tableVars, node, mainVars>>

LinkNode(w) ==
    /\ pc[w] = "link"
    /\ linked' = linked \cup {node[w]}
    /\ Goto(w, "count")
    /\ UNCHANGED <<clock, lockVars, rec, count, writerVars, mainVars>>

CountNode(w) ==
    /\ pc[w] = "count"
    /\ count' = count + 1
    /\ Goto(w, "unlock")
    /\ UNCHANGED <<clock, lockVars, rec, linked, writerVars, mainVars>>

UpdateReturn(w) ==
    /\ pc[w] = "unlock"
    /\ WrUnlock
    /\ call' = [call EXCEPT ![w] = None] /\ node' = [node EXCEPT ![w] = None]
    /\ Goto(w, "idle")
    /\ UNCHANGED <<clock, tableVars, mainVars>>

\* The capture thread ends; it never ends inside a call.
ThreadExit(w) ==
    /\ pc[w] = "idle"
    /\ Goto(w, "done")
    /\ UNCHANGED <<clock, lockVars, tableVars, writerVars, mainVars>>

\* What a writer does while it holds the lock.
UpdateLocked(w) ==
    \/ FindHit(w) \/ FindMiss(w) \/ StoreSignal(w) \/ StoreSeen(w)
    \/ AllocNode(w) \/ AllocFails(w) \/ LinkNode(w) \/ CountNode(w)
    \/ UpdateReturn(w)

-------------------------------------------------------------------------------
(* aggregator_prune_stale *)

\* Reads the clock before the lock is taken.
PruneCall ==
    /\ pc[Main] = "idle"
    /\ now' = clock
    /\ Goto(Main, "prune_lock")
    /\ UNCHANGED <<clock, lockVars, tableVars, writerVars, todo, cap, copied, snap, answer>>

\* Mutant: the table is pruned without the lock.
PruneUnlocked ==
    /\ pc[Main] = "prune_lock"
    /\ todo' = linked
    /\ Goto(Main, "prune")
    /\ UNCHANGED <<clock, lockVars, tableVars, writerVars, now, cap, copied, snap, answer>>

PruneLock ==
    /\ pc[Main] = "prune_lock"
    /\ WrLock(Main)
    /\ todo' = linked
    /\ Goto(Main, "prune")
    /\ UNCHANGED <<clock, tableVars, writerVars, now, cap, copied, snap, answer>>

\* Mutant: the evicted node is not counted off.
PruneEvictUncounted(n) ==
    /\ pc[Main] = "prune"
    /\ n \in todo
    /\ Stale(rec[n], now)
    /\ linked' = linked \ {n}
    /\ rec' = [rec EXCEPT ![n] = None]
    /\ todo' = todo \ {n}
    /\ UNCHANGED <<clock, lockVars, count, pc, writerVars, now, cap, copied, snap, answer>>

\* Mutant: the evicted node is not freed.
PruneEvictLeaking(n) ==
    /\ pc[Main] = "prune"
    /\ n \in todo
    /\ Stale(rec[n], now)
    /\ linked' = linked \ {n}
    /\ count' = IF count > 0 THEN count - 1 ELSE count
    /\ todo' = todo \ {n}
    /\ UNCHANGED <<clock, lockVars, rec, pc, writerVars, now, cap, copied, snap, answer>>

PruneEvict(n) ==
    /\ pc[Main] = "prune"
    /\ n \in todo
    /\ Stale(rec[n], now)
    /\ linked' = linked \ {n}
    /\ rec' = [rec EXCEPT ![n] = None]
    /\ count' = IF count > 0 THEN count - 1 ELSE count
    /\ todo' = todo \ {n}
    /\ UNCHANGED <<clock, lockVars, pc, writerVars, now, cap, copied, snap, answer>>

PruneKeep(n) ==
    /\ pc[Main] = "prune"
    /\ n \in todo
    /\ ~Stale(rec[n], now)
    /\ todo' = todo \ {n}
    /\ UNCHANGED <<clock, lockVars, tableVars, pc, writerVars, now, cap, copied, snap, answer>>

PruneReturn ==
    /\ pc[Main] = "prune"
    /\ todo = {}
    /\ WrUnlock
    /\ now' = 0
    /\ Goto(Main, "idle")
    /\ UNCHANGED <<clock, tableVars, writerVars, todo, cap, copied, snap, answer>>

-------------------------------------------------------------------------------
(* aggregator_snapshot and aggregator_free_snapshot *)

SnapCall ==
    /\ pc[Main] = "idle"
    /\ Goto(Main, "snap_lock")
    /\ UNCHANGED <<clock, lockVars, tableVars, writerVars, mainVars>>

\* Mutant: the snapshot is taken without the lock.
SnapUnlocked ==
    /\ pc[Main] = "snap_lock"
    /\ Goto(Main, "snap_alloc")
    /\ UNCHANGED <<clock, lockVars, tableVars, writerVars, mainVars>>

SnapLock ==
    /\ pc[Main] = "snap_lock"
    /\ RdLock(Main)
    /\ Goto(Main, "snap_alloc")
    /\ UNCHANGED <<clock, tableVars, writerVars, mainVars>>

\* An empty table needs no buffer and is not traversed.
SnapAlloc ==
    /\ pc[Main] = "snap_alloc"
    /\ cap' = count
    /\ todo' = IF count = 0 THEN {} ELSE linked
    /\ Goto(Main, "copy")
    /\ UNCHANGED <<clock, lockVars, tableVars, writerVars, now, copied, snap, answer>>

SnapAllocFails ==
    /\ pc[Main] = "snap_alloc"
    /\ count # 0
    /\ RdUnlock(Main)
    /\ Goto(Main, "idle")
    /\ UNCHANGED <<clock, tableVars, writerVars, mainVars>>

\* records[idx++] = node->record
CopyNode(n) ==
    /\ pc[Main] = "copy"
    /\ n \in todo
    /\ copied' = Append(copied, rec[n])
    /\ todo' = todo \ {n}
    /\ UNCHANGED <<clock, lockVars, tableVars, pc, writerVars, now, cap, snap, answer>>

SnapReturn ==
    /\ pc[Main] = "copy"
    /\ todo = {}
    /\ RdUnlock(Main)
    /\ snap' = copied
    /\ copied' = <<>> /\ cap' = 0
    /\ Goto(Main, "own")
    /\ UNCHANGED <<clock, tableVars, writerVars, now, todo, answer>>

FreeSnapshot ==
    /\ pc[Main] = "own"
    /\ snap' = None
    /\ Goto(Main, "idle")
    /\ UNCHANGED <<clock, lockVars, tableVars, writerVars, now, todo, cap, copied, answer>>

-------------------------------------------------------------------------------
(* aggregator_device_count *)

CountCall ==
    /\ pc[Main] = "idle"
    /\ Goto(Main, "count_lock")
    /\ UNCHANGED <<clock, lockVars, tableVars, writerVars, mainVars>>

CountLock ==
    /\ pc[Main] = "count_lock"
    /\ RdLock(Main)
    /\ Goto(Main, "count_read")
    /\ UNCHANGED <<clock, tableVars, writerVars, mainVars>>

CountRead ==
    /\ pc[Main] = "count_read"
    /\ answer' = count
    /\ Goto(Main, "count_unlock")
    /\ UNCHANGED <<clock, lockVars, tableVars, writerVars, now, todo, cap, copied, snap>>

CountReturn ==
    /\ pc[Main] = "count_unlock"
    /\ RdUnlock(Main)
    /\ Goto(Main, "told")
    /\ UNCHANGED <<clock, tableVars, writerVars, mainVars>>

DropAnswer ==
    /\ pc[Main] = "told"
    /\ answer' = None
    /\ Goto(Main, "idle")
    /\ UNCHANGED <<clock, lockVars, tableVars, writerVars, now, todo, cap, copied, snap>>

\* What Main does while it holds the lock, for writing or for reading.
MainLocked ==
    \/ \E n \in todo : PruneEvict(n) \/ PruneKeep(n) \/ CopyNode(n)
    \/ PruneReturn \/ SnapAlloc \/ SnapAllocFails \/ SnapReturn
    \/ CountRead \/ CountReturn

-------------------------------------------------------------------------------
(* aggregator_destroy takes no lock: its caller has joined every writer, a *)
(* duty Detector.tla shows main.c to fulfil.                               *)

Destroy ==
    /\ pc[Main] = "idle"
    /\ \A w \in Writers : pc[w] = "done"
    /\ linked' = {}
    /\ rec' = [n \in Nodes |-> IF n \in linked THEN None ELSE rec[n]]
    /\ count' = 0  \* the struct is freed with its nodes
    /\ Goto(Main, "done")
    /\ UNCHANGED <<clock, lockVars, writerVars, mainVars>>

Terminated ==
    /\ \A t \in Threads : pc[t] = "done"
    /\ UNCHANGED vars

Update(w) == UpdateCall(w) \/ UpdateLock(w) \/ UpdateLocked(w) \/ ThreadExit(w)

MainStep ==
    \/ PruneCall \/ PruneLock \/ SnapCall \/ SnapLock \/ FreeSnapshot
    \/ CountCall \/ CountLock \/ DropAnswer \/ MainLocked \/ Destroy

Next == Tick \/ (\E w \in Writers : Update(w)) \/ MainStep \/ Terminated

\* A thread that holds the lock keeps running: nothing between a lock and
\* its unlock blocks.  Nothing is assumed of a thread waiting for the lock.
Fairness == (\A w \in Writers : WF_vars(UpdateLocked(w))) /\ WF_vars(MainLocked)

Spec == Init /\ [][Next]_vars

FairSpec == Spec /\ Fairness

-------------------------------------------------------------------------------
(* Safety *)

\* Every variable keeps its type; in particular observation_count stays a
\* uint32_t and agg->count never underflows.
TypeOK ==
    /\ clock \in Times
    /\ writer \in Threads \cup {None} /\ readers \subseteq Threads
    /\ rec \in [Nodes -> Record \cup {None}]
    /\ linked \subseteq Nodes /\ count \in Nat
    /\ pc \in [Threads -> {"idle", "lock", "find", "signal", "seen", "alloc", "link",
                           "count", "unlock", "prune_lock", "prune", "snap_lock",
                           "snap_alloc", "copy", "own", "count_lock", "count_read",
                           "count_unlock", "told", "done"}]
    /\ call \in [Writers -> Call \cup {None}]
    /\ node \in [Writers -> Nodes \cup {None}]
    /\ now \in Times /\ todo \subseteq Nodes
    /\ cap \in Nat /\ copied \in Seq(Record)
    /\ snap \in Seq(Record) \cup {None} /\ answer \in Nat \cup {None}

\* A device is in the table once: find_node and the insertion that follows a
\* miss are not separated by another thread's insertion of the same digest.
OneRecordPerDigest ==
    \A m, n \in linked : rec[m].hash = rec[n].hash => m = n

\* Whenever no update or prune is in progress, agg->count is the number of
\* nodes in the buckets; the size of a snapshot's buffer rests on it.
CountMatchesTable == writer = None => count = Cardinality(linked)

\* The traversal of aggregator_snapshot has exactly as many nodes left as
\* the buffer has free slots: records[idx++] never passes the end.
SnapshotFits == pc[Main] = "copy" => Len(copied) + Cardinality(todo) = cap

\* A pointer a thread is about to write through, or to visit, is a node still
\* in the table and of the digest it was looked up for: no use after free.
NoDanglingNode ==
    /\ \A w \in Writers : pc[w] \in {"signal", "seen"} =>
          node[w] \in linked /\ rec[node[w]].hash = call[w].digest
    /\ todo \subseteq linked

\* Every allocated node is in the table or in the hands of the one thread
\* about to link it (CONTRIBUTING.md:55, "exactly one owner").
EveryNodeOwned ==
    {n \in Nodes : rec[n] # None} =
        linked \cup {node[w] : w \in {v \in Writers : pc[v] = "link"}}

-------------------------------------------------------------------------------
(* Liveness *)

\* Whoever takes the lock gives it back, on the failing paths too.
LockReleased ==
    /\ \A t \in Threads : writer = t ~> writer # t
    /\ Main \in readers ~> Main \notin readers

-------------------------------------------------------------------------------
(* Aggregator implements DeviceStore.  An update takes effect at its first *)
(* write to the table, a prune when it gets the lock, a snapshot or a      *)
(* count while it holds it.                                                *)

\* A record as it will be once the refresh in progress on it is over.
Settled(n) ==
    LET pending == {w \in Writers : pc[w] = "seen" /\ node[w] = n}
    IN IF pending = {} THEN rec[n]
       ELSE LET w == CHOOSE w \in pending : TRUE
            IN WithSighting(rec[n], call[w].protocol, call[w].now)

\* The nodes the prune in progress, if any, will leave in the table.
Surviving ==
    {n \in linked : ~(pc[Main] = "prune" /\ n \in todo /\ Stale(rec[n], now))}

StoreView ==
    [d \in Digests |->
        LET ns == {n \in Surviving : rec[n].hash = d}
        IN IF ns = {} THEN None ELSE Settled(CHOOSE n \in ns : TRUE)]

SnapView ==
    IF snap = None THEN None
    ELSE [d \in Digests |->
             LET is == {i \in DOMAIN snap : snap[i].hash = d}
             IN IF is = {} THEN None ELSE snap[CHOOSE i \in is : TRUE]]

Store == INSTANCE DeviceStore WITH store <- StoreView, snap <- SnapView

\* Linearizability of the aggregator's API: every interleaving of the calls
\* has the effect of the same calls made one at a time; a snapshot in
\* particular is the whole table at one instant, with no half-written record.
Linearizable == Store!Spec
==============================================================================
