--------------------------- MODULE AggregatorProofs ---------------------------
(* Safety of Aggregator for any number of capture threads, digests, nodes,  *)
(* sightings and clock readings; that it implements DeviceStore; and that a *)
(* device that one thread reports is not evicted early.                     *)
EXTENDS AggregatorHistory, FiniteSetTheorems, FunctionTheorems, TLAPS

\* A writer between its lock and its unlock; likewise Main as a reader.
Updating == {"find", "signal", "seen", "alloc", "link", "count", "unlock"}
Reading == {"snap_alloc", "copy", "count_read", "count_unlock"}

WriterLabels == {"idle", "lock", "done"} \cup Updating
MainLabels == {"idle", "prune_lock", "prune", "snap_lock", "own", "count_lock",
               "told", "done"} \cup Reading

\* Who holds the lock can be read off the program counters, and a writer
\* excludes everybody else.
LockInv ==
    /\ pc \in [Threads -> WriterLabels \cup MainLabels]
    /\ \A w \in Writers : pc[w] \in WriterLabels
    /\ pc[Main] \in MainLabels
    /\ \A w \in Writers : pc[w] \in Updating <=> writer = w
    /\ pc[Main] = "prune" <=> writer = Main
    /\ readers = IF pc[Main] \in Reading THEN {Main} ELSE {}
    /\ writer # None => readers = {}

\* Nobody holds the lock at first.
LEMMA LockInit == ASSUME Init PROVE LockInv
  BY AggregatorAssumption
     DEF Init, LockInv, Threads, Updating, Reading, WriterLabels, MainLabels

\* The lock discipline survives every step of every thread.
LEMMA LockStep == ASSUME LockInv, [Next]_vars PROVE LockInv'
  <1> USE AggregatorAssumption
      DEF LockInv, Threads, Goto, lockVars, tableVars, writerVars, mainVars,
          WrLock, RdLock, WrUnlock, RdUnlock,
          Updating, Reading, WriterLabels, MainLabels
  <1>1. CASE UNCHANGED vars
    BY <1>1 DEF vars
  <1>2. CASE Tick
    BY <1>2 DEF Tick
  <1>3. ASSUME NEW w \in Writers, Update(w) PROVE LockInv'
    <2>1. CASE UpdateCall(w) BY <2>1 DEF UpdateCall
    <2>2. CASE UpdateLock(w) BY <2>2 DEF UpdateLock
    <2>3. CASE FindHit(w) BY <2>3 DEF FindHit
    <2>4. CASE FindMiss(w) BY <2>4 DEF FindMiss
    <2>5. CASE StoreSignal(w) BY <2>5 DEF StoreSignal
    <2>6. CASE StoreSeen(w) BY <2>6 DEF StoreSeen
    <2>7. CASE AllocNode(w) BY <2>7 DEF AllocNode
    <2>8. CASE AllocFails(w) BY <2>8 DEF AllocFails
    <2>9. CASE LinkNode(w) BY <2>9 DEF LinkNode
    <2>10. CASE CountNode(w) BY <2>10 DEF CountNode
    <2>11. CASE UpdateReturn(w) BY <2>11 DEF UpdateReturn
    <2>12. CASE ThreadExit(w) BY <2>12 DEF ThreadExit
    <2> QED BY <1>3, <2>1, <2>2, <2>3, <2>4, <2>5, <2>6, <2>7, <2>8, <2>9, <2>10,
               <2>11, <2>12 DEF Update, UpdateLocked
  <1>4. CASE MainStep
    <2>1. CASE PruneCall BY <2>1 DEF PruneCall
    <2>2. CASE PruneLock BY <2>2 DEF PruneLock
    <2>3. ASSUME NEW n \in todo,
    PruneEvict(n) PROVE LockInv' BY <2>3 DEF PruneEvict
    <2>4. ASSUME NEW n \in todo, PruneKeep(n) PROVE LockInv' BY <2>4 DEF PruneKeep
    <2>5. CASE PruneReturn BY <2>5 DEF PruneReturn
    <2>6. CASE SnapCall BY <2>6 DEF SnapCall
    <2>7. CASE SnapLock BY <2>7 DEF SnapLock
    <2>8. CASE SnapAlloc BY <2>8 DEF SnapAlloc
    <2>9. CASE SnapAllocFails BY <2>9 DEF SnapAllocFails
    <2>10. ASSUME NEW n \in todo, CopyNode(n) PROVE LockInv' BY <2>10 DEF CopyNode
    <2>11. CASE SnapReturn BY <2>11 DEF SnapReturn
    <2>12. CASE FreeSnapshot BY <2>12 DEF FreeSnapshot
    <2>13. CASE CountCall BY <2>13 DEF CountCall
    <2>14. CASE CountLock BY <2>14 DEF CountLock
    <2>15. CASE CountRead BY <2>15 DEF CountRead
    <2>16. CASE CountReturn BY <2>16 DEF CountReturn
    <2>17. CASE DropAnswer BY <2>17 DEF DropAnswer
    <2>18. CASE Destroy BY <2>18 DEF Destroy
    <2> QED BY <1>4, <2>1, <2>2, <2>3, <2>4, <2>5, <2>6, <2>7, <2>8, <2>9, <2>10,
               <2>11, <2>12, <2>13, <2>14, <2>15, <2>16, <2>17, <2>18
            DEF MainStep, MainLocked
  <1> QED BY <1>1, <1>2, <1>3, <1>4 DEF Next, Terminated

-------------------------------------------------------------------------------
\* The arguments of a call in progress are there.
CallInv == \A w \in Writers : pc[w] \in ({"lock"} \cup Updating) \ {"unlock"} => call[w] \in Call

\* What the lock protects.  A writer about to store through "node" has the
\* node of its digest; one that missed knows that no other writer can have
\* inserted the digest since.
TableInv ==
    /\ \A n \in linked : rec[n] # None
    /\ OneRecordPerDigest
    /\ \A w \in Writers : pc[w] \in {"signal", "seen"} =>
          node[w] \in linked /\ rec[node[w]].hash = call[w].digest
    /\ \A w \in Writers : pc[w] \in {"alloc", "link"} =>
          \A n \in linked : rec[n].hash # call[w].digest
    /\ \A w \in Writers : pc[w] = "link" =>
          /\ node[w] \in Nodes \ linked
          /\ rec[node[w]] # None
          /\ rec[node[w]].hash = call[w].digest
    /\ EveryNodeOwned

\* Only the writer between link and count makes the counter differ.
CountInv ==
    count = Cardinality(linked) - (IF \E w \in Writers : pc[w] = "count" THEN 1 ELSE 0)

CountedNodeInv == \A w \in Writers : pc[w] = "count" => node[w] \in linked

\* What Main has still to visit is in the table, and fits in its buffer.
TraversalInv ==
    /\ todo \subseteq linked
    /\ pc[Main] \notin {"prune", "copy"} => todo = {}
    /\ pc[Main] # "copy" => copied = <<>>
    /\ SnapshotFits

\* What becomes of a record: it stays one, and keeps its digest.
LEMMA NewRecordType ==
    ASSUME NEW d \in Digests, NEW p \in Protocols, NEW s \in Signals, NEW t \in Times
    PROVE  NewRecord(d, p, s, t) \in Record /\ NewRecord(d, p, s, t).hash = d
  BY RecordAssumption DEF NewRecord, Record

\* ... so does WithSignal ...
LEMMA WithSignalType ==
    ASSUME NEW r \in Record, NEW s \in Signals
    PROVE  WithSignal(r, s) \in Record /\ WithSignal(r, s).hash = r.hash
  BY DEF WithSignal, Record

\* ... and WithSighting, whose counter wraps.
LEMMA WithSightingType ==
    ASSUME NEW r \in Record, NEW p \in Protocols, NEW t \in Times
    PROVE  WithSighting(r, p, t) \in Record /\ WithSighting(r, p, t).hash = r.hash
  <1>1. r.observation_count + (IF r.protocol = p THEN 1 ELSE 2) \in Nat
    BY RecordAssumption DEF Record
  <1>2. (r.observation_count + (IF r.protocol = p THEN 1 ELSE 2)) % CounterSize
           \in 0 .. CounterSize - 1
    BY <1>1, RecordAssumption
  <1> QED BY <1>2 DEF WithSighting, Record

\* The arguments of a call and the record it is about to write.
LEMMA CallFields ==
    ASSUME NEW c \in Call
    PROVE  /\ c.digest \in Digests /\ c.protocol \in Protocols
           /\ c.signal \in Signals /\ c.now \in Times
  BY DEF Call

\* A call keeps its arguments until it unlocks.
LEMMA CallStep == ASSUME LockInv, TypeOK, CallInv, [Next]_vars PROVE CallInv'
  <1> USE AggregatorAssumption DEF CallInv, TypeOK, Threads, Goto, lockVars,
      tableVars, writerVars, mainVars,
          WrLock, RdLock, WrUnlock, RdUnlock,
          LockInv, Updating, Reading, WriterLabels, MainLabels
  <1>1. CASE UNCHANGED vars
    BY <1>1 DEF vars
  <1>2. CASE Tick
    BY <1>2 DEF Tick
  <1>3. ASSUME NEW w \in Writers, Update(w) PROVE CallInv'
    <2>1. CASE UpdateCall(w)
      BY <2>1 DEF UpdateCall, Call
    <2>2. CASE UpdateLock(w) BY <2>2 DEF UpdateLock
    <2>3. CASE FindHit(w) BY <2>3 DEF FindHit
    <2>4. CASE FindMiss(w) BY <2>4 DEF FindMiss
    <2>5. CASE StoreSignal(w) BY <2>5 DEF StoreSignal
    <2>6. CASE StoreSeen(w) BY <2>6 DEF StoreSeen
    <2>7. CASE AllocNode(w) BY <2>7 DEF AllocNode
    <2>8. CASE AllocFails(w) BY <2>8 DEF AllocFails
    <2>9. CASE LinkNode(w) BY <2>9 DEF LinkNode
    <2>10. CASE CountNode(w) BY <2>10 DEF CountNode
    <2>11. CASE UpdateReturn(w) BY <2>11 DEF UpdateReturn
    <2>12. CASE ThreadExit(w) BY <2>12 DEF ThreadExit
    <2> QED BY <1>3, <2>1, <2>2, <2>3, <2>4, <2>5, <2>6, <2>7, <2>8, <2>9, <2>10,
               <2>11, <2>12 DEF Update, UpdateLocked
  <1>4. CASE MainStep
    <2>1. CASE PruneCall BY <2>1 DEF PruneCall
    <2>2. CASE PruneLock BY <2>2 DEF PruneLock
    <2>3. ASSUME NEW n \in todo,
    PruneEvict(n) PROVE CallInv' BY <2>3 DEF PruneEvict
    <2>4. ASSUME NEW n \in todo, PruneKeep(n) PROVE CallInv' BY <2>4 DEF PruneKeep
    <2>5. CASE PruneReturn BY <2>5 DEF PruneReturn
    <2>6. CASE SnapCall BY <2>6 DEF SnapCall
    <2>7. CASE SnapLock BY <2>7 DEF SnapLock
    <2>8. CASE SnapAlloc BY <2>8 DEF SnapAlloc
    <2>9. CASE SnapAllocFails BY <2>9 DEF SnapAllocFails
    <2>10. ASSUME NEW n \in todo, CopyNode(n) PROVE CallInv' BY <2>10 DEF CopyNode
    <2>11. CASE SnapReturn BY <2>11 DEF SnapReturn
    <2>12. CASE FreeSnapshot BY <2>12 DEF FreeSnapshot
    <2>13. CASE CountCall BY <2>13 DEF CountCall
    <2>14. CASE CountLock BY <2>14 DEF CountLock
    <2>15. CASE CountRead BY <2>15 DEF CountRead
    <2>16. CASE CountReturn BY <2>16 DEF CountReturn
    <2>17. CASE DropAnswer BY <2>17 DEF DropAnswer
    <2>18. CASE Destroy BY <2>18 DEF Destroy
    <2> QED BY <1>4, <2>1, <2>2, <2>3, <2>4, <2>5, <2>6, <2>7, <2>8, <2>9, <2>10,
               <2>11, <2>12, <2>13, <2>14, <2>15, <2>16, <2>17, <2>18
            DEF MainStep, MainLocked
  <1> QED BY <1>1, <1>2, <1>3, <1>4 DEF Next, Terminated

\* Every action keeps the types: a record a writer refreshes exists, and is
\* still a record afterwards.
LEMMA TypeStep ==
    ASSUME LockInv, TypeOK, CallInv, TableInv, TraversalInv, [Next]_vars
    PROVE  TypeOK'
  <1> USE AggregatorAssumption
      DEF TypeOK, Threads, Goto, lockVars, tableVars, writerVars, mainVars,
          WrLock, RdLock, WrUnlock, RdUnlock,
          LockInv, Updating, Reading, WriterLabels, MainLabels
  <1>1. CASE UNCHANGED vars
    BY <1>1 DEF vars
  <1>2. CASE Tick
    BY <1>2 DEF Tick
  <1>3. ASSUME NEW w \in Writers, Update(w) PROVE TypeOK'
    <2>1. CASE UpdateCall(w)
      BY <2>1 DEF UpdateCall, Call
    <2>2. CASE UpdateLock(w) BY <2>2 DEF UpdateLock
    <2>3. CASE FindHit(w)
      BY <2>3 DEF FindHit, Matches
    <2>4. CASE FindMiss(w) BY <2>4 DEF FindMiss
    <2>5. CASE StoreSignal(w)
      <3>1. node[w] \in Nodes /\ rec[node[w]] \in Record /\ call[w].signal \in Signals
        BY <2>5, CallFields DEF StoreSignal, TableInv, CallInv
      <3>2. WithSignal(rec[node[w]], call[w].signal) \in Record
        BY <3>1, WithSignalType
      <3> QED BY <2>5, <3>1, <3>2 DEF StoreSignal
    <2>6. CASE StoreSeen(w)
      <3>1. /\ node[w] \in Nodes /\ rec[node[w]] \in Record
            /\ call[w].protocol \in Protocols /\ call[w].now \in Times
        BY <2>6, CallFields DEF StoreSeen, TableInv, CallInv
      <3>2. WithSighting(rec[node[w]], call[w].protocol, call[w].now) \in Record
        BY <3>1, WithSightingType
      <3> QED BY <2>6, <3>1, <3>2 DEF StoreSeen
    <2>7. CASE AllocNode(w)
      <3>1. call[w] \in Call
        BY <2>7 DEF AllocNode, CallInv
      <3>2. NewRecord(call[w].digest, call[w].protocol, call[w].signal, call[w].now) \in Record
        BY <3>1, CallFields, NewRecordType
      <3> QED BY <2>7, <3>2 DEF AllocNode
    <2>8. CASE AllocFails(w) BY <2>8 DEF AllocFails
    <2>9. CASE LinkNode(w)
      BY <2>9 DEF LinkNode, TableInv
    <2>10. CASE CountNode(w) BY <2>10 DEF CountNode
    <2>11. CASE UpdateReturn(w) BY <2>11 DEF UpdateReturn
    <2>12. CASE ThreadExit(w) BY <2>12 DEF ThreadExit
    <2> QED BY <1>3, <2>1, <2>2, <2>3, <2>4, <2>5, <2>6, <2>7, <2>8, <2>9, <2>10,
               <2>11, <2>12 DEF Update, UpdateLocked
  <1>4. CASE MainStep
    <2>1. CASE PruneCall BY <2>1 DEF PruneCall
    <2>2. CASE PruneLock BY <2>2 DEF PruneLock
    <2>3. ASSUME NEW n \in todo,
    PruneEvict(n) PROVE TypeOK' BY <2>3 DEF PruneEvict
    <2>4. ASSUME NEW n \in todo, PruneKeep(n) PROVE TypeOK' BY <2>4 DEF PruneKeep
    <2>5. CASE PruneReturn
      BY <2>5, RecordAssumption DEF PruneReturn, Times
    <2>6. CASE SnapCall BY <2>6 DEF SnapCall
    <2>7. CASE SnapLock BY <2>7 DEF SnapLock
    <2>8. CASE SnapAlloc BY <2>8 DEF SnapAlloc
    <2>9. CASE SnapAllocFails BY <2>9 DEF SnapAllocFails
    <2>10. ASSUME NEW n \in todo, CopyNode(n) PROVE TypeOK'
      <3>1. rec[n] \in Record
        BY <2>10 DEF CopyNode, TableInv, TraversalInv
      <3> QED BY <2>10, <3>1 DEF CopyNode
    <2>11. CASE SnapReturn BY <2>11 DEF SnapReturn
    <2>12. CASE FreeSnapshot BY <2>12 DEF FreeSnapshot
    <2>13. CASE CountCall BY <2>13 DEF CountCall
    <2>14. CASE CountLock BY <2>14 DEF CountLock
    <2>15. CASE CountRead BY <2>15 DEF CountRead
    <2>16. CASE CountReturn BY <2>16 DEF CountReturn
    <2>17. CASE DropAnswer BY <2>17 DEF DropAnswer
    <2>18. CASE Destroy BY <2>18 DEF Destroy
    <2> QED BY <1>4, <2>1, <2>2, <2>3, <2>4, <2>5, <2>6, <2>7, <2>8, <2>9, <2>10,
               <2>11, <2>12, <2>13, <2>14, <2>15, <2>16, <2>17, <2>18
            DEF MainStep, MainLocked
  <1> QED BY <1>1, <1>2, <1>3, <1>4 DEF Next, Terminated

\* The table and the writers' pointers into it stay consistent: only the
\* holder of the lock changes either.
LEMMA TableStep ==
    ASSUME LockInv, TypeOK, CallInv, TableInv, TraversalInv, [Next]_vars
    PROVE  TableInv'
  <1> USE AggregatorAssumption DEF TypeOK, TableInv, OneRecordPerDigest,
      EveryNodeOwned, Threads, Goto, lockVars, tableVars, writerVars, mainVars,
          WrLock, RdLock, WrUnlock, RdUnlock,
          LockInv, Updating, Reading, WriterLabels, MainLabels
  <1>1. CASE UNCHANGED vars
    BY <1>1 DEF vars
  <1>2. CASE Tick
    BY <1>2 DEF Tick
  <1>3. ASSUME NEW w \in Writers, Update(w) PROVE TableInv'
    <2>1. CASE UpdateCall(w) BY <2>1 DEF UpdateCall
    <2>2. CASE UpdateLock(w) BY <2>2 DEF UpdateLock
    <2>3. CASE FindHit(w)
      BY <2>3 DEF FindHit, Matches
    <2>4. CASE FindMiss(w)
      BY <2>4 DEF FindMiss, Matches
    <2>5. CASE StoreSignal(w)
      <3>1. node[w] \in linked /\ rec[node[w]] \in Record /\ call[w].signal \in Signals
        BY <2>5, CallFields DEF StoreSignal, CallInv
      <3>2. /\ rec'[node[w]] \in Record
            /\ rec'[node[w]].hash = rec[node[w]].hash
            /\ \A n \in Nodes \ {node[w]} : rec'[n] = rec[n]
        BY <2>5, <3>1, WithSignalType DEF StoreSignal
      <3> QED BY <2>5, <3>1, <3>2 DEF StoreSignal
    <2>6. CASE StoreSeen(w)
      <3>1. /\ node[w] \in linked /\ rec[node[w]] \in Record
            /\ call[w].protocol \in Protocols /\ call[w].now \in Times
        BY <2>6, CallFields DEF StoreSeen, CallInv
      <3>2. /\ rec'[node[w]] \in Record
            /\ rec'[node[w]].hash = rec[node[w]].hash
            /\ \A n \in Nodes \ {node[w]} : rec'[n] = rec[n]
        BY <2>6, <3>1, WithSightingType DEF StoreSeen
      <3> QED BY <2>6, <3>1, <3>2 DEF StoreSeen
    <2>7. CASE AllocNode(w)
      <3>1. call[w] \in Call
        BY <2>7 DEF AllocNode, CallInv
      <3> DEFINE new == NewRecord(call[w].digest, call[w].protocol, call[w].signal, call[w].now)
      <3>2. new \in Record /\ new.hash = call[w].digest
        BY <3>1, CallFields, NewRecordType
      <3> HIDE DEF new
      <3>3. PICK n \in Nodes : /\ rec[n] = None
                               /\ rec' = [rec EXCEPT ![n] = new]
                               /\ node' = [node EXCEPT ![w] = n]
        BY <2>7 DEF AllocNode, new
      <3>4. \A v \in Writers : pc'[v] = "link" <=> v = w
        BY <2>7 DEF AllocNode
      <3>5. EveryNodeOwned'
        BY <2>7, <3>2, <3>3, <3>4 DEF AllocNode
      <3> QED BY <2>7, <3>2, <3>3, <3>4, <3>5 DEF AllocNode
    <2>8. CASE AllocFails(w) BY <2>8 DEF AllocFails
    <2>9. CASE LinkNode(w) BY <2>9 DEF LinkNode
    <2>10. CASE CountNode(w) BY <2>10 DEF CountNode
    <2>11. CASE UpdateReturn(w) BY <2>11 DEF UpdateReturn
    <2>12. CASE ThreadExit(w) BY <2>12 DEF ThreadExit
    <2> QED BY <1>3, <2>1, <2>2, <2>3, <2>4, <2>5, <2>6, <2>7, <2>8, <2>9, <2>10,
               <2>11, <2>12 DEF Update, UpdateLocked
  <1>4. CASE MainStep
    <2>1. CASE PruneCall BY <2>1 DEF PruneCall
    <2>2. CASE PruneLock BY <2>2 DEF PruneLock
    <2>3. ASSUME NEW n \in todo,
    PruneEvict(n) PROVE TableInv' BY <2>3 DEF PruneEvict
    <2>4. ASSUME NEW n \in todo,
    PruneKeep(n) PROVE TableInv' BY <2>4 DEF PruneKeep
    <2>5. CASE PruneReturn BY <2>5 DEF PruneReturn
    <2>6. CASE SnapCall BY <2>6 DEF SnapCall
    <2>7. CASE SnapLock BY <2>7 DEF SnapLock
    <2>8. CASE SnapAlloc BY <2>8 DEF SnapAlloc
    <2>9. CASE SnapAllocFails BY <2>9 DEF SnapAllocFails
    <2>10. ASSUME NEW n \in todo,
    CopyNode(n) PROVE TableInv' BY <2>10 DEF CopyNode
    <2>11. CASE SnapReturn BY <2>11 DEF SnapReturn
    <2>12. CASE FreeSnapshot BY <2>12 DEF FreeSnapshot
    <2>13. CASE CountCall BY <2>13 DEF CountCall
    <2>14. CASE CountLock BY <2>14 DEF CountLock
    <2>15. CASE CountRead BY <2>15 DEF CountRead
    <2>16. CASE CountReturn BY <2>16 DEF CountReturn
    <2>17. CASE DropAnswer BY <2>17 DEF DropAnswer
    <2>18. CASE Destroy BY <2>18 DEF Destroy
    <2> QED BY <1>4, <2>1, <2>2, <2>3, <2>4, <2>5, <2>6, <2>7, <2>8, <2>9, <2>10,
               <2>11, <2>12, <2>13, <2>14, <2>15, <2>16, <2>17, <2>18
            DEF MainStep, MainLocked
  <1> QED BY <1>1, <1>2, <1>3, <1>4 DEF Next, Terminated

\* The counter follows the table, one step late after a link.
LEMMA CountStep ==
    ASSUME LockInv, TypeOK, TableInv, CountInv, CountedNodeInv, TraversalInv, [Next]_vars
    PROVE  (CountInv /\ CountedNodeInv)'
  <1> USE AggregatorAssumption DEF CountInv, CountedNodeInv, TypeOK, Threads,
      Goto, lockVars, tableVars, writerVars, mainVars,
          WrLock, RdLock, WrUnlock, RdUnlock,
          LockInv, Updating, Reading, WriterLabels, MainLabels
  <1>1. CASE UNCHANGED vars
    BY <1>1 DEF vars
  <1>2. CASE Tick
    BY <1>2 DEF Tick
  <1>3. ASSUME NEW w \in Writers, Update(w) PROVE (CountInv /\ CountedNodeInv)'
    <2>1. CASE UpdateCall(w) BY <2>1 DEF UpdateCall
    <2>2. CASE UpdateLock(w) BY <2>2 DEF UpdateLock
    <2>3. CASE FindHit(w) BY <2>3 DEF FindHit
    <2>4. CASE FindMiss(w) BY <2>4 DEF FindMiss
    <2>5. CASE StoreSignal(w) BY <2>5 DEF StoreSignal
    <2>6. CASE StoreSeen(w) BY <2>6 DEF StoreSeen
    <2>7. CASE AllocNode(w) BY <2>7 DEF AllocNode
    <2>8. CASE AllocFails(w) BY <2>8 DEF AllocFails
    <2>9. CASE LinkNode(w)
      <3>1. IsFiniteSet(linked)
        BY FS_Subset
      <3>2. Cardinality(linked \cup {node[w]}) = Cardinality(linked) + 1
        BY <2>9, <3>1, FS_AddElement DEF LinkNode, TableInv
      <3> QED BY <2>9, <3>1, <3>2, FS_CardinalityType DEF LinkNode
    <2>10. CASE CountNode(w)
      <3>1. IsFiniteSet(linked) /\ Cardinality(linked) \in Nat
        BY FS_Subset, FS_CardinalityType
      <3>2. \A v \in Writers : pc'[v] # "count"
        BY <2>10 DEF CountNode
      <3> QED BY <2>10, <3>1, <3>2 DEF CountNode
    <2>11. CASE UpdateReturn(w) BY <2>11 DEF UpdateReturn
    <2>12. CASE ThreadExit(w) BY <2>12 DEF ThreadExit
    <2> QED BY <1>3, <2>1, <2>2, <2>3, <2>4, <2>5, <2>6, <2>7, <2>8, <2>9, <2>10,
               <2>11, <2>12 DEF Update, UpdateLocked
  <1>4. CASE MainStep
    <2>1. CASE PruneCall BY <2>1 DEF PruneCall
    <2>2. CASE PruneLock BY <2>2 DEF PruneLock
    <2>3. ASSUME NEW n \in todo, PruneEvict(n) PROVE (CountInv /\ CountedNodeInv)'
      <3>1. IsFiniteSet(linked) /\ Cardinality(linked) \in Nat
        BY FS_Subset, FS_CardinalityType
      <3>2. /\ Cardinality(linked \ {n}) = Cardinality(linked) - 1
            /\ Cardinality(linked \ {n}) \in Nat
        BY <2>3, <3>1, FS_RemoveElement, FS_CardinalityType DEF TraversalInv
      <3>3. \A v \in Writers : pc[v] # "count"
        BY <2>3 DEF PruneEvict
      <3>4. count = Cardinality(linked)
        BY <3>1, <3>3
      <3> QED BY <2>3, <3>1, <3>2, <3>3, <3>4 DEF PruneEvict
    <2>4. ASSUME NEW n \in todo,
    PruneKeep(n) PROVE (CountInv /\ CountedNodeInv)' BY <2>4 DEF PruneKeep
    <2>5. CASE PruneReturn BY <2>5 DEF PruneReturn
    <2>6. CASE SnapCall BY <2>6 DEF SnapCall
    <2>7. CASE SnapLock BY <2>7 DEF SnapLock
    <2>8. CASE SnapAlloc BY <2>8 DEF SnapAlloc
    <2>9. CASE SnapAllocFails BY <2>9 DEF SnapAllocFails
    <2>10. ASSUME NEW n \in todo,
    CopyNode(n) PROVE (CountInv /\ CountedNodeInv)' BY <2>10 DEF CopyNode
    <2>11. CASE SnapReturn BY <2>11 DEF SnapReturn
    <2>12. CASE FreeSnapshot BY <2>12 DEF FreeSnapshot
    <2>13. CASE CountCall BY <2>13 DEF CountCall
    <2>14. CASE CountLock BY <2>14 DEF CountLock
    <2>15. CASE CountRead BY <2>15 DEF CountRead
    <2>16. CASE CountReturn BY <2>16 DEF CountReturn
    <2>17. CASE DropAnswer BY <2>17 DEF DropAnswer
    <2>18. CASE Destroy
      <3>1. \A v \in Writers : pc'[v] # "count"
        BY <2>18 DEF Destroy
      <3> QED BY <2>18, <3>1, FS_EmptySet DEF Destroy
    <2> QED BY <1>4, <2>1, <2>2, <2>3, <2>4, <2>5, <2>6, <2>7, <2>8, <2>9, <2>10,
               <2>11, <2>12, <2>13, <2>14, <2>15, <2>16, <2>17, <2>18
            DEF MainStep, MainLocked
  <1> QED BY <1>1, <1>2, <1>3, <1>4 DEF Next, Terminated

\* Nothing Main has still to visit leaves the table, and its buffer stays
\* large enough, while it holds the lock.
LEMMA TraversalStep ==
    ASSUME LockInv, TypeOK, TableInv, CountInv, TraversalInv, [Next]_vars
    PROVE  TraversalInv'
  <1> USE AggregatorAssumption DEF TypeOK, TraversalInv, SnapshotFits, Threads,
      Goto, lockVars, tableVars, writerVars, mainVars,
          WrLock, RdLock, WrUnlock, RdUnlock,
          LockInv, Updating, Reading, WriterLabels, MainLabels
  <1>1. CASE UNCHANGED vars
    BY <1>1 DEF vars
  <1>2. CASE Tick
    BY <1>2 DEF Tick
  <1>3. ASSUME NEW w \in Writers, Update(w) PROVE TraversalInv'
    <2>1. CASE UpdateCall(w) BY <2>1 DEF UpdateCall
    <2>2. CASE UpdateLock(w) BY <2>2 DEF UpdateLock
    <2>3. CASE FindHit(w) BY <2>3 DEF FindHit
    <2>4. CASE FindMiss(w) BY <2>4 DEF FindMiss
    <2>5. CASE StoreSignal(w) BY <2>5 DEF StoreSignal
    <2>6. CASE StoreSeen(w) BY <2>6 DEF StoreSeen
    <2>7. CASE AllocNode(w) BY <2>7 DEF AllocNode
    <2>8. CASE AllocFails(w) BY <2>8 DEF AllocFails
    <2>9. CASE LinkNode(w) BY <2>9 DEF LinkNode
    <2>10. CASE CountNode(w) BY <2>10 DEF CountNode
    <2>11. CASE UpdateReturn(w) BY <2>11 DEF UpdateReturn
    <2>12. CASE ThreadExit(w) BY <2>12 DEF ThreadExit
    <2> QED BY <1>3, <2>1, <2>2, <2>3, <2>4, <2>5, <2>6, <2>7, <2>8, <2>9, <2>10,
               <2>11, <2>12 DEF Update, UpdateLocked
  <1>4. CASE MainStep
    <2>1. CASE PruneCall BY <2>1 DEF PruneCall
    <2>2. CASE PruneLock BY <2>2 DEF PruneLock
    <2>3. ASSUME NEW n \in todo,
    PruneEvict(n) PROVE TraversalInv' BY <2>3 DEF PruneEvict
    <2>4. ASSUME NEW n \in todo,
    PruneKeep(n) PROVE TraversalInv' BY <2>4 DEF PruneKeep
    <2>5. CASE PruneReturn BY <2>5 DEF PruneReturn
    <2>6. CASE SnapCall BY <2>6 DEF SnapCall
    <2>7. CASE SnapLock BY <2>7 DEF SnapLock
    <2>8. CASE SnapAlloc
      <3>1. IsFiniteSet(linked) /\ Cardinality(linked) \in Nat
        BY FS_Subset, FS_CardinalityType
      <3>2. count = Cardinality(linked)
        BY <2>8, <3>1 DEF SnapAlloc, CountInv
      <3>3. Cardinality(todo') = cap' /\ todo' \subseteq linked
        BY <2>8, <3>1, <3>2, FS_EmptySet DEF SnapAlloc
      <3> QED BY <2>8, <3>3 DEF SnapAlloc
    <2>9. CASE SnapAllocFails BY <2>9 DEF SnapAllocFails
    <2>10. ASSUME NEW n \in todo, CopyNode(n) PROVE TraversalInv'
      <3>1. rec[n] \in Record
        BY <2>10 DEF CopyNode, TableInv
      <3>2. Len(copied') = Len(copied) + 1
        BY <2>10, <3>1 DEF CopyNode
      <3>3. IsFiniteSet(todo) /\ Cardinality(todo) \in Nat
        BY FS_Subset, FS_CardinalityType
      <3>4. Cardinality(todo \ {n}) = Cardinality(todo) - 1
        BY <3>3, FS_RemoveElement
      <3> QED BY <2>10, <3>2, <3>3, <3>4 DEF CopyNode
    <2>11. CASE SnapReturn BY <2>11 DEF SnapReturn
    <2>12. CASE FreeSnapshot BY <2>12 DEF FreeSnapshot
    <2>13. CASE CountCall BY <2>13 DEF CountCall
    <2>14. CASE CountLock BY <2>14 DEF CountLock
    <2>15. CASE CountRead BY <2>15 DEF CountRead
    <2>16. CASE CountReturn BY <2>16 DEF CountReturn
    <2>17. CASE DropAnswer BY <2>17 DEF DropAnswer
    <2>18. CASE Destroy BY <2>18 DEF Destroy
    <2> QED BY <1>4, <2>1, <2>2, <2>3, <2>4, <2>5, <2>6, <2>7, <2>8, <2>9, <2>10,
               <2>11, <2>12, <2>13, <2>14, <2>15, <2>16, <2>17, <2>18
            DEF MainStep, MainLocked
  <1> QED BY <1>1, <1>2, <1>3, <1>4 DEF Next, Terminated

-------------------------------------------------------------------------------
(* The inductive invariant, and what follows from it. *)

IInv == LockInv /\ TypeOK /\ CallInv /\ TableInv /\ CountInv /\ CountedNodeInv /\ TraversalInv

\* The aggregator starts with the invariant.
LEMMA InitIInv == ASSUME Init PROVE IInv
  <1>1. TypeOK
    BY RecordAssumption, AggregatorAssumption DEF Init, TypeOK, Times, Threads
  <1>2. TableInv
    BY DEF Init, TableInv, OneRecordPerDigest, EveryNodeOwned, Threads
  <1>3. CountInv /\ CountedNodeInv /\ CallInv
    BY FS_EmptySet DEF Init, CountInv, CountedNodeInv, CallInv, Updating, Threads
  <1>4. TraversalInv
    BY DEF Init, TraversalInv, SnapshotFits, Threads
  <1> QED BY <1>1, <1>2, <1>3, <1>4, LockInit DEF IInv

\* Every step keeps the invariant.
LEMMA NextIInv == ASSUME IInv, [Next]_vars PROVE IInv'
  BY LockStep, CallStep, TypeStep, TableStep, CountStep, TraversalStep DEF IInv

\* IInv is an invariant of the aggregator.
THEOREM Invariance == Spec => []IInv
  BY InitIInv, NextIInv, PTL DEF Spec

\* Types are preserved: no counter under- or overflows, and whatever is stored
\* through a node pointer is stored in a record.
THEOREM TypeCorrect == Spec => []TypeOK
  <1>1. IInv => TypeOK
    BY DEF IInv
  <1> QED BY <1>1, Invariance, PTL

\* A device is in the table at most once, however the capture threads race.
THEOREM DevicesAreUnique == Spec => []OneRecordPerDigest
  <1>1. IInv => OneRecordPerDigest
    BY DEF IInv, TableInv
  <1> QED BY <1>1, Invariance, PTL

\* With the lock free or held for reading, count is the size of the table.
THEOREM CountIsExact == Spec => []CountMatchesTable
  <1>1. IInv => CountMatchesTable
    <2> SUFFICES ASSUME IInv, writer = None PROVE count = Cardinality(linked)
      BY DEF CountMatchesTable
    <2>1. \A w \in Writers : pc[w] # "count"
      BY AggregatorAssumption DEF IInv, LockInv, Updating
    <2>2. Cardinality(linked) \in Nat
      BY FS_Subset, FS_CardinalityType, AggregatorAssumption DEF IInv, TypeOK
    <2> QED BY <2>1, <2>2 DEF IInv, CountInv
  <1> QED BY <1>1, Invariance, PTL

\* The copy loop of aggregator_snapshot stays within its buffer and fills it.
THEOREM SnapshotsFit == Spec => []SnapshotFits
  <1>1. IInv => SnapshotFits
    BY DEF IInv, TraversalInv
  <1> QED BY <1>1, Invariance, PTL

\* No thread stores through, or visits, a node that has been freed.
THEOREM NoUseAfterFree == Spec => []NoDanglingNode
  <1>1. IInv => NoDanglingNode
    BY DEF IInv, TableInv, TraversalInv, NoDanglingNode
  <1> QED BY <1>1, Invariance, PTL

\* No node leaks and none is shared: each is in the table or about to be.
THEOREM NodesAreOwned == Spec => []EveryNodeOwned
  <1>1. IInv => EveryNodeOwned
    BY DEF IInv, TableInv
  <1> QED BY <1>1, Invariance, PTL

-------------------------------------------------------------------------------
(* Eviction *)

\* The last part of a call, when the record shows its clock reading.
Late == {"link", "count", "unlock"}

\* What the record of a device shows if w is its only reporter: the time of the
\* latest report that has returned, or of the one in the last part of its call.
Shown(w, d) ==
    IF pc[w] \in Late /\ call[w] # None /\ call[w].digest = d
    THEN call[w].now
    ELSE reported[w][d]

\* A writer calls about devices it reports, and as long as no other writer
\* reports one, its record shows that writer's latest report.
ReporterInv == \A w \in Writers : call[w] # None => w \in Reporters(call[w].digest)

ShownInv ==
    \A w \in Writers, n \in Nodes :
        rec[n] # None /\ Reporters(rec[n].hash) = {w} => rec[n].last_seen = Shown(w, rec[n].hash)

SoleInv == ReporterInv /\ ShownInv

\* Writers report what they are configured to report.
LEMMA ReporterStep == ASSUME IInv, ReporterInv, Next PROVE ReporterInv'
  <1> USE DEF ReporterInv, lockVars, tableVars, writerVars, mainVars
  <1>1. ASSUME NEW w \in Writers, UpdateCall(w) PROVE ReporterInv'
    <2>1. PICK r \in Reports[w], s \in Signals :
              call' = [call EXCEPT ![w] = [digest |-> Digest[r[1]], protocol |-> r[2],
                                           signal |-> s, now |-> clock]]
      BY <1>1 DEF UpdateCall
    <2>2. w \in Reporters(Digest[r[1]])
      BY <2>1 DEF Reporters
    <2>3. call \in [Writers -> Call \cup {None}]
      BY DEF IInv, TypeOK
    <2> QED BY <2>1, <2>2, <2>3 DEF Reporters
  <1>2. ASSUME NEW w \in Writers, AllocFails(w) \/ UpdateReturn(w) PROVE ReporterInv'
    <2>1. call' = [call EXCEPT ![w] = None] /\ call \in [Writers -> Call \cup {None}]
      BY <1>2 DEF AllocFails, UpdateReturn, IInv, TypeOK
    <2> QED BY <2>1 DEF Reporters
  <1>3. CASE UNCHANGED call
    BY <1>3 DEF Reporters
  <1>4. ASSUME NEW w \in Writers, Update(w) PROVE ReporterInv'
    BY <1>1, <1>2, <1>3, <1>4
    DEF Update, UpdateLocked, UpdateLock, FindHit, FindMiss, StoreSignal, StoreSeen, AllocNode,
        LinkNode, CountNode, ThreadExit
  <1>5. CASE MainStep
    BY <1>3, <1>5
    DEF MainStep, MainLocked, PruneCall, PruneLock, PruneEvict, PruneKeep, PruneReturn, SnapCall,
        SnapLock, SnapAlloc, SnapAllocFails, CopyNode, SnapReturn, FreeSnapshot, CountCall,
        CountLock, CountRead, CountReturn, DropAnswer, Destroy
  <1> QED BY <1>3, <1>4, <1>5 DEF Next, Tick, Terminated, vars

\* A writer that does not return, and is no nearer to it than before or has
\* nothing in hand, is shown to have reported what it was shown before.
LEMMA ShownKept ==
    ASSUME Remember, NEW w \in Writers, ~Succeeds(w),
           \/ pc'[w] \notin Late \/ call'[w] = None
           \/ pc[w] \in Late /\ call'[w] = call[w],
           \/ pc[w] \notin Late \/ call[w] = None
           \/ pc'[w] \in Late /\ call'[w] = call[w]
    PROVE  \A d \in Digests : Shown(w, d)' = Shown(w, d)
  <1>1. \A d \in Digests : reported'[w][d] = reported[w][d]
    BY DEF Remember
  <1> QED BY <1>1 DEF Shown

\* A report that returns is shown by the history from then on.
LEMMA ShownReturned ==
    ASSUME Remember, NEW w \in Writers, Succeeds(w)
    PROVE  \A d \in Digests : Shown(w, d)' = Shown(w, d)
  BY DEF Remember, Shown, Succeeds, Late

\* Steps that write no other digest or time to a record that stays keep ShownInv.
LEMMA ShownInvKept ==
    ASSUME IInv, ShownInv,
           \A n \in Nodes : rec'[n] # None =>
               /\ rec[n] # None
               /\ rec'[n].hash = rec[n].hash /\ rec'[n].last_seen = rec[n].last_seen,
           \A w \in Writers, d \in Digests : Shown(w, d)' = Shown(w, d)
    PROVE  ShownInv'
  <1>1. \A n \in Nodes : rec[n] # None => rec[n].hash \in Digests
    BY DEF IInv, TypeOK, Record
  <1> QED BY <1>1 DEF ShownInv, Reporters

\* ... and so do those that in addition take no writer into the last part of its
\* call or out of it.
LEMMA ShownInvQuiet ==
    ASSUME IInv, ShownInv, Remember,
           \A n \in Nodes : rec'[n] # None =>
               /\ rec[n] # None
               /\ rec'[n].hash = rec[n].hash /\ rec'[n].last_seen = rec[n].last_seen,
           \A w \in Writers :
               \/ pc[w] \notin Late /\ pc'[w] \notin Late
               \/ pc[w] \in Late /\ pc'[w] \in Late /\ call'[w] = call[w]
    PROVE  ShownInv'
  <1>1. ASSUME NEW w \in Writers PROVE \A d \in Digests : Shown(w, d)' = Shown(w, d)
    <2>1. ~Succeeds(w)
      BY <1>1 DEF Succeeds, Late
    <2>2. \/ pc[w] \notin Late /\ pc'[w] \notin Late
          \/ pc[w] \in Late /\ pc'[w] \in Late /\ call'[w] = call[w]
      BY <1>1
    <2> QED BY <1>1, <2>1, <2>2, ShownKept
  <1> QED BY <1>1, ShownInvKept

\* A writer that writes its clock reading to the one record of its digest is from
\* then on shown to have reported it.
LEMMA ShownWritten ==
    ASSUME IInv, ReporterInv, ShownInv, Remember, NEW w \in Writers, NEW m \in Nodes,
           UNCHANGED call, call[w] # None, pc[w] \notin Late, pc'[w] \in Late,
           \A v \in Writers \ {w} : pc'[v] = pc[v],
           rec'[m].hash = call[w].digest, rec'[m].last_seen = call[w].now,
           \A n \in Nodes \ {m} : rec'[n] = rec[n],
           \A n \in Nodes \ {m} : rec[n] # None => rec[n].hash # call[w].digest
    PROVE  ShownInv'
  <1> DEFINE d == call[w].digest
  <1>1. \A n \in Nodes : rec[n] # None => rec[n].hash \in Digests
    BY DEF IInv, TypeOK, Record
  <1>2. w \in Reporters(d)
    BY DEF ReporterInv
  <1>3. Shown(w, d)' = call[w].now
    BY DEF Shown
  <1>4. \A v \in Writers : ~Succeeds(v)
    BY DEF Succeeds, Late
  <1>5. \A v \in Writers, e \in Digests : v # w \/ e # d => Shown(v, e)' = Shown(v, e)
    <2>1. \A v \in Writers, e \in Digests : reported'[v][e] = reported[v][e]
      BY <1>4 DEF Remember
    <2> QED BY <2>1 DEF Shown
  <1>6. SUFFICES ASSUME NEW v \in Writers, NEW n \in Nodes, rec'[n] # None,
                        Reporters(rec'[n].hash) = {v}
                 PROVE  rec'[n].last_seen = Shown(v, rec[n].hash)'
    BY DEF ShownInv, Reporters
  <1>7. CASE n = m
    BY <1>2, <1>3, <1>6, <1>7
  <1>8. CASE n # m
    <2>1. rec[n] # None /\ rec'[n] = rec[n] /\ rec[n].hash # d /\ rec[n].hash \in Digests
      BY <1>1, <1>6, <1>8
    <2>2. rec[n].last_seen = Shown(v, rec[n].hash)
      BY <1>6, <2>1 DEF ShownInv
    <2> QED BY <1>5, <2>1, <2>2
  <1> QED BY <1>7, <1>8

\* Only the sole reporter of a device writes to its record.
LEMMA WriterShown ==
    ASSUME IInv, SoleInv, Remember, NEW w \in Writers, Update(w)
    PROVE  ShownInv'
  <1> USE DEF Goto, Late, lockVars, tableVars, writerVars, mainVars
  <1>0. pc \in [Threads -> WriterLabels \cup MainLabels] /\ Writers \subseteq Threads
    BY DEF IInv, LockInv, Threads
  <1>1. CASE UpdateCall(w) \/ UpdateLock(w) \/ FindHit(w) \/ FindMiss(w) \/ ThreadExit(w)
    <2>1. UNCHANGED rec /\ pc[w] \notin Late /\ pc'[w] \notin Late
      BY <1>0, <1>1 DEF UpdateCall, UpdateLock, FindHit, FindMiss, ThreadExit
    <2>2. \A v \in Writers \ {w} : pc'[v] = pc[v] /\ call'[v] = call[v]
      BY <1>0, <1>1 DEF UpdateCall, UpdateLock, FindHit, FindMiss, ThreadExit, IInv, TypeOK
    <2> QED BY <2>1, <2>2, ShownInvQuiet DEF SoleInv
  <1>2. CASE StoreSignal(w)
    <2>1. node[w] \in Nodes /\ rec[node[w]] \in Record
      BY <1>2 DEF StoreSignal, IInv, TypeOK, TableInv
    <2>2. \A n \in Nodes : rec'[n] # None =>
              /\ rec[n] # None
              /\ rec'[n].hash = rec[n].hash /\ rec'[n].last_seen = rec[n].last_seen
      BY <1>2, <2>1, AggregatorAssumption DEF StoreSignal, WithSignal, Record, IInv, TypeOK
    <2>3. pc[w] \notin Late /\ pc'[w] \notin Late /\ UNCHANGED call
      BY <1>0, <1>2 DEF StoreSignal
    <2>4. \A v \in Writers \ {w} : pc'[v] = pc[v]
      BY <1>0, <1>2 DEF StoreSignal
    <2> QED BY <2>2, <2>3, <2>4, ShownInvQuiet DEF SoleInv
  <1>3. CASE StoreSeen(w)
    <2>1. /\ node[w] \in linked /\ node[w] \in Nodes /\ rec[node[w]] \in Record
          /\ call[w] \in Call /\ call[w] # None /\ rec[node[w]].hash = call[w].digest
      BY <1>3, AggregatorAssumption DEF StoreSeen, IInv, TypeOK, TableInv, CallInv, Updating
    <2>2. /\ rec'[node[w]].last_seen = call[w].now
          /\ rec'[node[w]].hash = call[w].digest
          /\ \A n \in Nodes \ {node[w]} : rec'[n] = rec[n]
      BY <1>3, <2>1 DEF StoreSeen, WithSighting, Record, IInv, TypeOK
    <2>3. pc[w] \notin Late /\ pc'[w] \in Late /\ UNCHANGED call
      BY <1>0, <1>3 DEF StoreSeen
    <2>4. \A v \in Writers \ {w} : pc'[v] = pc[v]
      BY <1>0, <1>3 DEF StoreSeen
    <2>5. \A n \in Nodes : rec[n] # None => n \in linked
      BY <1>3, AggregatorAssumption
      DEF StoreSeen, IInv, TableInv, EveryNodeOwned, LockInv, Updating
    <2>6. \A n \in Nodes \ {node[w]} : rec[n] # None => rec[n].hash # call[w].digest
      BY <2>1, <2>5 DEF IInv, TableInv, OneRecordPerDigest
    <2> QED BY <2>1, <2>2, <2>3, <2>4, <2>6, ShownWritten DEF SoleInv
  <1>4. CASE AllocNode(w)
    <2> DEFINE new == NewRecord(call[w].digest, call[w].protocol, call[w].signal, call[w].now)
    <2>1. call[w] \in Call /\ call[w] # None
      BY <1>4, AggregatorAssumption DEF AllocNode, IInv, CallInv, Updating
    <2>2. new.hash = call[w].digest /\ new.last_seen = call[w].now
      BY DEF NewRecord
    <2> HIDE DEF new
    <2>3. PICK m \in Nodes : rec[m] = None /\ rec' = [rec EXCEPT ![m] = new]
      BY <1>4 DEF AllocNode, new
    <2>4. /\ rec'[m].hash = call[w].digest /\ rec'[m].last_seen = call[w].now
          /\ \A n \in Nodes \ {m} : rec'[n] = rec[n]
      BY <2>2, <2>3 DEF IInv, TypeOK
    <2>5. pc[w] \notin Late /\ pc'[w] \in Late /\ UNCHANGED call
      BY <1>0, <1>4 DEF AllocNode
    <2>6. \A v \in Writers \ {w} : pc'[v] = pc[v]
      BY <1>0, <1>4 DEF AllocNode
    <2>7. \A n \in Nodes : rec[n] # None => n \in linked
      BY <1>4, AggregatorAssumption
      DEF AllocNode, IInv, TableInv, EveryNodeOwned, LockInv, Updating
    <2>8. \A n \in Nodes : rec[n] # None => rec[n].hash # call[w].digest
      BY <1>4, <2>7 DEF AllocNode, IInv, TableInv
    <2> QED BY <2>1, <2>4, <2>5, <2>6, <2>8, ShownWritten DEF SoleInv
  <1>5. CASE LinkNode(w) \/ CountNode(w)
    <2>1. UNCHANGED <<rec, call>> /\ pc[w] \in Late /\ pc'[w] \in Late
      BY <1>0, <1>5 DEF LinkNode, CountNode
    <2>2. \A v \in Writers \ {w} : pc'[v] = pc[v]
      BY <1>0, <1>5 DEF LinkNode, CountNode
    <2> QED BY <2>1, <2>2, ShownInvQuiet DEF SoleInv
  <1>6. CASE AllocFails(w) \/ UpdateReturn(w)
    <2>1. UNCHANGED rec /\ call'[w] = None
      BY <1>6 DEF AllocFails, UpdateReturn, IInv, TypeOK
    <2>2. \A v \in Writers \ {w} : pc'[v] = pc[v] /\ call'[v] = call[v]
      BY <1>0, <1>6 DEF AllocFails, UpdateReturn, IInv, TypeOK
    <2>3. \A d \in Digests : Shown(w, d)' = Shown(w, d)
      <3>1. CASE Succeeds(w)
        BY <3>1, ShownReturned
      <3>2. CASE ~Succeeds(w)
        <4>1. pc[w] \notin Late \/ call[w] = None
          BY <1>0, <1>6, <3>2 DEF Succeeds, AllocFails, UpdateReturn
        <4> QED BY <2>1, <3>2, <4>1, ShownKept
      <3> QED BY <3>1, <3>2
    <2>4. ASSUME NEW v \in Writers \ {w} PROVE \A d \in Digests : Shown(v, d)' = Shown(v, d)
      <3>1. ~Succeeds(v)
        BY <2>2 DEF Succeeds
      <3> QED BY <2>2, <3>1, ShownKept
    <2> QED BY <2>1, <2>3, <2>4, ShownInvKept DEF SoleInv
  <1> QED BY <1>1, <1>2, <1>3, <1>4, <1>5, <1>6 DEF Update, UpdateLocked

\* Main only takes records away.
LEMMA MainShown ==
    ASSUME IInv, SoleInv, Remember, MainStep
    PROVE  ShownInv'
  <1> USE DEF Goto, lockVars, tableVars, writerVars, mainVars
  <1>1. UNCHANGED call /\ \A w \in Writers : pc'[w] = pc[w]
    BY AggregatorAssumption
    DEF MainStep, MainLocked, PruneCall, PruneLock, PruneEvict, PruneKeep, PruneReturn, SnapCall,
        SnapLock, SnapAlloc, SnapAllocFails, CopyNode, SnapReturn, FreeSnapshot, CountCall,
        CountLock, CountRead, CountReturn, DropAnswer, Destroy, IInv, LockInv, Threads
  <1>2. \A n \in Nodes : rec'[n] # None => rec'[n] = rec[n]
    <2>1. CASE \E n \in todo : PruneEvict(n)
      BY <2>1 DEF PruneEvict, IInv, TypeOK
    <2>2. CASE Destroy
      BY <2>2 DEF Destroy
    <2>3. CASE UNCHANGED rec
      BY <2>3
    <2> QED BY <2>1, <2>2, <2>3
        DEF MainStep, MainLocked, PruneCall, PruneLock, PruneKeep, PruneReturn, SnapCall,
            SnapLock, SnapAlloc, SnapAllocFails, CopyNode, SnapReturn, FreeSnapshot, CountCall,
            CountLock, CountRead, CountReturn, DropAnswer
  <1> QED BY <1>1, <1>2, ShownInvQuiet DEF SoleInv

\* SoleInv survives every step of every thread.
LEMMA SoleStep ==
    ASSUME IInv, SoleInv, [Next /\ Remember]_historyVars
    PROVE  SoleInv'
  <1>1. CASE UNCHANGED historyVars
    <2>1. UNCHANGED <<rec, call, pc, reported>>
      BY <1>1 DEF historyVars, vars, tableVars, writerVars
    <2> QED BY <2>1 DEF SoleInv, ReporterInv, ShownInv, Shown, Reporters
  <1>2. CASE Next /\ Remember
    <2>1. ReporterInv'
      BY <1>2, ReporterStep DEF SoleInv
    <2>2. CASE Tick \/ Terminated
      <3>1. UNCHANGED <<rec, call, pc>>
        BY <2>2 DEF Tick, Terminated, vars, tableVars, writerVars
      <3>2. ShownInv'
        BY <1>2, <3>1, ShownInvQuiet DEF SoleInv
      <3> QED BY <2>1, <3>2 DEF SoleInv
    <2>3. ASSUME NEW w \in Writers, Update(w) PROVE SoleInv'
      BY <1>2, <2>1, <2>3, WriterShown DEF SoleInv
    <2>4. CASE MainStep
      BY <1>2, <2>1, <2>4, MainShown DEF SoleInv
    <2> QED BY <1>2, <2>2, <2>3, <2>4 DEF Next
  <1> QED BY <1>1, <1>2

\* The history changes nothing: its steps are the aggregator's.
LEMMA HistoryIsExtra == HistorySpec => Spec
  <1>1. HistoryInit => Init
    BY DEF HistoryInit
  <1>2. [Next /\ Remember]_historyVars => [Next]_vars
    BY DEF historyVars
  <1> QED BY <1>1, <1>2, PTL DEF HistorySpec, Spec

\* A prune evicts no device within the TTL of the latest report of the one
\* thread that reports it, however the clock is set and whatever that thread
\* has reported since.
THEOREM SoleReporterIsKept == HistorySpec => SoleReporterEviction
  <1>1. HistoryInit => SoleInv
    BY AggregatorAssumption DEF HistoryInit, Init, SoleInv, ReporterInv, ShownInv
  <1>2. IInv /\ SoleInv /\ [Next /\ Remember]_historyVars => SoleInv'
    BY SoleStep
  <1>3. IInv /\ SoleInv /\ [Next /\ Remember]_historyVars =>
          [\A n \in Evicted, w \in Writers : Reporters(rec[n].hash) = {w} => IsOld(w, n)]_historyVars
    <2> SUFFICES ASSUME IInv, SoleInv, Next, NEW n \in Evicted, NEW w \in Writers,
                        Reporters(rec[n].hash) = {w}
                 PROVE  IsOld(w, n)
      OBVIOUS
    <2>1. pc[Main] = "prune" /\ n \in linked \ linked' /\ n \in Nodes /\ rec[n] # None
      BY DEF Evicted, IInv, TypeOK, TableInv
    <2>2. pc[w] \notin Late
      BY <2>1, AggregatorAssumption DEF IInv, LockInv, Late, Updating
    <2>3. rec[n].last_seen = reported[w][rec[n].hash]
      BY <2>1, <2>2 DEF SoleInv, ShownInv, Shown
    <2>4. Stale(rec[n], now)
      <3> USE DEF tableVars
      <3>1. ~Tick /\ ~Terminated /\ ~(UNCHANGED vars)
        BY <2>1 DEF Tick, Terminated, vars
      <3>2. ASSUME NEW v \in Writers PROVE ~Update(v)
        BY <2>1, <3>2
        DEF Update, UpdateLocked, UpdateCall, UpdateLock, FindHit, FindMiss, StoreSignal,
            StoreSeen, AllocNode, AllocFails, LinkNode, CountNode, UpdateReturn, ThreadExit
      <3>3. MainStep
        BY <3>1, <3>2 DEF Next
      <3>4. PICK m \in todo : PruneEvict(m)
        BY <2>1, <3>3
        DEF MainStep, MainLocked, PruneCall, PruneLock, PruneKeep, PruneReturn, SnapCall,
            SnapLock, SnapAlloc, SnapAllocFails, CopyNode, SnapReturn, FreeSnapshot, CountCall,
            CountLock, CountRead, CountReturn, DropAnswer, Destroy
      <3> QED BY <2>1, <3>4 DEF PruneEvict
    <2> QED BY <2>3, <2>4 DEF Stale, IsOld
  <1>4. HistorySpec => []SoleInv
    BY <1>1, <1>2, Invariance, HistoryIsExtra, PTL DEF HistorySpec
  <1> QED
    BY <1>3, <1>4, Invariance, HistoryIsExtra, PTL DEF HistorySpec, SoleReporterEviction

-------------------------------------------------------------------------------
(* Refinement *)

\* What a writer links is the record of its sighting, and a snapshot has the
\* records of the nodes it has visited.
StepInv ==
    /\ \A w \in Writers : pc[w] = "link" =>
          rec[node[w]] = NewRecord(call[w].digest, call[w].protocol, call[w].signal, call[w].now)
    /\ pc[Main] = "copy" =>
          \A r \in Record : (\E i \in DOMAIN copied : copied[i] = r)
                             <=> \E n \in linked \ todo : rec[n] = r

\* At most one writer is refreshing a record.
LEMMA SettledIs ==
    IInv => \A n \in linked :
        /\ (\A w \in Writers : pc[w] = "seen" => node[w] # n) => Settled(n) = rec[n]
        /\ \A w \in Writers : pc[w] = "seen" /\ node[w] = n =>
              Settled(n) = WithSighting(rec[n], call[w].protocol, call[w].now)
  <1> SUFFICES ASSUME IInv, NEW n \in linked
               PROVE  /\ (\A w \in Writers : pc[w] = "seen" => node[w] # n) => Settled(n) = rec[n]
                      /\ \A w \in Writers : pc[w] = "seen" /\ node[w] = n =>
                            Settled(n) = WithSighting(rec[n], call[w].protocol, call[w].now)
    OBVIOUS
  <1> DEFINE pending == {w \in Writers : pc[w] = "seen" /\ node[w] = n}
  <1>1. CASE \A w \in Writers : pc[w] = "seen" => node[w] # n
    <2>1. pending = {}
      BY <1>1
    <2> QED BY <1>1, <2>1 DEF Settled
  <1>2. ASSUME NEW w \in Writers, pc[w] = "seen", node[w] = n
        PROVE  Settled(n) = WithSighting(rec[n], call[w].protocol, call[w].now)
    <2>1. pending = {w}
      BY <1>2 DEF IInv, LockInv, Updating
    <2>2. (CHOOSE v \in pending : TRUE) = w
      BY <2>1
    <2> QED BY <2>1, <2>2 DEF Settled
  <1> QED BY <1>1, <1>2

\* The view shows the settled record of the one node that has the digest.
LEMMA ViewIs ==
    IInv => \A d \in Digests :
        /\ \A n \in Surviving : rec[n].hash = d => StoreView[d] = Settled(n)
        /\ (\A n \in Surviving : rec[n].hash # d) => StoreView[d] = None
  <1> SUFFICES ASSUME IInv, NEW d \in Digests
               PROVE  /\ \A n \in Surviving : rec[n].hash = d => StoreView[d] = Settled(n)
                      /\ (\A n \in Surviving : rec[n].hash # d) => StoreView[d] = None
    OBVIOUS
  <1> DEFINE ns == {n \in Surviving : rec[n].hash = d}
  <1>1. ASSUME NEW n \in Surviving, rec[n].hash = d PROVE StoreView[d] = Settled(n)
    <2>1. ns = {n}
      BY <1>1 DEF IInv, TableInv, OneRecordPerDigest, Surviving
    <2>2. (CHOOSE m \in ns : TRUE) = n
      BY <2>1
    <2> QED BY <2>1, <2>2 DEF StoreView
  <1>2. ASSUME \A n \in Surviving : rec[n].hash # d PROVE StoreView[d] = None
    <2>1. ns = {}
      BY <1>2
    <2> QED BY <2>1 DEF StoreView
  <1> QED BY <1>1, <1>2

\* The same of the next state.
LEMMA SettledNext ==
    (IInv => \A n \in linked :
        /\ (\A w \in Writers : pc[w] = "seen" => node[w] # n) => Settled(n) = rec[n]
        /\ \A w \in Writers : pc[w] = "seen" /\ node[w] = n =>
              Settled(n) = WithSighting(rec[n], call[w].protocol, call[w].now))'
  BY SettledIs, PTL

\* ... and of what the view shows.
LEMMA ViewNext ==
    (IInv => \A d \in Digests :
        /\ \A n \in Surviving : rec[n].hash = d => StoreView[d] = Settled(n)
        /\ (\A n \in Surviving : rec[n].hash # d) => StoreView[d] = None)'
  BY ViewIs, PTL

\* Only Main fills the buffer, only the holder of the lock has a node to link.
LEMMA StepInvStep == ASSUME IInv, StepInv, [Next]_vars PROVE StepInv'
  <1> USE AggregatorAssumption
      DEF IInv, StepInv, LockInv, TypeOK, Threads, Goto, lockVars, tableVars, writerVars, mainVars,
          WrLock, RdLock, WrUnlock, RdUnlock, Updating, Reading, WriterLabels, MainLabels
  <1>1. CASE UNCHANGED vars
    BY <1>1 DEF vars
  <1>2. CASE Tick
    BY <1>2 DEF Tick
  <1>3. ASSUME NEW w \in Writers, Update(w) PROVE StepInv'
    <2>1. CASE UpdateCall(w) BY <2>1 DEF UpdateCall
    <2>2. CASE UpdateLock(w) BY <2>2 DEF UpdateLock
    <2>3. CASE FindHit(w) BY <2>3 DEF FindHit
    <2>4. CASE FindMiss(w) BY <2>4 DEF FindMiss
    <2>5. CASE StoreSignal(w)
      BY <2>5 DEF StoreSignal
    <2>6. CASE StoreSeen(w)
      BY <2>6 DEF StoreSeen
    <2>7. CASE AllocNode(w)
      <3>1. PICK n \in Nodes :
                /\ rec' = [rec EXCEPT ![n] = NewRecord(call[w].digest, call[w].protocol,
                                                       call[w].signal, call[w].now)]
                /\ node' = [node EXCEPT ![w] = n]
        BY <2>7 DEF AllocNode
      <3> QED BY <2>7, <3>1 DEF AllocNode
    <2>8. CASE AllocFails(w) BY <2>8 DEF AllocFails
    <2>9. CASE LinkNode(w) BY <2>9 DEF LinkNode
    <2>10. CASE CountNode(w) BY <2>10 DEF CountNode
    <2>11. CASE UpdateReturn(w) BY <2>11 DEF UpdateReturn
    <2>12. CASE ThreadExit(w) BY <2>12 DEF ThreadExit
    <2> QED BY <1>3, <2>1, <2>2, <2>3, <2>4, <2>5, <2>6, <2>7, <2>8, <2>9, <2>10,
               <2>11, <2>12 DEF Update, UpdateLocked
  <1>4. CASE MainStep
    <2>1. CASE PruneCall \/ PruneLock \/ PruneReturn
      BY <2>1 DEF PruneCall, PruneLock, PruneReturn
    <2>2. CASE \E n \in todo : PruneEvict(n) \/ PruneKeep(n)
      BY <2>2 DEF PruneEvict, PruneKeep
    <2>3. CASE SnapCall \/ SnapLock \/ SnapAllocFails \/ SnapReturn \/ FreeSnapshot
      BY <2>3 DEF SnapCall, SnapLock, SnapAllocFails, SnapReturn, FreeSnapshot
    <2>4. CASE SnapAlloc
      <3>1. IsFiniteSet(linked) /\ count = Cardinality(linked)
        BY <2>4, FS_Subset, FS_CardinalityType DEF SnapAlloc, CountInv
      <3>2. linked \ todo' = {}
        BY <2>4, <3>1, FS_EmptySet DEF SnapAlloc
      <3>3. copied' = <<>>
        BY <2>4 DEF SnapAlloc, TraversalInv
      <3> QED BY <2>4, <3>2, <3>3 DEF SnapAlloc
    <2>5. ASSUME NEW n \in todo, CopyNode(n) PROVE StepInv'
      <3>1. n \in linked /\ rec[n] \in Record
        BY DEF TraversalInv, TableInv
      <3>2. linked' \ todo' = (linked \ todo) \cup {n} /\ UNCHANGED rec
        BY <2>5, <3>1 DEF CopyNode
      <3>3. copied' = Append(copied, rec[n])
        BY <2>5 DEF CopyNode
      <3>4. /\ DOMAIN copied' = 1 .. Len(copied) + 1
            /\ \A i \in 1 .. Len(copied) : copied'[i] = copied[i]
            /\ copied'[Len(copied) + 1] = rec[n]
            /\ DOMAIN copied = 1 .. Len(copied) /\ Len(copied) \in Nat
        BY <3>1, <3>3
      <3>5. ASSUME NEW r \in Record
            PROVE  (\E i \in DOMAIN copied' : copied'[i] = r)
                   <=> r = rec[n] \/ \E i \in DOMAIN copied : copied[i] = r
        BY <3>4
      <3>6. pc[Main] = "copy" /\ UNCHANGED <<pc, node, call>>
        BY <2>5 DEF CopyNode
      <3> QED BY <3>2, <3>5, <3>6
    <2>6. CASE CountCall \/ CountLock \/ CountRead \/ CountReturn \/ DropAnswer
      BY <2>6 DEF CountCall, CountLock, CountRead, CountReturn, DropAnswer
    <2>7. CASE Destroy
      BY <2>7 DEF Destroy
    <2> QED BY <1>4, <2>1, <2>2, <2>3, <2>4, <2>5, <2>6, <2>7 DEF MainStep, MainLocked
  <1> QED BY <1>1, <1>2, <1>3, <1>4 DEF Next, Terminated

\* The view is a function of the digests; two that agree on them are equal.
LEMMA SameView ==
    ASSUME IInv, IInv', Surviving' = Surviving,
           \A n \in Surviving : rec'[n].hash = rec[n].hash /\ Settled(n)' = Settled(n)
    PROVE  StoreView' = StoreView
  <1>1. ASSUME NEW d \in Digests PROVE StoreView'[d] = StoreView[d]
    <2>1. CASE \E n \in Surviving : rec[n].hash = d
      BY <2>1, ViewIs, ViewNext
    <2>2. CASE \A n \in Surviving : rec[n].hash # d
      BY <2>2, ViewIs, ViewNext
    <2> QED BY <2>1, <2>2
  <1>2. /\ StoreView = [d \in Digests |-> StoreView[d]]
        /\ StoreView' = [d \in Digests |-> StoreView'[d]]
    BY DEF StoreView
  <1> QED BY <1>1, <1>2

\* A step that touches neither the table nor a refresh nor a prune in progress
\* leaves the view as it is.
LEMMA ViewStutter ==
    ASSUME IInv, IInv', UNCHANGED <<rec, linked>>,
           \A w \in Writers : /\ pc[w] = "seen" <=> pc'[w] = "seen"
                              /\ pc[w] = "seen" => node'[w] = node[w] /\ call'[w] = call[w],
           pc[Main] = "prune" <=> pc'[Main] = "prune",
           pc[Main] = "prune" => UNCHANGED <<todo, now>>
    PROVE  StoreView' = StoreView
  <1>1. Surviving' = Surviving
    BY DEF Surviving
  <1>2. ASSUME NEW n \in Surviving PROVE Settled(n)' = Settled(n)
    <2>1. n \in linked /\ n \in linked'
      BY DEF Surviving
    <2>2. CASE \A w \in Writers : pc[w] = "seen" => node[w] # n
      BY <2>1, <2>2, SettledIs, SettledNext
    <2>3. ASSUME NEW w \in Writers, pc[w] = "seen", node[w] = n
          PROVE  Settled(n)' = Settled(n)
      <3>1. Settled(n) = WithSighting(rec[n], call[w].protocol, call[w].now)
        BY <2>1, <2>3, SettledIs
      <3>2. Settled(n)' = WithSighting(rec'[n], call'[w].protocol, call'[w].now)
        BY <2>1, <2>3, SettledNext
      <3> QED BY <2>3, <3>1, <3>2
    <2> QED BY <2>2, <2>3
  <1> QED BY <1>1, <1>2, SameView

\* While a writer holds the lock, nobody prunes and nobody else refreshes.
LEMMA WriterAlone ==
    ASSUME IInv, NEW w \in Writers, pc[w] \in Updating
    PROVE  /\ Surviving = linked
           /\ \A v \in Writers : v # w => pc[v] \notin Updating
           /\ pc[Main] \notin {"prune", "copy"}
  BY AggregatorAssumption DEF IInv, LockInv, Surviving, Updating, Reading

\* The same in the next state.
LEMMA WriterAloneNext ==
    ASSUME IInv', NEW w \in Writers, pc'[w] \in Updating
    PROVE  Surviving' = linked'
  BY AggregatorAssumption DEF IInv, LockInv, Surviving, Updating, Reading

\* While Main holds the lock, in either way, nobody refreshes.
LEMMA MainAlone ==
    ASSUME IInv, pc[Main] \in Reading \cup {"prune"}
    PROVE  \A v \in Writers : pc[v] \notin Updating
  BY AggregatorAssumption DEF IInv, LockInv, Updating, Reading, Threads

\* A sighting as the store sees it.
Sighted(r, c) ==
    IF r = None THEN NewRecord(c.digest, c.protocol, c.signal, c.now)
    ELSE WithSighting(WithSignal(r, c.signal), c.protocol, c.now)

\* A view that differs in one device by a sighting of it is a step of the store.
LEMMA SightIsStep ==
    ASSUME NEW c \in Call, UNCHANGED <<snap, answer>>,
           \A d \in Digests :
               StoreView'[d] = IF d = c.digest THEN Sighted(StoreView[d], c) ELSE StoreView[d]
    PROVE  Store!Next
  <1>1. /\ StoreView = [d \in Digests |-> StoreView[d]]
        /\ StoreView' = [d \in Digests |-> StoreView'[d]]
    BY DEF StoreView
  <1>2. StoreView' = [StoreView EXCEPT ![c.digest] = Sighted(StoreView[c.digest], c)]
    BY <1>1
  <1>3. SnapView' = SnapView
    BY DEF SnapView
  <1>4. Store!Sight(c.digest, c.protocol, c.signal, c.now)
    BY <1>2, <1>3
    DEF Store!Sight, Sighted, NewRecord, WithSignal, WithSighting, Store!NewRecord,
        Store!WithSignal, Store!WithSighting
  <1> QED BY <1>4, CallFields DEF Store!Next, Times, Store!Times

\* The first write of a refresh is a sighting of the device.
LEMMA RefreshIsSight ==
    ASSUME IInv, IInv', NEW w \in Writers, StoreSignal(w)
    PROVE  Store!Next
  <1>1. PICK m \in Nodes :
            /\ m = node[w] /\ m \in linked /\ rec[m] \in Record
            /\ rec[m].hash = call[w].digest /\ call[w] \in Call /\ pc[w] = "signal"
    BY DEF StoreSignal, IInv, TableInv, CallInv, TypeOK, Updating
  <1>2. /\ Surviving = linked
        /\ \A v \in Writers : v # w => pc[v] \notin Updating
    BY <1>1, WriterAlone DEF Updating
  <1>3. /\ pc' = [pc EXCEPT ![w] = "seen"]
        /\ rec' = [rec EXCEPT ![m] = WithSignal(@, call[w].signal)]
        /\ UNCHANGED <<linked, node, call, snap, answer, todo, now>>
    BY <1>1 DEF StoreSignal, Goto, writerVars, mainVars
  <1>4. pc'[w] = "seen" /\ \A v \in Writers : v # w => pc'[v] = pc[v] /\ pc'[v] # "seen"
    BY <1>2, <1>3 DEF IInv, TypeOK, Threads, Updating
  <1>5. Surviving' = linked
    BY <1>3, <1>4, WriterAloneNext DEF Updating
  <1>6. /\ rec'[m] = WithSignal(rec[m], call[w].signal)
        /\ rec'[m].hash = rec[m].hash
        /\ \A n \in linked \ {m} : rec'[n] = rec[n]
    BY <1>1, <1>3, CallFields, WithSignalType DEF IInv, TypeOK
  <1>7. Settled(m) = rec[m]
    BY <1>1, <1>2, SettledIs DEF Updating
  <1>8. Settled(m)' = WithSighting(rec'[m], call[w].protocol, call[w].now)
    BY <1>1, <1>3, <1>4, SettledNext
  <1>9. ASSUME NEW n \in linked \ {m} PROVE Settled(n)' = Settled(n)
    <2>1. Settled(n) = rec[n]
      BY <1>1, <1>2, SettledIs DEF Updating
    <2>2. n \in linked' /\ \A v \in Writers : pc'[v] = "seen" => node'[v] # n
      BY <1>1, <1>3, <1>4
    <2>3. Settled(n)' = rec'[n]
      BY <2>2, SettledNext
    <2> QED BY <1>6, <2>1, <2>3
  <1>10. ASSUME NEW d \in Digests
         PROVE  StoreView'[d] = IF d = call[w].digest THEN Sighted(StoreView[d], call[w])
                                                      ELSE StoreView[d]
    <2>1. CASE d = call[w].digest
      <3>1. StoreView[d] = rec[m]
        BY <1>1, <1>2, <1>7, <2>1, ViewIs
      <3>2. StoreView'[d] = Settled(m)'
        BY <1>1, <1>5, <1>6, <2>1, ViewNext
      <3>3. rec[m] # None
        BY <1>1, AggregatorAssumption
      <3> QED BY <1>6, <1>8, <2>1, <3>1, <3>2, <3>3 DEF Sighted
    <2>2. CASE d # call[w].digest /\ \E n \in linked : rec[n].hash = d
      <3>1. PICK n \in linked : rec[n].hash = d
        BY <2>2
      <3>2. n # m
        BY <1>1, <2>2, <3>1
      <3> QED BY <1>2, <1>5, <1>6, <1>9, <2>2, <3>1, <3>2, ViewIs, ViewNext
    <2>3. CASE d # call[w].digest /\ \A n \in linked : rec[n].hash # d
      <3>1. \A n \in linked : rec'[n].hash # d
        BY <1>1, <1>6, <2>3
      <3> QED BY <1>2, <1>5, <2>3, <3>1, ViewIs, ViewNext
    <2> QED BY <2>1, <2>2, <2>3
  <1> QED BY <1>1, <1>3, <1>10, SightIsStep

\* Linking a new node is the first sighting of its device.
LEMMA LinkIsSight ==
    ASSUME IInv, IInv', StepInv, NEW w \in Writers, LinkNode(w)
    PROVE  Store!Next
  <1>1. PICK m \in Nodes :
            /\ m = node[w] /\ m \notin linked /\ rec[m] \in Record
            /\ rec[m].hash = call[w].digest /\ call[w] \in Call /\ pc[w] = "link"
            /\ rec[m] = NewRecord(call[w].digest, call[w].protocol, call[w].signal, call[w].now)
            /\ \A n \in linked : rec[n].hash # call[w].digest
    BY DEF LinkNode, IInv, TableInv, CallInv, TypeOK, Updating, StepInv
  <1>2. /\ Surviving = linked
        /\ \A v \in Writers : pc[v] # "seen"
    BY <1>1, WriterAlone DEF Updating
  <1>3. /\ pc' = [pc EXCEPT ![w] = "count"] /\ linked' = linked \cup {m}
        /\ UNCHANGED <<rec, node, call, snap, answer, todo, now>>
    BY <1>1 DEF LinkNode, Goto, writerVars, mainVars
  <1>4. pc'[w] = "count" /\ \A v \in Writers : pc'[v] # "seen"
    BY <1>2, <1>3 DEF IInv, TypeOK, Threads
  <1>5. Surviving' = linked'
    BY <1>4, WriterAloneNext DEF Updating
  <1>6. /\ \A n \in linked : Settled(n) = rec[n]
        /\ \A n \in linked' : Settled(n)' = rec[n]
    BY <1>2, <1>3, <1>4, SettledIs, SettledNext
  <1>7. ASSUME NEW d \in Digests
        PROVE  StoreView'[d] = IF d = call[w].digest THEN Sighted(StoreView[d], call[w])
                                                     ELSE StoreView[d]
    <2>1. CASE d = call[w].digest
      <3>1. StoreView[d] = None
        BY <1>1, <1>2, <2>1, ViewIs
      <3>2. StoreView'[d] = rec[m]
        BY <1>1, <1>3, <1>5, <1>6, <2>1, ViewNext
      <3> QED BY <1>1, <2>1, <3>1, <3>2 DEF Sighted
    <2>2. CASE d # call[w].digest /\ \E n \in linked : rec[n].hash = d
      BY <1>2, <1>3, <1>5, <1>6, <2>2, ViewIs, ViewNext
    <2>3. CASE d # call[w].digest /\ \A n \in linked : rec[n].hash # d
      BY <1>1, <1>2, <1>3, <1>5, <2>3, ViewIs, ViewNext
    <2> QED BY <2>1, <2>2, <2>3
  <1> QED BY <1>1, <1>3, <1>7, SightIsStep

\* The second write of a refresh is what the view has shown since the first.
LEMMA SeenIsStutter ==
    ASSUME IInv, IInv', NEW w \in Writers, StoreSeen(w)
    PROVE  StoreView' = StoreView
  <1>1. PICK m \in Nodes :
            /\ m = node[w] /\ m \in linked /\ rec[m] \in Record
            /\ call[w] \in Call /\ pc[w] = "seen"
    BY DEF StoreSeen, IInv, TableInv, CallInv, TypeOK, Updating
  <1>2. /\ Surviving = linked
        /\ \A v \in Writers : v # w => pc[v] # "seen"
    BY <1>1, WriterAlone DEF Updating
  <1>3. /\ pc' = [pc EXCEPT ![w] = "unlock"]
        /\ rec' = [rec EXCEPT ![m] = WithSighting(@, call[w].protocol, call[w].now)]
        /\ UNCHANGED linked
    BY <1>1 DEF StoreSeen, Goto
  <1>4. pc'[w] = "unlock" /\ \A v \in Writers : pc'[v] # "seen"
    BY <1>2, <1>3 DEF IInv, TypeOK, Threads
  <1>5. Surviving' = linked
    BY <1>3, <1>4, WriterAloneNext DEF Updating
  <1>6. /\ rec'[m] = WithSighting(rec[m], call[w].protocol, call[w].now)
        /\ rec'[m].hash = rec[m].hash
        /\ \A n \in linked \ {m} : rec'[n] = rec[n]
    BY <1>1, <1>3, CallFields, WithSightingType DEF IInv, TypeOK
  <1>7. ASSUME NEW n \in linked PROVE Settled(n)' = Settled(n)
    <2>1. Settled(n)' = rec'[n]
      BY <1>3, <1>4, SettledNext
    <2>2. CASE n = m
      BY <1>1, <1>6, <2>1, <2>2, SettledIs
    <2>3. CASE n # m
      BY <1>1, <1>2, <1>6, <2>1, <2>3, SettledIs
    <2> QED BY <2>2, <2>3
  <1> QED BY <1>2, <1>5, <1>6, <1>7, SameView

\* A node that is filled in but not linked is not in the view.
LEMMA AllocIsStutter ==
    ASSUME IInv, IInv', NEW w \in Writers, AllocNode(w)
    PROVE  StoreView' = StoreView
  <1>1. PICK m \in Nodes :
            /\ rec[m] = None
            /\ rec' = [rec EXCEPT ![m] = NewRecord(call[w].digest, call[w].protocol,
                                                   call[w].signal, call[w].now)]
    BY DEF AllocNode
  <1>2. m \notin linked
    BY <1>1 DEF IInv, TableInv
  <1>3. pc[w] = "alloc" /\ pc' = [pc EXCEPT ![w] = "link"] /\ UNCHANGED linked
    BY DEF AllocNode, Goto
  <1>4. Surviving = linked /\ \A v \in Writers : pc[v] # "seen"
    BY <1>3, WriterAlone DEF Updating
  <1>5. pc'[w] = "link" /\ \A v \in Writers : pc'[v] # "seen"
    BY <1>3, <1>4 DEF IInv, TypeOK, Threads
  <1>6. Surviving' = linked
    BY <1>3, <1>5, WriterAloneNext DEF Updating
  <1>7. \A n \in linked : rec'[n] = rec[n]
    BY <1>1, <1>2 DEF IInv, TypeOK
  <1>8. \A n \in linked : Settled(n)' = Settled(n)
    BY <1>3, <1>4, <1>5, <1>7, SettledIs, SettledNext
  <1> QED BY <1>4, <1>6, <1>7, <1>8, SameView

\* A step of Main that changes the view or keeps it; no writer is refreshing.
LEMMA MainView ==
    ASSUME IInv, IInv', pc[Main] \in Reading \cup {"prune"} \/ pc'[Main] \in Reading \cup {"prune"},
           UNCHANGED <<node, call>>, \A w \in Writers : pc'[w] = pc[w]
    PROVE  /\ \A n \in linked : Settled(n) = rec[n]
           /\ \A n \in linked' : Settled(n)' = rec'[n]
  <1>1. \A w \in Writers : pc[w] # "seen" /\ pc'[w] # "seen"
    BY MainAlone, AggregatorAssumption
    DEF IInv, LockInv, Updating, Reading
  <1> QED BY <1>1, SettledIs, SettledNext

\* A prune takes effect when it gets the lock.
LEMMA PruneIsPrune ==
    ASSUME IInv, IInv', PruneLock
    PROVE  Store!Next
  <1>1. /\ pc[Main] = "prune_lock" /\ pc' = [pc EXCEPT ![Main] = "prune"] /\ todo' = linked
        /\ UNCHANGED <<rec, linked, call, node, now, snap, answer>>
    BY DEF PruneLock, Goto, tableVars, writerVars
  <1>2. pc'[Main] = "prune" /\ \A w \in Writers : pc'[w] = pc[w]
    BY <1>1, AggregatorAssumption DEF IInv, TypeOK, Threads
  <1>3. /\ \A n \in linked : Settled(n) = rec[n]
        /\ \A n \in linked : Settled(n)' = rec[n]
    BY <1>1, <1>2, MainView
  <1>4. Surviving = linked /\ Surviving' = {n \in linked : ~Stale(rec[n], now)}
    BY <1>1, <1>2 DEF Surviving
  <1>5. ASSUME NEW d \in Digests
        PROVE  StoreView'[d] = IF StoreView[d] = None THEN None
                               ELSE IF Stale(StoreView[d], now) THEN None ELSE StoreView[d]
    <2>1. CASE \A n \in linked : rec[n].hash # d
      <3>1. StoreView[d] = None
        BY <1>4, <2>1, ViewIs
      <3>2. \A n \in Surviving' : rec'[n].hash # d
        BY <1>1, <1>4, <2>1
      <3>3. StoreView'[d] = None
        BY <3>2, ViewNext
      <3> QED BY <3>1, <3>3
    <2>2. ASSUME NEW n \in linked, rec[n].hash = d
          PROVE  StoreView'[d] = IF StoreView[d] = None THEN None
                                 ELSE IF Stale(StoreView[d], now) THEN None ELSE StoreView[d]
      <3>1. StoreView[d] = rec[n]
        BY <1>3, <1>4, <2>2, ViewIs
      <3>2. rec[n] # None
        BY DEF IInv, TableInv
      <3>3. CASE Stale(rec[n], now)
        <4>1. \A m \in Surviving' : rec'[m].hash # d
          BY <1>1, <1>4, <2>2, <3>3 DEF IInv, TableInv, OneRecordPerDigest
        <4>2. StoreView'[d] = None
          BY <4>1, ViewNext
        <4> QED BY <3>1, <3>3, <4>2
      <3>4. CASE ~Stale(rec[n], now)
        <4>1. n \in Surviving' /\ rec'[n].hash = d
          BY <1>1, <1>4, <2>2, <3>4
        <4>2. StoreView'[d] = rec[n]
          BY <1>3, <4>1, ViewNext
        <4> QED BY <3>1, <3>2, <3>4, <4>2
      <3> QED BY <3>3, <3>4
    <2> QED BY <2>1, <2>2
  <1>6. StoreView' = [d \in Digests |-> StoreView'[d]]
    BY DEF StoreView
  <1>7. SnapView' = SnapView
    BY <1>1 DEF SnapView
  <1>8. Store!PruneStale(now)
    BY <1>1, <1>5, <1>6, <1>7 DEF Store!PruneStale, Stale, Store!Stale
  <1> QED BY <1>8 DEF Store!Next, IInv, TypeOK, Times, Store!Times

\* What the prune then does to the table is what the view has shown since.
LEMMA PruneIsStutter ==
    ASSUME IInv, IInv', PruneReturn \/ \E n \in todo : PruneEvict(n) \/ PruneKeep(n)
    PROVE  StoreView' = StoreView
  <1>1. CASE PruneReturn
    <2>1. /\ pc[Main] = "prune" /\ pc' = [pc EXCEPT ![Main] = "idle"] /\ todo = {}
          /\ UNCHANGED <<rec, linked, call, node>>
      BY <1>1 DEF PruneReturn, Goto, tableVars, writerVars
    <2>2. pc'[Main] = "idle" /\ \A w \in Writers : pc'[w] = pc[w]
      BY <2>1, AggregatorAssumption DEF IInv, TypeOK, Threads
    <2>3. Surviving = linked /\ Surviving' = linked
      BY <2>1, <2>2 DEF Surviving
    <2>4. \A n \in linked : Settled(n)' = Settled(n)
      BY <2>1, <2>2, MainView
    <2> QED BY <2>1, <2>3, <2>4, SameView
  <1>2. ASSUME NEW n \in todo, PruneEvict(n) \/ PruneKeep(n)
        PROVE  StoreView' = StoreView
    <2>1. /\ pc[Main] = "prune" /\ todo' = todo \ {n}
          /\ UNCHANGED <<pc, call, node, now>>
      BY <1>2 DEF PruneEvict, PruneKeep, writerVars
    <2>2. n \in linked
      BY DEF IInv, TraversalInv
    <2>3. CASE PruneEvict(n)
      <3>1. /\ Stale(rec[n], now) /\ linked' = linked \ {n}
            /\ \A m \in linked' : rec'[m] = rec[m]
        BY <2>3 DEF PruneEvict, IInv, TypeOK
      <3>2. Surviving' = Surviving /\ Surviving \subseteq linked'
        BY <2>1, <3>1 DEF Surviving
      <3>3. \A m \in linked' : Settled(m)' = Settled(m)
        BY <2>1, <3>1, MainView
      <3> QED BY <3>1, <3>2, <3>3, SameView
    <2>4. CASE PruneKeep(n)
      <3>1. ~Stale(rec[n], now) /\ UNCHANGED <<rec, linked>>
        BY <2>4 DEF PruneKeep, tableVars
      <3>2. Surviving' = Surviving /\ Surviving \subseteq linked
        BY <2>1, <3>1 DEF Surviving
      <3>3. \A m \in linked : Settled(m)' = Settled(m)
        BY <2>1, <3>1, MainView
      <3> QED BY <3>1, <3>2, <3>3, SameView
    <2> QED BY <1>2, <2>3, <2>4
  <1> QED BY <1>1, <1>2

\* A snapshot takes effect when it is complete: it is the store at that instant.
LEMMA SnapIsSnapshot ==
    ASSUME IInv, IInv', StepInv, SnapReturn
    PROVE  Store!Next
  <1>1. /\ pc[Main] = "copy" /\ pc' = [pc EXCEPT ![Main] = "own"] /\ todo = {}
        /\ snap' = copied /\ UNCHANGED <<rec, linked, call, node, answer>>
    BY DEF SnapReturn, Goto, tableVars, writerVars
  <1>2. pc'[Main] = "own" /\ \A w \in Writers : pc'[w] = pc[w]
    BY <1>1, AggregatorAssumption DEF IInv, TypeOK, Threads
  <1>3. /\ Surviving = linked /\ Surviving' = linked
        /\ \A n \in linked : Settled(n) = rec[n] /\ Settled(n)' = rec[n]
    BY <1>1, <1>2, MainView DEF Surviving, Reading
  <1>4. StoreView' = StoreView
    BY <1>1, <1>3, SameView
  <1>5. /\ copied \in Seq(Record) /\ copied # None
        /\ \A i \in DOMAIN copied : copied[i] \in Record
    BY AggregatorAssumption DEF IInv, TypeOK
  <1>6. \A r \in Record : (\E i \in DOMAIN copied : copied[i] = r)
                          <=> \E n \in linked : rec[n] = r
    BY <1>1 DEF StepInv
  <1>7. \A n \in linked : rec[n] \in Record
    BY DEF IInv, TypeOK, TableInv
  <1>8. ASSUME NEW d \in Digests PROVE SnapView'[d] = StoreView[d]
    <2> DEFINE is == {i \in DOMAIN copied : copied[i].hash = d}
    <2>1. SnapView'[d] = IF is = {} THEN None ELSE copied[CHOOSE i \in is : TRUE]
      BY <1>1, <1>5 DEF SnapView
    <2>2. CASE \A n \in linked : rec[n].hash # d
      <3>1. is = {}
        BY <1>5, <1>6, <2>2
      <3>2. StoreView[d] = None
        BY <1>3, <2>2, ViewIs
      <3> QED BY <2>1, <3>1, <3>2
    <2>3. ASSUME NEW n \in linked, rec[n].hash = d PROVE SnapView'[d] = StoreView[d]
      <3>1. \E i \in is : TRUE
        BY <1>6, <1>7, <2>3
      <3>2. (CHOOSE i \in is : TRUE) \in is
        BY <3>1
      <3>3. ASSUME NEW i \in is PROVE copied[i] = rec[n]
        <4>1. PICK m \in linked : rec[m] = copied[i]
          BY <1>5, <1>6
        <4>2. m = n
          BY <2>3, <4>1 DEF IInv, TableInv, OneRecordPerDigest
        <4> QED BY <4>1, <4>2
      <3>4. StoreView[d] = rec[n]
        BY <1>3, <2>3, ViewIs
      <3> QED BY <2>1, <3>1, <3>2, <3>3, <3>4
    <2> QED BY <2>2, <2>3
  <1>9. SnapView' = [d \in Digests |-> SnapView'[d]]
    BY <1>1, <1>5 DEF SnapView
  <1>10. SnapView' = StoreView
    BY <1>8, <1>9 DEF StoreView
  <1> QED BY <1>1, <1>4, <1>10 DEF Store!Next, Store!Snapshot

\* A device count takes effect when it reads the counter.
LEMMA CountIsCount ==
    ASSUME IInv, IInv', CountRead
    PROVE  Store!Next
  <1>1. /\ pc[Main] = "count_read" /\ pc' = [pc EXCEPT ![Main] = "count_unlock"]
        /\ answer' = count /\ UNCHANGED <<rec, linked, call, node, snap>>
    BY DEF CountRead, Goto, tableVars, writerVars
  <1>2. pc'[Main] = "count_unlock" /\ \A w \in Writers : pc'[w] = pc[w]
    BY <1>1, AggregatorAssumption DEF IInv, TypeOK, Threads
  <1>3. /\ Surviving = linked /\ Surviving' = linked
        /\ \A n \in linked : Settled(n) = rec[n] /\ Settled(n)' = rec[n]
    BY <1>1, <1>2, MainView DEF Surviving, Reading
  <1>4. StoreView' = StoreView
    BY <1>1, <1>3, SameView
  <1>5. SnapView' = SnapView
    BY <1>1 DEF SnapView
  <1>6. \A n \in linked : rec[n] \in Record /\ rec[n] # None /\ rec[n].hash \in Digests
    BY DEF IInv, TypeOK, TableInv, Record
  <1>7. Store!Present = {d \in Digests : \E n \in linked : rec[n].hash = d}
    <2>1. ASSUME NEW d \in Digests, NEW n \in linked, rec[n].hash = d PROVE StoreView[d] # None
      BY <1>3, <1>6, <2>1, ViewIs
    <2>2. ASSUME NEW d \in Digests, \A n \in linked : rec[n].hash # d PROVE StoreView[d] = None
      BY <1>3, <2>2, ViewIs
    <2> QED BY <2>1, <2>2 DEF Store!Present
  <1> DEFINE f == [n \in linked |-> rec[n].hash]
  <1>8. f \in Bijection(linked, Store!Present)
    <2>1. f \in [linked -> Store!Present]
      BY <1>6, <1>7
    <2>2. \A m, n \in linked : f[m] = f[n] => m = n
      BY DEF IInv, TableInv, OneRecordPerDigest
    <2>3. \A d \in Store!Present : \E n \in linked : f[n] = d
      BY <1>7
    <2> QED BY <2>1, <2>2, <2>3, Fun_IsBij
  <1>9. IsFiniteSet(linked)
    BY AggregatorAssumption, FS_Subset DEF IInv, TypeOK
  <1>10. Cardinality(Store!Present) = Cardinality(linked)
    <2> HIDE DEF f
    <2> QED BY <1>8, <1>9, FS_Bijection DEF ExistsBijection
  <1>11. count = Cardinality(linked)
    <2>1. \A w \in Writers : pc[w] # "count"
      BY <1>1, MainAlone DEF Reading, Updating
    <2>2. Cardinality(linked) \in Nat
      BY <1>9, FS_CardinalityType
    <2> QED BY <2>1, <2>2 DEF IInv, CountInv
  <1>12. Store!Cardinality(Store!Present) = Cardinality(Store!Present)
    BY DEF Cardinality, Store!Cardinality
  <1>13. Store!DeviceCount
    <2> HIDE DEF f
    <2> QED BY <1>1, <1>4, <1>5, <1>10, <1>11, <1>12 DEF Store!DeviceCount
  <1> QED BY <1>13 DEF Store!Next

\* Destroying the table empties the store.
LEMMA DestroyIsDestroy ==
    ASSUME IInv, IInv', Destroy
    PROVE  Store!Next
  <1>1. linked' = {} /\ UNCHANGED <<snap, answer>>
    BY DEF Destroy, mainVars
  <1>2. Surviving' = {}
    BY <1>1 DEF Surviving
  <1>3. \A d \in Digests : StoreView'[d] = None
    BY <1>2, ViewNext
  <1>4. StoreView' = [d \in Digests |-> StoreView'[d]]
    BY DEF StoreView
  <1>5. StoreView' = Store!Empty
    BY <1>3, <1>4 DEF Store!Empty
  <1>6. SnapView' = SnapView
    BY <1>1 DEF SnapView
  <1> QED BY <1>1, <1>5, <1>6 DEF Store!Next, Store!Destroy

\* Every step of a writer is a step of the store or none.
LEMMA WriterRefines ==
    ASSUME IInv, IInv', StepInv, NEW w \in Writers, Update(w)
    PROVE  [Store!Next]_(Store!vars)
  <1> USE DEF tableVars, mainVars, Goto
  <1>1. UNCHANGED <<snap, answer>>
    BY DEF Update, UpdateLocked, UpdateCall, UpdateLock, FindHit, FindMiss, StoreSignal,
       StoreSeen, AllocNode, AllocFails, LinkNode, CountNode, UpdateReturn, ThreadExit
  <1>2. SnapView' = SnapView
    BY <1>1 DEF SnapView
  <1>3. SUFFICES ASSUME ~StoreSignal(w), ~LinkNode(w) PROVE StoreView' = StoreView
    BY <1>1, <1>2, RefreshIsSight, LinkIsSight DEF Store!vars
  <1>4. CASE StoreSeen(w)
    BY <1>4, SeenIsStutter
  <1>5. CASE AllocNode(w)
    BY <1>5, AllocIsStutter
  <1>6. ASSUME ~StoreSeen(w), ~AllocNode(w) PROVE StoreView' = StoreView
    <2>1. /\ UNCHANGED <<rec, linked, todo, now>>
          /\ pc' = [pc EXCEPT ![w] = pc'[w]]
          /\ pc[w] # "seen" /\ pc'[w] # "seen"
          /\ \A v \in Writers \ {w} : node'[v] = node[v] /\ call'[v] = call[v]
      BY <1>3, <1>6, AggregatorAssumption
      DEF Update, UpdateLocked, UpdateCall, UpdateLock, FindHit, FindMiss, AllocFails,
          CountNode, UpdateReturn, ThreadExit, writerVars, IInv, TypeOK, Threads
    <2>2. /\ pc'[Main] = pc[Main]
          /\ \A v \in Writers \ {w} : pc'[v] = pc[v]
      BY <2>1, AggregatorAssumption DEF IInv, TypeOK, Threads
    <2> QED BY <2>1, <2>2, ViewStutter
  <1> QED BY <1>4, <1>5, <1>6

\* So is every step of Main.
LEMMA MainRefines ==
    ASSUME IInv, IInv', StepInv, MainStep
    PROVE  [Store!Next]_(Store!vars)
  <1>1. CASE PruneLock
    BY <1>1, PruneIsPrune
  <1>2. CASE SnapReturn
    BY <1>2, SnapIsSnapshot
  <1>3. CASE CountRead
    BY <1>3, CountIsCount
  <1>4. CASE Destroy
    BY <1>4, DestroyIsDestroy
  <1>5. CASE PruneReturn \/ \E n \in todo : PruneEvict(n) \/ PruneKeep(n)
    <2>1. UNCHANGED <<snap, answer>>
      BY <1>5 DEF PruneReturn, PruneEvict, PruneKeep
    <2> QED BY <1>5, <2>1, PruneIsStutter DEF Store!vars, SnapView
  <1>6. ASSUME \/ PruneCall \/ SnapCall \/ SnapLock \/ SnapAlloc \/ SnapAllocFails
               \/ FreeSnapshot \/ CountCall \/ CountLock \/ CountReturn \/ DropAnswer
               \/ \E n \in todo : CopyNode(n)
        PROVE  [Store!Next]_(Store!vars)
    <2>1. /\ UNCHANGED <<rec, linked, node, call>>
          /\ pc' = [pc EXCEPT ![Main] = pc'[Main]]
          /\ pc[Main] # "prune" /\ pc'[Main] # "prune"
      BY <1>6, AggregatorAssumption
      DEF PruneCall, SnapCall, SnapLock, SnapAlloc, SnapAllocFails, FreeSnapshot, CountCall,
          CountLock, CountReturn, DropAnswer, CopyNode, tableVars, writerVars, Goto, IInv,
          TypeOK, Threads
    <2>2. \A w \in Writers : pc'[w] = pc[w]
      BY <2>1, AggregatorAssumption DEF IInv, TypeOK, Threads
    <2>3. StoreView' = StoreView
      BY <2>1, <2>2, ViewStutter
    <2>4. CASE FreeSnapshot
      <3>1. SnapView' = None /\ UNCHANGED answer
        BY <2>4 DEF FreeSnapshot, SnapView
      <3> QED BY <2>3, <3>1 DEF Store!Next, Store!FreeSnapshot
    <2>5. CASE DropAnswer
      <3>1. SnapView' = SnapView /\ answer' = None
        BY <2>5 DEF DropAnswer, SnapView
      <3> QED BY <2>3, <3>1 DEF Store!Next, Store!DropAnswer
    <2>6. CASE \/ PruneCall \/ SnapCall \/ SnapLock \/ SnapAlloc \/ SnapAllocFails
               \/ CountCall \/ CountLock \/ CountReturn \/ \E n \in todo : CopyNode(n)
      <3>1. UNCHANGED <<snap, answer>>
        BY <2>6 DEF PruneCall, SnapCall, SnapLock, SnapAlloc, SnapAllocFails, CountCall,
           CountLock, CountReturn, CopyNode, mainVars
      <3> QED BY <2>3, <3>1 DEF Store!vars, SnapView
    <2> QED BY <1>6, <2>4, <2>5, <2>6
  <1> QED BY <1>1, <1>2, <1>3, <1>4, <1>5, <1>6 DEF MainStep, MainLocked

\* The table is empty at first.
LEMMA InitRefines == ASSUME Init PROVE Store!Init
  <1>1. Surviving = {}
    BY DEF Init, Surviving
  <1>2. StoreView = [d \in Digests |-> None]
    BY <1>1 DEF StoreView
  <1> QED BY <1>2 DEF Init, Store!Init, Store!Empty, SnapView

\* Every behaviour of the threads, the lock and the nodes is a behaviour of the
\* map from digests to records: each call takes effect in one instant.
THEOREM AggregatorIsLinearizable == Spec => Linearizable
  <1>1. Init => StepInv
    BY AggregatorAssumption DEF Init, StepInv, Threads
  <1>2. IInv /\ StepInv /\ [Next]_vars => StepInv'
    BY StepInvStep
  <1>3. Spec => []StepInv
    BY <1>1, <1>2, Invariance, PTL DEF Spec
  <1>4. Init => Store!Init
    BY InitRefines
  <1>5. IInv /\ IInv' /\ StepInv /\ [Next]_vars => [Store!Next]_(Store!vars)
    <2> SUFFICES ASSUME IInv, IInv', StepInv, [Next]_vars PROVE [Store!Next]_(Store!vars)
      OBVIOUS
    <2>1. CASE Tick \/ Terminated \/ UNCHANGED vars
      <3>1. UNCHANGED <<rec, linked, pc, call, node, todo, now, snap, answer>>
        BY <2>1 DEF Tick, Terminated, vars, tableVars, writerVars, mainVars
      <3>2. StoreView' = StoreView
        BY <3>1, ViewStutter
      <3> QED BY <3>1, <3>2 DEF Store!vars, SnapView
    <2>2. CASE \E w \in Writers : Update(w)
      BY <2>2, WriterRefines
    <2>3. CASE MainStep
      BY <2>3, MainRefines
    <2> QED BY <2>1, <2>2, <2>3 DEF Next
  <1> QED
    BY <1>3, <1>4, <1>5, Invariance, PTL DEF Spec, Linearizable, Store!Spec
==============================================================================
