---------------------------- MODULE EstimatorProofs ----------------------------
(* The clustering of Estimator, for every set of snapshots, every cutoff and *)
(* every window.                                                             *)
EXTENDS MCEstimator, Recursion, TLAPS, FiniteSetTheorems

\* The fields of a record that the rules compare.
LEMMA ObservationFields ==
    ASSUME NEW a \in Observation
    PROVE  /\ a.rssi \in Int /\ a.seen.sec \in Int
           /\ a.seen.nsec \in Int /\ a.seen.nsec >= 0 /\ a.seen.nsec < 1000000000
  <1>1. a.rssi \in Rssi /\ a.seen \in Timespec
    BY SMT DEF Observation
  <1>2. a.seen.sec \in Nat /\ a.seen.nsec \in Nanoseconds
    BY SMT, <1>1 DEF Timespec
  <1> QED BY SMT, <1>1, <1>2 DEF Rssi, Nanoseconds

\* The millisecond difference is antisymmetric: truncation is toward zero.
LEMMA DiffAntisymmetric ==
    ASSUME NEW a \in Observation, NEW b \in Observation
    PROVE  /\ DiffMs(a.seen, b.seen) \in Int
           /\ DiffMs(b.seen, a.seen) = -DiffMs(a.seen, b.seen)
  <1> DEFINE s == a.seen.sec - b.seen.sec
             n == a.seen.nsec - b.seen.nsec
  <1>1. s \in Int /\ n \in Int
    BY SMT, ObservationFields
  <1>2. b.seen.sec - a.seen.sec = -s /\ b.seen.nsec - a.seen.nsec = -n
    BY SMT, ObservationFields
  <1>3. NsecToMs(n) \in Int /\ NsecToMs(-n) = -NsecToMs(n)
    <2> HIDE DEF n
    <2> QED BY SMT, <1>1 DEF NsecToMs
  <1>4. DiffMs(a.seen, b.seen) = s * 1000 + NsecToMs(n)
    BY SMT DEF DiffMs
  <1>5. DiffMs(b.seen, a.seen) = (-s) * 1000 + NsecToMs(-n)
    BY SMT, <1>2 DEF DiffMs
  <1> HIDE DEF s, n
  <1> QED BY SMT, <1>1, <1>3, <1>4, <1>5

\* The merge rule does not depend on which of the two records leads.
LEMMA SamePhoneSymmetric ==
    ASSUME NEW a \in Observation, NEW b \in Observation
    PROVE  SamePhone(a, b) <=> SamePhone(b, a)
  <1>1. WithinWindow(a, b) <=> WithinWindow(b, a)
    BY SMT, DiffAntisymmetric DEF WithinWindow, Magnitude
  <1>2. SignaturesMatch(a, b) <=> SignaturesMatch(b, a)
    BY SMT, ObservationFields DEF SignaturesMatch, Magnitude
  <1> QED BY SMT, <1>1, <1>2 DEF SamePhone

\* The error of the millisecond arithmetic.
LEMMA WindowError ==
    ASSUME NEW a \in Observation, NEW b \in Observation
    PROVE  LET gap == GapNs(a.seen, b.seen)
           IN /\ gap <= WindowMs * 1000000 => WithinWindow(a, b)
              /\ WithinWindow(a, b) => gap < (WindowMs + 1) * 1000000
  <1> DEFINE s == a.seen.sec - b.seen.sec
             n == a.seen.nsec - b.seen.nsec
             q == NsecToMs(n)
  <1>1. s \in Int /\ n \in Int /\ n > -1000000000 /\ n < 1000000000
    BY SMT, ObservationFields
  <1>2. /\ q \in Int
        /\ n >= 0 => q >= 0 /\ q * 1000000 <= n /\ n < (q + 1) * 1000000
        /\ n < 0 => q <= 0 /\ n <= q * 1000000 /\ (q - 1) * 1000000 < n
        /\ -1000 < q /\ q < 1000
    <2> HIDE DEF n
    <2> QED BY SMT, <1>1 DEF NsecToMs
  <1>3. DiffMs(a.seen, b.seen) = s * 1000 + q
    BY SMT DEF DiffMs
  <1>4. GapNs(a.seen, b.seen) = Magnitude(s * 1000000000 + n)
    BY SMT, ObservationFields DEF GapNs
  <1> HIDE DEF s, n, q
  <1> QED BY SMT, <1>1, <1>2, <1>3, <1>4, EstimatorAssumption DEF WithinWindow,
  Magnitude

-------------------------------------------------------------------------------
\* The filter has not run yet, or its loop has; then raw is what it kept.
FilterInv ==
    /\ pc \in {"start", "filter", "failed"} =>
          cluster = [k \in Indices |-> 0] /\ result.dedup = 0
    /\ pc = "start" => records = <<>> \/ i = 1
    /\ pc = "start" => active = {} /\ result.raw = 0
    /\ pc \in {"cluster", "done"} => result.raw = Cardinality(active)

\* What the clustering loop has settled for the records before i: all of them
\* are in a cluster, and no leader matches a record it has left over.
PassInv ==
    /\ MergesFollowRule
    /\ result.dedup = Cardinality(Leaders)
    /\ \A k, l \in Leaders : ~SamePhone(records[k], records[l])
    /\ pc = "cluster" =>
          /\ \A k \in active : k < i => cluster[k] # 0
          /\ \A l \in Leaders, m \in active :
                cluster[m] = 0 => l < m /\ ~SamePhone(records[l], records[m])
    /\ pc = "done" => \A k \in active : cluster[k] # 0

IInv == TypeOK /\ FilterInv /\ PassInv

\* A snapshot is finite and holds observations.
LEMMA Snapshot ==
    ASSUME TypeOK
    PROVE  /\ Len(records) \in Nat /\ Indices = 1 .. Len(records)
           /\ IsFiniteSet(Indices)
           /\ \A k \in Indices : records[k] \in Observation
  <1>1. records \in Seq(Observation)
    BY SMT, EstimatorAssumption DEF TypeOK
  <1>2. Len(records) \in Nat /\ \A k \in 1 .. Len(records) : records[k] \in Observation
    BY <1>1
  <1> QED BY <1>2, FS_Interval DEF Indices

\* A call starts with the invariant.
LEMMA InitIInv == ASSUME Init PROVE IInv
  <1>1. records \in Seq(Observation) /\ Len(records) \in Nat
    BY SMT, EstimatorAssumption DEF Init
  <1>2. TypeOK
    BY <1>1 DEF Init, TypeOK, Indices, ZeroResult, Result
  <1>3. Leaders = {}
    BY <1>1 DEF Init, Leaders, Indices
  <1>4. FilterInv
    BY DEF Init, FilterInv, ZeroResult
  <1>5. PassInv
    BY <1>1, <1>3, FS_EmptySet DEF Init, PassInv, MergesFollowRule, ZeroResult,
       Indices
  <1> QED BY <1>2, <1>4, <1>5 DEF IInv

\* Counting up a field of the result.
LEMMA ResultFields ==
    ASSUME NEW r \in Result
    PROVE  /\ \A p \in Observation : Tally(r, p) \in Result
           /\ [r EXCEPT !.dedup = @ + 1] \in Result
  <1>1. /\ r.raw \in Nat /\ r.dedup \in Nat /\ r.ble \in Nat
        /\ r.wifi \in Nat /\ r.randomized \in Nat
    BY DEF Result
  <1>2. r.dedup + 1 \in Nat /\ r.ble + 1 \in Nat /\ r.wifi + 1 \in Nat
        /\ r.randomized + 1 \in Nat
    BY <1>1
  <1>3. [r EXCEPT !.dedup = r.dedup + 1] \in Result
    BY <1>2 DEF Result
  <1>4. ASSUME NEW p \in Observation PROVE Tally(r, p) \in Result
    BY <1>1, <1>2 DEF Tally, Result
  <1> QED BY <1>3, <1>4

\* Every iteration keeps the types.
LEMMA TypeStep == ASSUME TypeOK, [Next]_vars PROVE TypeOK'
  <1> USE Snapshot DEF TypeOK
  <1>1. CASE UNCHANGED vars BY <1>1 DEF vars, Indices
  <1>2. CASE Empty BY <1>2 DEF Empty, Indices
  <1>3. CASE Allocate BY <1>3 DEF Allocate, Indices
  <1>4. CASE AllocFails BY <1>4 DEF AllocFails, Indices
  <1>5. CASE Keep
    <2>1. Tally(result, records[i]) \in Result
      BY <1>5, ResultFields DEF Keep
    <2> QED BY <1>5, <2>1 DEF Keep, Indices
  <1>6. CASE Drop BY <1>6 DEF Drop, Indices
  <1>7. CASE Filtered
    <2>1. Cardinality(active) \in Nat
      BY FS_Subset, FS_CardinalityType
    <2>2. result' \in Result
      BY <1>7, <2>1 DEF Filtered, Result
    <2> QED BY <1>7, <2>2 DEF Filtered, Indices
  <1>8. CASE OpenCluster
    <2>1. result' \in Result
      BY <1>8, ResultFields DEF OpenCluster
    <2>2. cluster' \in [Indices -> 0 .. Len(records)]
      BY <1>8 DEF OpenCluster, Indices
    <2> QED BY <1>8, <2>1, <2>2 DEF OpenCluster, Indices
  <1>9. CASE PassOver BY <1>9 DEF PassOver, Indices
  <1>10. CASE Scale BY <1>10 DEF Scale, Indices
  <1> QED BY <1>1, <1>2, <1>3, <1>4, <1>5, <1>6, <1>7, <1>8, <1>9,
  <1>10 DEF Next, Returned

\* The filter loop keeps only records it has passed.
LEMMA FilterStep == ASSUME TypeOK, FilterInv, [Next]_vars PROVE FilterInv'
  <1> USE Snapshot DEF FilterInv, TypeOK, Result
  <1>1. CASE UNCHANGED vars BY <1>1 DEF vars, Indices
  <1>2. CASE Empty BY <1>2, FS_EmptySet DEF Empty, Indices
  <1>3. CASE Allocate BY <1>3 DEF Allocate, Indices
  <1>4. CASE AllocFails BY <1>4 DEF AllocFails, Indices
  <1>5. CASE Keep BY <1>5 DEF Keep, Indices, Tally
  <1>6. CASE Drop BY <1>6 DEF Drop, Indices
  <1>7. CASE Filtered BY <1>7 DEF Filtered, Indices
  <1>8. CASE OpenCluster BY <1>8 DEF OpenCluster, Indices
  <1>9. CASE PassOver BY <1>9 DEF PassOver, Indices
  <1>10. CASE Scale BY <1>10 DEF Scale, Indices
  <1> QED BY <1>1, <1>2, <1>3, <1>4, <1>5, <1>6, <1>7, <1>8, <1>9,
  <1>10 DEF Next, Returned

\* The step that makes record i a leader.
LEMMA OpenStep == ASSUME IInv, OpenCluster PROVE PassInv'
  <1> USE Snapshot DEF IInv, TypeOK, OpenCluster, Opens
  <1>1. i \in active /\ cluster[i] = 0 /\ i \in Indices /\ i \in Nat /\ i > 0
    BY DEF Indices
  <1>2. /\ Indices' = Indices /\ records' = records /\ active' = active
        /\ \A k \in Indices : cluster'[k] = IF k \in {i} \cup Absorbed(i) THEN i ELSE cluster[k]
    BY DEF Indices
  <1>3. \A k \in Absorbed(i) : /\ k \in active /\ k \in Indices /\ i < k /\ cluster[k] = 0
                               /\ SamePhone(records[i], records[k])
    BY <1>1 DEF Absorbed
  <1>4. Leaders' = Leaders \cup {i} /\ i \notin Leaders
    BY <1>1, <1>2, <1>3 DEF Leaders, Indices
  <1>5. MergesFollowRule'
    BY <1>1, <1>2, <1>3, <1>4 DEF PassInv, MergesFollowRule, Leaders
  <1>6. result'.dedup = Cardinality(Leaders')
    <2>1. IsFiniteSet(Leaders)
      BY FS_Subset DEF Leaders
    <2>2. Cardinality(Leaders') = Cardinality(Leaders) + 1
      BY <1>4, <2>1, FS_AddElement
    <2> QED BY <2>2 DEF PassInv, Result
  <1>7. \A l \in Leaders : l < i /\ ~SamePhone(records[l], records[i])
    BY <1>1 DEF PassInv
  <1>8. ~SamePhone(records[i], records[i])
    BY DEF SamePhone
  <1>9. \A k, l \in Leaders' : ~SamePhone(records'[k], records'[l])
    <2>1. \A l \in Leaders : ~SamePhone(records[i], records[l])
      BY <1>1, <1>7, SamePhoneSymmetric DEF Leaders
    <2> QED BY <1>2, <1>4, <1>7, <1>8, <2>1 DEF PassInv
  <1>10. \A k \in active : k < i + 1 => cluster'[k] # 0
    <2> SUFFICES ASSUME NEW k \in active, k < i + 1 PROVE cluster'[k] # 0
      OBVIOUS
    <2>1. k \in Indices /\ k \in Nat
      BY DEF Indices
    <2>2. k = i \/ k < i
      BY <2>1, <1>1
    <2> QED BY <1>1, <1>2, <2>1, <2>2 DEF PassInv
  <1>11. \A l \in Leaders', m \in active :
            cluster'[m] = 0 => l < m /\ ~SamePhone(records[l], records[m])
    <2> SUFFICES ASSUME NEW l \in Leaders', NEW m \in active, cluster'[m] = 0
                 PROVE  l < m /\ ~SamePhone(records[l], records[m])
      OBVIOUS
    <2>1. m \in Indices /\ m \in Nat /\ m # i /\ m \notin Absorbed(i) /\ cluster[m] = 0
      BY <1>1, <1>2 DEF Indices
    <2>2. CASE l \in Leaders BY <2>1, <2>2 DEF PassInv
    <2>3. CASE l = i
      <3>1. i < m BY <1>1, <2>1 DEF PassInv
      <3> QED BY <2>1, <2>3, <3>1 DEF Absorbed
    <2> QED BY <1>4, <2>2, <2>3
  <1> QED BY <1>1, <1>2, <1>5, <1>6, <1>9, <1>10, <1>11 DEF PassInv

\* Every step of the pass keeps the clusters maximal and justified.
LEMMA PassStep == ASSUME IInv, [Next]_vars PROVE PassInv'
  <1> USE Snapshot DEF IInv, TypeOK, Result, PassInv, MergesFollowRule, Leaders
  <1>1. CASE UNCHANGED vars BY <1>1 DEF vars, Indices
  <1>2. CASE Empty BY <1>2 DEF Empty, Indices, FilterInv
  <1>3. CASE Allocate BY <1>3 DEF Allocate, Indices
  <1>4. CASE AllocFails BY <1>4 DEF AllocFails, Indices
  <1>5. CASE Keep BY <1>5 DEF Keep, Indices, Tally, FilterInv
  <1>6. CASE Drop BY <1>6 DEF Drop, Indices
  <1>7. CASE Filtered BY <1>7 DEF Filtered, Indices, FilterInv
  <1>8. CASE OpenCluster BY <1>8, OpenStep
  <1>9. CASE PassOver BY <1>9 DEF PassOver, Opens, Indices
  <1>10. CASE Scale BY <1>10 DEF Scale, Indices
  <1> QED BY <1>1, <1>2, <1>3, <1>4, <1>5, <1>6, <1>7, <1>8, <1>9,
  <1>10 DEF Next, Returned

\* IInv is an invariant of estimator_compute.
THEOREM Invariance == Spec => []IInv
  <1>1. IInv /\ [Next]_vars => IInv'
    BY TypeStep, FilterStep, PassStep DEF IInv
  <1> QED BY <1>1, InitIInv, PTL DEF Spec

\* The state of the estimator keeps its type.
THEOREM TypeCorrect == Spec => []TypeOK
  <1>1. IInv => TypeOK
    BY DEF IInv
  <1> QED BY <1>1, Invariance, PTL

\* The cluster count is the number of clusters and at most the raw count.
THEOREM DedupIsExact == Spec => []DedupCountsClusters
  <1>1. IInv => DedupCountsClusters
    <2> SUFFICES ASSUME IInv PROVE DedupCountsClusters
      OBVIOUS
    <2>1. Leaders \subseteq active /\ IsFiniteSet(active)
      <3>1. \A k \in Leaders : k \in Indices /\ cluster[k] # 0
        BY Snapshot DEF Leaders, IInv
      <3> QED BY <3>1, Snapshot, FS_Subset DEF IInv, PassInv, MergesFollowRule,
      TypeOK
    <2>2. Cardinality(Leaders) <= Cardinality(active)
      BY <2>1, FS_Subset
    <2> QED BY <2>2 DEF IInv, PassInv, FilterInv, DedupCountsClusters
  <1> QED BY <1>1, Invariance, PTL

\* Nothing is merged that the rule does not pair with the leader.
THEOREM MergesAreJustified == Spec => []MergesFollowRule
  <1>1. IInv => MergesFollowRule
    BY DEF IInv, PassInv
  <1> QED BY <1>1, Invariance, PTL

\* At the end every record that counts is in a cluster, and no two leaders
\* could still be merged: greed leaves no merge of two leaders undone.
THEOREM ClusteringIsMaximal == Spec => []NothingLeftToMerge
  <1>1. IInv => NothingLeftToMerge
    BY DEF IInv, PassInv, NothingLeftToMerge
  <1> QED BY <1>1, Invariance, PTL

\* Records are judged to be within the window of each other exactly up to an
\* error of less than a millisecond, and never too strictly.
THEOREM WindowIsTolerant == Spec => []WindowTolerance
  <1>1. TypeOK => WindowTolerance
    <2> SUFFICES ASSUME TypeOK, NEW k \in Indices, NEW l \in Indices
                 PROVE LET gap == GapNs(records[k].seen, records[l].seen)
                       IN /\ gap <= WindowMs * 1000000 => WithinWindow(records[k], records[l])
                          /\ WithinWindow(records[k], records[l]) => gap < (WindowMs + 1) * 1000000
      BY SMT DEF WindowTolerance
    <2>1. records[k] \in Observation /\ records[l] \in Observation
      BY SMT, EstimatorAssumption DEF TypeOK, Indices
    <2> QED BY SMT, <2>1, WindowError
  <1>2. Spec => []TypeOK
    BY TypeCorrect
  <1> QED BY <1>1, <1>2, PTL

-------------------------------------------------------------------------------
(* The port of the algorithm to the web demo *)

\* The filter loop of the port is the recursion it is written as.
LEMMA KeptIs ==
    ASSUME NEW s \in Seq(Observation), NEW cutoff \in Int
    PROVE  /\ \A k \in 0 .. Len(s) : Web!Kept(s, cutoff)[k] \in Seq(Observation)
           /\ Web!Kept(s, cutoff)[0] = <<>>
           /\ \A k \in 1 .. Len(s) : Web!Kept(s, cutoff)[k] =
                                        Web!Keep(k, Web!Kept(s, cutoff)[k - 1], s, cutoff)
  <1> DEFINE N == Len(s)
             S == Seq(Observation)
             F == [k \in 1 .. N |-> [o \in S |-> Web!Keep(k, o, s, cutoff)]]
             Solves(g) == g = [k \in 0 .. N |-> IF k = 0 THEN <<>>
                                                ELSE Web!Keep(k, g[k - 1], s, cutoff)]
             f == Web!Kept(s, cutoff)
  <1>1. f = CHOOSE g : Solves(g)
    BY DEF Web!Kept
  <1>2. N \in Nat /\ <<>> \in S /\ \A k \in 1 .. N : s[k] \in Observation
    OBVIOUS
  <1>3. \A k \in 1 .. N : \A o \in S : Web!Keep(k, o, s, cutoff) \in S
    BY <1>2 DEF Web!Keep
  <1> HIDE DEF f, N, S
  <1>4. F \in Rounds(S, N)
    BY <1>3 DEF Rounds
  <1>5. PICK g : SolvesRounds(g, S, N, <<>>, F)
    <2> HIDE DEF F, Solves
    <2> QED BY <1>2, <1>4, RecursionSolved
  <1>6. \A k \in 1 .. N : k - 1 \in 0 .. N /\ g[k - 1] \in S /\ k \in 0 .. N /\ k # 0
    BY <1>2, <1>5 DEF SolvesRounds
  <1>7. \A k \in 1 .. N : g[k] = Web!Keep(k, g[k - 1], s, cutoff)
    BY <1>5, <1>6 DEF SolvesRounds
  <1>8. Solves(g)
    <2> HIDE DEF F
    <2>1. \A k \in 0 .. N : k # 0 => k \in 1 .. N
      BY <1>2
    <2> QED BY <1>5, <1>7, <2>1 DEF SolvesRounds
  <1>9. Solves(f)
    <2> HIDE DEF Solves
    <2> QED BY <1>1, <1>8
  <1>10. f[0] = <<>> /\ \A k \in 1 .. N : f[k] = Web!Keep(k, f[k - 1], s, cutoff)
    BY <1>2, <1>6, <1>9
  <1>11. \A k \in 0 .. N : f[k] = g[k]
    <2> HIDE DEF Solves, F
    <2>1. f[0] = g[0] /\ \A k \in 1 .. N : f[k - 1] = g[k - 1] => f[k] = g[k]
      BY <1>5, <1>7, <1>10 DEF SolvesRounds
    <2> QED BY ZenonT(30), <1>2, <2>1, RecursionUnique
  <1>12. \A k \in 0 .. N : f[k] \in S
    BY <1>5, <1>11 DEF SolvesRounds
  <1> QED BY <1>10, <1>12 DEF f, N, S

\* So is its clustering loop.
LEMMA MergedIs ==
    ASSUME NEW s \in Seq(Observation), NEW window \in Nat
    PROVE  /\ Web!Merged(s, window)[0] = {}
           /\ \A k \in 1 .. Len(s) : Web!Merged(s, window)[k] =
                                        Web!Merge(k, Web!Merged(s, window)[k - 1], s, window)
  <1> DEFINE N == Len(s)
             S == SUBSET Nat
             F == [k \in 1 .. N |-> [o \in S |-> Web!Merge(k, o, s, window)]]
             Solves(g) == g = [k \in 0 .. N |-> IF k = 0 THEN {}
                                                ELSE Web!Merge(k, g[k - 1], s, window)]
             f == Web!Merged(s, window)
  <1>1. f = CHOOSE g : Solves(g)
    BY DEF Web!Merged
  <1>2. N \in Nat /\ {} \in S
    OBVIOUS
  <1>3. \A k \in 1 .. N : \A o \in S : Web!Merge(k, o, s, window) \in S
    <2> SUFFICES ASSUME NEW k \in 1 .. N, NEW o \in S, NEW m \in Web!Merge(k, o, s, window)
                 PROVE  m \in Nat
      BY Zenon
    <2>1. m \in o \/ m = k \/ m \in k + 1 .. N
      BY DEF Web!Merge
    <2>2. k \in Nat /\ N \in Nat
      BY <1>2
    <2>3. \A x \in o : x \in Nat
      OBVIOUS
    <2> HIDE DEF N, S
    <2> QED BY <2>1, <2>2, <2>3
  <1> HIDE DEF f, N, S
  <1>4. F \in Rounds(S, N)
    BY <1>3 DEF Rounds
  <1>5. PICK g : SolvesRounds(g, S, N, {}, F)
    <2> HIDE DEF F, Solves
    <2> QED BY <1>2, <1>4, RecursionSolved
  <1>6. \A k \in 1 .. N : k - 1 \in 0 .. N /\ g[k - 1] \in S /\ k \in 0 .. N /\ k # 0
    BY <1>2, <1>5 DEF SolvesRounds
  <1>7. \A k \in 1 .. N : g[k] = Web!Merge(k, g[k - 1], s, window)
    BY <1>5, <1>6 DEF SolvesRounds
  <1>8. Solves(g)
    <2> HIDE DEF F
    <2>1. \A k \in 0 .. N : k # 0 => k \in 1 .. N
      BY <1>2
    <2> QED BY <1>5, <1>7, <2>1 DEF SolvesRounds
  <1>9. Solves(f)
    <2> HIDE DEF Solves
    <2> QED BY <1>1, <1>8
  <1>10. f[0] = {} /\ \A k \in 1 .. N : f[k] = Web!Merge(k, f[k - 1], s, window)
    <2> HIDE DEF F
    <2>1. f[0] = {}
      BY <1>2, <1>9
    <2>2. \A k \in 0 .. N : f[k] = IF k = 0 THEN {} ELSE Web!Merge(k, f[k - 1], s, window)
      BY Zenon, <1>9
    <2> HIDE DEF Solves
    <2> QED BY Zenon, <1>6, <2>1, <2>2
  <1> QED BY <1>10 DEF f, N

\* The port rejects what Counts rejects.
LEMMA KeepIs ==
    ASSUME NEW s \in Seq(Observation), NEW k \in 1 .. Len(s), NEW kept
    PROVE  Web!Keep(k, kept, s, RssiCutoff) = IF Counts(s[k]) THEN Append(kept, s[k]) ELSE kept
  BY DEF Web!Keep, Web!IsFar, Counts, TooFar

\* Where the k-th record of a snapshot is in the port's list, if it counts.
Position(s, k) == Len(Web!Kept(s, RssiCutoff)[k])

\* After n rounds the port's list holds the records that count, in their order.
Listed(s, n) ==
    /\ Position(s, n) \in Nat
    /\ \A k \in 1 .. n : Position(s, k) \in Nat /\ Position(s, k) <= Position(s, n)
    /\ \A k \in 1 .. n : Counts(s[k]) => /\ Position(s, k) > 0
                                         /\ Web!Kept(s, RssiCutoff)[n][Position(s, k)] = s[k]
    /\ \A p \in 1 .. Position(s, n) : \E k \in 1 .. n : Counts(s[k]) /\ Position(s, k) = p
    /\ \A k, l \in 1 .. n : k < l /\ Counts(s[l]) => Position(s, k) < Position(s, l)

\* Each round of the port's filter loop keeps that.
LEMMA ListedStep ==
    ASSUME NEW s \in Seq(Observation), NEW n \in Nat, n + 1 \in 1 .. Len(s), Listed(s, n)
    PROVE  Listed(s, n + 1)
  <1> DEFINE kept == Web!Kept(s, RssiCutoff)
  <1>1. /\ n \in 0 .. Len(s) /\ n + 1 \in 0 .. Len(s) /\ (n + 1) - 1 = n
        /\ \A k : k \in 1 .. n + 1 <=> (k \in 1 .. n \/ k = n + 1)
    OBVIOUS
  <1>2. kept[n] \in Seq(Observation) /\ kept[n + 1] = Web!Keep(n + 1, kept[n], s, RssiCutoff)
    BY <1>1, KeptIs, EstimatorAssumption
  <1>3. kept[n + 1] = IF Counts(s[n + 1]) THEN Append(kept[n], s[n + 1]) ELSE kept[n]
    <2> HIDE DEF kept
    <2> QED BY <1>2, KeepIs
  <1>4. s[n + 1] \in Observation
    OBVIOUS
  <1>5. Position(s, n) = Len(kept[n]) /\ Position(s, n + 1) = Len(kept[n + 1])
    BY DEF Position
  <1>6. \A k \in 1 .. n : k < n + 1
    OBVIOUS
  <1> DEFINE at(k) == Position(s, k)
  <1>7. Listed(s, n) <=>
          /\ at(n) \in Nat
          /\ \A k \in 1 .. n : at(k) \in Nat /\ at(k) <= at(n)
          /\ \A k \in 1 .. n : Counts(s[k]) => at(k) > 0 /\ kept[n][at(k)] = s[k]
          /\ \A p \in 1 .. at(n) : \E k \in 1 .. n : Counts(s[k]) /\ at(k) = p
          /\ \A k, l \in 1 .. n : k < l /\ Counts(s[l]) => at(k) < at(l)
    BY DEF Listed
  <1>8. Listed(s, n + 1) <=>
          /\ at(n + 1) \in Nat
          /\ \A k \in 1 .. n + 1 : at(k) \in Nat /\ at(k) <= at(n + 1)
          /\ \A k \in 1 .. n + 1 : Counts(s[k]) => at(k) > 0 /\ kept[n + 1][at(k)] = s[k]
          /\ \A p \in 1 .. at(n + 1) : \E k \in 1 .. n + 1 : Counts(s[k]) /\ at(k) = p
          /\ \A k, l \in 1 .. n + 1 : k < l /\ Counts(s[l]) => at(k) < at(l)
    BY DEF Listed
  <1> HIDE DEF kept, at
  <1>9. at(n) \in Nat /\ at(n) = Len(kept[n]) /\ at(n + 1) = Len(kept[n + 1])
    BY <1>5, <1>7 DEF at
  <1>10. CASE ~Counts(s[n + 1])
    <2>1. kept[n + 1] = kept[n] /\ at(n + 1) = at(n)
      BY <1>3, <1>9, <1>10
    <2>2. \A k, l \in 1 .. n + 1 : k < l /\ Counts(s[l]) => at(k) < at(l)
      <3> SUFFICES ASSUME NEW k \in 1 .. n + 1, NEW l \in 1 .. n + 1, k < l, Counts(s[l])
                   PROVE  at(k) < at(l)
        OBVIOUS
      <3>1. l \in 1 .. n /\ k \in 1 .. n
        BY <1>10
      <3> QED BY <1>7, <3>1
    <2> QED BY <1>1, <1>7, <1>8, <1>10, <2>1, <2>2
  <1>11. CASE Counts(s[n + 1])
    <2>1. /\ at(n + 1) = at(n) + 1 /\ kept[n + 1][at(n) + 1] = s[n + 1]
          /\ \A p \in 1 .. at(n) : kept[n + 1][p] = kept[n][p]
      <3>1. kept[n + 1] = Append(kept[n], s[n + 1])
        BY <1>3, <1>11
      <3> QED BY SMTT(30), <1>2, <1>4, <1>9, <3>1
    <2>2. \A k \in 1 .. n + 1 : at(k) \in Nat /\ at(k) <= at(n + 1)
      BY <1>1, <1>7, <1>9, <2>1
    <2>3. \A k \in 1 .. n + 1 : Counts(s[k]) => at(k) > 0 /\ kept[n + 1][at(k)] = s[k]
      <3> SUFFICES ASSUME NEW k \in 1 .. n + 1, Counts(s[k])
                   PROVE  at(k) > 0 /\ kept[n + 1][at(k)] = s[k]
        OBVIOUS
      <3>1. CASE k = n + 1
        BY <1>9, <2>1, <3>1
      <3>2. CASE k \in 1 .. n
        <4>1. at(k) \in 1 .. at(n) /\ kept[n][at(k)] = s[k]
          BY <1>7, <3>2
        <4> QED BY <2>1, <4>1
      <3> QED BY <1>1, <3>1, <3>2
    <2>4. \A p \in 1 .. at(n + 1) : \E k \in 1 .. n + 1 : Counts(s[k]) /\ at(k) = p
      <3> SUFFICES ASSUME NEW p \in 1 .. at(n + 1)
                   PROVE  \E k \in 1 .. n + 1 : Counts(s[k]) /\ at(k) = p
        OBVIOUS
      <3>1. CASE p = at(n) + 1
        BY <1>1, <1>11, <2>1, <3>1
      <3>2. CASE p \in 1 .. at(n)
        BY <1>1, <1>7, <3>2
      <3> QED BY <1>9, <2>1, <3>1, <3>2
    <2>5. \A k, l \in 1 .. n + 1 : k < l /\ Counts(s[l]) => at(k) < at(l)
      <3> SUFFICES ASSUME NEW k \in 1 .. n + 1, NEW l \in 1 .. n + 1, k < l, Counts(s[l])
                   PROVE  at(k) < at(l)
        OBVIOUS
      <3>1. k \in 1 .. n
        OBVIOUS
      <3>2. CASE l = n + 1
        BY <1>7, <1>9, <2>1, <3>1, <3>2
      <3>3. CASE l \in 1 .. n
        BY <1>7, <3>1, <3>3
      <3> QED BY <1>1, <3>2, <3>3
    <2>6. at(n + 1) \in Nat
      BY <1>9, <2>1
    <2> QED BY <1>8, <2>2, <2>3, <2>4, <2>5, <2>6
  <1> QED BY <1>10, <1>11

\* The port's list is the records that count, in their order.
LEMMA ListedAll ==
    ASSUME NEW s \in Seq(Observation)
    PROVE  Listed(s, Len(s))
  <1> DEFINE N == Len(s)
             P == {k \in 0 .. N : Listed(s, k)}
  <1>1. N \in Nat
    OBVIOUS
  <1>2. 0 \in P
    <2>1. Position(s, 0) = 0
      BY KeptIs, EstimatorAssumption DEF Position
    <2> QED BY <2>1 DEF Listed
  <1>3. \A n \in P : n < N => n + 1 \in P
    <2> SUFFICES ASSUME NEW n \in P, n < N PROVE Listed(s, n + 1)
      OBVIOUS
    <2>1. n \in Nat /\ n + 1 \in 1 .. Len(s) /\ Listed(s, n)
      OBVIOUS
    <2> QED BY <2>1, ListedStep
  <1>4. P \in SUBSET (0 .. N)
    OBVIOUS
  <1>5. P = 0 .. N
    <2> HIDE DEF P, N
    <2> QED BY <1>1, <1>2, <1>3, <1>4, UpwardInduction
  <1> QED BY <1>1, <1>5

\* What the port has merged after i rounds: what it has passed, and what one of
\* the clusters opened so far matches.
LEMMA MergedAfter ==
    ASSUME NEW s \in Seq(Observation), NEW window \in Nat, NEW n \in 0 .. Len(s)
    PROVE  \A q \in 1 .. Len(s) :
               q \in Web!Merged(s, window)[n] <=>
                   \/ q <= n
                   \/ \E l \in Web!Clusters(s, window) :
                         l <= n /\ l < q /\ Web!Matches(s[l], s[q], window)
  <1> DEFINE N == Len(s)
             merged == Web!Merged(s, window)
             clusters == Web!Clusters(s, window)
             match(l, q) == Web!Matches(s[l], s[q], window)
             Is(m) == \A q \in 1 .. N : q \in merged[m] <=>
                          q <= m \/ \E l \in clusters : l <= m /\ l < q /\ match(l, q)
             P == {m \in 0 .. N : Is(m)}
  <1>1. N \in Nat /\ DOMAIN s = 1 .. N
    OBVIOUS
  <1>2. merged[0] = {} /\ \A k \in 1 .. N : merged[k] = Web!Merge(k, merged[k - 1], s, window)
    BY MergedIs
  <1>3. \A k : k \in clusters <=> k \in 1 .. N /\ k \notin merged[k - 1]
    BY <1>1 DEF Web!Clusters
  <1>4. \A k \in 1 .. N : merged[k] = IF k \in merged[k - 1] THEN merged[k - 1]
                                     ELSE merged[k - 1] \cup {k} \cup {j \in k + 1 .. N : match(k, j)}
    BY <1>2 DEF Web!Merge
  <1> HIDE DEF N, merged, clusters, match
  <1>5. 0 \in P
    <2>1. 0 \in 0 .. N /\ \A q \in 1 .. N : ~(q <= 0) /\ q \notin merged[0]
      BY <1>1, <1>2
    <2>2. \A l \in clusters : ~(l <= 0)
      BY <1>3, <2>1
    <2>3. Is(0)
      BY <2>1, <2>2
    <2> HIDE DEF Is
    <2> QED BY <2>1, <2>3
  <1>6. ASSUME NEW m \in P, m < N PROVE m + 1 \in P
    <2>1. m \in Nat /\ m + 1 \in 1 .. N /\ m + 1 \in 0 .. N /\ (m + 1) - 1 = m
      BY <1>1, <1>6
    <2>2. Is(m)
      OBVIOUS
    <2>3. ASSUME NEW q \in 1 .. N
          PROVE  q \in merged[m + 1] <=>
                   q <= m + 1 \/ \E l \in clusters : l <= m + 1 /\ l < q /\ match(l, q)
      <3>1. \A l \in clusters : l \in Nat /\ (l <= m + 1 <=> l <= m \/ l = m + 1)
        BY <1>3, <2>1
      <3>2. q <= m + 1 <=> q <= m \/ q = m + 1
        BY <1>1, <2>1
      <3>3. q \in merged[m] <=> q <= m \/ \E l \in clusters : l <= m /\ l < q /\ match(l, q)
        BY <2>2
      <3>4. CASE m + 1 \in merged[m]
        <4>1. merged[m + 1] = merged[m] /\ m + 1 \notin clusters
          BY <1>3, <1>4, <2>1, <3>4
        <4> QED BY <3>1, <3>2, <3>3, <3>4, <4>1
      <3>5. CASE m + 1 \notin merged[m]
        <4>1. m + 1 \in clusters
          BY <1>3, <2>1, <3>5
        <4>2. q \in merged[m + 1] <=> q \in merged[m] \/ q = m + 1
                                      \/ (q \in (m + 1) + 1 .. N /\ match(m + 1, q))
          <5>1. merged[m + 1] = merged[m] \cup {m + 1}
                                \cup {j \in (m + 1) + 1 .. N : match(m + 1, j)}
            BY <1>4, <2>1, <3>5
          <5> QED BY <5>1
        <4>3. q \in (m + 1) + 1 .. N <=> m + 1 < q
          BY <1>1, <2>1
        <4> QED BY <3>1, <3>2, <3>3, <4>1, <4>2, <4>3
      <3> QED BY <3>4, <3>5
    <2> QED BY <2>1, <2>3
  <1>7. P = 0 .. N
    <2>1. P \in SUBSET (0 .. N)
      OBVIOUS
    <2> HIDE DEF P
    <2> QED BY <1>1, <1>5, <1>6, <2>1, UpwardInduction
  <1>8. Is(n)
    BY <1>1, <1>7 DEF N
  <1> QED BY <1>8 DEF N, merged, clusters, match

\* A record opens a cluster in the port exactly if no cluster in front of it
\* matches it.
LEMMA ClustersAre ==
    ASSUME NEW s \in Seq(Observation), NEW window \in Nat, NEW p \in 1 .. Len(s)
    PROVE  p \in Web!Clusters(s, window) <=>
               ~\E l \in Web!Clusters(s, window) : l < p /\ Web!Matches(s[l], s[p], window)
  <1> DEFINE clusters == Web!Clusters(s, window)
             match(l, q) == Web!Matches(s[l], s[q], window)
  <1>1. p - 1 \in 0 .. Len(s) /\ p \in Nat /\ ~(p <= p - 1) /\ DOMAIN s = 1 .. Len(s)
    OBVIOUS
  <1>2. p \in clusters <=> p \notin Web!Merged(s, window)[p - 1]
    BY <1>1 DEF Web!Clusters
  <1>3. \A l \in clusters : l \in Nat
    BY <1>1 DEF Web!Clusters
  <1>4. p \in Web!Merged(s, window)[p - 1] <=>
            p <= p - 1 \/ \E l \in clusters : l <= p - 1 /\ l < p /\ match(l, p)
    BY <1>1, MergedAfter
  <1> HIDE DEF clusters, match
  <1>5. \A l \in clusters : l <= p - 1 <=> l < p
    BY <1>1, <1>3
  <1>6. p \in clusters <=> ~\E l \in clusters : l < p /\ match(l, p)
    BY <1>1, <1>2, <1>4, <1>5
  <1> QED BY <1>6 DEF clusters, match

\* A greedy choice: a candidate is chosen exactly if no smaller chosen one is
\* related to it.
Greedy(L, C, R) ==
    L \subseteq C /\ \A k \in C : k \in L <=> ~\E l \in L : l < k /\ <<l, k>> \in R

\* Two greedy choices by the same rule are the same.
LEMMA GreedyIsUnique ==
    ASSUME NEW C \in SUBSET Nat, NEW R, NEW L, Greedy(L, C, R), NEW M, Greedy(M, C, R)
    PROVE  L = M
  <1> USE DEF Greedy
  <1> DEFINE T == {k \in C : ~(k \in L <=> k \in M)}
  <1> SUFFICES ASSUME T # {} PROVE FALSE
    OBVIOUS
  <1>1. PICK m \in T : \A k \in T : m <= k
    <2>1. T \in SUBSET Nat
      OBVIOUS
    <2> HIDE DEF T
    <2> QED BY <2>1, LeastNumber
  <1>2. \A l \in C : l < m => (l \in L <=> l \in M)
    <2> SUFFICES ASSUME NEW l \in C, l < m, ~(l \in L <=> l \in M) PROVE FALSE
      OBVIOUS
    <2>1. l \in T /\ l \in Nat /\ m \in Nat
      OBVIOUS
    <2>2. m <= l
      BY <1>1, <2>1
    <2> QED BY <2>1, <2>2
  <1> QED BY <1>1, <1>2

\* Counting records, and counting their places in the port's list.
LEMMA SameNumber ==
    ASSUME NEW s \in Seq(Observation),
           NEW U \in SUBSET {k \in 1 .. Len(s) : Counts(s[k])},
           NEW V, V = {Position(s, k) : k \in U}
    PROVE  Cardinality(V) = Cardinality(U)
  <1> DEFINE f == [k \in U |-> Position(s, k)]
  <1>1. Len(s) \in Nat /\ Listed(s, Len(s))
    BY ListedAll
  <1>2. IsFiniteSet(U)
    <2>1. IsFiniteSet(1 .. Len(s)) /\ U \in SUBSET (1 .. Len(s))
      BY <1>1, FS_Interval
    <2> QED BY <2>1, FS_Subset
  <1>3. \A k, l \in U : Position(s, k) = Position(s, l) => k = l
    <2> SUFFICES ASSUME NEW k \in U, NEW l \in U, Position(s, k) = Position(s, l), k # l
                 PROVE  FALSE
      OBVIOUS
    <2>1. k \in 1 .. Len(s) /\ l \in 1 .. Len(s) /\ Counts(s[k]) /\ Counts(s[l])
      OBVIOUS
    <2>2. Position(s, k) \in Nat /\ Position(s, l) \in Nat
      BY <1>1, <2>1 DEF Listed
    <2>3. k < l \/ l < k
      BY <1>1, <2>1
    <2>4. Position(s, k) < Position(s, l) \/ Position(s, l) < Position(s, k)
      BY <1>1, <2>1, <2>3 DEF Listed
    <2> QED BY <2>2, <2>4
  <1>4. f \in Bijection(U, V)
    BY <1>3 DEF Bijection, Injection, Surjection, IsInjective
  <1> QED BY <1>2, <1>4, FS_Bijection DEF ExistsBijection

\* The filter loop keeps the records that count and counts their kinds.
TallyInv ==
    LET Those(S) == result.ble = Cardinality({k \in S : records[k].protocol = "ble"})
                    /\ result.wifi = Cardinality({k \in S : records[k].protocol # "ble"})
                    /\ result.randomized = Cardinality({k \in S : records[k].local})
    IN /\ pc = "filter" => active = {k \in 1 .. i - 1 : Counts(records[k])}
       /\ pc \in {"cluster", "done"} => active = {k \in Indices : Counts(records[k])}
       /\ Those(active)

\* A call starts with nothing counted.
LEMMA TallyStart == ASSUME Init PROVE TallyInv
  <1>1. {k \in active : records[k].protocol = "ble"} = {}
        /\ {k \in active : records[k].protocol # "ble"} = {}
        /\ {k \in active : records[k].local} = {}
    BY DEF Init
  <1> QED BY <1>1, FS_EmptySet DEF Init, TallyInv, ZeroResult

\* Every iteration of the filter loop keeps that.
LEMMA TallyStep == ASSUME IInv, TallyInv, [Next]_vars PROVE TallyInv'
  <1>1. TypeOK /\ result \in Result /\ active \subseteq Indices /\ IsFiniteSet(Indices)
        /\ Indices = 1 .. Len(records) /\ Len(records) \in Nat
    BY Snapshot DEF IInv, TypeOK
  <1>2. ASSUME UNCHANGED <<records, active, result.ble, result.wifi, result.randomized>>,
               pc' = "filter" => active = {k \in 1 .. i' - 1 : Counts(records[k])},
               pc' \in {"cluster", "done"} => active = {k \in Indices : Counts(records[k])}
        PROVE  TallyInv'
    BY <1>2 DEF TallyInv, Indices
  <1>3. CASE Empty
    <2>1. Indices = {} /\ active = {}
      BY <1>1, <1>3 DEF Empty, Indices
    <2> QED BY <1>2, <1>3, <2>1 DEF Empty
  <1>4. CASE Allocate
    <2>1. i' = 1 /\ active = {}
      BY <1>4 DEF Allocate, IInv, FilterInv
    <2>2. 1 .. i' - 1 = {}
      BY <2>1
    <2> QED BY <1>2, <1>4, <2>1, <2>2 DEF Allocate
  <1>5. CASE AllocFails BY <1>2, <1>5 DEF AllocFails
  <1>6. CASE Drop
    <2>1. i \in Nat \ {0} /\ i' = i + 1 /\ ~Counts(records[i]) /\ pc = "filter"
      BY <1>1, <1>6 DEF Drop, Indices
    <2>2. active = {k \in 1 .. i' - 1 : Counts(records[k])}
      <3>1. \A k : k \in 1 .. i' - 1 <=> k \in 1 .. i - 1 \/ k = i
        BY <2>1
      <3> QED BY <2>1, <3>1 DEF TallyInv
    <2> QED BY <1>2, <1>6, <2>2 DEF Drop
  <1>7. CASE Filtered
    <2>1. i - 1 = Len(records)
      BY <1>1, <1>7 DEF Filtered, IInv, TypeOK, Indices
    <2>2. active = {k \in Indices : Counts(records[k])}
      BY <1>1, <1>7, <2>1 DEF Filtered, TallyInv
    <2>3. UNCHANGED <<result.ble, result.wifi, result.randomized>>
      BY <1>1, <1>7 DEF Filtered, Result
    <2> QED BY <1>2, <1>7, <2>2, <2>3 DEF Filtered
  <1>8. CASE OpenCluster
    <2>1. UNCHANGED <<result.ble, result.wifi, result.randomized>>
      BY <1>1, <1>8 DEF OpenCluster, Result
    <2> QED BY <1>2, <1>8, <2>1 DEF OpenCluster, TallyInv
  <1>9. CASE PassOver BY <1>2, <1>9 DEF PassOver, TallyInv
  <1>10. CASE Scale BY <1>2, <1>10 DEF Scale, TallyInv
  <1>11. CASE UNCHANGED vars BY <1>2, <1>11 DEF vars, TallyInv
  <1>12. CASE Keep
    <2>1. /\ i \in Nat \ {0} /\ i' = i + 1 /\ Counts(records[i]) /\ UNCHANGED <<records, pc>>
          /\ pc = "filter" /\ active' = active \cup {i} /\ result' = Tally(result, records[i])
      BY <1>1, <1>12 DEF Keep, Indices
    <2>2. active = {k \in 1 .. i - 1 : Counts(records[k])} /\ IsFiniteSet(active)
      BY <1>1, <2>1, FS_Subset DEF TallyInv
    <2>3. i \notin active /\ active' = {k \in 1 .. i' - 1 : Counts(records[k])}
      <3>1. \A k : k \in 1 .. i' - 1 <=> k \in 1 .. i - 1 \/ k = i
        BY <2>1
      <3>2. i \notin 1 .. i - 1
        BY <2>1
      <3> QED BY <2>1, <2>2, <3>1, <3>2
    <2>4. ASSUME NEW S \in SUBSET active
          PROVE  Cardinality(S \cup {i}) = Cardinality(S) + 1 /\ Cardinality(S) \in Nat
      <3>1. IsFiniteSet(S) /\ i \notin S
        BY <2>2, <2>3, FS_Subset
      <3> QED BY <3>1, FS_AddElement, FS_CardinalityType
    <2> DEFINE r == records[i]
               Ble(S) == {k \in S : records[k].protocol = "ble"}
               Wifi(S) == {k \in S : records[k].protocol # "ble"}
               Local(S) == {k \in S : records[k].local}
    <2>5. /\ Ble(active') = IF r.protocol = "ble" THEN Ble(active) \cup {i} ELSE Ble(active)
          /\ Wifi(active') = IF r.protocol = "ble" THEN Wifi(active) ELSE Wifi(active) \cup {i}
          /\ Local(active') = IF r.local THEN Local(active) \cup {i} ELSE Local(active)
      BY <2>1
    <2>6. /\ Ble(active) \in SUBSET active /\ Wifi(active) \in SUBSET active
          /\ Local(active) \in SUBSET active
      OBVIOUS
    <2>7. /\ result.ble = Cardinality(Ble(active)) /\ result.wifi = Cardinality(Wifi(active))
          /\ result.randomized = Cardinality(Local(active))
      BY DEF TallyInv
    <2>8. /\ result'.ble = IF r.protocol = "ble" THEN result.ble + 1 ELSE result.ble
          /\ result'.wifi = IF r.protocol = "ble" THEN result.wifi ELSE result.wifi + 1
          /\ result'.randomized = IF r.local THEN result.randomized + 1 ELSE result.randomized
      BY <1>1, <2>1 DEF Tally, Result
    <2>9. TallyInv' <=>
            /\ pc' = "filter" => active' = {k \in 1 .. i' - 1 : Counts(records'[k])}
            /\ pc' \in {"cluster", "done"} => active' = {k \in Indices' : Counts(records'[k])}
            /\ result'.ble = Cardinality(Ble(active')) /\ result'.wifi = Cardinality(Wifi(active'))
            /\ result'.randomized = Cardinality(Local(active'))
      BY <2>1 DEF TallyInv
    <2> HIDE DEF r, Ble, Wifi, Local
    <2>10. /\ result'.ble = Cardinality(Ble(active')) /\ result'.wifi = Cardinality(Wifi(active'))
           /\ result'.randomized = Cardinality(Local(active'))
      BY <2>4, <2>5, <2>6, <2>7, <2>8
    <2> QED BY <2>1, <2>3, <2>9, <2>10
  <1> QED BY <1>3, <1>4, <1>5, <1>6, <1>7, <1>8, <1>9, <1>10, <1>11, <1>12 DEF Next, Returned

\* Without a pair on the edge of the window, port and code merge the same pairs.
LEMMA MatchIs ==
    ASSUME NEW a \in Observation, NEW b \in Observation,
           LET gap == GapNs(a.seen, b.seen)
           IN ~(gap > WindowMs * 1000000 /\ gap < (WindowMs + 1) * 1000000)
    PROVE  Web!Matches(a, b, WindowMs) <=> SamePhone(a, b)
  <1> DEFINE gap == GapNs(a.seen, b.seen)
  <1>1. gap \in Int
    BY ObservationFields DEF GapNs, Magnitude
  <1>2. (gap <= WindowMs * 1000000 => WithinWindow(a, b))
        /\ (WithinWindow(a, b) => gap < (WindowMs + 1) * 1000000)
    BY WindowError
  <1>3. gap = Web!GapNs(a.seen, b.seen)
    BY DEF GapNs, Magnitude, Web!GapNs, Web!Abs
  <1> HIDE DEF gap
  <1>4. ~(gap > WindowMs * 1000000 /\ gap < (WindowMs + 1) * 1000000)
    BY DEF gap
  <1>5. Web!InWindow(a, b, WindowMs) <=> WithinWindow(a, b)
    BY <1>1, <1>2, <1>3, <1>4, EstimatorAssumption DEF Web!InWindow
  <1>6. (Web!Abs(a.rssi - b.rssi) <= 4) <=> SignaturesMatch(a, b)
    BY DEF Web!Abs, SignaturesMatch, Magnitude
  <1> QED BY <1>5, <1>6 DEF Web!Matches, SamePhone

\* The leaders are the greedy choice: a record that counts leads exactly if no
\* leader before it merges it.
LEMMA LeadersAreGreedy ==
    ASSUME TypeOK, MergesFollowRule, NothingLeftToMerge, pc = "done"
    PROVE  /\ Leaders \subseteq active
           /\ \A k \in active : k \in Leaders <=>
                  ~\E l \in Leaders : l < k /\ SamePhone(records[l], records[k])
  <1>1. active \subseteq Indices /\ \A k \in Indices : k \in Nat \ {0}
    BY DEF TypeOK, Indices
  <1>2. Leaders \subseteq active
    BY <1>1 DEF Leaders, MergesFollowRule
  <1>3. ASSUME NEW k \in active, k \notin Leaders
        PROVE  \E l \in Leaders : l < k /\ SamePhone(records[l], records[k])
    <2>1. k \in Indices /\ cluster[k] # 0 /\ cluster[k] # k
      BY <1>1, <1>3 DEF NothingLeftToMerge, Leaders
    <2> QED BY <2>1 DEF MergesFollowRule
  <1>4. \A k, l \in Leaders : ~SamePhone(records[l], records[k])
    BY DEF NothingLeftToMerge
  <1> QED BY <1>2, <1>3, <1>4

\* The port counts with the same Cardinality.
LEMMA SameCardinality == ASSUME NEW S PROVE Web!Cardinality(S) = Cardinality(S)
  BY DEF Web!Cardinality, Cardinality

\* "list" holds the records of s that have a number in C, in their order.
Enumerates(s, C, list) ==
    /\ list \in Seq(Observation)
    /\ \A k \in C : k \in Nat /\ Position(s, k) \in 1 .. Len(list) /\ list[Position(s, k)] = s[k]
    /\ \A p \in 1 .. Len(list) : \E k \in C : Position(s, k) = p
    /\ \A k, l \in C : l < k <=> Position(s, l) < Position(s, k)

Counting(s) == {k \in 1 .. Len(s) : Counts(s[k])}

\* The port's list is the records that count.
LEMMA PortList ==
    ASSUME NEW s \in Seq(Observation)
    PROVE  Enumerates(s, Counting(s), Web!Active(s, RssiCutoff))
  <1> DEFINE C == Counting(s)
             list == Web!Active(s, RssiCutoff)
  <1>1. Len(s) \in Nat /\ Listed(s, Len(s))
    BY ListedAll
  <1>2. list = Web!Kept(s, RssiCutoff)[Len(s)] /\ list \in Seq(Observation)
        /\ Len(list) = Position(s, Len(s))
    BY <1>1, KeptIs, EstimatorAssumption DEF Web!Active, Position
  <1> HIDE DEF list
  <1>3. /\ Position(s, Len(s)) \in Nat
        /\ \A k \in C : k \in Nat /\ Position(s, k) \in 1 .. Len(list) /\ list[Position(s, k)] = s[k]
        /\ \A p \in 1 .. Len(list) : \E k \in C : Position(s, k) = p
        /\ \A k, l \in C : l < k => Position(s, l) < Position(s, k)
    BY <1>1, <1>2 DEF Listed, Counting
  <1> HIDE DEF C
  <1>4. ASSUME NEW k \in C, NEW l \in C, Position(s, l) < Position(s, k) PROVE l < k
    <2>1. k \in Nat /\ l \in Nat /\ Position(s, k) \in Nat /\ Position(s, l) \in Nat
      BY <1>3
    <2>2. ~(k < l) /\ k # l
      BY <1>3, <1>4, <2>1
    <2> QED BY <2>1, <2>2
  <1> QED BY <1>2, <1>3, <1>4 DEF Enumerates, C, list

\* "at" renumbers C as D, keeping the order and the relation.
Renumbers(at, C, R, D, Q) ==
    /\ \A k \in C : at[k] \in D
    /\ \A p \in D : \E k \in C : at[k] = p
    /\ \A k, l \in C : l < k <=> at[l] < at[k]
    /\ \A k, l \in C : <<l, k>> \in R <=> <<at[l], at[k]>> \in Q

NewNumbers(at, L) == {at[k] : k \in L}

\* Renumbering the candidates renumbers the greedy choice.
LEMMA GreedyRenumbered ==
    ASSUME NEW C \in SUBSET Nat, NEW R, NEW L, Greedy(L, C, R),
           NEW D, NEW Q, NEW W, Greedy(W, D, Q), NEW at, Renumbers(at, C, R, D, Q)
    PROVE  W = NewNumbers(at, L)
  <1> DEFINE M == {k \in C : at[k] \in W}
  <1>1. M \subseteq C /\ \A k \in C : k \in M <=> at[k] \in W
    OBVIOUS
  <1>2. W = {at[k] : k \in M}
    BY DEF Greedy, Renumbers
  <1> HIDE DEF M
  <1>3. ASSUME NEW k \in C
        PROVE  k \in M <=> ~\E l \in M : l < k /\ <<l, k>> \in R
    <2>1. at[k] \in W <=> ~\E q \in W : q < at[k] /\ <<q, at[k]>> \in Q
      BY DEF Greedy, Renumbers
    <2>2. \A l \in M : (at[l] < at[k] /\ <<at[l], at[k]>> \in Q) <=> (l < k /\ <<l, k>> \in R)
      BY <1>1 DEF Renumbers
    <2>3. (\E q \in W : q < at[k] /\ <<q, at[k]>> \in Q)
             <=> \E l \in M : at[l] < at[k] /\ <<at[l], at[k]>> \in Q
      BY Zenon, <1>2
    <2> QED BY <1>1, <2>1, <2>2, <2>3
  <1>4. Greedy(M, C, R)
    BY <1>1, <1>3 DEF Greedy
  <1>5. M = L
    BY <1>4, GreedyIsUnique
  <1> QED BY <1>2, <1>5 DEF NewNumbers

\* No pair of records is on the edge of the window.
OffEdge ==
    \A k, l \in Indices :
        LET gap == GapNs(records[k].seen, records[l].seen)
        IN ~(gap > WindowMs * 1000000 /\ gap < (WindowMs + 1) * 1000000)

\* The port opens as many clusters as the code.
LEMMA SameClusters ==
    ASSUME IInv, TallyInv, pc = "done", OffEdge,
           NEW list, list = Web!Active(records, RssiCutoff)
    PROVE  Cardinality(Web!Clusters(list, WindowMs)) = result.dedup
  <1> DEFINE W == Web!Clusters(list, WindowMs)
             at == [k \in active |-> Position(records, k)]
             R == {e \in active \X active : SamePhone(records[e[1]], records[e[2]])}
             Q == {e \in (1 .. Len(list)) \X (1 .. Len(list)) :
                      Web!Matches(list[e[1]], list[e[2]], WindowMs)}
  <1>1. /\ TypeOK /\ records \in Seq(Observation) /\ Indices = 1 .. Len(records)
        /\ active = Counting(records) /\ active \subseteq Indices
        /\ \A k \in Indices : records[k] \in Observation
    BY EstimatorAssumption, Snapshot DEF IInv, TypeOK, TallyInv, Counting
  <1>2. /\ Enumerates(records, active, list) /\ \A k \in active : at[k] = Position(records, k)
        /\ list \in Seq(Observation)
    BY <1>1, PortList DEF Enumerates
  <1>3. Greedy(W, 1 .. Len(list), Q)
    <2>1. \A p \in 1 .. Len(list) : p \in W <=>
               ~\E q \in W : q < p /\ Web!Matches(list[q], list[p], WindowMs)
      BY <1>2, ClustersAre, EstimatorAssumption
    <2>2. W \subseteq DOMAIN list /\ DOMAIN list = 1 .. Len(list)
      BY <1>2 DEF Web!Clusters
    <2>3. \A p, q \in 1 .. Len(list) : <<q, p>> \in Q <=> Web!Matches(list[q], list[p], WindowMs)
      OBVIOUS
    <2> HIDE DEF W, Q
    <2> QED BY <2>1, <2>2, <2>3 DEF Greedy
  <1>4. \A k, l \in active :
           Web!Matches(records[l], records[k], WindowMs) <=> SamePhone(records[l], records[k])
    BY <1>1, MatchIs DEF OffEdge
  <1>5. Leaders \subseteq active /\ Greedy(Leaders, active, R)
    <2>1. MergesFollowRule /\ NothingLeftToMerge
      BY DEF IInv, PassInv, NothingLeftToMerge
    <2>2. /\ Leaders \subseteq active
          /\ \A k \in active : k \in Leaders <=>
                 ~\E l \in Leaders : l < k /\ SamePhone(records[l], records[k])
      BY <1>1, <2>1, LeadersAreGreedy
    <2>3. \A k, l \in active : <<l, k>> \in R <=> SamePhone(records[l], records[k])
      OBVIOUS
    <2> HIDE DEF R
    <2> QED BY <2>2, <2>3 DEF Greedy
  <1>6. Renumbers(at, active, R, 1 .. Len(list), Q)
    <2>1. \A k, l \in active : <<l, k>> \in R <=> SamePhone(records[l], records[k])
      OBVIOUS
    <2>2. \A p, q \in 1 .. Len(list) : <<q, p>> \in Q <=> Web!Matches(list[q], list[p], WindowMs)
      OBVIOUS
    <2>3. \A k \in active : at[k] \in 1 .. Len(list) /\ list[at[k]] = records[k]
      BY <1>2 DEF Enumerates
    <2> HIDE DEF at, R, Q
    <2>4. \A k, l \in active : <<l, k>> \in R <=> <<at[l], at[k]>> \in Q
      BY <1>4, <2>1, <2>2, <2>3
    <2> QED BY <1>2, <2>3, <2>4 DEF Enumerates, Renumbers
  <1>7. Cardinality({Position(records, k) : k \in Leaders}) = Cardinality(Leaders)
    BY <1>1, <1>5, SameNumber DEF Counting
  <1>8. {Position(records, k) : k \in Leaders} = {at[k] : k \in Leaders}
    BY <1>5
  <1>9. W = {at[k] : k \in Leaders}
    <2> DEFINE D == 1 .. Len(list)
    <2>1. active \in SUBSET Nat
      BY <1>2 DEF Enumerates
    <2>2. Greedy(Leaders, active, R) /\ Greedy(W, D, Q) /\ Renumbers(at, active, R, D, Q)
      BY <1>3, <1>5, <1>6
    <2> HIDE DEF W, at, R, Q, D
    <2>3. W = NewNumbers(at, Leaders)
      BY <2>1, <2>2, GreedyRenumbered
    <2> QED BY <2>3 DEF NewNumbers
  <1> QED BY <1>7, <1>8, <1>9 DEF IInv, PassInv

\* A call that has ended agrees with the port.
LEMMA EndAgrees == ASSUME IInv, TallyInv PROVE PortAgrees
  <1> SUFFICES ASSUME pc = "done", OffEdge
               PROVE  result = Web!ComputeEstimate(records, RssiCutoff, WindowMs)
    BY DEF PortAgrees, OffEdge
  <1> DEFINE list == Web!Active(records, RssiCutoff)
             Places(U) == {Position(records, k) : k \in U}
             Ble == {p \in DOMAIN list : list[p].protocol = "ble"}
             Local == {p \in DOMAIN list : list[p].local}
  <1>1. /\ TypeOK /\ result \in Result /\ records \in Seq(Observation)
        /\ active = Counting(records)
    BY EstimatorAssumption, Snapshot DEF IInv, TypeOK, TallyInv, Counting
  <1>2. Web!ComputeEstimate(records, RssiCutoff, WindowMs) =
            [raw |-> Len(list), dedup |-> Cardinality(Web!Clusters(list, WindowMs)),
             ble |-> Cardinality(Ble), wifi |-> Cardinality(DOMAIN list \ Ble),
             randomized |-> Cardinality(Local)]
    BY SameCardinality DEF Web!ComputeEstimate
  <1>3. Cardinality(Web!Clusters(list, WindowMs)) = result.dedup
    BY SameClusters
  <1>4. /\ list \in Seq(Observation)
        /\ \A k \in active : /\ Position(records, k) \in 1 .. Len(list)
                            /\ list[Position(records, k)] = records[k]
        /\ \A p \in 1 .. Len(list) : \E k \in active : Position(records, k) = p
    <2>1. Enumerates(records, active, list)
      BY <1>1, PortList
    <2> HIDE DEF list
    <2> QED BY <2>1 DEF Enumerates
  <1>5. ASSUME NEW U \in SUBSET active PROVE Cardinality(Places(U)) = Cardinality(U)
    BY <1>1, SameNumber DEF Counting
  <1> HIDE DEF list
  <1>6. DOMAIN list = 1 .. Len(list) /\ Len(list) \in Nat
    BY <1>4
  <1>7. Len(list) = result.raw
    <2>1. 1 .. Len(list) = Places(active)
      BY <1>4
    <2>2. Cardinality(1 .. Len(list)) = Cardinality(active)
      BY <1>5, <2>1
    <2>3. \A n \in Nat : Cardinality(1 .. n) = n
      BY FS_Interval
    <2> QED BY <1>6, <2>2, <2>3 DEF IInv, FilterInv
  <1>8. Cardinality(Ble) = result.ble
    <2>1. Ble = Places({k \in active : records[k].protocol = "ble"})
      BY <1>4, <1>6
    <2>2. Cardinality({k \in active : records[k].protocol = "ble"}) = result.ble
      BY DEF TallyInv
    <2> QED BY <1>5, <2>1, <2>2
  <1>9. Cardinality(DOMAIN list \ Ble) = result.wifi
    <2>1. DOMAIN list \ Ble = Places({k \in active : records[k].protocol # "ble"})
      BY <1>4, <1>6
    <2>2. Cardinality({k \in active : records[k].protocol # "ble"}) = result.wifi
      BY DEF TallyInv
    <2> QED BY <1>5, <2>1, <2>2
  <1>10. Cardinality(Local) = result.randomized
    <2>1. Local = Places({k \in active : records[k].local})
      BY <1>4, <1>6
    <2>2. Cardinality({k \in active : records[k].local}) = result.randomized
      BY DEF TallyInv
    <2> QED BY <1>5, <2>1, <2>2
  <1>11. result = [raw |-> result.raw, dedup |-> result.dedup, ble |-> result.ble,
                  wifi |-> result.wifi, randomized |-> result.randomized]
    BY <1>1 DEF Result
  <1> QED BY <1>2, <1>3, <1>7, <1>8, <1>9, <1>10, <1>11

\* estimator_compute and its port to the web demo count the same, for every
\* snapshot, cutoff and window, in whatever order the records come, except for
\* records within a millisecond behind the end of the window.
THEOREM PortIsFaithful == Spec => []PortAgrees
  <1>1. Init => IInv /\ TallyInv
    BY InitIInv, TallyStart
  <1>2. (IInv /\ TallyInv) /\ [Next]_vars => (IInv /\ TallyInv)'
    BY TypeStep, FilterStep, PassStep, TallyStep DEF IInv
  <1>3. IInv /\ TallyInv => PortAgrees
    BY EndAgrees
  <1> QED BY <1>1, <1>2, <1>3, PTL DEF Spec

-------------------------------------------------------------------------------
(* The count and the order of the snapshot *)

\* One thing more.
LEMMA OneMore ==
    ASSUME NEW S, IsFiniteSet(S), NEW x, x \notin S
    PROVE  IsFiniteSet(S \cup {x}) /\ Cardinality(S \cup {x}) = Cardinality(S) + 1
  BY FS_AddElement

\* Two, three, four different things.
LEMMA CountOf ==
    /\ \A a, b : a # b => IsFiniteSet({a, b}) /\ Cardinality({a, b}) = 2
    /\ \A a, b, c : a # b /\ c \notin {a, b} =>
           IsFiniteSet({a, b, c}) /\ Cardinality({a, b, c}) = 3
  <1>1. ASSUME NEW a, NEW b, a # b PROVE IsFiniteSet({a, b}) /\ Cardinality({a, b}) = 2
    <2>1. IsFiniteSet({a}) /\ Cardinality({a}) = 1 /\ b \notin {a} /\ {a} \cup {b} = {a, b}
      BY <1>1, FS_Singleton
    <2> QED BY <2>1, OneMore
  <1>2. ASSUME NEW a, NEW b, NEW c, a # b, c \notin {a, b}
        PROVE  IsFiniteSet({a, b, c}) /\ Cardinality({a, b, c}) = 3
    <2> DEFINE S == {a, b}
    <2>1. IsFiniteSet(S) /\ Cardinality(S) = 2 /\ c \notin S
      BY <1>1, <1>2, Zenon
    <2>2. {a, b, c} = S \cup {c}
      OBVIOUS
    <2> HIDE DEF S
    <2>3. IsFiniteSet(S \cup {c}) /\ Cardinality(S \cup {c}) = Cardinality(S) + 1
      BY <2>1, OneMore
    <2> QED BY <2>1, <2>2, <2>3
  <1>3. \A a, b : a # b => IsFiniteSet({a, b}) /\ Cardinality({a, b}) = 2
    BY ONLY <1>1
  <1>4. \A a, b, c : a # b /\ c \notin {a, b} =>
            IsFiniteSet({a, b, c}) /\ Cardinality({a, b, c}) = 3
    BY ONLY <1>2
  <1> QED BY ONLY <1>3, <1>4

\* Four different things, as one premise.
Different(a, b, c, d) == a # b /\ c \notin {a, b} /\ d \notin {a, b, c}

\* There are four of them.
LEMMA FourOf ==
    ASSUME NEW a, NEW b, NEW c, NEW d, Different(a, b, c, d)
    PROVE  Cardinality({a, b, c, d}) = 4
  <1> DEFINE S == {a, b, c}
  <1>1. a # b /\ c \notin {a, b} /\ d \notin S
    BY DEF Different
  <1>2. IsFiniteSet(S) /\ Cardinality(S) = 3
    BY ONLY <1>1, CountOf, Zenon
  <1>3. {a, b, c, d} = S \cup {d}
    OBVIOUS
  <1> HIDE DEF S
  <1>4. Cardinality(S \cup {d}) = Cardinality(S) + 1
    BY <1>1, <1>2, OneMore
  <1> QED BY <1>2, <1>3, <1>4

\* A set of at most two has no third element.
LEMMA NoThird ==
    ASSUME NEW S, IsFiniteSet(S), Cardinality(S) <= 2,
           NEW a \in S, NEW b \in S, NEW c \in S, a # b, c \notin {a, b}
    PROVE  FALSE
  <1>1. IsFiniteSet({a, b, c}) /\ Cardinality({a, b, c}) = 3
    BY CountOf
  <1>2. {a, b, c} \in SUBSET S
    OBVIOUS
  <1>3. Cardinality({a, b, c}) <= Cardinality(S) /\ Cardinality(S) \in Nat
    BY <1>2, FS_Subset, FS_CardinalityType
  <1> QED BY <1>1, <1>3

\* Where no record is paired with two others, every group has one leader.
LEMMA LeadersAreGroups ==
    ASSUME IInv, TallyInv, pc = "done", \A g \in Groups : Cardinality(g) <= 2
    PROVE  Cardinality(Leaders) = Cardinality(Groups)
  <1>1. /\ active = {k \in Indices : Counts(records[k])} /\ active \subseteq Indices
        /\ IsFiniteSet(Indices)
        /\ \A k \in Indices : records[k] \in Observation
    BY Snapshot DEF IInv, TallyInv
  <1>2. /\ \A k : Group(k) = {l \in active : l = k \/ SamePhone(records[k], records[l])}
        /\ Groups = {Group(k) : k \in active}
    BY <1>1 DEF Group, Groups
  <1>3. MergesFollowRule /\ NothingLeftToMerge /\ TypeOK
    BY DEF IInv, PassInv, NothingLeftToMerge
  <1>4. Leaders \subseteq active /\ IsFiniteSet(Leaders)
    <2>1. Leaders \subseteq active
      BY <1>1, <1>3, LeadersAreGreedy
    <2> QED BY <1>1, <2>1, FS_Subset
  <1>5. \A k, l \in active : SamePhone(records[k], records[l]) <=> SamePhone(records[l], records[k])
    BY <1>1, SamePhoneSymmetric
  <1>6. ASSUME NEW k \in active PROVE k \in Group(k) /\ Group(k) \in Groups
    BY <1>2
  <1>7. ASSUME NEW k \in Leaders, NEW l \in Leaders, Group(k) = Group(l) PROVE k = l
    <2>1. l \in Group(k)
      BY <1>4, <1>6, <1>7
    <2> QED BY <1>2, <1>3, <2>1 DEF NothingLeftToMerge
  <1>8. ASSUME NEW k \in active PROVE \E l \in Leaders : Group(l) = Group(k)
    <2>1. CASE k \in Leaders
      BY <2>1
    <2>2. CASE k \notin Leaders
      <3>1. PICK l \in Leaders : l < k /\ SamePhone(records[l], records[k])
        BY <1>1, <1>3, <2>2, LeadersAreGreedy
      <3>2. l \in active /\ l # k /\ SamePhone(records[k], records[l])
        BY <1>4, <1>5, <2>2, <3>1
      <3>3. /\ k \in Group(l) /\ l \in Group(l) /\ k \in Group(k) /\ l \in Group(k)
        BY <1>2, <3>1, <3>2
      <3>4. ASSUME NEW g \in {Group(k), Group(l)}, NEW m \in g PROVE m \in {k, l}
        <4>1. /\ g \in Groups /\ g \subseteq active /\ k \in g /\ l \in g
          BY <1>2, <3>2, <3>3
        <4>2. IsFiniteSet(g) /\ Cardinality(g) <= 2
          <5>1. IsFiniteSet(active)
            BY <1>1, FS_Subset
          <5> QED BY <4>1, <5>1, FS_Subset
        <4> QED BY <3>2, <4>1, <4>2, NoThird
      <3>5. Group(k) = {k, l} /\ Group(l) = {k, l}
        BY <3>3, <3>4
      <3> QED BY <3>5
    <2> QED BY <2>1, <2>2
  <1> DEFINE f == [k \in Leaders |-> Group(k)]
  <1>9. f \in Bijection(Leaders, Groups)
    <2>1. \A k \in Leaders : f[k] = Group(k) /\ Group(k) \in Groups
      BY <1>4, <1>6
    <2>2. f \in [Leaders -> Groups]
      BY <2>1
    <2>3. \A k, l \in Leaders : f[k] = f[l] => k = l
      BY <1>7, <2>1
    <2>4. \A g \in Groups : \E k \in Leaders : f[k] = g
      BY <1>2, <1>8, <2>1
    <2> HIDE DEF f
    <2> QED BY <2>2, <2>3, <2>4 DEF Bijection, Injection, Surjection, IsInjective
  <1> HIDE DEF f
  <1> QED BY <1>4, <1>9, FS_Bijection DEF ExistsBijection

\* As long as no record is paired with two others, the order in which the
\* snapshot lists the devices has no influence on the count of estimator_compute.
THEOREM CountIsOrderFree == Spec => []PairsCountOnce
  <1>1. Init => IInv /\ TallyInv
    BY InitIInv, TallyStart
  <1>2. (IInv /\ TallyInv) /\ [Next]_vars => (IInv /\ TallyInv)'
    BY TypeStep, FilterStep, PassStep, TallyStep DEF IInv
  <1>3. IInv /\ TallyInv => PairsCountOnce
    BY LeadersAreGroups DEF IInv, PassInv, PairsCountOnce
  <1> QED BY <1>1, <1>2, <1>3, PTL DEF Spec

-------------------------------------------------------------------------------
(* The interval, and the example of the documentation *)

\* A larger number has a larger square.
LEMMA SquaresGrow == ASSUME NEW x \in Nat, NEW y \in Nat, x <= y PROVE x * x <= y * y
  <1>1. x * x <= x * y
    BY SMT
  <1>2. x * y <= y * y
    BY SMT
  <1>3. x * x \in Nat /\ x * y \in Nat /\ y * y \in Nat
    BY SMT
  <1> QED BY SMT, <1>1, <1>2, <1>3

\* m hundredths is nearest to 1.96 * sqrt(c / 1.25).
Nearest(c, m) ==
    /\ 5 * (2 * m - 1) * (2 * m - 1) <= 4 * 153664 * c \/ m = 0
    /\ 5 * (2 * m + 1) * (2 * m + 1) > 4 * 153664 * c

\* The square root is rounded in one way only.
LEMMA NearestIsUnique ==
    ASSUME NEW c \in Nat, NEW m \in Nat, NEW n \in Nat, Nearest(c, m), Nearest(c, n), n < m
    PROVE  FALSE
  <1> DEFINE x == 2 * n + 1
             y == 2 * m - 1
             K == 4 * 153664 * c
  <1>1. x \in Nat /\ y \in Nat /\ x <= y /\ K \in Nat
    OBVIOUS
  <1>2. 5 * y * y <= K /\ 5 * x * x > K
    BY DEF Nearest
  <1> HIDE DEF x, y, K
  <1>3. x * x <= y * y
    BY <1>1, SquaresGrow
  <1>4. x * x \in Nat /\ y * y \in Nat /\ 5 * x * x = 5 * (x * x) /\ 5 * y * y = 5 * (y * y)
    BY <1>1
  <1> QED BY <1>1, <1>2, <1>3, <1>4

\* And it can be, for every count: Margin never chooses from nothing.
LEMMA NearestExists == ASSUME NEW c \in Nat PROVE \E m \in 0 .. 200 * (c + 1) : Nearest(c, m)
  <1> DEFINE T == {m \in Nat : 5 * (2 * m + 1) * (2 * m + 1) > 4 * 153664 * c}
             top == 200 * (c + 1)
  <1>1. top \in T
    <2> DEFINE x == 2 * top + 1
    <2>1. top \in Nat /\ x \in Nat /\ x >= 400 * (c + 1) /\ 400 * (c + 1) \in Nat
      OBVIOUS
    <2> HIDE DEF x
    <2>2. (400 * (c + 1)) * (400 * (c + 1)) <= x * x
      BY <2>1, SquaresGrow
    <2>3. (400 * (c + 1)) * (400 * (c + 1)) = 160000 * ((c + 1) * (c + 1))
      OBVIOUS
    <2>4. (c + 1) * (c + 1) >= c + 1 /\ (c + 1) * (c + 1) \in Nat
      OBVIOUS
    <2>5. x * x >= 160000 * (c + 1) /\ x * x \in Int
      BY <2>1, <2>2, <2>3, <2>4
    <2>6. 5 * x * x = 5 * (x * x)
      BY <2>1
    <2>7. 5 * x * x > 4 * 153664 * c
      BY <2>5, <2>6
    <2> QED BY <2>1, <2>7 DEF x
  <1> HIDE DEF top
  <1>2. PICK m \in T : \A k \in T : m <= k
    <2>1. T \in SUBSET Nat
      OBVIOUS
    <2> HIDE DEF T
    <2> QED BY <1>1, <2>1, LeastNumber
  <1>3. m \in Nat /\ m <= top /\ top \in Nat
    BY <1>1, <1>2 DEF top
  <1>4. m = 0 \/ 5 * (2 * m - 1) * (2 * m - 1) <= 4 * 153664 * c
    <2> SUFFICES ASSUME m # 0 PROVE 5 * (2 * m - 1) * (2 * m - 1) <= 4 * 153664 * c
      OBVIOUS
    <2> DEFINE k == m - 1
    <2>1. k \in Nat /\ k < m /\ 2 * k + 1 = 2 * m - 1
      BY <1>3
    <2>2. ~(5 * (2 * k + 1) * (2 * k + 1) > 4 * 153664 * c)
      <3> HIDE DEF k
      <3> QED BY <1>2, <1>3, <2>1
    <2> HIDE DEF k
    <2> DEFINE x == 2 * m - 1
    <2>3. x \in Int /\ 2 * k + 1 = x
      BY <1>3, <2>1
    <2>4. 5 * x * x \in Int /\ 4 * 153664 * c \in Int
      BY <2>3
    <2> HIDE DEF x
    <2>5. 5 * x * x <= 4 * 153664 * c
      BY <2>2, <2>3, <2>4
    <2> QED BY <2>5 DEF x
  <1>5. Nearest(c, m)
    BY <1>2, <1>4 DEF Nearest
  <1> QED BY <1>3, <1>5 DEF top

\* What the reported interval is, for every count.
LEMMA MarginIs ==
    ASSUME NEW c \in Nat
    PROVE  Margin(c) \in Nat /\ \A m \in Nat : Nearest(c, m) <=> m = Margin(c)
  <1>1. Margin(c) = CHOOSE m \in 0 .. 200 * (c + 1) : Nearest(c, m)
    BY DEF Margin, Nearest
  <1>2. Margin(c) \in 0 .. 200 * (c + 1) /\ Nearest(c, Margin(c))
    <2> DEFINE S == 0 .. 200 * (c + 1)
               P(m) == Nearest(c, m)
    <2>1. \E m \in S : P(m)
      BY NearestExists
    <2>2. Margin(c) = CHOOSE m \in S : P(m)
      BY <1>1
    <2> HIDE DEF S, P
    <2>3. Margin(c) \in S /\ P(Margin(c))
      BY <2>1, <2>2
    <2> QED BY <2>3 DEF S, P
  <1>3. Margin(c) \in Nat
    BY <1>2
  <1>4. ASSUME NEW m \in Nat, Nearest(c, m) PROVE m = Margin(c)
    <2> DEFINE n == Margin(c)
    <2>1. n \in Nat /\ Nearest(c, n)
      BY <1>2, <1>3
    <2> HIDE DEF n
    <2>2. ~(n < m) /\ ~(m < n)
      BY <1>4, <2>1, NearestIsUnique
    <2>3. m = n
      BY <2>1, <2>2
    <2> QED BY <2>3 DEF n
  <1> QED BY <1>2, <1>3, <1>4

\* The devices of the example.
Device(p, r, l) ==
    [protocol |-> p, rssi |-> r, tx_power |-> -59, seen |-> [sec |-> 0, nsec |-> 0], local |-> l]

\* Where they are in the snapshot.
Example(a, b, c, d, e, f) ==
    /\ records[a] = Device("ble", -64, TRUE) /\ records[b] = Device("wifi", -66, TRUE)
    /\ records[c] = Device("ble", -74, TRUE) /\ records[d] = Device("wifi", -73, TRUE)
    /\ records[e] = Device("ble", -52, FALSE) /\ records[f] = Device("wifi", -80, FALSE)
    /\ Indices = {a, b, c, d, e, f}
    /\ b # a /\ c \notin {a, b} /\ d \notin {a, b, c} /\ e \notin {a, b, c, d}
    /\ f \notin {a, b, c, d, e}

\* Six places for six devices: each has one.
LEMMA ExamplePlaces ==
    ASSUME TypeOK, Range(records) = Sample, Len(records) = 6
    PROVE  \E a, b, c, d, e, f \in Indices : Example(a, b, c, d, e, f)
  <1>1. Indices = 1 .. 6 /\ DOMAIN records = Indices
    BY EstimatorAssumption DEF TypeOK, Indices
  <1> DEFINE s1 == Device("ble", -64, TRUE)
             s2 == Device("wifi", -66, TRUE)
             s3 == Device("ble", -74, TRUE)
             s4 == Device("wifi", -73, TRUE)
             s5 == Device("ble", -52, FALSE)
             s6 == Device("wifi", -80, FALSE)
  <1>2. {s1, s2, s3, s4, s5, s6} \subseteq Sample
    BY DEF Sample, Device
  <1>3. /\ s1.rssi = -64 /\ s2.rssi = -66 /\ s3.rssi = -74
        /\ s4.rssi = -73 /\ s5.rssi = -52 /\ s6.rssi = -80
    BY DEF Device
  <1> HIDE DEF s1, s2, s3, s4, s5, s6
  <1>4. \A s \in Sample : \E k \in Indices : records[k] = s
    BY <1>1 DEF Range
  <1>5. PICK a, b, c, d, e, f \in Indices :
            /\ records[a] = s1 /\ records[b] = s2 /\ records[c] = s3
            /\ records[d] = s4 /\ records[e] = s5 /\ records[f] = s6
    BY <1>2, <1>4
  <1>6. /\ b # a /\ c \notin {a, b} /\ d \notin {a, b, c} /\ e \notin {a, b, c, d}
        /\ f \notin {a, b, c, d, e}
    BY <1>3, <1>5
  <1>7. Indices = {a, b, c, d, e, f}
    <2>1. a \in 1 .. 6 /\ b \in 1 .. 6 /\ c \in 1 .. 6 /\ d \in 1 .. 6 /\ e \in 1 .. 6 /\ f \in 1 .. 6
      BY <1>1, <1>5
    <2>2. 1 .. 6 \subseteq {a, b, c, d, e, f}
      BY <1>6, <2>1
    <2> QED BY <1>1, <2>1, <2>2
  <1>8. Example(a, b, c, d, e, f)
    BY <1>5, <1>6, <1>7 DEF Example, s1, s2, s3, s4, s5, s6
  <1> QED BY <1>5, <1>8

\* The pairs that match.
Paired(a, b, c, d, k, l) ==
    \/ k = a /\ l = b
    \/ k = b /\ l = a
    \/ k = c /\ l = d
    \/ k = d /\ l = c

\* No two places are the same.
Apart(a, b, c, d, e, f) ==
    /\ a # b /\ a # c /\ a # d /\ a # e /\ a # f /\ b # c /\ b # d /\ b # e /\ b # f
    /\ c # d /\ c # e /\ c # f /\ d # e /\ d # f /\ e # f

\* All six count; two pairs match, and nothing else does.
LEMMA ExampleMatches ==
    ASSUME RssiCutoff <= -80,
           NEW a, NEW b, NEW c, NEW d, NEW e, NEW f, Example(a, b, c, d, e, f)
    PROVE  /\ \A k \in Indices : Counts(records[k])
           /\ \A k, l \in Indices :
                  SamePhone(records[k], records[l]) <=> Paired(a, b, c, d, k, l)
  <1>1. /\ records[a].rssi = -64 /\ records[b].rssi = -66 /\ records[c].rssi = -74
        /\ records[d].rssi = -73 /\ records[e].rssi = -52 /\ records[f].rssi = -80
    BY DEF Example, Device
  <1>2. /\ records[a].protocol = "ble" /\ records[b].protocol = "wifi"
        /\ records[c].protocol = "ble" /\ records[d].protocol = "wifi"
        /\ records[e].protocol = "ble" /\ records[f].protocol = "wifi"
    BY DEF Example, Device
  <1>3. /\ Indices = {a, b, c, d, e, f} /\ b # a /\ c \notin {a, b} /\ d \notin {a, b, c}
        /\ e \notin {a, b, c, d} /\ f \notin {a, b, c, d, e}
    BY DEF Example
  <1>4. \A k \in Indices : records[k].tx_power = -59 /\ records[k].seen = [sec |-> 0, nsec |-> 0]
    BY <1>3 DEF Example, Device
  <1>5. \A k \in Indices : records[k].rssi \in -80 .. -52
    BY <1>1, <1>3
  <1>6. ASSUME NEW k \in Indices PROVE Counts(records[k])
    <2> DEFINE rec == records[k]
    <2>1. rec.rssi \in Int /\ rec.rssi >= -80 /\ rec.tx_power = -59
      BY <1>4, <1>5
    <2> HIDE DEF rec
    <2>2. Counts(rec)
      BY <2>1, EstimatorAssumption DEF Counts, TooFar
    <2> QED BY <2>2 DEF rec
  <1>7. \A k, l \in Indices : WithinWindow(records[k], records[l])
    <2>1. DiffMs([sec |-> 0, nsec |-> 0], [sec |-> 0, nsec |-> 0]) = 0
      BY DEF DiffMs, NsecToMs
    <2> QED BY <1>4, <2>1, EstimatorAssumption DEF WithinWindow, Magnitude
  <1> DEFINE Near(k, l) == /\ records[k].protocol # records[l].protocol
                           /\ Magnitude(records[k].rssi - records[l].rssi) <= 4
  <1>8. \A k, l \in Indices : SamePhone(records[k], records[l]) <=> Near(k, l)
    BY <1>7 DEF SamePhone, SignaturesMatch
  <1>9. \A l \in Indices : (Near(a, l) <=> l = b) /\ (Near(b, l) <=> l = a)
    BY <1>1, <1>2, <1>3 DEF Magnitude
  <1>10. \A l \in Indices : (Near(c, l) <=> l = d) /\ (Near(d, l) <=> l = c)
    BY <1>1, <1>2, <1>3 DEF Magnitude
  <1>11. \A l \in Indices : ~Near(e, l) /\ ~Near(f, l)
    BY <1>1, <1>2, <1>3 DEF Magnitude
  <1> HIDE DEF Near
  <1>12. Apart(a, b, c, d, e, f)
    BY <1>3 DEF Apart
  <1>13. ASSUME NEW k \in Indices, NEW l \in Indices
         PROVE  Near(k, l) <=> Paired(a, b, c, d, k, l)
    <2>1. CASE k = a
      <3>1. Near(k, l) <=> l = b
        BY <1>9, <2>1
      <3> QED BY ONLY <1>12, <2>1, <3>1 DEF Paired, Apart
    <2>2. CASE k = b
      <3>1. Near(k, l) <=> l = a
        BY <1>9, <2>2
      <3> QED BY ONLY <1>12, <2>2, <3>1 DEF Paired, Apart
    <2>3. CASE k = c
      <3>1. Near(k, l) <=> l = d
        BY <1>10, <2>3
      <3> QED BY ONLY <1>12, <2>3, <3>1 DEF Paired, Apart
    <2>4. CASE k = d
      <3>1. Near(k, l) <=> l = c
        BY <1>10, <2>4
      <3> QED BY ONLY <1>12, <2>4, <3>1 DEF Paired, Apart
    <2>5. CASE k = e \/ k = f
      BY ONLY <1>11, <1>12, <2>5, l \in Indices DEF Paired, Apart
    <2> QED BY ONLY <1>3, <2>1, <2>2, <2>3, <2>4, <2>5, k \in Indices
  <1> QED BY <1>6, <1>8, <1>13

\* Four groups, of which none has more than two.
LEMMA ExampleGroups ==
    ASSUME RssiCutoff <= -80,
           NEW a, NEW b, NEW c, NEW d, NEW e, NEW f, Example(a, b, c, d, e, f)
    PROVE  /\ \A g \in Groups : Cardinality(g) <= 2
           /\ Cardinality(Groups) = 4
  <1>1. /\ Indices = {a, b, c, d, e, f} /\ b # a /\ c \notin {a, b} /\ d \notin {a, b, c}
        /\ e \notin {a, b, c, d} /\ f \notin {a, b, c, d, e}
    BY DEF Example
  <1>10. Apart(a, b, c, d, e, f) /\ {a, b, c, d, e, f} \subseteq Indices
    BY <1>1 DEF Apart
  <1>2. ASSUME NEW k \in Indices
        PROVE  \A l : l \in Group(k) <=> l \in Indices /\ (l = k \/ Paired(a, b, c, d, k, l))
    BY ExampleMatches DEF Group
  <1>3. /\ Group(a) = {a, b} /\ Group(b) = {a, b} /\ Group(c) = {c, d} /\ Group(d) = {c, d}
        /\ Group(e) = {e} /\ Group(f) = {f}
    <2>1. Group(a) = {a, b}
      <3>1. \A l : l \in Group(a) <=> l \in {a, b}
        BY <1>2, <1>10 DEF Paired, Apart
      <3> QED BY ONLY <3>1
    <2>2. Group(b) = {a, b}
      <3>1. \A l : l \in Group(b) <=> l \in {a, b}
        BY <1>2, <1>10 DEF Paired, Apart
      <3> QED BY ONLY <3>1
    <2>3. Group(c) = {c, d}
      <3>1. \A l : l \in Group(c) <=> l \in {c, d}
        BY <1>2, <1>10 DEF Paired, Apart
      <3> QED BY ONLY <3>1
    <2>4. Group(d) = {c, d}
      <3>1. \A l : l \in Group(d) <=> l \in {c, d}
        BY <1>2, <1>10 DEF Paired, Apart
      <3> QED BY ONLY <3>1
    <2>5. Group(e) = {e}
      <3>1. \A l : l \in Group(e) <=> l \in {e}
        BY <1>2, <1>10 DEF Paired, Apart
      <3> QED BY ONLY <3>1
    <2>6. Group(f) = {f}
      <3>1. \A l : l \in Group(f) <=> l \in {f}
        BY <1>2, <1>10 DEF Paired, Apart
      <3> QED BY ONLY <3>1
    <2> QED BY <2>1, <2>2, <2>3, <2>4, <2>5, <2>6
  <1>4. Groups = {Group(k) : k \in Indices}
    BY ExampleMatches DEF Groups
  <1> DEFINE A == {a, b}
             C == {c, d}
             E == {e}
             F == {f}
  <1>5. Groups = {A, C, E, F}
    BY <1>1, <1>3, <1>4
  <1>6. A # C /\ E \notin {A, C} /\ F \notin {A, C, E}
    BY <1>1
  <1>7. Cardinality(A) = 2 /\ Cardinality(C) = 2 /\ Cardinality(E) = 1 /\ Cardinality(F) = 1
    BY <1>1, CountOf, FS_Singleton
  <1> HIDE DEF A, C, E, F
  <1>8. Cardinality({A, C, E, F}) = 4
    <2>1. Different(A, C, E, F)
      BY <1>6 DEF Different
    <2> QED BY <2>1, FourOf
  <1>9. \A g \in {A, C, E, F} : Cardinality(g) <= 2
    BY <1>7
  <1> QED BY <1>5, <1>8, <1>9

\* The interval of four groups.
LEMMA ExampleInterval == Interval(4) = [estimate |-> 320, lower |-> 0, upper |-> 671]
  <1>1. Nearest(4, 351)
    BY DEF Nearest
  <1>2. Margin(4) = 351
    BY <1>1, MarginIs
  <1> QED BY <1>2 DEF Interval

\* What the worked example of the documentation prints comes out in every order
\* of its six devices, for every window and every cutoff that keeps them.
THEOREM ExampleHolds ==
    ASSUME RssiCutoff <= -80
    PROVE  Spec => []WorkedExample
  <1>1. Init => IInv /\ TallyInv
    BY InitIInv, TallyStart
  <1>2. (IInv /\ TallyInv) /\ [Next]_vars => (IInv /\ TallyInv)'
    BY TypeStep, FilterStep, PassStep, TallyStep DEF IInv
  <1>3. IInv /\ TallyInv => WorkedExample
    <2> SUFFICES ASSUME IInv, TallyInv, pc = "done", Range(records) = Sample, Len(records) = 6
                 PROVE  /\ result = [raw |-> 6, dedup |-> 4, ble |-> 3, wifi |-> 3,
                                     randomized |-> 4]
                        /\ People = [estimate |-> 320, lower |-> 0, upper |-> 671]
      BY DEF WorkedExample
    <2>1. PICK a, b, c, d, e, f \in Indices : Example(a, b, c, d, e, f)
      BY ExamplePlaces DEF IInv
    <2>2. active = {a, b, c, d, e, f}
      <3>1. \A k \in Indices : Counts(records[k])
        BY <2>1, ExampleMatches
      <3>2. Indices = {a, b, c, d, e, f}
        BY <2>1 DEF Example
      <3> QED BY <3>1, <3>2 DEF TallyInv
    <2>3. result.dedup = 4
      BY <2>1, ExampleGroups, LeadersAreGroups DEF IInv, PassInv
    <2>4. result.ble = 3 /\ result.wifi = 3 /\ result.randomized = 4
      <3>1. /\ {k \in active : records[k].protocol = "ble"} = {a, c, e}
            /\ {k \in active : records[k].protocol # "ble"} = {b, d, f}
            /\ {k \in active : records[k].local} = {a, b, c, d}
        <4>1. /\ records[a].protocol = "ble" /\ records[b].protocol = "wifi"
              /\ records[c].protocol = "ble" /\ records[d].protocol = "wifi"
              /\ records[e].protocol = "ble" /\ records[f].protocol = "wifi"
              /\ records[a].local /\ records[b].local /\ records[c].local /\ records[d].local
              /\ ~records[e].local /\ ~records[f].local
          BY <2>1 DEF Example, Device
        <4> QED BY <2>2, <4>1
      <3>2. /\ a # c /\ e \notin {a, c} /\ b # d /\ f \notin {b, d}
            /\ a # b /\ c \notin {a, b} /\ d \notin {a, b, c}
        BY <2>1 DEF Example
      <3>3. /\ Cardinality({a, c, e}) = 3 /\ Cardinality({b, d, f}) = 3
            /\ Cardinality({a, b, c, d}) = 4
        <4>1. Cardinality({a, c, e}) = 3
          BY ONLY <3>2, CountOf, Zenon
        <4>2. Cardinality({b, d, f}) = 3
          BY ONLY <3>2, CountOf, Zenon
        <4>3. Cardinality({a, b, c, d}) = 4
          <5>1. Different(a, b, c, d)
            BY <3>2 DEF Different
          <5> QED BY <5>1, FourOf
        <4> QED BY <4>1, <4>2, <4>3
      <3> QED BY <3>1, <3>3 DEF TallyInv
    <2>5. result.raw = 6
      <3>1. active = 1 .. 6
        BY <2>1, <2>2 DEF Example, Indices
      <3>2. \A n \in Nat : Cardinality(1 .. n) = n
        BY FS_Interval
      <3> QED BY <3>1, <3>2 DEF IInv, FilterInv
    <2>6. result = [raw |-> 6, dedup |-> 4, ble |-> 3, wifi |-> 3, randomized |-> 4]
      <3>1. result \in Result
        BY DEF IInv, TypeOK
      <3> QED BY <2>3, <2>4, <2>5, <3>1 DEF Result
    <2> QED BY <2>3, <2>6, ExampleInterval DEF People
  <1> QED BY <1>1, <1>2, <1>3, PTL DEF Spec
===============================================================================
