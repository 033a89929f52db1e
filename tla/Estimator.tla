------------------------------ MODULE Estimator ------------------------------
(***************************************************************************)
(* src/core/estimator.c: from one snapshot of the aggregator to a count of *)
(* people.  estimator_compute filters the records, clusters what is left   *)
(* greedily in the order of the snapshot, and scales the clusters.         *)
(*                                                                         *)
(* A step is one iteration of the filter loop or of the outer clustering   *)
(* loop; the inner loop only writes merged[j] of its own j, so its effect  *)
(* is one set comprehension.  cluster[k] names the record that absorbed k: *)
(* the code's merged[k] is cluster[k] # 0.  Persons are counted in         *)
(* hundredths, the resolution of the program's output.                     *)
(***************************************************************************)
EXTENDS Integers, FiniteSets, Sequences

CONSTANTS
    Snapshots,   \* record arrays the aggregator may hand over
    RssiCutoff,  \* cfg->rssi_cutoff
    WindowMs     \* cfg->dedup_window_ms

Rssi == -128 .. 127  \* int8_t

Nanoseconds == {n \in Nat : n < 1000000000}

Timespec == [sec: Nat, nsec: Nanoseconds]

Observation == [protocol: {"ble", "wifi"}, rssi: Rssi, tx_power: Rssi,
                seen: Timespec, local: BOOLEAN]

ASSUME EstimatorAssumption ==
    /\ Snapshots \subseteq Seq(Observation)
    /\ RssiCutoff \in Int
    /\ WindowMs \in Nat

-------------------------------------------------------------------------------
(* The rules *)

Magnitude(x) == IF x < 0 THEN -x ELSE x

\* nsec / 1000000LL: C division truncates toward zero.
NsecToMs(x) == IF x < 0 THEN -((-x) \div 1000000) ELSE x \div 1000000

\* Mutant: whole seconds only.
DiffMsOfSeconds(a, b) == (a.sec - b.sec) * 1000

DiffMs(a, b) == (a.sec - b.sec) * 1000 + NsecToMs(a.nsec - b.nsec)

WithinWindow(a, b) == Magnitude(DiffMs(a.seen, b.seen)) <= WindowMs

\* Mutant: a wider tolerance.
SignaturesMatchWider(a, b) == Magnitude(a.rssi - b.rssi) <= 6

SignaturesMatch(a, b) == Magnitude(a.rssi - b.rssi) <= 4

\* The records the inner loop merges: two radios of one phone.
SamePhone(a, b) ==
    /\ a.protocol # b.protocol
    /\ WithinWindow(a, b)
    /\ SignaturesMatch(a, b)

\* 10 ** ((tx - rssi) / 27) > 30 exactly when tx - rssi >= 40.
TooFar(r) == r.tx_power - r.rssi >= 40

Counts(r) == r.rssi >= RssiCutoff /\ ~TooFar(r)

\* 1.96 * sqrt(c / 1.25) in hundredths, to the nearest: 196 ** 2 / 1.25 = 153664 / 5.
Margin(c) == CHOOSE m \in 0 .. 200 * (c + 1) :
                 /\ 5 * (2 * m - 1) * (2 * m - 1) <= 4 * 153664 * c \/ m = 0
                 /\ 5 * (2 * m + 1) * (2 * m + 1) > 4 * 153664 * c

\* c / 1.25 people, with the 95 % bounds of the normal approximation.
Interval(c) ==
    [estimate |-> 80 * c,
     lower |-> IF 80 * c < Margin(c) THEN 0 ELSE 80 * c - Margin(c),
     upper |-> 80 * c + Margin(c)]

-------------------------------------------------------------------------------
VARIABLES
    records,  \* the snapshot
    pc,       \* "start", "filter", "cluster", "done" (returned 0), "failed" (-1)
    i,        \* the loop index, from 1
    active,   \* indices of the records that count
    cluster,  \* leader of the cluster each record was merged into, or 0
    result    \* the counters of pd_estimate_result_t

vars == <<records, pc, i, active, cluster, result>>

Indices == 1 .. Len(records)

ZeroResult == [raw |-> 0, dedup |-> 0, ble |-> 0, wifi |-> 0, randomized |-> 0]

Init ==
    /\ records \in Snapshots
    /\ pc = "start" /\ i = 1
    /\ active = {} /\ cluster = [k \in Indices |-> 0]
    /\ result = ZeroResult

\* An empty snapshot is estimated without any allocation.
Empty ==
    /\ pc = "start"
    /\ records = <<>>
    /\ pc' = "done"
    /\ UNCHANGED <<records, i, active, cluster, result>>

Allocate ==
    /\ pc = "start"
    /\ records # <<>>
    /\ pc' = "filter"
    /\ UNCHANGED <<records, i, active, cluster, result>>

\* One of the two arrays cannot be allocated.
AllocFails ==
    /\ pc = "start"
    /\ records # <<>>
    /\ pc' = "failed"
    /\ UNCHANGED <<records, i, active, cluster, result>>

Tally(res, r) ==
    [res EXCEPT !.ble = IF r.protocol = "ble" THEN @ + 1 ELSE @,
                !.wifi = IF r.protocol = "ble" THEN @ ELSE @ + 1,
                !.randomized = IF r.local THEN @ + 1 ELSE @]

Keep ==
    /\ pc = "filter" /\ i \in Indices
    /\ Counts(records[i])
    /\ active' = active \cup {i}
    /\ result' = Tally(result, records[i])
    /\ i' = i + 1
    /\ UNCHANGED <<records, pc, cluster>>

Drop ==
    /\ pc = "filter" /\ i \in Indices
    /\ ~Counts(records[i])
    /\ i' = i + 1
    /\ UNCHANGED <<records, pc, active, cluster, result>>

Filtered ==
    /\ pc = "filter" /\ i \notin Indices
    /\ result' = [result EXCEPT !.raw = Cardinality(active)]
    /\ pc' = "cluster" /\ i' = 1
    /\ UNCHANGED <<records, active, cluster>>

\* Mutant: the inner loop does not skip inactive records.
AbsorbedInactive(k) ==
    {j \in Indices : j > k /\ cluster[j] = 0 /\ SamePhone(records[k], records[j])}

\* Mutant: the inner loop starts one record late.
AbsorbedLate(k) ==
    {j \in active : j > k + 1 /\ cluster[j] = 0 /\ SamePhone(records[k], records[j])}

\* Still unmerged, and merged by the leader k.
Absorbed(k) ==
    {j \in active : j > k /\ cluster[j] = 0 /\ SamePhone(records[k], records[j])}

Opens(k) == k \in active /\ cluster[k] = 0

\* Mutant: the leader itself is not marked as merged.
OpenClusterUnmarked ==
    /\ pc = "cluster" /\ i \in Indices
    /\ Opens(i)
    /\ cluster' = [k \in Indices |-> IF k \in Absorbed(i) THEN i ELSE cluster[k]]
    /\ result' = [result EXCEPT !.dedup = @ + 1]
    /\ i' = i + 1
    /\ UNCHANGED <<records, pc, active>>

OpenCluster ==
    /\ pc = "cluster" /\ i \in Indices
    /\ Opens(i)
    /\ cluster' = [k \in Indices |-> IF k \in {i} \cup Absorbed(i) THEN i ELSE cluster[k]]
    /\ result' = [result EXCEPT !.dedup = @ + 1]
    /\ i' = i + 1
    /\ UNCHANGED <<records, pc, active>>

\* Mutant: the loop runs to i <= count.
PassOverEnd ==
    /\ pc = "cluster" /\ i \in 1 .. Len(records) + 1
    /\ ~Opens(i)
    /\ i' = i + 1
    /\ UNCHANGED <<records, pc, active, cluster, result>>

PassOver ==
    /\ pc = "cluster" /\ i \in Indices
    /\ ~Opens(i)
    /\ i' = i + 1
    /\ UNCHANGED <<records, pc, active, cluster, result>>

Scale ==
    /\ pc = "cluster" /\ i \notin Indices
    /\ pc' = "done"
    /\ UNCHANGED <<records, i, active, cluster, result>>

\* The estimate and its bounds, which follow from the cluster count.
People == Interval(result.dedup)

Returned == pc \in {"done", "failed"} /\ UNCHANGED vars

Next ==
    \/ Empty \/ Allocate \/ AllocFails
    \/ Keep \/ Drop \/ Filtered
    \/ OpenCluster \/ PassOver \/ Scale
    \/ Returned

Spec == Init /\ [][Next]_vars

-------------------------------------------------------------------------------
(* Properties *)

Result == [raw: Nat, dedup: Nat, ble: Nat, wifi: Nat, randomized: Nat]

\* Every variable keeps its type.
TypeOK ==
    /\ records \in Snapshots
    /\ pc \in {"start", "filter", "cluster", "done", "failed"}
    /\ i \in 1 .. Len(records) + 1
    /\ active \subseteq Indices
    /\ cluster \in [Indices -> 0 .. Len(records)]
    /\ result \in Result

Leaders == {k \in Indices : cluster[k] = k}

\* The reported cluster count is the number of clusters there are, at every
\* moment of the pass; it never exceeds the raw count it is a reduction of.
DedupCountsClusters ==
    /\ result.dedup = Cardinality(Leaders)
    /\ pc \in {"cluster", "done"} => result.dedup <= result.raw

\* Only a record that counts is in a cluster, and it is there because it leads
\* the cluster or because the merge rule pairs it with an earlier record that
\* does: what an absorbed record absorbed before stays with its own leader.
MergesFollowRule ==
    \A k \in Indices : cluster[k] # 0 =>
        /\ k \in active /\ cluster[k] \in Leaders
        /\ cluster[k] # k => /\ cluster[k] < k
                            /\ SamePhone(records[cluster[k]], records[k])

\* The leaders are what is left to count: every record that counts is in a
\* cluster, and no two leaders could have been merged with each other.
NothingLeftToMerge ==
    pc = "done" =>
        /\ \A k \in active : cluster[k] # 0
        /\ \A k, l \in Leaders : ~SamePhone(records[k], records[l])

\* A record that counts and those that the rule pairs it with: this depends on
\* the records, not on their order.
Group(k) ==
    {l \in Indices : Counts(records[l]) /\ (l = k \/ SamePhone(records[k], records[l]))}

Groups == {Group(k) : k \in {l \in Indices : Counts(records[l])}}

\* The count depends on the order of the hash table only where some record is
\* paired with two others: else every pair and every record on its own is
\* counted once, whichever of a pair comes first and whatever lies between.
PairsCountOnce ==
    pc = "done" /\ (\A g \in Groups : Cardinality(g) <= 2) =>
        result.dedup = Cardinality(Groups)

\* The distance in time of two records, in nanoseconds.
GapNs(a, b) == Magnitude((a.sec - b.sec) * 1000000000 + a.nsec - b.nsec)

\* The millisecond arithmetic of the window errs on one side and by less than
\* a millisecond: records no further apart than the window are within it, and
\* records within it are less than one millisecond further apart.
WindowTolerance ==
    \A k, l \in Indices :
        LET gap == GapNs(records[k].seen, records[l].seen)
        IN /\ gap <= WindowMs * 1000000 => WithinWindow(records[k], records[l])
           /\ WithinWindow(records[k], records[l]) => gap < (WindowMs + 1) * 1000000

\* docs/TECHNICAL_DOCUMENTATION.md 3.3 as it is worded: two observations that
\* satisfy the clustering rule are merged into one cluster.
RuleMerges ==
    pc = "done" =>
        \A k, l \in active :
            SamePhone(records[k], records[l]) => cluster[k] = cluster[l]

Web == INSTANCE WebEstimator

\* web/estimator.py "mirrors src/core/estimator.c": the two count the same, for
\* every order of the records, unless two of them are between the window and
\* one millisecond more apart, where the millisecond arithmetic of the C code
\* may still accept a pair and the port does not.
PortAgrees ==
    LET OnTheEdge(k, l) ==
            LET gap == GapNs(records[k].seen, records[l].seen)
            IN gap > WindowMs * 1000000 /\ gap < (WindowMs + 1) * 1000000
    IN pc = "done" /\ (\A k, l \in Indices : ~OnTheEdge(k, l)) =>
           result = Web!ComputeEstimate(records, RssiCutoff, WindowMs)
==============================================================================
