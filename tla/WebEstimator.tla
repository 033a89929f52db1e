----------------------------- MODULE WebEstimator -----------------------------
(***************************************************************************)
(* compute_estimate of web/estimator.py, the port of estimator_compute:    *)
(* one call, from a list of observations to the counters of its result.    *)
(* Times are whole nanoseconds, compared exactly, where the port subtracts *)
(* floats.                                                                 *)
(***************************************************************************)
EXTENDS Integers, FiniteSets, Sequences

Abs(x) == IF x < 0 THEN -x ELSE x

GapNs(a, b) == Abs((a.sec - b.sec) * 1000000000 + a.nsec - b.nsec)

\* 10 ** ((tx_power - rssi) / 27) > 30
IsFar(d) == d.tx_power - d.rssi >= 40

\* The filter loop: what is kept after its first i rounds.
Keep(i, kept, devices, cutoff) ==
    IF devices[i].rssi >= cutoff /\ ~IsFar(devices[i]) THEN Append(kept, devices[i]) ELSE kept

Kept(devices, cutoff) ==
    LET after[i \in 0 .. Len(devices)] ==
            IF i = 0 THEN <<>> ELSE Keep(i, after[i - 1], devices, cutoff)
    IN after

Active(devices, cutoff) == Kept(devices, cutoff)[Len(devices)]

\* Mutant: the window excludes its end.
InWindowOpen(a, b, window) == GapNs(a.seen, b.seen) < window * 1000000

InWindow(a, b, window) == GapNs(a.seen, b.seen) <= window * 1000000

Matches(a, b, window) ==
    /\ a.protocol # b.protocol
    /\ InWindow(a, b, window)
    /\ Abs(a.rssi - b.rssi) <= 4

\* The clustering loop: what is merged after its first i rounds.
Merge(i, merged, active, window) ==
    IF i \in merged THEN merged
    ELSE merged \cup {i}
         \cup {j \in i + 1 .. Len(active) : Matches(active[i], active[j], window)}

Merged(active, window) ==
    LET after[i \in 0 .. Len(active)] ==
            IF i = 0 THEN {} ELSE Merge(i, after[i - 1], active, window)
    IN after

Clusters(active, window) == {i \in DOMAIN active : i \notin Merged(active, window)[i - 1]}

ComputeEstimate(devices, cutoff, window) ==
    LET active == Active(devices, cutoff)
        ble == {i \in DOMAIN active : active[i].protocol = "ble"}
    IN [raw |-> Len(active),
        dedup |-> Cardinality(Clusters(active, window)),
        ble |-> Cardinality(ble),
        wifi |-> Cardinality(DOMAIN active \ ble),
        randomized |-> Cardinality({i \in DOMAIN active : active[i].local})]
===============================================================================
