----------------------------- MODULE MCEstimator -----------------------------
(* Small instances of Estimator for TLC. *)
EXTENDS Estimator, SequencesExt

DefaultCutoff == -85

At(protocol, rssi, sec, nsec) ==
    [protocol |-> protocol, rssi |-> rssi, tx_power |-> -59,
     seen |-> [sec |-> sec, nsec |-> nsec], local |-> protocol = "wifi"]

\* Three signal strengths a merge apart, on both radios and at three instants:
\* 500 ms apart within a second, and 500.4 ms apart across the boundary.
Crowd ==
    {At(p, r, 0, 100000000) : p \in {"ble", "wifi"}, r \in {-60, -64, -68}}
    \cup {At("wifi", -64, 0, 600000000), At("wifi", -64, 0, 600400000),
          At("ble", -60, 1, 100400000)}

\* On either side of the cutoff and of the distance gate.
Edges ==
    {At("ble", -85, 0, 0), At("wifi", -86, 0, 0),
     [At("ble", -81, 0, 0) EXCEPT !.tx_power = -42],
     [At("wifi", -81, 0, 0) EXCEPT !.tx_power = -41]}

UpTo(n, S) == UNION {[1 .. k -> S] : k \in 0 .. n}

CrowdSnapshots == UpTo(3, Crowd \cup Edges) \cup [1 .. 4 -> Crowd]

SmallSnapshots == UpTo(3, Crowd)

\* The last line of validation/sample_traffic.jsonl, in every order in which
\* the buckets of the aggregator may put its devices.
Sample ==
    {[protocol |-> o[1], rssi |-> o[2], tx_power |-> -59,
      seen |-> [sec |-> 0, nsec |-> 0], local |-> o[3]] :
        o \in {<<"ble", -64, TRUE>>, <<"wifi", -66, TRUE>>, <<"ble", -52, FALSE>>,
               <<"ble", -74, TRUE>>, <<"wifi", -73, TRUE>>, <<"wifi", -80, FALSE>>}}

SampleSnapshots == SetToSeqs(Sample)

AllSnapshots == CrowdSnapshots \cup SampleSnapshots

\* The worked example of docs/TECHNICAL_DOCUMENTATION.md 3.5 comes out as
\* printed there, people=3.20 [0.00, 6.71] devices=6 dedup=4 ble=3 wifi=3
\* randomized=4, whatever the order of the snapshot.
WorkedExample ==
    pc = "done" /\ Range(records) = Sample /\ Len(records) = 6 =>
        /\ result = [raw |-> 6, dedup |-> 4, ble |-> 3, wifi |-> 3, randomized |-> 4]
        /\ People = [estimate |-> 320, lower |-> 0, upper |-> 671]
===============================================================================
