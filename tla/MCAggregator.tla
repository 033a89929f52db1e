----------------------------- MODULE MCAggregator -----------------------------
(* Small instances of Aggregator for TLC. *)
EXTENDS Aggregator, TLC

CONSTANTS b, v, m1, m2, d1, d2

TwoDigests == m1 :> d1 @@ m2 :> d2

\* Both threads report one device, each over its own radio.
SharedDevice == b :> {<<m1, "ble">>} @@ v :> {<<m1, "wifi">>}

\* One thread reports both devices, the other one of them.
Overlapping == b :> {<<m1, "ble">>, <<m2, "ble">>} @@ v :> {<<m2, "wifi">>}

NodeSymmetry == Permutations(Nodes)
==============================================================================
