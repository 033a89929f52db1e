------------------------------ MODULE MCEviction ------------------------------
(* Small instances of AggregatorHistory for TLC. *)
EXTENDS MCAggregator, AggregatorHistory
==============================================================================
