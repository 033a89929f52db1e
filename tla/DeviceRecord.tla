----------------------------- MODULE DeviceRecord -----------------------------
(***************************************************************************)
(* pd_device_record_t (include/core/types.h) and the three things          *)
(* aggregator.c does to one: create it, refresh it, judge it stale.        *)
(* "signal" stands for the pair (rssi, tx_power), which a sighting always  *)
(* supplies together.  locally_administered is a fixed function of the MAC *)
(* and is left to Estimator.tla, whose telemetry counts it.                *)
(***************************************************************************)
EXTENDS Integers

CONSTANTS
    Digests,     \* values of pd_mac_hash_t
    Protocols,   \* values of pd_protocol_t
    Signals,     \* (rssi, tx_power) pairs
    MaxTime,     \* bound on the tv_sec values of CLOCK_REALTIME
    Ttl,         \* ttl_sec of aggregator_create
    CounterSize  \* number of values of observation_count (2^32 in the code)

ASSUME RecordAssumption ==
    /\ MaxTime \in Nat
    /\ Ttl \in Nat
    /\ CounterSize \in Nat \ {0}

Times == 0 .. MaxTime

Record == [hash: Digests, protocol: Protocols, signal: Signals,
           first_seen: Times, last_seen: Times,
           observation_count: 0 .. CounterSize - 1]

\* The record a first sighting fills in (observation_count = 1U).
NewRecord(d, p, s, t) ==
    [hash |-> d, protocol |-> p, signal |-> s, first_seen |-> t,
     last_seen |-> t, observation_count |-> 1 % CounterSize]

\* A later sighting overwrites rssi and tx_power ...
WithSignal(r, s) == [r EXCEPT !.signal = s]

\* Mutant: the counter does not wrap.
WithSightingUnbounded(r, p, t) ==
    [r EXCEPT !.last_seen = t,
              !.observation_count = @ + (IF r.protocol = p THEN 1 ELSE 2)]

\* ... then last_seen and the counter, which moves by two when the protocol
\* differs from the retained one; the counter is a uint32_t and wraps.
WithSighting(r, p, t) ==
    [r EXCEPT !.last_seen = t,
              !.observation_count =
                  (@ + (IF r.protocol = p THEN 1 ELSE 2)) % CounterSize]

\* Mutant: evicted at the TTL already.
StaleAtTtl(r, t) == t - r.last_seen >= Ttl

\* Older than the TTL at time t, in whole seconds.
Stale(r, t) == t - r.last_seen > Ttl
==============================================================================
