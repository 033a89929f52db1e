--------------------------- MODULE AggregatorHistory ---------------------------
(***************************************************************************)
(* Aggregator with a history of what the capture threads were told: for    *)
(* each thread and each device, the clock reading of the latest report     *)
(* that has returned with success, whatever the thread has done since.     *)
(* Nothing but the history looks at the history: the steps are those of    *)
(* Aggregator.                                                             *)
(***************************************************************************)
EXTENDS Aggregator

VARIABLE reported  \* by thread and digest; None if there was no such report

historyVars == <<vars, reported>>

HistoryInit ==
    /\ Init
    /\ reported = [w \in Writers |-> [d \in Digests |-> None]]

\* aggregator_update returns 0 to w; a call that failed has lost its arguments.
Succeeds(w) == pc[w] = "unlock" /\ pc'[w] = "idle" /\ call[w] # None

Remember ==
    reported' = [w \in Writers |-> [d \in Digests |->
                    IF Succeeds(w) /\ call[w].digest = d THEN call[w].now ELSE reported[w][d]]]

HistorySpec == HistoryInit /\ [][Next /\ Remember]_historyVars

-------------------------------------------------------------------------------
(* Eviction *)

\* The threads that report a device of digest d.
Reporters(d) == {w \in Writers : \E r \in Reports[w] : Digest[r[1]] = d}

\* The nodes a step of the prune in progress takes out of the table.
Evicted == IF pc[Main] = "prune" THEN linked \ linked' ELSE {}

\* The latest report of n's device that w has made, if any, is older than the TTL.
IsOld(w, n) ==
    LET last == reported[w][rec[n].hash] IN last # None => now - last > Ttl

\* A record leaves the table while the program runs only when the latest report of
\* its device by each thread is older than the TTL (README.md, "--ttl SEC: How long
\* a device stays counted after last seen").
EvictedOnlyAfterTtl ==
    [][\A n \in Evicted, w \in Writers : IsOld(w, n)]_historyVars

\* The same for a device that only one thread reports, however the clock is set and
\* whatever that thread does by then: it may be reporting another device, waiting in
\* a new call about this one, or have ended.
SoleReporterEviction ==
    [][\A n \in Evicted, w \in Writers : Reporters(rec[n].hash) = {w} => IsOld(w, n)]_historyVars
==============================================================================
