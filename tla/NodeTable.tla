------------------------------- MODULE NodeTable -------------------------------
(***************************************************************************)
(* What Aggregator.tla uses of the hash chains of src/core/aggregator.c: a *)
(* set of nodes with a digest each.  A search ends at a node that has the  *)
(* digest, if there is one; a walk comes to every node once, in any order. *)
(* HashChains.tla implements this specification.                           *)
(***************************************************************************)
EXTENDS Sequences

CONSTANTS
    Nodes,  \* addresses calloc may return
    Hashes  \* digests of MACs

VARIABLES
    linked,  \* the nodes in the table
    digest,  \* the digest of each of them
    stale,   \* those whose record is older than the TTL
    task,    \* the call being carried out
    wanted,  \* the digest a search looks for
    todo,    \* nodes a walk has still to come to
    copied   \* what a snapshot has copied

table == <<linked, digest, stale>>
vars == <<table, task, wanted, todo, copied>>

Init ==
    /\ linked = {} /\ digest \in [linked -> Hashes] /\ stale = {}
    /\ task = "idle" /\ wanted \in Hashes /\ todo = {} /\ copied = <<>>

Age ==
    /\ task = "idle"
    /\ \E n \in linked : stale' = stale \cup {n}
    /\ UNCHANGED <<linked, digest, task, wanted, todo, copied>>

Find ==
    /\ task = "idle"
    /\ task' = "find" /\ wanted' \in Hashes
    /\ UNCHANGED <<table, todo, copied>>

Matches == {n \in linked : digest[n] = wanted}

\* A hit, and the refresh of the record that was found.
Hit ==
    /\ task = "find"
    /\ \E n \in Matches : stale' = stale \ {n}
    /\ task' = "idle"
    /\ UNCHANGED <<linked, digest, wanted, todo, copied>>

\* A miss, with memory for a new node and without.
Insert ==
    /\ task = "find" /\ Matches = {}
    /\ \E n \in Nodes \ linked :
          /\ linked' = linked \cup {n}
          /\ digest' = [m \in linked \cup {n} |-> IF m = n THEN wanted ELSE digest[m]]
    /\ task' = "idle"
    /\ UNCHANGED <<stale, wanted, todo, copied>>

NoMemory ==
    /\ task = "find" /\ Matches = {}
    /\ task' = "idle"
    /\ UNCHANGED <<table, wanted, todo, copied>>

Done == [prune |-> "pruned", copy |-> "copied", destroy |-> "destroyed"]

Walk(t) ==
    /\ task = "idle"
    /\ task' = t /\ todo' = linked
    /\ UNCHANGED <<table, wanted, copied>>

Release(n) ==
    /\ linked' = linked \ {n} /\ stale' = stale \ {n} /\ todo' = todo \ {n}
    /\ digest' = [m \in linked \ {n} |-> digest[m]]
    /\ UNCHANGED <<task, wanted, copied>>

Evict == task = "prune" /\ \E n \in todo \cap stale : Release(n)

Keep ==
    /\ task = "prune"
    /\ \E n \in todo \ stale : todo' = todo \ {n}
    /\ UNCHANGED <<table, task, wanted, copied>>

Copy ==
    /\ task = "copy"
    /\ \E n \in todo : copied' = Append(copied, n) /\ todo' = todo \ {n}
    /\ UNCHANGED <<table, task, wanted>>

Free == task = "destroy" /\ \E n \in todo : Release(n)

Finish ==
    /\ task \in DOMAIN Done /\ todo = {}
    /\ task' = Done[task]
    /\ UNCHANGED <<table, wanted, todo, copied>>

Return ==
    /\ task \in {"pruned", "copied"}
    /\ task' = "idle" /\ copied' = <<>>
    /\ UNCHANGED <<table, wanted, todo>>

Next ==
    \/ Age
    \/ Find \/ Hit \/ Insert \/ NoMemory
    \/ \E t \in DOMAIN Done : Walk(t)
    \/ Evict \/ Keep \/ Copy \/ Free \/ Finish \/ Return

Spec == Init /\ [][Next]_vars
================================================================================
