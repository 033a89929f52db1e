------------------------------ MODULE HashChains ------------------------------
(***************************************************************************)
(* The chains of src/core/aggregator.c, pointer by pointer: find_node, the *)
(* insertion, the cursor of aggregator_prune_stale, the traversals of      *)
(* aggregator_snapshot and aggregator_destroy.  All of it runs under the   *)
(* lock, hence one task at a time; Aggregator.tla has the interleavings    *)
(* and takes the chains as the set of the nodes they link.                 *)
(***************************************************************************)
EXTENDS Integers, Sequences, FiniteSets

CONSTANTS
    Nodes,     \* addresses calloc may return
    NULL,
    Hashes,    \* digests of MACs
    NBuckets,  \* PD_AGG_BUCKETS
    BucketOf   \* hash_mac_digest

ASSUME HashChainsAssumption ==
    /\ NULL \notin Nodes /\ IsFiniteSet(Nodes) /\ NBuckets \in Nat \ {0} /\ Hashes # {}
    /\ BucketOf \in [Hashes -> 1 .. NBuckets]

Buckets == 1 .. NBuckets

VARIABLES
    heap,     \* allocated nodes
    buckets,  \* first node of each chain
    next,     \* next node; a freed node keeps what it had
    hashOf,   \* record.hash
    old,      \* nodes whose record is older than the TTL
    task,     \* what is being done
    hash,     \* the digest looked for
    b,        \* the bucket looked at
    node,     \* the node looked at
    place,    \* the pointer prune looks at: a bucket's, or a node's next
    copied    \* records of the snapshot

nodeVars == <<heap, buckets, next, hashOf, old>>
walkVars == <<task, hash, b, node, place, copied>>
chainVars == <<nodeVars, walkVars>>

InBucket(k) == [of |-> "bucket", at |-> k]
InNode(n) == [of |-> "node", at |-> n]

ChainsInit ==
    /\ heap = {} /\ old = {}
    /\ buckets = [k \in Buckets |-> NULL]
    /\ next = [n \in Nodes |-> NULL]
    /\ hashOf \in [Nodes -> {CHOOSE h \in Hashes : TRUE}]
    /\ task = "idle" /\ hash = CHOOSE h \in Hashes : TRUE
    /\ b = 1 /\ node = NULL /\ place = InBucket(1) /\ copied = <<>>

\* Between two calls time passes, and a record gets too old.
Expire ==
    /\ task = "idle"
    /\ \E n \in heap : old' = old \cup {n}
    /\ UNCHANGED <<heap, buckets, next, hashOf, walkVars>>

-------------------------------------------------------------------------------
(* aggregator_update *)

BeginFind ==
    /\ task = "idle"
    /\ \E h \in Hashes : hash' = h /\ b' = BucketOf[h] /\ node' = buckets[BucketOf[h]]
    /\ task' = "find"
    /\ UNCHANGED <<nodeVars, place, copied>>

\* Mutant: only the first node of a chain is compared.
NextInChainOnce ==
    /\ task = "find" /\ node # NULL /\ hashOf[node] # hash
    /\ node' = NULL
    /\ UNCHANGED <<nodeVars, task, hash, b, place, copied>>

NextInChain ==
    /\ task = "find" /\ node # NULL /\ hashOf[node] # hash
    /\ node' = next[node]
    /\ UNCHANGED <<nodeVars, task, hash, b, place, copied>>

Hit ==
    /\ task = "find" /\ node # NULL /\ hashOf[node] = hash
    /\ old' = old \ {node}
    /\ task' = "idle"
    /\ UNCHANGED <<heap, buckets, next, hashOf, hash, b, node, place, copied>>

\* Mutant: what was first in the chain is not linked behind the new node.
InsertAlone ==
    /\ task = "find" /\ node = NULL
    /\ \E n \in Nodes \ heap :
          /\ heap' = heap \cup {n} /\ old' = old \ {n}
          /\ hashOf' = [hashOf EXCEPT ![n] = hash]
          /\ next' = [next EXCEPT ![n] = NULL]
          /\ buckets' = [buckets EXCEPT ![b] = n]
    /\ task' = "idle"
    /\ UNCHANGED <<hash, b, node, place, copied>>

Insert ==
    /\ task = "find" /\ node = NULL
    /\ \E n \in Nodes \ heap :
          /\ heap' = heap \cup {n} /\ old' = old \ {n}
          /\ hashOf' = [hashOf EXCEPT ![n] = hash]
          /\ next' = [next EXCEPT ![n] = buckets[b]]
          /\ buckets' = [buckets EXCEPT ![b] = n]
    /\ task' = "idle"
    /\ UNCHANGED <<hash, b, node, place, copied>>

NoMemory ==
    /\ task = "find" /\ node = NULL
    /\ task' = "idle"
    /\ UNCHANGED <<nodeVars, hash, b, node, place, copied>>

-------------------------------------------------------------------------------
(* aggregator_prune_stale *)

BeginPrune ==
    /\ task = "idle"
    /\ task' = "prune" /\ b' = 1 /\ place' = InBucket(1)
    /\ UNCHANGED <<nodeVars, hash, node, copied>>

Target == IF place.of = "bucket" THEN buckets[place.at] ELSE next[place.at]

\* Mutant: the cursor moves on into the node that was freed.
UnlinkAndAdvance ==
    /\ task = "prune" /\ Target # NULL /\ Target \in old
    /\ IF place.of = "bucket"
       THEN buckets' = [buckets EXCEPT ![place.at] = next[Target]] /\ UNCHANGED next
       ELSE next' = [next EXCEPT ![place.at] = next[Target]] /\ UNCHANGED buckets
    /\ heap' = heap \ {Target} /\ old' = old \ {Target}
    /\ place' = InNode(Target)
    /\ UNCHANGED <<hashOf, task, hash, b, node, copied>>

\* The cursor's pointer is made to point behind the dead node, which is freed.
Unlink ==
    /\ task = "prune" /\ Target # NULL /\ Target \in old
    /\ IF place.of = "bucket"
       THEN buckets' = [buckets EXCEPT ![place.at] = next[Target]] /\ UNCHANGED next
       ELSE next' = [next EXCEPT ![place.at] = next[Target]] /\ UNCHANGED buckets
    /\ heap' = heap \ {Target} /\ old' = old \ {Target}
    /\ UNCHANGED <<hashOf, walkVars>>

KeepNode ==
    /\ task = "prune" /\ Target # NULL /\ Target \notin old
    /\ place' = InNode(Target)
    /\ UNCHANGED <<nodeVars, task, hash, b, node, copied>>

EndOfPrunedChain ==
    /\ task = "prune" /\ Target = NULL
    /\ IF b < NBuckets
       THEN b' = b + 1 /\ place' = InBucket(b + 1) /\ UNCHANGED task
       ELSE task' = "pruned" /\ UNCHANGED <<b, place>>
    /\ UNCHANGED <<nodeVars, hash, node, copied>>

-------------------------------------------------------------------------------
(* aggregator_snapshot and aggregator_destroy *)

BeginWalk(t) ==
    /\ task = "idle"
    /\ task' = t /\ b' = 1 /\ node' = buckets[1]
    /\ UNCHANGED <<nodeVars, hash, place, copied>>

Copy ==
    /\ task = "copy" /\ node # NULL
    /\ copied' = Append(copied, node)
    /\ node' = next[node]
    /\ UNCHANGED <<nodeVars, task, hash, b, place>>

FreeNode ==
    /\ task = "destroy" /\ node # NULL
    /\ heap' = heap \ {node} /\ old' = old \ {node}
    /\ node' = next[node]
    /\ UNCHANGED <<buckets, next, hashOf, task, hash, b, place, copied>>

EndOf == [copy |-> "copied", destroy |-> "destroyed"]

EndOfWalkedChain ==
    /\ task \in DOMAIN EndOf /\ node = NULL
    /\ IF b < NBuckets
       THEN b' = b + 1 /\ node' = buckets[b + 1] /\ UNCHANGED task
       ELSE task' = EndOf[task] /\ UNCHANGED <<b, node>>
    /\ UNCHANGED <<nodeVars, hash, place, copied>>

\* Back to the caller; what a call has in its variables is gone.
Return ==
    /\ task \in {"pruned", "copied"}
    /\ task' = "idle" /\ copied' = <<>>
    /\ UNCHANGED <<nodeVars, hash, b, node, place>>

ChainsNext ==
    \/ Expire
    \/ BeginFind \/ NextInChain \/ Hit \/ Insert \/ NoMemory
    \/ BeginPrune \/ Unlink \/ KeepNode \/ EndOfPrunedChain
    \/ \E t \in DOMAIN EndOf : BeginWalk(t)
    \/ Copy \/ FreeNode \/ EndOfWalkedChain \/ Return

ChainsSpec == ChainsInit /\ [][ChainsNext]_chainVars

-------------------------------------------------------------------------------
(* Properties *)

\* The nodes of a chain from n on, as far as there are nodes to link.
ChainFrom(n) ==
    LET Step[k \in 0 .. Cardinality(Nodes)] ==
            IF k = 0 THEN n
            ELSE IF Step[k - 1] = NULL THEN NULL ELSE next[Step[k - 1]]
    IN Step

Behind(n) == {ChainFrom(n)[j] : j \in 0 .. Cardinality(Nodes)} \ {NULL}

\* Every allocated node is in the chain of its own bucket, nothing else is, and
\* no chain runs in a circle.
ChainsHoldTheHeap ==
    task \notin {"destroy", "destroyed"} =>
        \A k \in Buckets :
            /\ Behind(buckets[k]) = {n \in heap : BucketOf[hashOf[n]] = k}
            /\ ChainFrom(buckets[k])[Cardinality(Nodes)] = NULL

\* No walk stands on, or looks through, a node that has been freed.
NoStepIntoFreed ==
    /\ task \in {"find", "copy", "destroy"} => node \in heap \cup {NULL}
    /\ task = "prune" /\ place.of = "node" => place.at \in heap

\* A node is inserted only for a digest that no chain has, so none has it twice.
HashesDiffer == \A m, n \in heap : hashOf[m] = hashOf[n] => m = n

\* A prune leaves no old record, and a snapshot has each record once.
WalksAreComplete ==
    /\ task = "pruned" => old = {}
    /\ task = "copied" => {copied[k] : k \in DOMAIN copied} = heap
                          /\ Len(copied) = Cardinality(heap)
    /\ task = "destroyed" => heap = {}

-------------------------------------------------------------------------------
(* The chains implement NodeTable *)

\* What a walk has still to come to: the rest of the chain it is in, and the
\* later buckets.
Ahead ==
    IF task \notin {"prune", "copy", "destroy"} THEN {}
    ELSE Behind(IF task = "prune" THEN Target ELSE node)
         \cup {n \in heap : BucketOf[hashOf[n]] > b}

Table == INSTANCE NodeTable WITH
             linked <- heap, digest <- [n \in heap |-> hashOf[n]], stale <- old,
             wanted <- hash, todo <- Ahead

\* To its callers the table is a set: which chain a node is in and where, and the
\* cursor through which prune unlinks, make no difference to what is found,
\* inserted, evicted, copied and freed.
ActsAsTable == Table!Spec
===============================================================================
