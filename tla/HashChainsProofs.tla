--------------------------- MODULE HashChainsProofs ---------------------------
(* The chains of the hash table, for any number of nodes, digests and      *)
(* buckets and every way digests fall into buckets.                        *)
(*                                                                         *)
(* A chain is sorted by age: a node links the youngest of the older nodes  *)
(* of its bucket.  The age is a ghost: a rank that exists for every state. *)
EXTENDS HashChains, Recursion, SequenceTheorems, FunctionTheorems, FiniteSetTheorems, TLAPS

ChainTypes ==
    /\ heap \subseteq Nodes /\ old \subseteq heap
    /\ buckets \in [Buckets -> Nodes \cup {NULL}]
    /\ next \in [Nodes -> Nodes \cup {NULL}]
    /\ hashOf \in [Nodes -> Hashes] /\ hash \in Hashes
    /\ task \in {"idle", "find", "prune", "pruned", "copy", "copied", "destroy", "destroyed"}
    /\ b \in Buckets /\ node \in Nodes \cup {NULL}
    /\ place \in [of: {"bucket"}, at: Buckets] \cup [of: {"node"}, at: Nodes]
    /\ copied \in Seq(Nodes)

Home(n) == BucketOf[hashOf[n]]

\* A destruction has yet to come to bucket k.
Standing(k) == task # "destroyed" /\ (task = "destroy" => k > b)

RanksDiffer(r) == \A m, n \in heap : Home(m) = Home(n) /\ r[m] = r[n] => m = n

\* next[n] is the youngest of the nodes of its bucket that are older than n.
NextIsOlder(r) ==
    \A n \in heap :
        /\ next[n] # NULL => next[n] \in heap /\ Home(next[n]) = Home(n) /\ r[next[n]] < r[n]
        /\ \A m \in heap : Home(m) = Home(n) /\ r[m] < r[n] =>
                               next[n] # NULL /\ r[m] <= r[next[n]]

\* x is the youngest node of bucket k.
IsHead(r, x, k) ==
    /\ x # NULL => x \in heap /\ Home(x) = k
    /\ \A m \in heap : Home(m) = k => x # NULL /\ r[m] <= r[x]

HeadsAreYoungest(r) == \A k \in Buckets : Standing(k) => IsHead(r, buckets[k], k)

\* find_node has the nodes with the digest before it.
FindIsAhead(r) ==
    task = "find" =>
        /\ b = BucketOf[hash]
        /\ node # NULL => node \in heap /\ Home(node) = b
        /\ \A m \in heap : hashOf[m] = hash => node # NULL /\ r[m] <= r[node]

\* The cursor of prune has the stale nodes before it.
PruneIsAhead(r) ==
    task = "prune" =>
        /\ place.of = "bucket" => place.at = b
        /\ place.of = "node" => place.at \in heap /\ Home(place.at) = b
        /\ \A n \in old : \/ Home(n) > b
                          \/ Home(n) = b /\ (place.of = "node" => r[n] < r[place.at])

\* A snapshot has copied what is behind its cursor, each node once.
CopyIsBehind(r) ==
    /\ task \notin {"copy", "copied"} => copied = <<>>
    /\ task \in {"copy", "copied"} =>
           \A i, j \in 1 .. Len(copied) : copied[i] = copied[j] => i = j
    /\ task = "copy" =>
        /\ node # NULL => node \in heap /\ Home(node) = b
        /\ \A n \in Nodes : (\E i \in 1 .. Len(copied) : copied[i] = n) <=>
               /\ n \in heap
               /\ Home(n) < b \/ (Home(n) = b /\ (node = NULL \/ r[node] < r[n]))
    /\ task = "copied" =>
           \A n \in Nodes : (\E i \in 1 .. Len(copied) : copied[i] = n) <=> n \in heap

\* A destruction has before it what is left.
DestroyIsAhead(r) ==
    /\ task = "destroy" => IsHead(r, node, b) /\ \A n \in heap : Home(n) >= b
    /\ task = "destroyed" => heap = {}

Ordered(r) ==
    /\ RanksDiffer(r) /\ NextIsOlder(r) /\ HeadsAreYoungest(r)
    /\ FindIsAhead(r) /\ PruneIsAhead(r) /\ CopyIsBehind(r) /\ DestroyIsAhead(r)
    /\ task = "pruned" => old = {}

ChainsInv == ChainTypes /\ HashesDiffer /\ \E r \in [Nodes -> Nat] : Ordered(r)

-------------------------------------------------------------------------------
\* The cursor of prune points to a node or to nothing.
LEMMA TargetType == ASSUME ChainTypes PROVE Target \in Nodes \cup {NULL}
  <1>1. CASE place.of = "bucket" BY <1>1 DEF ChainTypes, Target
  <1>2. CASE place.of = "node" BY <1>2 DEF ChainTypes, Target
  <1> QED BY <1>1, <1>2 DEF ChainTypes

\* Every step keeps the types.
LEMMA TypesStep == ASSUME ChainTypes, [ChainsNext]_chainVars PROVE ChainTypes'
  <1> USE HashChainsAssumption DEF ChainTypes, Buckets, InBucket, InNode, nodeVars, walkVars
  <1>1. CASE Expire BY <1>1 DEF Expire
  <1>2. CASE BeginFind BY <1>2 DEF BeginFind
  <1>3. CASE NextInChain BY <1>3 DEF NextInChain
  <1>4. CASE Hit BY <1>4 DEF Hit
  <1>5. CASE Insert BY <1>5 DEF Insert
  <1>6. CASE NoMemory BY <1>6 DEF NoMemory
  <1>7. CASE BeginPrune BY <1>7 DEF BeginPrune
  <1>8. CASE Unlink
    <2>1. Target \in Nodes /\ next[Target] \in Nodes \cup {NULL}
      BY <1>8, TargetType DEF Unlink
    <2> QED BY <1>8, <2>1 DEF Unlink
  <1>9. CASE KeepNode BY <1>9, TargetType DEF KeepNode
  <1>10. CASE EndOfPrunedChain BY <1>10 DEF EndOfPrunedChain
  <1>11. ASSUME NEW t \in DOMAIN EndOf, BeginWalk(t) PROVE ChainTypes'
    BY <1>11 DEF BeginWalk, EndOf
  <1>12. CASE Copy BY <1>12, AppendProperties DEF Copy
  <1>13. CASE FreeNode BY <1>13 DEF FreeNode
  <1>14. CASE EndOfWalkedChain BY <1>14 DEF EndOfWalkedChain, EndOf
  <1>15. CASE Return BY <1>15 DEF Return
  <1>16. CASE UNCHANGED chainVars BY <1>16 DEF chainVars
  <1> QED
    BY <1>1, <1>2, <1>3, <1>4, <1>5, <1>6, <1>7, <1>8, <1>9, <1>10, <1>11, <1>12, <1>13,
       <1>14, <1>15, <1>16 DEF ChainsNext

\* As long as no node comes, goes or is relinked, the order of the nodes stays.
LEMMA OrderStays ==
    ASSUME ChainTypes, HashesDiffer, NEW r \in [Nodes -> Nat], Ordered(r),
           UNCHANGED <<heap, buckets, next, hashOf>>
    PROVE  RanksDiffer(r)' /\ NextIsOlder(r)' /\ HashesDiffer'
  BY DEF Ordered, RanksDiffer, NextIsOlder, HashesDiffer, Home

\* The steps of aggregator_update but the insertion.
LEMMA FindSteps ==
    ASSUME ChainTypes, HashesDiffer, NEW r \in [Nodes -> Nat], Ordered(r),
           Expire \/ BeginFind \/ NextInChain \/ Hit \/ NoMemory
    PROVE  Ordered(r)' /\ HashesDiffer'
  <1>1. UNCHANGED <<heap, buckets, next, hashOf, place, copied>>
    BY DEF Expire, BeginFind, NextInChain, Hit, NoMemory, nodeVars, walkVars
  <1>2. RanksDiffer(r)' /\ NextIsOlder(r)' /\ HashesDiffer'
    BY <1>1, OrderStays
  <1>3. task \in {"idle", "find"} /\ task' \in {"idle", "find"}
    BY DEF Expire, BeginFind, NextInChain, Hit, NoMemory, walkVars
  <1>4. HeadsAreYoungest(r)'
    BY <1>1, <1>3 DEF Ordered, HeadsAreYoungest, IsHead, Standing, Home
  <1>5. PruneIsAhead(r)' /\ CopyIsBehind(r)' /\ DestroyIsAhead(r)' /\ task' # "pruned"
    BY <1>1, <1>3 DEF Ordered, PruneIsAhead, CopyIsBehind, DestroyIsAhead
  <1>6. FindIsAhead(r)'
    <2>1. CASE BeginFind
      <3>1. PICK h \in Hashes : hash' = h /\ b' = BucketOf[h] /\ node' = buckets[BucketOf[h]]
        BY <2>1 DEF BeginFind
      <3>2. BucketOf[h] \in Buckets
        BY HashChainsAssumption DEF Buckets
      <3>3. IsHead(r, buckets[BucketOf[h]], BucketOf[h])
        BY <1>3, <3>2 DEF Ordered, HeadsAreYoungest, Standing
      <3> QED
        BY <1>1, <3>1, <3>3 DEF FindIsAhead, IsHead, Home
    <2>2. CASE NextInChain
      <3>1. /\ node \in heap /\ hashOf[node] # hash /\ Home(node) = b /\ b = BucketOf[hash]
            /\ node' = next[node] /\ UNCHANGED <<hash, b, task>>
        BY <2>2 DEF NextInChain, Ordered, FindIsAhead
      <3>2. ASSUME NEW m \in heap, hashOf[m] = hash PROVE next[node] # NULL /\ r[m] <= r[next[node]]
        <4>1. r[m] <= r[node] /\ Home(m) = Home(node) /\ m # node
          BY <2>2, <3>1, <3>2 DEF NextInChain, Ordered, FindIsAhead, Home
        <4>2. r[m] < r[node]
          BY <3>1, <4>1 DEF Ordered, RanksDiffer, ChainTypes
        <4> QED
          BY <3>1, <4>1, <4>2 DEF Ordered, NextIsOlder
      <3> QED
        BY <1>1, <3>1, <3>2 DEF Ordered, NextIsOlder, FindIsAhead, Home
    <2>3. CASE Expire \/ Hit \/ NoMemory
      BY <2>3 DEF Expire, Hit, NoMemory, walkVars, FindIsAhead
    <2> QED BY <2>1, <2>2, <2>3
  <1> QED BY <1>2, <1>4, <1>5, <1>6 DEF Ordered

\* A new node is the youngest of its bucket, and the only one with its digest.
LEMMA InsertStep ==
    ASSUME ChainTypes, HashesDiffer, NEW r \in [Nodes -> Nat], Ordered(r), Insert
    PROVE  HashesDiffer' /\ \E s \in [Nodes -> Nat] : Ordered(s)'
  <1>1. PICK n \in Nodes \ heap :
            /\ heap' = heap \cup {n} /\ old' = old \ {n}
            /\ hashOf' = [hashOf EXCEPT ![n] = hash]
            /\ next' = [next EXCEPT ![n] = buckets[b]]
            /\ buckets' = [buckets EXCEPT ![b] = n]
    BY DEF Insert
  <1>2. task = "find" /\ node = NULL /\ task' = "idle" /\ b = BucketOf[hash] /\ copied' = <<>>
    BY DEF Insert, Ordered, FindIsAhead, CopyIsBehind
  <1>3. \A m \in heap : hashOf[m] # hash
    BY <1>2 DEF Ordered, FindIsAhead
  <1>4. PICK s \in [Nodes -> Nat] :
            /\ \A m \in heap : s[m] = r[m]
            /\ buckets[b] # NULL => s[n] = r[buckets[b]] + 1
    <2> DEFINE x == [r EXCEPT ![n] = IF buckets[b] = NULL THEN 0 ELSE r[buckets[b]] + 1]
    <2>1. x \in [Nodes -> Nat] /\ (\A m \in heap : x[m] = r[m])
          /\ (buckets[b] # NULL => x[n] = r[buckets[b]] + 1)
      BY DEF ChainTypes
    <2> QED BY <2>1
  <1>5. IsHead(r, buckets[b], b)
    BY <1>2 DEF Ordered, HeadsAreYoungest, Standing, ChainTypes
  <1>6. /\ \A m \in heap : hashOf'[m] = hashOf[m] /\ Home(m)' = Home(m) /\ next'[m] = next[m]
        /\ hashOf'[n] = hash /\ Home(n)' = b /\ next'[n] = buckets[b] /\ n # NULL
        /\ buckets'[b] = n /\ \A k \in Buckets \ {b} : buckets'[k] = buckets[k]
    BY <1>1, <1>2, HashChainsAssumption DEF ChainTypes, Home
  <1>7. \A m \in heap : Home(m) = b => buckets[b] # NULL /\ s[m] < s[n] /\ s[m] <= s[buckets[b]]
    <2> SUFFICES ASSUME NEW m \in heap, Home(m) = b
                 PROVE  buckets[b] # NULL /\ s[m] < s[n] /\ s[m] <= s[buckets[b]]
      OBVIOUS
    <2>1. buckets[b] # NULL /\ buckets[b] \in heap /\ r[m] <= r[buckets[b]]
      BY <1>5 DEF IsHead
    <2>2. s[n] = r[buckets[b]] + 1
      BY <1>4, <2>1
    <2> QED
      BY <1>4, <2>1, <2>2 DEF ChainTypes
  <1>8. buckets[b] # NULL => buckets[b] \in heap /\ Home(buckets[b]) = b /\ s[buckets[b]] < s[n]
    BY <1>5, <1>7 DEF IsHead
  <1>9. HashesDiffer'
    BY <1>1, <1>3, <1>6 DEF HashesDiffer
  <1>10. RanksDiffer(s)'
    BY <1>1, <1>4, <1>6, <1>7 DEF Ordered, RanksDiffer, ChainTypes, Home
  <1>11. NextIsOlder(s)'
    <2>1. ASSUME NEW m \in heap
          PROVE  /\ next[m] # NULL => next[m] \in heap' /\ Home(next[m])' = Home(m) /\ s[next[m]] < s[m]
                 /\ \A l \in heap' : Home(l)' = Home(m) /\ s[l] < s[m] =>
                                        next[m] # NULL /\ s[l] <= s[next[m]]
      <3>1. next[m] # NULL => next[m] \in heap' /\ Home(next[m])' = Home(m) /\ s[next[m]] < s[m]
        BY <1>1, <1>4, <1>6 DEF Ordered, NextIsOlder, Home
      <3>2. ASSUME NEW l \in heap', Home(l)' = Home(m), s[l] < s[m]
            PROVE  next[m] # NULL /\ s[l] <= s[next[m]]
        <4>1. l # n
          BY <1>4, <1>6, <1>7, <3>2 DEF ChainTypes
        <4>2. l \in heap /\ Home(l) = Home(m) /\ r[l] < r[m]
          BY <1>1, <1>4, <1>6, <3>2, <4>1 DEF Home
        <4> QED
          BY <1>4, <4>2 DEF Ordered, NextIsOlder, Home
      <3> QED BY <3>1, <3>2
    <2>2. /\ buckets[b] # NULL =>
                 buckets[b] \in heap' /\ hashOf'[buckets[b]] = hashOf[buckets[b]]
                 /\ Home(buckets[b]) = b /\ s[buckets[b]] < s[n]
          /\ \A l \in heap' : Home(l)' = b /\ s[l] < s[n] =>
                                 buckets[b] # NULL /\ s[l] <= s[buckets[b]]
      <3>1. \A l \in heap' : Home(l)' = b /\ s[l] < s[n] => l \in heap /\ Home(l) = b
        BY <1>1, <1>4, <1>6 DEF Home
      <3> QED
        BY <1>1, <1>6, <1>7, <1>8, <3>1
    <2>3. ASSUME NEW m \in heap'
          PROVE  /\ next'[m] # NULL => /\ next'[m] \in heap' /\ BucketOf[hashOf'[next'[m]]] = Home(m)'
                                       /\ s[next'[m]] < s[m]
                 /\ \A l \in heap' : Home(l)' = Home(m)' /\ s[l] < s[m] =>
                                        next'[m] # NULL /\ s[l] <= s[next'[m]]
      <3>1. CASE m = n
        BY <1>6, <2>2, <3>1 DEF Home
      <3>2. CASE m \in heap
        BY <1>6, <2>1, <3>2 DEF Home
      <3> QED BY <1>1, <3>1, <3>2
    <2> QED
      BY <2>3 DEF NextIsOlder, Home
  <1>12. HeadsAreYoungest(s)'
    <2> SUFFICES ASSUME NEW k \in Buckets PROVE IsHead(s, buckets[k], k)'
      BY DEF HeadsAreYoungest
    <2>1. CASE k = b
      <3>1. \A m \in heap' : Home(m)' = b => s[m] <= s[n]
        BY <1>1, <1>4, <1>6, <1>7 DEF ChainTypes, Home
      <3> QED
        BY <1>1, <1>6, <2>1, <3>1 DEF IsHead, Home
    <2>2. CASE k # b
      <3>1. IsHead(r, buckets[k], k) /\ buckets'[k] = buckets[k]
        BY <1>2, <1>6, <2>2 DEF Ordered, HeadsAreYoungest, Standing
      <3> QED
        BY <1>1, <1>4, <1>6, <2>2, <3>1 DEF IsHead, Home
    <2> QED BY <2>1, <2>2
  <1>13. FindIsAhead(s)' /\ PruneIsAhead(s)' /\ CopyIsBehind(s)' /\ DestroyIsAhead(s)'
    BY <1>2 DEF FindIsAhead, PruneIsAhead, CopyIsBehind, DestroyIsAhead
  <1>14. Ordered(s)'
    BY <1>2, <1>10, <1>11, <1>12, <1>13 DEF Ordered
  <1> QED
    BY <1>9, <1>14

-------------------------------------------------------------------------------
\* The cursor of prune points to the youngest node that is before it.
LEMMA TargetIsNext ==
    ASSUME ChainTypes, NEW r \in [Nodes -> Nat], Ordered(r), task = "prune"
    PROVE  /\ Target # NULL => /\ Target \in heap /\ Home(Target) = b
                               /\ place.of = "node" => r[Target] < r[place.at]
           /\ \A m \in heap : Home(m) = b /\ (place.of = "node" => r[m] < r[place.at]) =>
                                  Target # NULL /\ r[m] <= r[Target]
  <1>1. CASE place.of = "bucket"
    <2>1. Target = buckets[b] /\ IsHead(r, buckets[b], b)
      BY <1>1 DEF Target, Ordered, PruneIsAhead, HeadsAreYoungest, Standing, ChainTypes
    <2> QED BY <1>1, <2>1 DEF IsHead
  <1>2. CASE place.of = "node"
    <2>1. Target = next[place.at] /\ place.at \in heap /\ Home(place.at) = b
      BY <1>2 DEF Target, Ordered, PruneIsAhead
    <2> QED BY <1>2, <2>1 DEF Ordered, NextIsOlder
  <1> QED BY <1>1, <1>2 DEF ChainTypes

\* Home is a bucket.
LEMMA HomeType == ASSUME ChainTypes PROVE \A n \in heap : Home(n) \in Buckets
  BY HashChainsAssumption DEF ChainTypes, Home, Buckets

\* The steps of a prune that free nothing.
LEMMA PruneSteps ==
    ASSUME ChainTypes, HashesDiffer, NEW r \in [Nodes -> Nat], Ordered(r),
           BeginPrune \/ KeepNode \/ EndOfPrunedChain
    PROVE  Ordered(r)' /\ HashesDiffer'
  <1>1. UNCHANGED <<heap, buckets, next, hashOf, old, copied>>
    BY DEF BeginPrune, KeepNode, EndOfPrunedChain, nodeVars
  <1>2. RanksDiffer(r)' /\ NextIsOlder(r)' /\ HashesDiffer'
    BY <1>1, OrderStays
  <1>3. task \in {"idle", "prune"} /\ task' \in {"prune", "pruned"}
    BY DEF BeginPrune, KeepNode, EndOfPrunedChain
  <1>4. HeadsAreYoungest(r)'
    BY <1>1, <1>3 DEF Ordered, HeadsAreYoungest, IsHead, Standing, Home
  <1>5. FindIsAhead(r)' /\ CopyIsBehind(r)' /\ DestroyIsAhead(r)'
    BY <1>1, <1>3 DEF Ordered, FindIsAhead, CopyIsBehind, DestroyIsAhead
  <1>6. \A n \in old : n \in heap /\ Home(n) \in 1 .. NBuckets /\ Home(n)' = Home(n)
    BY <1>1, HomeType DEF ChainTypes, Buckets, Home
  <1>7. PruneIsAhead(r)' /\ (task' = "pruned" => old' = {})
    <2>1. CASE BeginPrune
      BY <1>1, <1>6, <2>1 DEF BeginPrune, PruneIsAhead, InBucket, Home
    <2>2. CASE KeepNode
      <3>1. task = "prune" /\ Target # NULL /\ Target \notin old /\ place' = InNode(Target)
            /\ UNCHANGED <<task, b>>
        BY <2>2 DEF KeepNode
      <3>2. ASSUME NEW n \in old, Home(n) = b PROVE r[n] < r[Target]
        <4>1. place.of = "node" => r[n] < r[place.at]
          BY <3>1, <3>2 DEF Ordered, PruneIsAhead, ChainTypes, Buckets
        <4>2. r[n] <= r[Target] /\ Target \in heap /\ Home(Target) = b
          BY <1>6, <3>1, <3>2, <4>1, TargetIsNext
        <4>3. r[n] # r[Target]
          BY <1>6, <3>1, <3>2, <4>2 DEF Ordered, RanksDiffer
        <4> QED BY <4>2, <4>3 DEF ChainTypes
      <3>3. Target \in heap /\ Home(Target) = b
        BY <3>1, TargetIsNext
      <3>4. \A n \in old : Home(n) >= b
        BY <1>6, <3>1 DEF Ordered, PruneIsAhead, ChainTypes, Buckets
      <3> HIDE DEF Target
      <3> QED
        BY <1>1, <1>6, <3>1, <3>2, <3>3, <3>4 DEF PruneIsAhead, InNode, Home, ChainTypes, Buckets
    <2>3. CASE EndOfPrunedChain
      <3>1. task = "prune" /\ Target = NULL
        BY <2>3 DEF EndOfPrunedChain
      <3>2. \A n \in old : Home(n) > b
        BY <1>6, <3>1, TargetIsNext DEF Ordered, PruneIsAhead
      <3>3. CASE b < NBuckets
        <4>1. b' = b + 1 /\ place' = InBucket(b + 1) /\ task' = "prune"
          BY <2>3, <3>1, <3>3 DEF EndOfPrunedChain
        <4> QED
          BY <1>1, <1>6, <3>2, <4>1 DEF PruneIsAhead, InBucket, Home, ChainTypes, Buckets
      <3>4. CASE ~(b < NBuckets)
        <4>1. task' = "pruned"
          BY <2>3, <3>4 DEF EndOfPrunedChain
        <4>2. old = {}
          BY <1>6, <3>2, <3>4, HashChainsAssumption DEF ChainTypes, Buckets
        <4> QED BY <1>1, <4>1, <4>2 DEF PruneIsAhead
      <3> QED BY <3>3, <3>4
    <2> QED BY <2>1, <2>2, <2>3
  <1> QED BY <1>2, <1>4, <1>5, <1>7, <1>3 DEF Ordered

\* Unlinking a node leaves the rest of its chain in order: what pointed to it
\* points to the youngest of the nodes that were older.
LEMMA UnlinkStep ==
    ASSUME ChainTypes, HashesDiffer, NEW r \in [Nodes -> Nat], Ordered(r), Unlink
    PROVE  Ordered(r)' /\ HashesDiffer'
  <1> DEFINE T == Target
  <1>1. /\ task = "prune" /\ T # NULL /\ T \in old /\ T \in heap /\ Home(T) = b
        /\ UNCHANGED <<hashOf, task, hash, b, node, place, copied>>
        /\ heap' = heap \ {T} /\ old' = old \ {T}
    BY TargetIsNext DEF Unlink, walkVars
  <1>2. /\ place.of = "node" => r[T] < r[place.at]
        /\ \A m \in heap : Home(m) = b /\ (place.of = "node" => r[m] < r[place.at]) => r[m] <= r[T]
    BY <1>1, TargetIsNext
  <1>3. /\ place.of = "bucket" => /\ T = buckets[b] /\ place.at = b /\ UNCHANGED next
                                  /\ buckets' = [buckets EXCEPT ![b] = next[T]]
        /\ place.of = "node" => /\ T = next[place.at] /\ UNCHANGED buckets
                                /\ place.at \in heap /\ Home(place.at) = b
                                /\ next' = [next EXCEPT ![place.at] = next[T]]
    BY <1>1 DEF Unlink, Target, Ordered, PruneIsAhead
  <1> HIDE DEF T
  <1>4. /\ next[T] # NULL => next[T] \in heap /\ Home(next[T]) = b /\ r[next[T]] < r[T]
        /\ \A m \in heap : Home(m) = b /\ r[m] < r[T] => next[T] # NULL /\ r[m] <= r[next[T]]
    BY <1>1 DEF Ordered, NextIsOlder
  <1>5. \A m \in heap : Home(m)' = Home(m)
    BY <1>1 DEF Home
  <1>6. HashesDiffer' /\ RanksDiffer(r)'
    BY <1>1 DEF Ordered, HashesDiffer, RanksDiffer, Home
  <1>7. \A m \in heap : Home(m) = b /\ r[m] = r[T] => m = T
    BY <1>1 DEF Ordered, RanksDiffer
  <1>8. NextIsOlder(r)'
    <2>1. ASSUME NEW m \in heap', m # place.at \/ place.of = "bucket"
          PROVE  next'[m] = next[m] /\ next[m] # T
      <3>1. next'[m] = next[m]
        BY <1>1, <1>3, <2>1 DEF ChainTypes
      <3>2. ASSUME next[m] = T PROVE FALSE
        <4>1. m \in heap /\ Home(m) = b /\ r[T] < r[m] /\ m # T
          BY <1>1, <2>1, <3>2 DEF Ordered, NextIsOlder
        <4>2. place.of = "node" /\ r[place.at] < r[m] /\ place.at \in heap /\ Home(place.at) = b
          <5>1. ~(place.of = "node" => r[m] < r[place.at])
            BY <1>1, <1>2, <4>1 DEF ChainTypes
          <5>2. place.at \in heap /\ Home(place.at) = b /\ m # place.at
            BY <1>3, <2>1, <5>1
          <5>3. r[m] # r[place.at]
            BY <4>1, <5>2 DEF Ordered, RanksDiffer
          <5> QED BY <4>1, <5>1, <5>2, <5>3 DEF ChainTypes
        <4>3. r[place.at] <= r[T]
          BY <3>2, <4>1, <4>2 DEF Ordered, NextIsOlder
        <4> QED BY <1>1, <1>2, <4>2, <4>3 DEF ChainTypes
      <3> QED BY <3>1, <3>2
    <2>2. ASSUME NEW m \in heap', m # place.at \/ place.of = "bucket"
          PROVE  /\ next'[m] # NULL => /\ next'[m] \in heap' /\ Home(next[m]) = Home(m)
                                       /\ r[next'[m]] < r[m]
                 /\ \A l \in heap' : Home(l) = Home(m) /\ r[l] < r[m] =>
                                        next'[m] # NULL /\ r[l] <= r[next'[m]]
      BY <1>1, <2>1, <2>2 DEF Ordered, NextIsOlder
    <2>3. ASSUME place.of = "node"
          PROVE  LET p == place.at
                 IN /\ next'[p] = next[T] /\ p \in heap
                    /\ next[T] # NULL => /\ next[T] \in heap' /\ Home(next[T]) = Home(p)
                                         /\ r[next[T]] < r[p]
                    /\ \A l \in heap' : Home(l) = Home(p) /\ r[l] < r[p] =>
                                           next[T] # NULL /\ r[l] <= r[next[T]]
      <3>1. place.at \in heap /\ Home(place.at) = b /\ next'[place.at] = next[T]
        BY <1>3, <2>3 DEF ChainTypes
      <3>2. next[T] # NULL => next[T] \in heap' /\ Home(next[T]) = b /\ r[next[T]] < r[place.at]
        BY <1>1, <1>2, <1>4, <2>3, <3>1 DEF ChainTypes
      <3>3. ASSUME NEW l \in heap', Home(l) = b, r[l] < r[place.at]
            PROVE  next[T] # NULL /\ r[l] <= r[next[T]]
        <4>1. l \in heap /\ l # T /\ r[l] <= r[T] /\ r[l] # r[T]
          BY <1>1, <1>2, <1>7, <3>3
        <4>2. r[l] < r[T]
          BY <1>1, <4>1 DEF ChainTypes
        <4> QED BY <1>4, <3>3, <4>1, <4>2
      <3> QED BY <3>1, <3>2, <3>3
    <2>4. ASSUME NEW m \in heap'
          PROVE  /\ next'[m] # NULL => /\ next'[m] \in heap' /\ BucketOf[hashOf'[next'[m]]] = Home(m)'
                                       /\ r[next'[m]] < r[m]
                 /\ \A l \in heap' : Home(l)' = Home(m)' /\ r[l] < r[m] =>
                                        next'[m] # NULL /\ r[l] <= r[next'[m]]
      <3>1. CASE m # place.at \/ place.of = "bucket"
        BY <1>1, <1>5, <2>1, <2>2, <3>1 DEF Home
      <3>2. CASE m = place.at /\ place.of = "node"
        BY <1>1, <1>5, <2>3, <3>2 DEF Home
      <3> QED BY <3>1, <3>2 DEF ChainTypes
    <2> QED BY <2>4 DEF NextIsOlder, Home
  <1>9. HeadsAreYoungest(r)'
    <2> SUFFICES ASSUME NEW k \in Buckets PROVE IsHead(r, buckets[k], k)'
      BY DEF HeadsAreYoungest
    <2>1. IsHead(r, buckets[k], k)
      BY <1>1 DEF Ordered, HeadsAreYoungest, Standing
    <2>2. CASE k = b /\ place.of = "bucket"
      <3>1. buckets'[k] = next[T]
        BY <1>3, <2>2 DEF ChainTypes
      <3>2. ASSUME NEW m \in heap', Home(m) = b PROVE next[T] # NULL /\ r[m] <= r[next[T]]
        <4>1. m \in heap /\ r[m] <= r[T] /\ r[m] # r[T]
          BY <1>1, <1>2, <1>7, <2>2, <3>2
        <4>2. r[m] < r[T]
          BY <1>1, <4>1 DEF ChainTypes
        <4> QED BY <1>4, <3>2, <4>1, <4>2
      <3>3. next[T] # NULL => next[T] \in heap' /\ Home(next[T]) = b
        BY <1>1, <1>4 DEF ChainTypes
      <3> QED
        BY <1>1, <2>2, <3>1, <3>2, <3>3 DEF IsHead, Home
    <2>3. CASE k # b \/ place.of = "node"
      <3>1. buckets'[k] = buckets[k]
        BY <1>3, <2>3 DEF ChainTypes
      <3>2. buckets[k] # T
        <4> SUFFICES ASSUME buckets[k] = T PROVE FALSE
          OBVIOUS
        <4>1. k = b
          BY <1>1, <2>1 DEF IsHead
        <4>2. place.of = "node" /\ place.at \in heap /\ Home(place.at) = b /\ r[T] < r[place.at]
          BY <1>2, <1>3, <2>3, <4>1
        <4>3. r[place.at] <= r[T]
          BY <2>1, <4>1, <4>2 DEF IsHead
        <4> QED BY <1>1, <4>2, <4>3 DEF ChainTypes
      <3> QED
        BY <1>1, <2>1, <3>1, <3>2 DEF IsHead, Home
    <2> QED BY <2>2, <2>3 DEF ChainTypes
  <1>10. PruneIsAhead(r)'
    <2>1. place.of = "node" => place.at # T
      BY <1>1, <1>2 DEF ChainTypes
    <2> QED
      BY <1>1, <1>3, <2>1 DEF Ordered, PruneIsAhead, Home
  <1>11. FindIsAhead(r)' /\ CopyIsBehind(r)' /\ DestroyIsAhead(r)' /\ task' # "pruned"
    BY <1>1 DEF Ordered, FindIsAhead, CopyIsBehind, DestroyIsAhead
  <1> QED
    BY <1>6, <1>8, <1>9, <1>10, <1>11 DEF Ordered

-------------------------------------------------------------------------------
\* The copying walk goes forward and looks at each node once.
LEMMA CopyStep ==
    ASSUME ChainTypes, HashesDiffer, NEW r \in [Nodes -> Nat], Ordered(r), Copy
    PROVE  Ordered(r)' /\ HashesDiffer'
  <1>1. /\ task = "copy" /\ node # NULL /\ node \in heap /\ Home(node) = b
        /\ copied' = Append(copied, node) /\ node' = next[node]
        /\ UNCHANGED <<heap, buckets, next, hashOf, old, task, hash, b, place>>
    BY DEF Copy, nodeVars, Ordered, CopyIsBehind
  <1>2. RanksDiffer(r)' /\ NextIsOlder(r)' /\ HashesDiffer'
    BY <1>1, OrderStays
  <1>3. HeadsAreYoungest(r)' /\ FindIsAhead(r)' /\ PruneIsAhead(r)' /\ DestroyIsAhead(r)'
        /\ task' # "pruned"
    BY <1>1 DEF Ordered, HeadsAreYoungest, IsHead, Standing, Home, FindIsAhead, PruneIsAhead,
       DestroyIsAhead
  <1>4. /\ Len(copied') = Len(copied) + 1 /\ Len(copied) \in Nat
        /\ copied'[Len(copied) + 1] = node
        /\ \A i \in 1 .. Len(copied) : copied'[i] = copied[i]
    BY <1>1, AppendProperties DEF ChainTypes
  <1>5. \A n \in Nodes : (\E i \in 1 .. Len(copied) : copied[i] = n) <=>
            n \in heap /\ (Home(n) < b \/ (Home(n) = b /\ r[node] < r[n]))
    BY <1>1 DEF Ordered, CopyIsBehind
  <1>6. \A i \in 1 .. Len(copied) : copied[i] # node
    <2>1. ~(Home(node) < b) /\ ~(r[node] < r[node])
      BY <1>1 DEF ChainTypes, Buckets
    <2> QED BY <1>1, <1>5, <2>1 DEF ChainTypes
  <1>7. \A i, j \in 1 .. Len(copied') : copied'[i] = copied'[j] => i = j
    <2>1. \A i, j \in 1 .. Len(copied) : copied[i] = copied[j] => i = j
      BY <1>1 DEF Ordered, CopyIsBehind
    <2> QED BY <1>4, <1>6, <2>1
  <1>8. node' # NULL => node' \in heap /\ Home(node') = b
    BY <1>1 DEF Ordered, NextIsOlder
  <1>9. ASSUME NEW n \in Nodes
        PROVE  (\E i \in 1 .. Len(copied') : copied'[i] = n) <=>
                   n \in heap /\ (Home(n) < b \/ (Home(n) = b /\ (node' = NULL \/ r[node'] < r[n])))
    <2>1. (\E i \in 1 .. Len(copied') : copied'[i] = n) <=>
              n = node \/ \E i \in 1 .. Len(copied) : copied[i] = n
      BY <1>4
    <2>2. ASSUME n \in heap, Home(n) = b
          PROVE  (node' = NULL \/ r[node'] < r[n]) <=> (n = node \/ r[node] < r[n])
      <3>1. r[n] < r[node] => node' # NULL /\ r[n] <= r[node']
        BY <1>1, <2>2 DEF Ordered, NextIsOlder
      <3>2. node' # NULL => r[node'] < r[node] /\ node' \in Nodes
        BY <1>1, <1>8 DEF Ordered, NextIsOlder, ChainTypes
      <3>3. r[n] = r[node] => n = node
        BY <1>1, <2>2 DEF Ordered, RanksDiffer
      <3>4. r[n] \in Nat /\ r[node] \in Nat /\ (node' # NULL => r[node'] \in Nat)
        BY <1>1, <3>2 DEF ChainTypes
      <3> QED BY <3>1, <3>2, <3>3, <3>4
    <2>3. n = node => n \in heap /\ Home(n) = b
      BY <1>1
    <2> QED BY <1>5, <2>1, <2>2, <2>3
  <1>10. CopyIsBehind(r)'
    BY <1>1, <1>7, <1>8, <1>9 DEF CopyIsBehind, Home
  <1> QED BY <1>2, <1>3, <1>10 DEF Ordered

\* A destruction frees the node it stands on, which no other node links.
LEMMA FreeStep ==
    ASSUME ChainTypes, HashesDiffer, NEW r \in [Nodes -> Nat], Ordered(r), FreeNode
    PROVE  Ordered(r)' /\ HashesDiffer'
  <1>1. /\ task = "destroy" /\ node # NULL /\ node \in heap /\ Home(node) = b
        /\ heap' = heap \ {node} /\ node' = next[node] /\ IsHead(r, node, b)
        /\ UNCHANGED <<buckets, next, hashOf, task, hash, b, place, copied>>
    BY DEF FreeNode, Ordered, DestroyIsAhead, IsHead
  <1>2. HashesDiffer' /\ RanksDiffer(r)'
    BY <1>1 DEF Ordered, HashesDiffer, RanksDiffer, Home
  <1>3. \A m \in heap : next[m] # node
    <2> SUFFICES ASSUME NEW m \in heap, next[m] = node PROVE FALSE
      OBVIOUS
    <2>1. Home(m) = b /\ r[node] < r[m]
      BY <1>1 DEF Ordered, NextIsOlder
    <2>2. r[m] <= r[node]
      BY <1>1, <2>1 DEF IsHead
    <2> QED BY <1>1, <2>1, <2>2 DEF ChainTypes
  <1>4. NextIsOlder(r)'
    BY <1>1, <1>3 DEF Ordered, NextIsOlder, Home
  <1>5. HeadsAreYoungest(r)'
    <2> SUFFICES ASSUME NEW k \in Buckets, k > b PROVE IsHead(r, buckets[k], k)'
      BY <1>1 DEF HeadsAreYoungest, Standing
    <2>1. IsHead(r, buckets[k], k)
      BY <1>1 DEF Ordered, HeadsAreYoungest, Standing
    <2>2. buckets[k] # node
      BY <1>1, <2>1 DEF IsHead, ChainTypes, Buckets
    <2> QED BY <1>1, <2>1, <2>2 DEF IsHead, Home
  <1>6. IsHead(r, node, b)'
    <2>1. ASSUME NEW m \in heap', Home(m) = b PROVE next[node] # NULL /\ r[m] <= r[next[node]]
      <3>1. m \in heap /\ m # node /\ r[m] <= r[node]
        BY <1>1, <2>1 DEF IsHead
      <3>2. r[m] < r[node]
        BY <1>1, <2>1, <3>1 DEF Ordered, RanksDiffer, ChainTypes
      <3> QED BY <1>1, <2>1, <3>1, <3>2 DEF Ordered, NextIsOlder
    <2>2. next[node] # NULL => next[node] \in heap' /\ Home(next[node]) = b
      BY <1>1, <1>3 DEF Ordered, NextIsOlder
    <2> QED BY <1>1, <2>1, <2>2 DEF IsHead, Home
  <1>7. DestroyIsAhead(r)'
    BY <1>1, <1>6 DEF Ordered, DestroyIsAhead, Home
  <1>8. FindIsAhead(r)' /\ PruneIsAhead(r)' /\ CopyIsBehind(r)' /\ task' # "pruned"
    BY <1>1 DEF Ordered, FindIsAhead, PruneIsAhead, CopyIsBehind
  <1> QED BY <1>2, <1>4, <1>5, <1>7, <1>8 DEF Ordered

\* A walk begins with the first chain and goes on with the next until it has
\* seen them all.
LEMMA WalkSteps ==
    ASSUME ChainTypes, HashesDiffer, NEW r \in [Nodes -> Nat], Ordered(r),
           (\E t \in DOMAIN EndOf : BeginWalk(t)) \/ EndOfWalkedChain \/ Return
    PROVE  Ordered(r)' /\ HashesDiffer'
  <1>1. UNCHANGED <<heap, buckets, next, hashOf, old, hash, place>>
    BY DEF BeginWalk, EndOfWalkedChain, Return, nodeVars
  <1>2. RanksDiffer(r)' /\ NextIsOlder(r)' /\ HashesDiffer'
    BY <1>1, OrderStays
  <1>3. \A n \in heap : Home(n) \in Nat /\ Home(n) >= 1 /\ Home(n) <= NBuckets /\ Home(n)' = Home(n)
    BY <1>1, HomeType, HashChainsAssumption DEF Home, Buckets
  <1>4. b \in Nat /\ b >= 1 /\ b <= NBuckets /\ NBuckets \in Nat \ {0}
    BY HashChainsAssumption DEF ChainTypes, Buckets
  <1>5. ASSUME NEW t \in {"copy", "destroy"}, BeginWalk(t) PROVE Ordered(r)'
    <2>1. task = "idle" /\ task' = t /\ b' = 1 /\ node' = buckets[1] /\ copied' = <<>>
      BY <1>5 DEF BeginWalk, Ordered, CopyIsBehind
    <2>2. IsHead(r, buckets[1], 1) /\ \A k \in Buckets : IsHead(r, buckets[k], k)
      BY <1>4, <2>1 DEF Ordered, HeadsAreYoungest, Standing, Buckets
    <2>3. HeadsAreYoungest(r)' /\ FindIsAhead(r)' /\ PruneIsAhead(r)' /\ task' # "pruned"
      BY <1>1, <2>1, <2>2 DEF HeadsAreYoungest, IsHead, FindIsAhead, PruneIsAhead, Home
    <2>4. DestroyIsAhead(r)'
      BY <1>1, <1>3, <2>1, <2>2 DEF DestroyIsAhead, IsHead, Home
    <2>5. ASSUME NEW n \in heap
          PROVE  ~(Home(n) < 1) /\ ~(Home(n) = 1 /\ (buckets[1] = NULL \/ r[buckets[1]] < r[n]))
      BY <1>3, <2>2, <2>5 DEF IsHead, ChainTypes
    <2>6. CopyIsBehind(r)'
      BY <1>1, <2>1, <2>2, <2>5 DEF CopyIsBehind, IsHead, Home
    <2> QED BY <1>2, <2>3, <2>4, <2>6 DEF Ordered
  <1>6. CASE EndOfWalkedChain
    <2>1. task \in {"copy", "destroy"} /\ node = NULL /\ UNCHANGED copied
      BY <1>6 DEF EndOfWalkedChain, EndOf
    <2>2. CASE b < NBuckets
      <3>1. b' = b + 1 /\ node' = buckets[b + 1] /\ task' = task
        BY <1>6, <2>2 DEF EndOfWalkedChain
      <3>2. IsHead(r, buckets[b + 1], b + 1)
        BY <1>4, <2>1, <2>2 DEF Ordered, HeadsAreYoungest, Standing, Buckets
      <3>3. HeadsAreYoungest(r)'
        BY <1>1, <1>4, <2>1, <3>1 DEF Ordered, HeadsAreYoungest, Standing, IsHead, Home, Buckets
      <3>4. FindIsAhead(r)' /\ PruneIsAhead(r)' /\ task' # "pruned"
        BY <2>1, <3>1 DEF FindIsAhead, PruneIsAhead
      <3>5. DestroyIsAhead(r)'
        <4>1. task = "destroy" => \A n \in heap : Home(n) >= b /\ Home(n) # b
          BY <2>1 DEF Ordered, DestroyIsAhead, IsHead
        <4>2. task = "destroy" => \A n \in heap : Home(n) >= b + 1
          BY <1>3, <1>4, <4>1
        <4> QED BY <1>1, <2>1, <3>1, <3>2, <4>2 DEF DestroyIsAhead, IsHead, Home
      <3>6. ASSUME task = "copy", NEW n \in Nodes
            PROVE  (\E i \in 1 .. Len(copied) : copied[i] = n) <=>
                       /\ n \in heap
                       /\ \/ Home(n) < b + 1
                          \/ Home(n) = b + 1 /\ (buckets[b + 1] = NULL \/ r[buckets[b + 1]] < r[n])
        <4>1. (\E i \in 1 .. Len(copied) : copied[i] = n) <=>
                  n \in heap /\ (Home(n) < b \/ Home(n) = b)
          BY <2>1, <3>6 DEF Ordered, CopyIsBehind
        <4>2. n \in heap /\ Home(n) = b + 1 =>
                  buckets[b + 1] # NULL /\ ~(r[buckets[b + 1]] < r[n])
          BY <3>2 DEF IsHead, ChainTypes
        <4> QED BY <1>3, <1>4, <4>1, <4>2
      <3>7. CopyIsBehind(r)'
        BY <1>1, <2>1, <3>1, <3>2, <3>6 DEF Ordered, CopyIsBehind, IsHead, Home
      <3> QED BY <1>2, <3>3, <3>4, <3>5, <3>7 DEF Ordered
    <2>3. CASE b = NBuckets
      <3>1. task' = EndOf[task] /\ b' = b
        BY <1>4, <1>6, <2>3 DEF EndOfWalkedChain
      <3>2. FindIsAhead(r)' /\ PruneIsAhead(r)' /\ task' # "pruned"
        BY <2>1, <3>1 DEF FindIsAhead, PruneIsAhead, EndOf
      <3>3. HeadsAreYoungest(r)'
        BY <1>1, <2>1, <3>1 DEF Ordered, HeadsAreYoungest, Standing, IsHead, Home, EndOf
      <3>4. DestroyIsAhead(r)'
        <4>1. task = "destroy" => \A n \in heap : Home(n) >= b /\ Home(n) # b
          BY <2>1 DEF Ordered, DestroyIsAhead, IsHead
        <4>2. task = "destroy" => heap = {}
          BY <1>3, <1>4, <2>3, <4>1
        <4> QED BY <1>1, <2>1, <3>1, <4>2 DEF DestroyIsAhead, EndOf
      <3>5. task = "copy" => \A n \in Nodes :
                (\E i \in 1 .. Len(copied) : copied[i] = n) <=> n \in heap
        BY <1>3, <1>4, <2>1, <2>3 DEF Ordered, CopyIsBehind
      <3>6. CopyIsBehind(r)'
        BY <1>1, <2>1, <3>1, <3>5 DEF Ordered, CopyIsBehind, EndOf
      <3> QED BY <1>2, <3>2, <3>3, <3>4, <3>6 DEF Ordered
    <2> QED BY <1>4, <2>2, <2>3
  <1>7. CASE Return
    <2>1. task \in {"pruned", "copied"} /\ task' = "idle" /\ copied' = <<>>
      BY <1>7 DEF Return
    <2> QED
      BY <1>1, <1>2, <2>1 DEF Ordered, HeadsAreYoungest, Standing, IsHead, Home, FindIsAhead,
         PruneIsAhead, CopyIsBehind, DestroyIsAhead
  <1> QED BY <1>2, <1>5, <1>6, <1>7 DEF EndOf

\* ChainsInv is an invariant of the hash table.
LEMMA ChainsInvariance == ChainsSpec => []ChainsInv
  <1>1. ChainsInit => ChainsInv
    <2> SUFFICES ASSUME ChainsInit PROVE ChainsInv
      OBVIOUS
    <2>1. ChainTypes
      BY HashChainsAssumption DEF ChainsInit, ChainTypes, Buckets, InBucket
    <2>2. PICK r \in [Nodes -> Nat] : TRUE
      <3>1. [n \in Nodes |-> 0] \in [Nodes -> Nat]
        OBVIOUS
      <3> QED BY <3>1
    <2>3. Ordered(r)
      BY DEF ChainsInit, Ordered, RanksDiffer, NextIsOlder, HeadsAreYoungest, IsHead,
         FindIsAhead, PruneIsAhead, CopyIsBehind, DestroyIsAhead
    <2> QED
      BY <2>1, <2>2, <2>3 DEF ChainsInit, ChainsInv, HashesDiffer
  <1>2. ChainsInv /\ [ChainsNext]_chainVars => ChainsInv'
    <2> SUFFICES ASSUME ChainsInv, [ChainsNext]_chainVars PROVE ChainsInv'
      OBVIOUS
    <2>1. ChainTypes /\ HashesDiffer /\ ChainTypes'
      BY TypesStep DEF ChainsInv
    <2>2. PICK r \in [Nodes -> Nat] : Ordered(r)
      BY DEF ChainsInv
    <2>3. CASE UNCHANGED chainVars
      <3>1. Ordered(r)' /\ HashesDiffer'
        BY <2>1, <2>2, <2>3 DEF chainVars, nodeVars, walkVars, Ordered, RanksDiffer, NextIsOlder,
           HeadsAreYoungest, Standing, IsHead, Home, FindIsAhead, PruneIsAhead, CopyIsBehind,
           DestroyIsAhead, HashesDiffer
      <3> QED BY <2>1, <3>1 DEF ChainsInv
    <2>4. CASE Insert
      BY <2>1, <2>2, <2>4, InsertStep DEF ChainsInv
    <2>5. CASE ChainsNext /\ ~Insert
      <3>1. Ordered(r)' /\ HashesDiffer'
        BY <2>1, <2>2, <2>5, FindSteps, PruneSteps, UnlinkStep, CopyStep, FreeStep, WalkSteps
        DEF ChainsNext
      <3> QED BY <2>1, <3>1 DEF ChainsInv
    <2> QED BY <2>3, <2>4, <2>5
  <1> QED
    BY <1>1, <1>2, PTL DEF ChainsSpec

\* find_node, prune, snapshot and destroy never stand on a node that has been
\* freed, and prune never writes through one.
THEOREM NoStepIsIntoFreed == ChainsSpec => []NoStepIntoFreed
  <1>1. ChainsInv => NoStepIntoFreed
    BY DEF ChainsInv, ChainTypes, Ordered, FindIsAhead, PruneIsAhead, CopyIsBehind,
       DestroyIsAhead, IsHead, NoStepIntoFreed
  <1> QED
    BY <1>1, ChainsInvariance, PTL

\* find_node misses no node that has the digest, so none is inserted twice.
THEOREM DigestsDiffer == ChainsSpec => []HashesDiffer
  <1>1. ChainsInv => HashesDiffer
    BY DEF ChainsInv
  <1> QED
    BY <1>1, ChainsInvariance, PTL

\* A prune misses no stale record and a snapshot no record, and it has none
\* twice; a destruction frees every node.
THEOREM WalksMissNothing == ChainsSpec => []WalksAreComplete
  <1>1. ChainsInv => WalksAreComplete
    <2> SUFFICES ASSUME ChainsInv PROVE WalksAreComplete
      OBVIOUS
    <2>1. PICK r \in [Nodes -> Nat] : Ordered(r)
      BY DEF ChainsInv
    <2>2. ASSUME task = "copied"
          PROVE  {copied[k] : k \in DOMAIN copied} = heap /\ Len(copied) = Cardinality(heap)
      <3>1. Len(copied) \in Nat /\ DOMAIN copied = 1 .. Len(copied) /\ heap \subseteq Nodes
            /\ copied \in [1 .. Len(copied) -> Nodes]
        BY DEF ChainsInv, ChainTypes
      <3>2. \A n \in Nodes : (\E i \in 1 .. Len(copied) : copied[i] = n) <=> n \in heap
        BY <2>1, <2>2 DEF Ordered, CopyIsBehind
      <3>3. {copied[k] : k \in DOMAIN copied} = heap
        BY <3>1, <3>2
      <3>4. \A i, j \in 1 .. Len(copied) : copied[i] = copied[j] => i = j
        BY <2>1, <2>2, <3>1, <3>2 DEF Ordered, CopyIsBehind
      <3>5. copied \in Bijection(1 .. Len(copied), heap)
        <4>1. copied \in [1 .. Len(copied) -> heap]
          BY <3>1, <3>2
        <4> QED
          BY <3>1, <3>2, <3>4, <4>1, Fun_IsBij
      <3>6. Len(copied) = Cardinality(heap)
        <4>1. ExistsBijection(1 .. Len(copied), heap)
          BY <3>5 DEF ExistsBijection
        <4> QED BY <3>1, <4>1, FS_CountingElements
      <3> QED BY <3>3, <3>6
    <2> QED
      BY <2>1, <2>2 DEF WalksAreComplete, Ordered, DestroyIsAhead
  <1> QED
    BY <1>1, ChainsInvariance, PTL

-------------------------------------------------------------------------------
(* The chains, followed from their heads *)

\* ChainFrom is the function its recursion describes.
LEMMA ChainFromIs ==
    ASSUME ChainTypes, NEW x \in Nodes \cup {NULL}
    PROVE  /\ Cardinality(Nodes) \in Nat
           /\ ChainFrom(x) \in [0 .. Cardinality(Nodes) -> Nodes \cup {NULL}]
           /\ ChainFrom(x)[0] = x
           /\ \A j \in 1 .. Cardinality(Nodes) :
                  ChainFrom(x)[j] = IF ChainFrom(x)[j - 1] = NULL THEN NULL
                                    ELSE next[ChainFrom(x)[j - 1]]
  <1> DEFINE N == Cardinality(Nodes)
             S == Nodes \cup {NULL}
             Passed == [s \in S |-> IF s = NULL THEN NULL ELSE next[s]]
             F == [j \in 1 .. N |-> Passed]
             Solves(g) == g = [j \in 0 .. N |-> IF j = 0 THEN x
                                                ELSE IF g[j - 1] = NULL THEN NULL ELSE next[g[j - 1]]]
  <1>1. N \in Nat
    BY HashChainsAssumption, FS_CardinalityType
  <1>2. Passed \in [S -> S]
    BY HashChainsAssumption DEF ChainTypes
  <1>3. F \in [1 .. N -> [S -> S]]
    <2> HIDE DEF Passed, S, N
    <2> QED BY <1>2
  <1>4. \E g \in [0 .. N -> S] : Solves(g)
    <2>1. PICK g : SolvesRounds(g, S, N, x, F)
      <3> HIDE DEF F, S, N
      <3>1. x \in S /\ F \in Rounds(S, N) BY <1>3 DEF S, Rounds
      <3> QED BY <1>1, <3>1, RecursionSolved
    <2>2. \A j \in 1 .. N : g[j - 1] \in S /\ F[j][g[j - 1]] = Passed[g[j - 1]]
      <3> HIDE DEF S, N, Behind
      <3> QED BY <1>1, <2>1 DEF SolvesRounds
    <2>3. \A j \in 1 .. N : F[j][g[j - 1]] = IF g[j - 1] = NULL THEN NULL ELSE next[g[j - 1]]
      BY <2>2
    <2> HIDE DEF F, S, N
    <2>4. Solves(g)
      BY <1>1, <2>1, <2>3 DEF SolvesRounds
    <2> HIDE DEF Solves
    <2> QED BY <2>1, <2>4 DEF SolvesRounds
  <1>5. ChainFrom(x) = CHOOSE g : Solves(g)
    BY DEF ChainFrom
  <1>6. Solves(ChainFrom(x))
    <2> HIDE DEF Solves
    <2> QED BY <1>4, <1>5
  <1>7. ChainFrom(x) \in [0 .. N -> S]
    <2>1. PICK g : g \in [0 .. N -> S] /\ Solves(g)
      BY <1>4
    <2> DEFINE h == ChainFrom(x)
    <2> HIDE DEF h
    <2>2. h[0] = g[0] /\ \A j \in 1 .. N : h[j - 1] = g[j - 1] => h[j] = g[j]
      <3>1. Solves(g) /\ Solves(h)
        BY <1>6, <2>1 DEF h
      <3>2. /\ g[0] = x /\ \A j \in 1 .. N : g[j] = IF g[j - 1] = NULL THEN NULL ELSE next[g[j - 1]]
            /\ h[0] = x /\ \A j \in 1 .. N : h[j] = IF h[j - 1] = NULL THEN NULL ELSE next[h[j - 1]]
        <4> HIDE DEF N
        <4> QED BY <1>1, <3>1
      <3> HIDE DEF Solves, N
      <3> QED BY <3>2
    <2>3. \A j \in 0 .. N : h[j] = g[j]
      <3> HIDE DEF Solves, S, N
      <3> QED BY <1>1, <2>2, RecursionUnique
    <2>4. h = [j \in 0 .. N |-> h[j]]
      BY <1>6 DEF h
    <2> HIDE DEF Solves, S, N
    <2> QED BY <2>1, <2>3, <2>4 DEF h
  <1>8. ChainFrom(x)[0] = x
    BY <1>1, <1>6
  <1>9. \A j \in 1 .. N : ChainFrom(x)[j] = IF ChainFrom(x)[j - 1] = NULL THEN NULL
                                              ELSE next[ChainFrom(x)[j - 1]]
    BY <1>1, <1>6
  <1> QED BY <1>1, <1>7, <1>8, <1>9

\* From a node the chain reaches the older nodes of its bucket, no other, and ends:
\* ranks fall along it, and it can neither pass over a node nor end above one.
LEMMA ChainReach ==
    ASSUME ChainTypes, NEW r \in [Nodes -> Nat], RanksDiffer(r), NextIsOlder(r),
           NEW x \in Nodes \cup {NULL}, NEW k \in Buckets, x # NULL => x \in heap /\ Home(x) = k
    PROVE  /\ Behind(x) = {n \in heap : Home(n) = k /\ x # NULL /\ r[n] <= r[x]}
           /\ ChainFrom(x)[Cardinality(Nodes)] = NULL
  <1> DEFINE N == Cardinality(Nodes)
             f == ChainFrom(x)
  <1>1. /\ N \in Nat /\ f \in [0 .. N -> Nodes \cup {NULL}] /\ f[0] = x
        /\ \A j \in 1 .. N : f[j] = IF f[j - 1] = NULL THEN NULL ELSE next[f[j - 1]]
    BY ChainFromIs
  <1>2. NULL \notin Nodes /\ heap \subseteq Nodes /\ \A n \in heap : n # NULL /\ r[n] \in Nat
    BY HashChainsAssumption DEF ChainTypes
  <1> HIDE DEF N, f
  <1>3. \A j \in 0 .. N : f[j] # NULL => f[j] \in heap /\ Home(f[j]) = k
    <2> DEFINE P == {j \in 0 .. N : f[j] # NULL => f[j] \in heap /\ Home(f[j]) = k}
    <2>1. 0 \in P
      BY <1>1
    <2>2. \A n \in P : n < N => n + 1 \in P
      <3> SUFFICES ASSUME NEW n \in P, n < N PROVE n + 1 \in P
        OBVIOUS
      <3>1. n \in Nat /\ n + 1 \in 1 .. N /\ (n + 1) - 1 = n
        BY <1>1
      <3>2. f[n + 1] = IF f[n] = NULL THEN NULL ELSE next[f[n]]
        BY <1>1, <3>1
      <3>3. f[n + 1] # NULL => f[n + 1] \in heap /\ Home(f[n + 1]) = k
        BY <3>2 DEF NextIsOlder
      <3> QED BY <3>1, <3>3
    <2>3. P = 0 .. N
      <3>1. P \in SUBSET (0 .. N) OBVIOUS
      <3> HIDE DEF P
      <3> QED BY <1>1, <2>1, <2>2, <3>1, UpwardInduction
    <2> QED BY <2>3
  <1>4. \A j \in 1 .. N : f[j] # NULL => f[j - 1] # NULL /\ r[f[j]] < r[f[j - 1]]
    <2> SUFFICES ASSUME NEW j \in 1 .. N, f[j] # NULL
                 PROVE  f[j - 1] # NULL /\ r[f[j]] < r[f[j - 1]]
      OBVIOUS
    <2>1. j - 1 \in 0 .. N /\ f[j - 1] # NULL /\ f[j] = next[f[j - 1]]
      BY <1>1
    <2> QED BY <1>3, <2>1 DEF NextIsOlder
  <1>5. \A j \in 0 .. N : f[j] # NULL => \A l \in 0 .. j - 1 : f[l] # NULL /\ r[f[j]] < r[f[l]]
    <2> DEFINE P == {j \in 0 .. N :
                        f[j] # NULL => \A l \in 0 .. j - 1 : f[l] # NULL /\ r[f[j]] < r[f[l]]}
    <2>1. 0 \in P
      BY <1>1
    <2>2. \A n \in P : n < N => n + 1 \in P
      <3> SUFFICES ASSUME NEW n \in P, n < N PROVE n + 1 \in P
        OBVIOUS
      <3>1. n \in Nat /\ n \in 0 .. N /\ n + 1 \in 1 .. N /\ n + 1 \in 0 .. N /\ (n + 1) - 1 = n
        BY <1>1
      <3>2. ASSUME f[n + 1] # NULL, NEW l \in 0 .. (n + 1) - 1
            PROVE  f[l] # NULL /\ r[f[n + 1]] < r[f[l]]
        <4>1. f[n] # NULL /\ r[f[n + 1]] < r[f[n]]
          BY <1>4, <3>1, <3>2
        <4>2. CASE l = n
          BY <4>1, <4>2
        <4>3. CASE l \in 0 .. n - 1
          <5>1. f[l] # NULL /\ r[f[n]] < r[f[l]]
            BY <4>1, <4>3
          <5>2. l \in 0 .. N
            BY <1>1, <3>1, <4>3
          <5>3. r[f[n]] \in Nat /\ r[f[l]] \in Nat /\ r[f[n + 1]] \in Nat
            BY <1>2, <1>3, <3>1, <3>2, <4>1, <5>1, <5>2
          <5> QED BY <4>1, <5>1, <5>3
        <4> QED BY <3>1, <3>2, <4>2, <4>3
      <3> QED BY <3>1, <3>2
    <2>3. P = 0 .. N
      <3>1. P \in SUBSET (0 .. N) OBVIOUS
      <3> HIDE DEF P
      <3> QED BY <1>1, <2>1, <2>2, <3>1, UpwardInduction
    <2> QED BY <2>3
  <1>6. f[N] = NULL
    <2> SUFFICES ASSUME f[N] # NULL PROVE FALSE
      OBVIOUS
    <2>1. \A j \in 0 .. N : f[j] # NULL
      BY <1>1, <1>5
    <2>2. f \in [0 .. N -> Nodes]
      BY <1>1, <2>1
    <2>3. IsFiniteSet(0 .. N) /\ Cardinality(0 .. N) = N + 1
      BY <1>1, FS_Interval
    <2>4. PICK i, j \in 0 .. N : i # j /\ f[i] = f[j]
      <3>1. Cardinality(Nodes) < Cardinality(0 .. N)
        BY <1>1, <2>3 DEF N
      <3>2. IsFiniteSet(Nodes)
        BY HashChainsAssumption
      <3>3. \E i, j \in 0 .. N : i # j /\ f[i] = f[j]
        BY <2>2, <2>3, <3>1, <3>2, FS_PigeonHole
      <3> QED BY <3>3
    <2>5. r[f[i]] \in Nat
      BY <1>2, <1>3, <2>1
    <2>6. i \in 0 .. j - 1 \/ j \in 0 .. i - 1
      BY <1>1, <2>4
    <2> QED BY <1>5, <2>1, <2>4, <2>5, <2>6
  <1>7. ASSUME NEW m \in heap, Home(m) = k, x # NULL, r[m] <= r[x] PROVE \E j \in 0 .. N : f[j] = m
    <2> SUFFICES ASSUME \A j \in 0 .. N : f[j] # m PROVE FALSE
      OBVIOUS
    <2> DEFINE P == {j \in 0 .. N : f[j] # NULL /\ r[m] < r[f[j]]}
    <2>1. \A j \in 0 .. N : f[j] # NULL /\ r[m] <= r[f[j]] => r[m] < r[f[j]]
      <3> SUFFICES ASSUME NEW j \in 0 .. N, f[j] # NULL, r[m] <= r[f[j]] PROVE r[m] < r[f[j]]
        OBVIOUS
      <3>1. f[j] \in heap /\ Home(f[j]) = k
        BY <1>3
      <3>2. r[m] # r[f[j]]
        BY <1>7, <3>1 DEF RanksDiffer
      <3> QED BY <1>2, <3>1, <3>2
    <2>2. 0 \in P
      BY <1>1, <1>7, <2>1
    <2>3. \A n \in P : n < N => n + 1 \in P
      <3> SUFFICES ASSUME NEW n \in P, n < N PROVE n + 1 \in P
        OBVIOUS
      <3>1. n \in Nat /\ n \in 0 .. N /\ n + 1 \in 1 .. N /\ n + 1 \in 0 .. N /\ (n + 1) - 1 = n
        BY <1>1
      <3>2. f[n] \in heap /\ Home(f[n]) = k /\ f[n + 1] = next[f[n]]
        BY <1>1, <1>3, <3>1
      <3>3. f[n + 1] # NULL /\ r[m] <= r[f[n + 1]]
        BY <1>7, <3>2 DEF NextIsOlder
      <3> QED BY <2>1, <3>1, <3>3
    <2>4. P = 0 .. N
      <3>1. P \in SUBSET (0 .. N) OBVIOUS
      <3> HIDE DEF P
      <3> QED BY <1>1, <2>2, <2>3, <3>1, UpwardInduction
    <2> QED BY <1>1, <1>6, <2>4
  <1>8. \A j \in 0 .. N : f[j] # NULL => x # NULL /\ r[f[j]] <= r[x]
    <2> SUFFICES ASSUME NEW j \in 0 .. N, f[j] # NULL PROVE x # NULL /\ r[f[j]] <= r[x]
      OBVIOUS
    <2>1. CASE j = 0
      BY <1>1, <1>2, <1>3, <2>1
    <2>2. CASE j # 0
      <3>1. 0 \in 0 .. j - 1
        BY <1>1, <2>2
      <3>2. x # NULL /\ r[f[j]] < r[x]
        BY <1>1, <1>5, <3>1
      <3>3. f[j] \in heap /\ x \in heap
        BY <1>3, <3>2
      <3> QED BY <1>2, <3>2, <3>3
    <2> QED BY <2>1, <2>2
  <1>9. {f[j] : j \in 0 .. N} \ {NULL} = {n \in heap : Home(n) = k /\ x # NULL /\ r[n] <= r[x]}
    BY <1>2, <1>3, <1>7, <1>8
  <1> QED BY <1>6, <1>9 DEF f, N, Behind

\* Whatever was inserted, pruned and looked up, each allocated node is in the
\* chain of its own bucket, nothing else is, and no chain runs in a circle.
THEOREM ChainsAreWhole == ChainsSpec => []ChainsHoldTheHeap
  <1>1. ChainsInv => ChainsHoldTheHeap
    <2> SUFFICES ASSUME ChainsInv, task \notin {"destroy", "destroyed"}, NEW k \in Buckets
                 PROVE  /\ Behind(buckets[k]) = {n \in heap : BucketOf[hashOf[n]] = k}
                        /\ ChainFrom(buckets[k])[Cardinality(Nodes)] = NULL
      BY DEF ChainsHoldTheHeap
    <2>1. PICK r \in [Nodes -> Nat] : Ordered(r)
      BY DEF ChainsInv
    <2>2. ChainTypes /\ RanksDiffer(r) /\ NextIsOlder(r) /\ IsHead(r, buckets[k], k)
      BY <2>1 DEF ChainsInv, Ordered, HeadsAreYoungest, Standing
    <2>3. buckets[k] \in Nodes \cup {NULL}
      BY <2>2 DEF ChainTypes
    <2>4. /\ Behind(buckets[k]) = {n \in heap : /\ Home(n) = k /\ buckets[k] # NULL
                                                /\ r[n] <= r[buckets[k]]}
          /\ ChainFrom(buckets[k])[Cardinality(Nodes)] = NULL
      BY <2>2, <2>3, ChainReach DEF IsHead
    <2>5. \A n \in heap : Home(n) = k => buckets[k] # NULL /\ r[n] <= r[buckets[k]]
      BY <2>2 DEF IsHead
    <2> QED BY <2>4, <2>5 DEF Home
  <1> QED
    BY <1>1, ChainsInvariance, PTL

-------------------------------------------------------------------------------
(* The refinement *)

\* What a walk has still to come to, told by bucket and rank.
Remaining(r) ==
    IF task = "prune"
    THEN {n \in heap : \/ Home(n) > b
                       \/ Home(n) = b /\ (place.of = "node" => r[n] < r[place.at])}
    ELSE IF task \in {"copy", "destroy"}
    THEN {n \in heap : Home(n) > b \/ (Home(n) = b /\ node # NULL /\ r[n] <= r[node])}
    ELSE {}

\* That is what is ahead of the cursor when pointers are followed.
LEMMA AheadIs ==
    ChainTypes => \A r \in [Nodes -> Nat] : Ordered(r) => Ahead = Remaining(r)
  <1> SUFFICES ASSUME ChainTypes, NEW r \in [Nodes -> Nat], Ordered(r)
               PROVE  Ahead = Remaining(r)
    OBVIOUS
  <1>1. RanksDiffer(r) /\ NextIsOlder(r) /\ b \in Buckets
    BY DEF Ordered, ChainTypes
  <1>2. CASE task = "prune"
    <2> DEFINE T == Target
    <2>1. T \in Nodes \cup {NULL}
      BY TargetType
    <2>2. T # NULL => T \in heap /\ Home(T) = b /\ (place.of = "node" => r[T] < r[place.at])
      BY <1>2, TargetIsNext
    <2>3. \A m \in heap : Home(m) = b /\ (place.of = "node" => r[m] < r[place.at]) =>
              T # NULL /\ r[m] <= r[T]
      BY <1>2, TargetIsNext
    <2>4. Ahead = Behind(T) \cup {n \in heap : Home(n) > b}
      BY <1>2 DEF Ahead, Home
    <2> HIDE DEF T
    <2>5. Behind(T) = {n \in heap : Home(n) = b /\ T # NULL /\ r[n] <= r[T]}
      BY <1>1, <2>1, <2>2, ChainReach
    <2>6. \A n \in heap : T # NULL /\ r[n] <= r[T] /\ place.of = "node" => r[n] < r[place.at]
      <3>1. \A n \in heap : r[n] \in Nat
        BY DEF ChainTypes
      <3>2. place.of = "node" => r[place.at] \in Nat
        BY DEF ChainTypes
      <3> QED BY <2>2, <3>1, <3>2
    <2>7. \A n \in heap : Home(n) = b =>
              (T # NULL /\ r[n] <= r[T] <=> (place.of = "node" => r[n] < r[place.at]))
      BY <2>3, <2>6
    <2> QED BY <1>2, <2>4, <2>5, <2>7 DEF Remaining
  <1>3. CASE task \in {"copy", "destroy"}
    <2>1. node \in Nodes \cup {NULL} /\ (node # NULL => node \in heap /\ Home(node) = b)
      BY <1>3 DEF ChainTypes, Ordered, CopyIsBehind, DestroyIsAhead, IsHead
    <2>2. Ahead = Behind(node) \cup {n \in heap : Home(n) > b}
      BY <1>3 DEF Ahead, Home
    <2>3. Behind(node) = {n \in heap : Home(n) = b /\ node # NULL /\ r[n] <= r[node]}
      BY <1>1, <2>1, ChainReach
    <2> QED BY <1>3, <2>2, <2>3 DEF Remaining
  <1>4. CASE task \notin {"prune", "copy", "destroy"}
    BY <1>4 DEF Ahead, Remaining
  <1> QED BY <1>2, <1>3, <1>4

Known(r) == ChainTypes /\ Ordered(r) /\ Ahead = Remaining(r)

\* Where no walk is under way, nothing is left of one.
LEMMA NoWalk ==
    ASSUME NEW r \in [Nodes -> Nat], Known(r), task \notin {"prune", "copy", "destroy"}
    PROVE  Ahead = {}
  BY DEF Known, Remaining

\* A search, and what follows from it, are those of a set.
LEMMA SearchRefines ==
    ASSUME NEW r \in [Nodes -> Nat], Known(r), Ahead' = {},
           Expire \/ BeginFind \/ NextInChain \/ Hit \/ Insert \/ NoMemory
    PROVE  [Table!Next]_(Table!vars)
  <1>1. task \in {"idle", "find"} /\ Ahead = {}
    BY NoWalk DEF Expire, BeginFind, NextInChain, Hit, Insert, NoMemory
  <1>2. Ordered(r) /\ ChainTypes
    BY DEF Known
  <1>3. task = "find" /\ node = NULL => Table!Matches = {}
    BY <1>2 DEF Ordered, FindIsAhead, Table!Matches
  <1>4. CASE Expire
    <2>1. Table!Age
      BY <1>1, <1>4 DEF Expire, Table!Age, walkVars
    <2> QED BY <2>1 DEF Table!Next
  <1>5. CASE BeginFind
    <2>1. Table!Find
      BY <1>1, <1>5 DEF BeginFind, Table!Find, Table!table, nodeVars
    <2> QED BY <2>1 DEF Table!Next
  <1>6. CASE NextInChain
    BY <1>1, <1>6 DEF NextInChain, Table!vars, Table!table, nodeVars
  <1>7. CASE Hit
    <2>1. node \in Table!Matches
      BY <1>2, <1>7 DEF Hit, Ordered, FindIsAhead, Table!Matches
    <2>2. Table!Hit
      BY <1>1, <1>7, <2>1 DEF Hit, Table!Hit
    <2> QED BY <2>2 DEF Table!Next
  <1>8. CASE Insert
    <2>1. PICK n \in Nodes \ heap :
              /\ heap' = heap \cup {n} /\ old' = old \ {n}
              /\ hashOf' = [hashOf EXCEPT ![n] = hash]
      BY <1>8 DEF Insert
    <2>2. old' = old
      BY <1>2, <2>1 DEF ChainTypes
    <2>3. [m \in heap' |-> hashOf'[m]] =
              [m \in heap \cup {n} |-> IF m = n THEN hash ELSE [k \in heap |-> hashOf[k]][m]]
      BY <1>2, <2>1 DEF ChainTypes
    <2>4. Table!Insert
      BY <1>1, <1>3, <1>8, <2>1, <2>2, <2>3 DEF Insert, Table!Insert
    <2> QED BY <2>4 DEF Table!Next
  <1>9. CASE NoMemory
    <2>1. Table!NoMemory
      BY <1>1, <1>3, <1>9 DEF NoMemory, Table!NoMemory, Table!table, nodeVars
    <2> QED BY <2>1 DEF Table!Next
  <1> QED BY <1>4, <1>5, <1>6, <1>7, <1>8, <1>9

\* Every walk begins with the whole table before it.
LEMMA WalkBegins ==
    ASSUME NEW r \in [Nodes -> Nat], Known(r), Known(r)',
           BeginPrune \/ \E t \in DOMAIN EndOf : BeginWalk(t)
    PROVE  Table!Next
  <1>1. Ahead = {} /\ task = "idle" /\ UNCHANGED <<heap, buckets, next, hashOf, old, hash, copied>>
    BY NoWalk DEF BeginPrune, BeginWalk, nodeVars
  <1>2. b' = 1 /\ task' \in DOMAIN Table!Done
    BY DEF BeginPrune, BeginWalk, EndOf, Table!Done
  <1>3. \A n \in heap : Home(n) \in Nat /\ Home(n) >= 1 /\ Home(n)' = Home(n)
    BY <1>1, HomeType, HashChainsAssumption DEF Known, Buckets, Home
  <1>4. Ahead' = heap
    <2>1. CASE BeginPrune
      <3>1. place' = InBucket(1) /\ task' = "prune"
        BY <2>1 DEF BeginPrune
      <3> QED BY <1>1, <1>2, <1>3, <3>1 DEF Known, Remaining, InBucket
    <2>2. CASE \E t \in DOMAIN EndOf : BeginWalk(t)
      <3>1. node' = buckets[1] /\ task' \in {"copy", "destroy"}
        BY <2>2 DEF BeginWalk, EndOf
      <3>2. IsHead(r, buckets[1], 1)
        BY <1>1, HashChainsAssumption DEF Known, Ordered, HeadsAreYoungest, Standing, Buckets
      <3> QED BY <1>1, <1>2, <1>3, <3>1, <3>2 DEF Known, Remaining, IsHead
    <2> QED BY <2>1, <2>2
  <1>5. Table!Walk(task')
    BY <1>1, <1>4 DEF Table!Walk, Table!table
  <1> QED BY <1>2, <1>5 DEF Table!Next

\* A prune takes the node at its cursor from what is ahead.
LEMMA PruneRefines ==
    ASSUME NEW r \in [Nodes -> Nat], Known(r), Known(r)', Unlink \/ KeepNode
    PROVE  Table!Next
  <1> DEFINE T == Target
  <1>1. task = "prune" /\ T # NULL /\ UNCHANGED <<hashOf, task, hash, b, copied>>
    BY DEF Unlink, KeepNode, nodeVars, walkVars
  <1>2. /\ T \in heap /\ Home(T) = b /\ (place.of = "node" => r[T] < r[place.at])
        /\ \A m \in heap : Home(m) = b /\ (place.of = "node" => r[m] < r[place.at]) =>
                               r[m] <= r[T]
    BY <1>1, TargetIsNext DEF Known
  <1>3. \A n \in heap : Home(n)' = Home(n) /\ r[n] \in Nat
    BY <1>1 DEF Known, ChainTypes, Home
  <1>4. Ahead = {n \in heap : \/ Home(n) > b
                              \/ Home(n) = b /\ (place.of = "node" => r[n] < r[place.at])}
    BY <1>1 DEF Known, Remaining
  <1>5. T \in Ahead
    BY <1>2, <1>4
  <1>6. CASE Unlink
    <2>1. T \in old /\ heap' = heap \ {T} /\ old' = old \ {T} /\ place' = place
      BY <1>6 DEF Unlink, walkVars
    <2>2. Ahead' = Ahead \ {T}
      <3>1. Ahead' = {n \in heap' : \/ Home(n)' > b
                                    \/ Home(n)' = b /\ (place.of = "node" => r[n] < r[place.at])}
        BY <1>1, <2>1 DEF Known, Remaining
      <3> HIDE DEF T
      <3> QED BY <1>3, <1>4, <2>1, <3>1
    <2>3. [m \in heap' |-> hashOf'[m]] = [m \in heap \ {T} |-> [k \in heap |-> hashOf[k]][m]]
      BY <1>1, <2>1
    <2> HIDE DEF T
    <2>4. Table!Evict
      BY <1>1, <1>5, <2>1, <2>2, <2>3 DEF Table!Evict, Table!Release
    <2> QED BY <2>4 DEF Table!Next
  <1>7. CASE KeepNode
    <2>1. T \notin old /\ place' = InNode(T) /\ UNCHANGED <<heap, old>>
      BY <1>7 DEF KeepNode, nodeVars
    <2>2. Ahead' = Ahead \ {T}
      <3>1. Ahead' = {n \in heap : Home(n) > b \/ (Home(n) = b /\ r[n] < r[T])}
        BY <1>1, <1>3, <2>1 DEF Known, Remaining, InNode
      <3>2. \A n \in heap : Home(n) = b /\ n # T => r[n] # r[T]
        BY <1>2 DEF Known, Ordered, RanksDiffer
      <3>3. place.of = "node" => r[place.at] \in Nat
        BY DEF Known, ChainTypes
      <3>4. b \in Nat
        BY HashChainsAssumption DEF Known, ChainTypes, Buckets
      <3> HIDE DEF T
      <3> QED BY <1>2, <1>3, <1>4, <3>1, <3>2, <3>3, <3>4
    <2> HIDE DEF T
    <2>3. Table!Keep
      BY <1>1, <1>5, <2>1, <2>2 DEF Table!Keep, Table!table
    <2> QED BY <2>3 DEF Table!Next
  <1> QED BY <1>6, <1>7

\* So do a snapshot and a destruction with the node they stand on.
LEMMA WalkRefines ==
    ASSUME NEW r \in [Nodes -> Nat], Known(r), Known(r)', Copy \/ FreeNode
    PROVE  Table!Next
  <1>1. /\ task \in {"copy", "destroy"} /\ node # NULL /\ node' = next[node]
        /\ UNCHANGED <<hashOf, next, task, hash, b>>
    BY DEF Copy, FreeNode, nodeVars
  <1>2. node \in heap /\ Home(node) = b /\ NextIsOlder(r)
    BY <1>1 DEF Known, Ordered, CopyIsBehind, DestroyIsAhead, IsHead
  <1>3. \A n \in heap : Home(n)' = Home(n) /\ r[n] \in Nat
    BY <1>1 DEF Known, ChainTypes, Home
  <1>4. \A n \in heap : Home(n) = b /\ n # node => r[n] # r[node]
    BY <1>2 DEF Known, Ordered, RanksDiffer
  <1>5. Ahead = {n \in heap : Home(n) > b \/ (Home(n) = b /\ r[n] <= r[node])}
    BY <1>1 DEF Known, Remaining
  <1>6. node \in Ahead
    BY <1>2, <1>3, <1>5
  <1>7. heap' \in {heap, heap \ {node}}
    BY DEF Copy, FreeNode, nodeVars
  <1>8. Ahead' = Ahead \ {node}
    <2>1. Ahead' = {n \in heap' : \/ Home(n) > b
                                  \/ Home(n) = b /\ next[node] # NULL /\ r[n] <= r[next[node]]}
      BY <1>1, <1>3, <1>7 DEF Known, Remaining
    <2>2. \A n \in heap : Home(n) = b =>
              (next[node] # NULL /\ r[n] <= r[next[node]] <=> r[n] <= r[node] /\ n # node)
      <3>1. next[node] # NULL => next[node] \in heap /\ r[next[node]] < r[node]
        BY <1>2 DEF NextIsOlder
      <3>2. \A n \in heap : Home(n) = b /\ r[n] < r[node] => next[node] # NULL /\ r[n] <= r[next[node]]
        BY <1>2 DEF NextIsOlder
      <3> QED BY <1>2, <1>3, <1>4, <3>1, <3>2
    <2>3. \A n \in heap : Home(n) > b => n # node
      BY <1>2, HashChainsAssumption DEF Known, ChainTypes, Buckets
    <2> QED BY <1>5, <1>7, <2>1, <2>2, <2>3
  <1>9. CASE Copy
    <2>1. Table!Copy
      BY <1>1, <1>6, <1>8, <1>9 DEF Copy, Table!Copy, Table!table, nodeVars
    <2> QED BY <2>1 DEF Table!Next
  <1>10. CASE FreeNode
    <2>1. /\ task = "destroy" /\ heap' = heap \ {node} /\ old' = old \ {node}
          /\ UNCHANGED copied
      BY <1>10 DEF FreeNode
    <2>2. [m \in heap' |-> hashOf'[m]] = [m \in heap \ {node} |-> [k \in heap |-> hashOf[k]][m]]
      BY <1>1, <2>1
    <2>3. Table!Free
      BY <1>1, <1>6, <1>8, <2>1, <2>2 DEF Table!Free, Table!Release
    <2> QED BY <2>3 DEF Table!Next
  <1> QED BY <1>9, <1>10

\* Going on to the next bucket is no step of the set, and after the last one
\* nothing is left.
LEMMA BucketRefines ==
    ASSUME NEW r \in [Nodes -> Nat], Known(r), Known(r)', EndOfPrunedChain \/ EndOfWalkedChain
    PROVE  [Table!Next]_(Table!vars)
  <1>1. task \in {"prune", "copy", "destroy"} /\ UNCHANGED <<heap, buckets, next, hashOf, old, hash, copied>>
    BY DEF EndOfPrunedChain, EndOfWalkedChain, nodeVars, EndOf
  <1>2. /\ b \in Nat /\ b <= NBuckets /\ NBuckets \in Nat
        /\ \A n \in heap : Home(n) \in Nat /\ Home(n) <= NBuckets /\ Home(n)' = Home(n)
    BY <1>1, HomeType, HashChainsAssumption DEF Known, ChainTypes, Buckets, Home
  <1>3. Ahead = {n \in heap : Home(n) > b}
    <2>1. CASE task = "prune"
      <3>1. Target = NULL
        BY <2>1 DEF EndOfPrunedChain, EndOfWalkedChain, EndOf
      <3>2. \A m \in heap : ~(Home(m) = b /\ (place.of = "node" => r[m] < r[place.at]))
        BY <2>1, <3>1, TargetIsNext DEF Known
      <3> QED BY <2>1, <3>2 DEF Known, Remaining
    <2>2. CASE task # "prune"
      <3>1. node = NULL
        BY <2>2 DEF EndOfPrunedChain, EndOfWalkedChain
      <3> QED BY <1>1, <2>2, <3>1 DEF Known, Remaining
    <2> QED BY <2>1, <2>2
  <1>4. CASE b < NBuckets
    <2>1. b' = b + 1 /\ task' = task
      BY <1>4 DEF EndOfPrunedChain, EndOfWalkedChain
    <2>2. Ahead' = Ahead
      <3>1. CASE task = "prune"
        <4>1. place' = InBucket(b + 1)
          BY <1>4, <3>1 DEF EndOfPrunedChain, EndOfWalkedChain, EndOf
        <4>2. Ahead' = {n \in heap : Home(n) > b + 1 \/ Home(n) = b + 1}
          BY <1>1, <1>2, <2>1, <3>1, <4>1 DEF Known, Remaining, InBucket
        <4> QED BY <1>2, <1>3, <4>2
      <3>2. CASE task # "prune"
        <4>1. node' = buckets[b + 1] /\ b + 1 \in Buckets
          BY <1>2, <1>4, <3>2 DEF EndOfPrunedChain, EndOfWalkedChain, Buckets
        <4>2. IsHead(r, buckets[b + 1], b + 1)
          BY <1>1, <1>2, <4>1 DEF Known, Ordered, HeadsAreYoungest, Standing
        <4>3. Ahead' = {n \in heap : Home(n) > b + 1 \/ Home(n) = b + 1}
          BY <1>1, <1>2, <2>1, <3>2, <4>1, <4>2 DEF Known, Remaining, IsHead
        <4> QED BY <1>2, <1>3, <4>3
      <3> QED BY <3>1, <3>2
    <2> QED BY <1>1, <2>1, <2>2 DEF Table!vars, Table!table
  <1>5. CASE ~(b < NBuckets)
    <2>1. Ahead = {}
      BY <1>2, <1>3, <1>5
    <2>2. task \in DOMAIN Table!Done /\ task' = Table!Done[task]
      BY <1>1, <1>5 DEF EndOfPrunedChain, EndOfWalkedChain, EndOf, Table!Done
    <2>3. Ahead' = {}
      BY <1>1, <2>2, NoWalk DEF Known, Remaining, Table!Done
    <2>4. Table!Finish
      BY <1>1, <2>1, <2>2, <2>3 DEF Table!Finish, Table!table
    <2> QED BY <2>4 DEF Table!Next
  <1> QED BY <1>4, <1>5

\* Every step of the chains is a step of NodeTable, or none.
LEMMA ChainsRefine ==
    ASSUME ChainsInv, ChainsInv', [ChainsNext]_chainVars,
           \A r \in [Nodes -> Nat] : Ordered(r) => Ahead = Remaining(r),
           \A r \in [Nodes -> Nat] : (Ordered(r) => Ahead = Remaining(r))'
    PROVE  [Table!Next]_(Table!vars)
  <1>1. ChainTypes /\ ChainTypes' /\ HashesDiffer
    BY DEF ChainsInv
  <1>2. PICK r \in [Nodes -> Nat] : Ordered(r)
    BY DEF ChainsInv
  <1>3. Known(r)
    BY <1>1, <1>2 DEF Known
  <1>4. CASE UNCHANGED chainVars
    <2>1. UNCHANGED Ahead
      BY <1>4 DEF chainVars, nodeVars, walkVars, Ahead, Behind, ChainFrom, Target
    <2> QED BY <1>4, <2>1 DEF chainVars, nodeVars, walkVars, Table!vars, Table!table
  <1>5. CASE Expire \/ BeginFind \/ NextInChain \/ Hit \/ Insert \/ NoMemory
    <2>1. task' \in {"idle", "find"}
      BY <1>5 DEF Expire, BeginFind, NextInChain, Hit, Insert, NoMemory, walkVars
    <2>2. Ahead' = {}
      BY <2>1 DEF Ahead
    <2> QED BY <1>3, <1>5, <2>2, SearchRefines
  <1>6. CASE ChainsNext /\ ~(Expire \/ BeginFind \/ NextInChain \/ Hit \/ Insert \/ NoMemory)
    <2>1. Ordered(r)'
      BY <1>1, <1>2, <1>6, PruneSteps, UnlinkStep, CopyStep, FreeStep, WalkSteps DEF ChainsNext
    <2>2. Known(r)'
      BY <1>1, <2>1 DEF Known
    <2>3. CASE Return
      <3>1. task \in {"pruned", "copied"} /\ task' = "idle" /\ copied' = <<>>
            /\ UNCHANGED <<heap, hashOf, old, hash>>
        BY <2>3 DEF Return, nodeVars
      <3>2. Ahead = {} /\ Ahead' = {}
        BY <3>1 DEF Ahead
      <3>3. Table!Return
        BY <3>1, <3>2 DEF Table!Return, Table!table
      <3> QED BY <3>3 DEF Table!Next
    <2> QED
      BY <1>3, <1>6, <2>2, <2>3, WalkBegins, PruneRefines, WalkRefines, BucketRefines
      DEF ChainsNext
  <1> QED BY <1>4, <1>5, <1>6 DEF ChainsNext

\* The chains of the hash table are, to their callers, a set of nodes: a search
\* finds what is in it, an insertion and an eviction change it by one node, and
\* every walk comes to each of its nodes once.
THEOREM ChainsAreATable == ChainsSpec => ActsAsTable
  <1>1. ChainsInit => Table!Init
    BY HashChainsAssumption DEF ChainsInit, Table!Init, Ahead
  <1>2. ChainsInv => \A r \in [Nodes -> Nat] : Ordered(r) => Ahead = Remaining(r)
    BY AheadIs DEF ChainsInv
  <1>3. ChainsInv /\ ChainsInv' /\ [ChainsNext]_chainVars
        /\ (\A r \in [Nodes -> Nat] : Ordered(r) => Ahead = Remaining(r))
        /\ (\A r \in [Nodes -> Nat] : Ordered(r) => Ahead = Remaining(r))'
        => [Table!Next]_(Table!vars)
    BY ChainsRefine
  <1> QED BY <1>1, <1>2, <1>3, ChainsInvariance, PTL DEF ChainsSpec, ActsAsTable, Table!Spec
===============================================================================
