--------------------------- MODULE MempoolProofs ---------------------------
(* The memory pool's accounting, its bound on idle caches and its promise  *)
(* to the callers, for every set of caches and every cache size.           *)
EXTENDS Mempool, FiniteSetTheorems, TLAPS

Inv == TypeOK /\ Accounting

(* The nodes of a cache: as many as incsize says.                          *)
LEMMA NodeSets ==
  /\ IsFiniteSet(1..IncSize) /\ Cardinality(1..IncSize) = IncSize
  /\ IsFiniteSet(Node)
  /\ \A c : IsFiniteSet(NodesOf(c)) /\ Cardinality(NodesOf(c)) = IncSize
<1>1. IsFiniteSet(1..IncSize) /\ Cardinality(1..IncSize) = IncSize
  BY IncSizeAssumption, FS_Interval
<1>2. IsFiniteSet(Node)
  BY <1>1, CacheAssumption, FS_Product DEF Node
<1>3. ASSUME NEW c PROVE IsFiniteSet(NodesOf(c)) /\ Cardinality(NodesOf(c)) = IncSize
  <2>1. IsFiniteSet({c}) /\ Cardinality({c}) = 1
    BY FS_Singleton
  <2>2. IsFiniteSet(NodesOf(c)) /\ Cardinality(NodesOf(c)) = 1 * IncSize
    BY <1>1, <2>1, FS_Product DEF NodesOf
  <2>. QED
    BY <2>2, IncSizeAssumption
<1>. QED
  BY <1>1, <1>2, <1>3

(* Every set of nodes or caches the pool keeps is finite.                  *)
LEMMA Finite ==
  ASSUME TypeOK
  PROVE  /\ IsFiniteSet(cache_list) /\ Cardinality(cache_list) \in Nat
         /\ IsFiniteSet(node_list) /\ Cardinality(node_list) \in Nat
         /\ IsFiniteSet(is_used) /\ Cardinality(is_used) \in Nat
         /\ \A c : IsFiniteSet(UsedIn(c)) /\ Cardinality(UsedIn(c)) \in Nat
BY NodeSets, CacheAssumption, FS_Subset, FS_CardinalityType, FS_Intersection DEF TypeOK, UsedIn

(* A node lies in the cache that its cache pointer names, and only there.  *)
LEMMA NodeCache ==
  ASSUME NEW n \in Node
  PROVE  /\ CacheOf(n) \in Cache
         /\ \A c \in Cache : n \in NodesOf(c) <=> CacheOf(n) = c
         /\ \A S \in SUBSET Cache : n \in S \X (1..IncSize) <=> CacheOf(n) \in S
BY DEF Node, NodesOf, CacheOf

(* mempool_alloc: one cache, all of it free.                               *)
LEMMA InitInv == Init => Inv
<1>. SUFFICES ASSUME Init PROVE Inv
  OBVIOUS
<1>1. PICK c \in Cache : cache_list = {c} /\ node_list = NodesOf(c)
  BY DEF Init
<1>2. TypeOK
  BY <1>1, IncSizeAssumption DEF Init, TypeOK, Node, NodesOf
<1>3. Partition
  BY <1>1 DEF Init, Partition, NodesOf
<1>4. Counters
  <2>1. Cardinality(cache_list) = 1
    BY <1>1, FS_Singleton
  <2>2. \A d : Cardinality(UsedIn(d)) = 0
    BY FS_EmptySet DEF Init, UsedIn
  <2>. QED
    BY <1>1, <2>1, <2>2, NodeSets, IncSizeAssumption DEF Init, Counters
<1>. QED
  BY <1>2, <1>3, <1>4 DEF Inv, Accounting

(* A node's flag changes: the used nodes of its cache change by that node, *)
(* those of the other caches stay.                                         *)
LEMMA MarkUsed ==
  ASSUME TypeOK, NEW n \in Node \ is_used, is_used' = is_used \cup {n}
  PROVE  \A c \in Cache :
           Cardinality(UsedIn(c)') =
             IF c = CacheOf(n) THEN Cardinality(UsedIn(c)) + 1 ELSE Cardinality(UsedIn(c))
<1>. TAKE c \in Cache
<1>1. CASE c = CacheOf(n)
  <2>1. UsedIn(c)' = UsedIn(c) \cup {n} /\ n \notin UsedIn(c)
    BY <1>1, NodeCache DEF UsedIn
  <2>. QED
    BY <1>1, <2>1, Finite, FS_AddElement
<1>2. CASE c # CacheOf(n)
  <2>1. UsedIn(c)' = UsedIn(c)
    BY <1>2, NodeCache DEF UsedIn
  <2>. QED
    BY <1>2, <2>1
<1>. QED
  BY <1>1, <1>2

LEMMA MarkFree ==
  ASSUME TypeOK, NEW n \in is_used, is_used' = is_used \ {n}
  PROVE  \A c \in Cache :
           Cardinality(UsedIn(c)') =
             IF c = CacheOf(n) THEN Cardinality(UsedIn(c)) - 1 ELSE Cardinality(UsedIn(c))
<1>. TAKE c \in Cache
<1>0. n \in Node
  BY DEF TypeOK
<1>1. CASE c = CacheOf(n)
  <2>1. UsedIn(c)' = UsedIn(c) \ {n} /\ n \in UsedIn(c)
    BY <1>0, <1>1, NodeCache DEF UsedIn
  <2>. QED
    BY <1>1, <2>1, Finite, FS_RemoveElement
<1>2. CASE c # CacheOf(n)
  <2>1. UsedIn(c)' = UsedIn(c)
    BY <1>0, <1>2, NodeCache DEF UsedIn
  <2>. QED
    BY <1>2, <2>1
<1>. QED
  BY <1>1, <1>2

(* mempool_get with a free node on the list.                               *)
LEMMA GetInv == ASSUME Inv, NEW n \in Node, Get(n) PROVE Inv'
<1>. USE DEF Inv, Accounting
<1>1. n \in node_list /\ n \notin is_used /\ CacheOf(n) \in Cache
  BY NodeCache DEF Get, Partition
<1>2. TypeOK'
  BY <1>1, Finite DEF Get, TypeOK, Counters
<1>3. Partition'
  BY <1>1 DEF Get, Partition
<1>4. Counters'
  <2>1. nfreed' = Cardinality(node_list')
    BY <1>1, Finite, FS_RemoveElement DEF Get, Counters
  <2>2. nalloced' = IncSize * Cardinality(cache_list')
    BY DEF Get, Counters
  <2>3. ASSUME NEW c \in cache_list' PROVE nused'[c] = Cardinality(UsedIn(c)')
    <3>1. c \in cache_list /\ c \in Cache /\ n \in Node \ is_used
      BY <1>1 DEF Get, TypeOK
    <3>2. nused'[c] = IF c = CacheOf(n) THEN nused[c] + 1 ELSE nused[c]
      BY <1>1, <3>1 DEF Get, TypeOK
    <3>3. is_used' = is_used \cup {n}
      BY DEF Get
    <3>4. nused[c] = Cardinality(UsedIn(c))
      BY <3>1 DEF Counters
    <3>. QED
      BY <3>1, <3>2, <3>3, <3>4, MarkUsed
  <2>. QED
    BY <2>1, <2>2, <2>3 DEF Counters
<1>. QED
  BY <1>2, <1>3, <1>4

(* mempool_get when nothing is free: the new cache's nodes become the free *)
(* list and one of them is taken.                                          *)
LEMMA GetFreshInv ==
  ASSUME Inv, NEW c \in Cache, NEW n \in Node, GetFresh(c, n)
  PROVE  Inv'
<1>. USE DEF Inv, Accounting
<1>1. node_list = {}
  BY Finite, FS_EmptySet DEF GetFresh, Counters
<1>2. n \in NodesOf(c) /\ CacheOf(n) = c /\ n \notin is_used /\ UsedIn(c) = {}
  <2>1. n \in NodesOf(c)
    BY <1>1 DEF GetFresh
  <2>2. CacheOf(n) = c
    BY <2>1, NodeCache
  <2>3. \A m \in NodesOf(c) : m \notin is_used
    BY DEF GetFresh, Partition, NodesOf
  <2>. QED
    BY <2>1, <2>2, <2>3 DEF UsedIn
<1>3. node_list' = NodesOf(c) \ {n} /\ is_used' = is_used \cup {n}
  BY <1>1 DEF GetFresh
<1>4. TypeOK'
  <2>1. node_list' \subseteq Node
    BY <1>3 DEF Node, NodesOf
  <2>2. nused' \in [Cache -> Nat] /\ nfreed' \in Nat /\ nalloced' \in Nat
    BY <1>2, IncSizeAssumption DEF GetFresh, TypeOK
  <2>. QED
    BY <2>1, <2>2, <1>3 DEF GetFresh, TypeOK
<1>5. Partition'
  <2>1. cache_list' \X (1..IncSize) = (cache_list \X (1..IncSize)) \cup NodesOf(c)
    BY DEF GetFresh, NodesOf
  <2>2. is_used = cache_list \X (1..IncSize)
    BY <1>1 DEF Partition
  <2>3. is_used \cap NodesOf(c) = {}
    BY <1>2 DEF UsedIn
  <2>. QED
    BY <2>1, <2>2, <2>3, <1>2, <1>3 DEF Partition
<1>6. Counters'
  <2>1. nfreed' = Cardinality(node_list')
    <3>1. Cardinality(NodesOf(c) \ {n}) = IncSize - 1
      BY <1>2, NodeSets, FS_RemoveElement
    <3>2. nfreed' = IncSize - 1
      BY IncSizeAssumption DEF GetFresh
    <3>. QED
      BY <1>3, <3>1, <3>2
  <2>2. nalloced' = IncSize * Cardinality(cache_list')
    <3>1. Cardinality(cache_list') = Cardinality(cache_list) + 1
      BY Finite, FS_AddElement DEF GetFresh
    <3>. QED
      BY <3>1, Finite, IncSizeAssumption DEF GetFresh, Counters
  <2>3. ASSUME NEW d \in cache_list' PROVE nused'[d] = Cardinality(UsedIn(d)')
    <3>1. d \in Cache /\ n \in Node \ is_used
      BY <1>2 DEF GetFresh, TypeOK
    <3>2. Cardinality(UsedIn(d)') = IF d = c THEN Cardinality(UsedIn(d)) + 1 ELSE Cardinality(UsedIn(d))
      BY <1>2, <1>3, <3>1, MarkUsed
    <3>3. CASE d = c
      <4>1. nused'[d] = 1
        BY <1>2, <3>3 DEF GetFresh, TypeOK
      <4>2. Cardinality(UsedIn(d)') = 1
        BY <1>2, <3>2, <3>3, FS_EmptySet
      <4>. QED
        BY <4>1, <4>2
    <3>4. CASE d # c
      <4>1. nused'[d] = nused[d] /\ d \in cache_list
        BY <1>2, <3>1, <3>4 DEF GetFresh, TypeOK
      <4>. QED
        BY <4>1, <3>2, <3>4 DEF Counters
    <3>. QED
      BY <3>3, <3>4
  <2>. QED
    BY <2>1, <2>2, <2>3 DEF Counters
<1>. QED
  BY <1>4, <1>5, <1>6

(* What the first half of _op_put_node establishes, whether or not the     *)
(* cache goes: the counters after node_list and nused are updated.         *)
LEMMA PutCounts ==
  ASSUME Inv, NEW n \in is_used, is_used' = is_used \ {n},
         nused' = [nused EXCEPT ![CacheOf(n)] = @ - 1]
  PROVE  /\ n \in Node /\ n \notin node_list /\ CacheOf(n) \in cache_list
         /\ nused' \in [Cache -> Nat]
         /\ \A c \in cache_list : nused'[c] = Cardinality(UsedIn(c)')
         /\ nused[CacheOf(n)] = Cardinality(UsedIn(CacheOf(n))) /\ nused[CacheOf(n)] >= 1
<1>. USE DEF Inv, Accounting
<1>1. n \in Node /\ n \notin node_list /\ CacheOf(n) \in cache_list /\ CacheOf(n) \in Cache
  <2>1. n \in Node /\ n \notin node_list /\ n \in cache_list \X (1..IncSize)
    BY DEF TypeOK, Partition
  <2>. QED
    BY <2>1, NodeCache DEF TypeOK
<1>2. n \in UsedIn(CacheOf(n))
  BY <1>1, NodeCache DEF UsedIn
<1>3. nused[CacheOf(n)] = Cardinality(UsedIn(CacheOf(n))) /\ nused[CacheOf(n)] >= 1
  BY <1>1, <1>2, Finite, FS_EmptySet DEF Counters
<1>4. nused' \in [Cache -> Nat]
  BY <1>1, <1>3 DEF TypeOK
<1>5. ASSUME NEW c \in cache_list PROVE nused'[c] = Cardinality(UsedIn(c)')
  <2>1. c \in Cache
    BY DEF TypeOK
  <2>2. nused'[c] = IF c = CacheOf(n) THEN nused[c] - 1 ELSE nused[c]
    BY <2>1 DEF TypeOK
  <2>3. nused[c] = Cardinality(UsedIn(c))
    BY DEF Counters
  <2>. QED
    BY <2>1, <2>2, <2>3, MarkFree
<1>. QED
  BY <1>1, <1>3, <1>4, <1>5

(* mempool_put when the cache stays.                                       *)
LEMMA PutNodeInv == ASSUME Inv, NEW n \in is_used, PutNode(n) PROVE Inv'
<1>. USE DEF Inv, Accounting
<1>1. is_used' = is_used \ {n} /\ nused' = [nused EXCEPT ![CacheOf(n)] = @ - 1]
  BY DEF PutNode
<1>2. TypeOK'
  <2>1. n \in Node /\ nused' \in [Cache -> Nat]
    BY <1>1, PutCounts
  <2>. QED
    BY <2>1 DEF PutNode, TypeOK
<1>3. Partition'
  BY DEF PutNode, Partition
<1>4. Counters'
  <2>1. nfreed' = Cardinality(node_list')
    BY <1>1, PutCounts, Finite, FS_AddElement DEF PutNode, Counters
  <2>2. cache_list' = cache_list /\ nalloced' = nalloced
    BY DEF PutNode
  <2>. QED
    BY <1>1, <2>1, <2>2, PutCounts DEF Counters
<1>. QED
  BY <1>2, <1>3, <1>4

(* mempool_put when the cache goes: all its nodes are free by then, the    *)
(* node given back included, so they are all on the list.                  *)
LEMMA PutNodeAndCacheInv ==
  ASSUME Inv, NEW n \in is_used, ReleaseDue(n), PutNodeAndCache(n)
  PROVE  Inv' /\ Cardinality(node_list') > IncSize
<1>. USE DEF Inv, Accounting
<1>. DEFINE c == CacheOf(n)
<1>1. is_used' = is_used \ {n} /\ nused' = [nused EXCEPT ![c] = @ - 1]
  BY DEF PutNodeAndCache
<1>2. c \in cache_list /\ c \in Cache /\ n \in Node /\ n \notin node_list
  BY <1>1, PutCounts DEF TypeOK
<1>3. UsedIn(c) = {n}
  <2>1. Cardinality(UsedIn(c)) = 1
    BY <1>1, PutCounts DEF ReleaseDue
  <2>2. PICK m : UsedIn(c) = {m}
    BY <2>1, Finite, FS_Singleton
  <2>3. n \in UsedIn(c)
    BY <1>2, NodeCache DEF UsedIn
  <2>. QED
    BY <2>2, <2>3
<1>4. NodesOf(c) \subseteq node_list \cup {n}
  <2>1. NodesOf(c) \subseteq node_list \cup is_used
    BY <1>2 DEF Partition, NodesOf
  <2>. QED
    BY <1>3, <2>1 DEF UsedIn
<1>5. Cardinality(node_list') = nfreed + 1 - IncSize
  <2>1. IsFiniteSet(node_list \cup {n}) /\ Cardinality(node_list \cup {n}) = nfreed + 1
    BY <1>2, Finite, FS_AddElement DEF Counters
  <2>2. NodesOf(c) \subseteq node_list \cup {n}
    BY <1>4
  <2>3. node_list' = (node_list \cup {n}) \ NodesOf(c)
    BY DEF PutNodeAndCache
  <2>4. Cardinality((node_list \cup {n}) \ NodesOf(c)) = nfreed + 1 - Cardinality(NodesOf(c))
    <3>. DEFINE S == node_list \cup {n}
    <3>. HIDE DEF S
    <3>1. IsFiniteSet(S) /\ Cardinality(S) = nfreed + 1 /\ NodesOf(c) \subseteq S
      BY <2>1, <2>2 DEF S
    <3>2. S \cap NodesOf(c) = NodesOf(c)
      BY <3>1
    <3>3. Cardinality(S \ NodesOf(c)) = Cardinality(S) - Cardinality(S \cap NodesOf(c))
      BY <3>1, FS_Difference
    <3>4. Cardinality(S \ NodesOf(c)) = Cardinality(S) - Cardinality(NodesOf(c))
      BY <3>2, <3>3, Zenon
    <3>5. Cardinality(S) = nfreed + 1
      BY <3>1
    <3>6. Cardinality(S \ NodesOf(c)) = nfreed + 1 - Cardinality(NodesOf(c))
      <4>1. Cardinality(NodesOf(c)) \in Int /\ nfreed \in Int
        BY NodeSets, IncSizeAssumption DEF TypeOK
      <4>. QED
        BY <3>4, <3>5, <4>1
    <3>. QED
      BY <3>6 DEF S
  <2>. QED
    BY <2>3, <2>4, NodeSets
<1>6. nfreed + 1 > 2 * IncSize
  BY DEF ReleaseDue
<1>7. IsFiniteSet(cache_list) /\ Cardinality(cache_list') = Cardinality(cache_list) - 1
  BY <1>2, Finite, FS_RemoveElement DEF PutNodeAndCache
<1>8. nalloced' = IncSize * Cardinality(cache_list') /\ nalloced' \in Nat
  <2>1. nalloced' = IncSize * Cardinality(cache_list')
    BY <1>7, Finite, IncSizeAssumption DEF PutNodeAndCache, Counters
  <2>2. IsFiniteSet(cache_list')
    BY <1>7, FS_Subset DEF PutNodeAndCache
  <2>3. Cardinality(cache_list') \in Nat
    BY <2>2, FS_CardinalityType
  <2>. QED
    BY <2>1, <2>3, IncSizeAssumption
<1>9. TypeOK'
  <2>1. nfreed' \in Nat
    BY <1>6, IncSizeAssumption DEF PutNodeAndCache, TypeOK
  <2>. QED
    BY <1>1, <1>2, <1>8, <2>1, PutCounts DEF PutNodeAndCache, TypeOK
<1>10. Partition'
  <2>1. cache_list' \X (1..IncSize) = (cache_list \X (1..IncSize)) \ NodesOf(c)
    BY DEF PutNodeAndCache, NodesOf
  <2>2. is_used' \cap NodesOf(c) = {}
    BY <1>1, <1>3 DEF UsedIn
  <2>. QED
    BY <1>1, <2>1, <2>2 DEF PutNodeAndCache, Partition
<1>11. Counters'
  <2>1. \A d \in cache_list' : nused'[d] = Cardinality(UsedIn(d)')
    BY <1>1, PutCounts DEF PutNodeAndCache
  <2>2. nfreed' = Cardinality(node_list')
    BY <1>5 DEF PutNodeAndCache
  <2>. QED
    BY <1>8, <2>1, <2>2 DEF Counters
<1>. QED
  BY <1>5, <1>6, <1>9, <1>10, <1>11, IncSizeAssumption DEF TypeOK

(* The accounting survives every step.                                     *)
LEMMA NextInv == Inv /\ [Next]_vars => Inv'
<1>. SUFFICES ASSUME Inv, [Next]_vars PROVE Inv'
  OBVIOUS
<1>1. ASSUME NEW n \in Node, Get(n) PROVE Inv'
  BY <1>1, GetInv
<1>2. ASSUME NEW c \in Cache, NEW n \in Node, GetFresh(c, n) PROVE Inv'
  BY <1>2, GetFreshInv
<1>3. ASSUME NEW n \in Node, Put(n) PROVE Inv'
  <2>1. n \in is_used
    BY <1>3 DEF Put
  <2>2. CASE ReleaseDue(n)
    BY <1>3, <2>1, <2>2, PutNodeAndCacheInv DEF Put
  <2>3. CASE ~ReleaseDue(n)
    BY <1>3, <2>1, <2>3, PutNodeInv DEF Put
  <2>. QED
    BY <2>2, <2>3
<1>4. CASE UNCHANGED vars
  BY <1>4 DEF Inv, TypeOK, Accounting, Partition, Counters, UsedIn, vars
<1>. QED
  BY <1>1, <1>2, <1>3, <1>4 DEF Next

LEMMA InvHolds == Spec => []Inv
BY InitInv, NextInv, PTL DEF Spec

(* The pool's state has the shape of its C structs.                        *)
THEOREM TypeCorrect == Spec => []TypeOK
BY InvHolds, PTL DEF Inv

(* The counters agree with the list and the flags, and no used node lies   *)
(* in a cache that was released.                                           *)
THEOREM AccountingHolds == Spec => []Accounting
BY InvHolds, PTL DEF Inv

(* A release leaves more than incsize free nodes.                          *)
THEOREM NoThrashHolds == Spec => NoThrash
<1>. DEFINE Keeps == \A c \in cache_list : c \notin cache_list' => Cardinality(node_list') > IncSize
<1>1. Inv /\ [Next]_vars => [Keeps]_vars
  <2>. SUFFICES ASSUME Inv, Next, NEW c \in cache_list, c \notin cache_list'
                PROVE  Cardinality(node_list') > IncSize
    OBVIOUS
  <2>1. PICK n \in Node : Put(n)
    BY DEF Next, Get, GetFresh
  <2>2. n \in is_used /\ ReleaseDue(n) /\ PutNodeAndCache(n)
    BY <2>1 DEF Put, PutNode
  <2>. QED
    BY <2>2, PutNodeAndCacheInv
<1>. QED
  BY <1>1, InvHolds, PTL DEF Spec, NoThrash

(* The idle caches' nodes are all free, which bounds their number.          *)
IdleBound ==
  /\ IsFiniteSet(Idle) /\ Cardinality(Idle) \in Nat
  /\ Cardinality(Idle) * IncSize <= nfreed

LEMMA IdleAreFree == Inv => IdleBound
<1>. SUFFICES ASSUME Inv PROVE IdleBound
  OBVIOUS
<1>. USE DEF Inv, Accounting
<1>1. IsFiniteSet(Idle) /\ Cardinality(Idle) \in Nat
  BY Finite, FS_Subset, FS_CardinalityType DEF Idle
<1>2. Idle \X (1..IncSize) \subseteq node_list
  <2>. SUFFICES ASSUME NEW c \in Idle, NEW i \in 1..IncSize PROVE <<c, i>> \in node_list
    OBVIOUS
  <2>1. <<c, i>> \in NodesOf(c) /\ c \in cache_list
    BY DEF NodesOf, Idle
  <2>2. <<c, i>> \notin is_used
    BY <2>1 DEF Idle, UsedIn
  <2>3. <<c, i>> \in cache_list \X (1..IncSize)
    BY <2>1
  <2>. QED
    BY <2>2, <2>3 DEF Partition
<1>3. Cardinality(Idle \X (1..IncSize)) = Cardinality(Idle) * IncSize
  BY <1>1, NodeSets, FS_Product
<1>4. Cardinality(Idle \X (1..IncSize)) <= nfreed
  BY <1>2, Finite, FS_Subset DEF Counters
<1>. QED
  BY <1>1, <1>3, <1>4 DEF IdleBound

(* At most two caches are idle.  A put that makes a cache idle and does not *)
(* release it leaves at most 2 * incsize free nodes; every other step makes *)
(* no cache idle.                                                          *)
THEOREM BoundedIdleHolds == Spec => []BoundedIdle
<1>1. Init => BoundedIdle
  <2>. SUFFICES ASSUME Init PROVE BoundedIdle
    OBVIOUS
  <2>1. PICK c \in Cache : cache_list = {c}
    BY DEF Init
  <2>2. Idle \in SUBSET {c} /\ IsFiniteSet({c}) /\ Cardinality({c}) = 1
    BY <2>1, FS_Singleton DEF Idle
  <2>3. IsFiniteSet(Idle) /\ Cardinality(Idle) <= 1
    BY <2>2, FS_Subset
  <2>. QED
    BY <2>3, FS_CardinalityType DEF BoundedIdle
<1>2. ASSUME Inv, BoundedIdle, [Next]_vars PROVE BoundedIdle'
  <2>1. Inv'
    BY <1>2, NextInv
  <2>2. IsFiniteSet(Idle) /\ Cardinality(Idle) \in Nat
    BY <1>2, IdleAreFree DEF IdleBound
  <2>3. IsFiniteSet(Idle') /\ Cardinality(Idle') \in Nat /\ Cardinality(Idle') * IncSize <= nfreed'
    <3>1. IdleBound'
      BY <2>1, IdleAreFree, PTL
    <3>. QED
      BY <3>1 DEF IdleBound
  <2>4. ASSUME Idle' \subseteq Idle PROVE BoundedIdle'
    <3>1. Cardinality(Idle') <= Cardinality(Idle)
      BY <2>2, <2>4, FS_Subset
    <3>. QED
      BY <1>2, <2>2, <2>3, <3>1 DEF BoundedIdle
  <2>5. ASSUME NEW n \in Node, Get(n) PROVE BoundedIdle'
    <3>1. Idle' \subseteq Idle
      BY <2>5 DEF Get, Idle, UsedIn
    <3>. QED
      BY <2>4, <3>1
  <2>6. ASSUME NEW c \in Cache, NEW n \in Node, GetFresh(c, n) PROVE BoundedIdle'
    <3>1. node_list = {}
      BY <1>2, <2>6, Finite, FS_EmptySet DEF GetFresh, Counters, Inv, Accounting
    <3>2. n \in UsedIn(c)'
      BY <2>6, <3>1 DEF GetFresh, UsedIn
    <3>3. Idle' \subseteq Idle
      BY <2>6, <3>2 DEF GetFresh, Idle, UsedIn
    <3>. QED
      BY <2>4, <3>3
  <2>7. ASSUME NEW n \in Node, n \in is_used, ReleaseDue(n), PutNodeAndCache(n) PROVE BoundedIdle'
    <3>1. \A d \in cache_list : d # CacheOf(n) => UsedIn(d)' = UsedIn(d)
      BY <1>2, <2>7, NodeCache DEF PutNodeAndCache, UsedIn, Inv, TypeOK
    <3>2. Idle' \subseteq Idle
      BY <2>7, <3>1 DEF PutNodeAndCache, Idle
    <3>. QED
      BY <2>4, <3>2
  <2>8. ASSUME NEW n \in Node, n \in is_used, ~ReleaseDue(n), PutNode(n) PROVE BoundedIdle'
    <3>. DEFINE c == CacheOf(n)
    <3>1. \A d \in cache_list : d # c => UsedIn(d)' = UsedIn(d)
      BY <1>2, <2>8, NodeCache DEF PutNode, UsedIn, Inv, TypeOK
    <3>2. CASE nused[c] = 1
      <4>1. nfreed' <= 2 * IncSize
        BY <1>2, <2>8, <3>2, IncSizeAssumption DEF ReleaseDue, PutNode, Inv, TypeOK
      <4>2. Cardinality(Idle') * IncSize <= 2 * IncSize
        BY <2>1, <2>3, <4>1, IncSizeAssumption DEF Inv, TypeOK
      <4>3. \A k \in Nat : k * IncSize <= 2 * IncSize => k <= 2
        BY IncSizeAssumption
      <4>. QED
        BY <2>3, <4>2, <4>3 DEF BoundedIdle
    <3>3. CASE nused[c] # 1
      <4>1. UsedIn(c)' # {} \/ c \notin cache_list
        <5>. SUFFICES ASSUME c \in cache_list, UsedIn(c)' = {} PROVE FALSE
          OBVIOUS
        <5>1. UsedIn(c) = {n}
          <6>1. n \in UsedIn(c)
            BY <2>8, NodeCache, <1>2 DEF UsedIn, Inv, TypeOK
          <6>2. UsedIn(c)' = UsedIn(c) \ {n}
            BY <2>8 DEF PutNode, UsedIn
          <6>. QED
            BY <6>1, <6>2
        <5>2. nused[c] = 1
          BY <5>1, <1>2, FS_Singleton DEF Inv, Accounting, Counters
        <5>. QED
          BY <3>3, <5>2
      <4>2. Idle' \subseteq Idle
        BY <2>8, <3>1, <4>1 DEF PutNode, Idle
      <4>. QED
        BY <2>4, <4>2
    <3>. QED
      BY <3>2, <3>3
  <2>9. CASE UNCHANGED vars
    BY <1>2, <2>9 DEF vars, BoundedIdle, Idle, UsedIn
  <2>. QED
    BY <1>2, <2>5, <2>6, <2>7, <2>8, <2>9 DEF Next, Put
<1>. QED
  BY <1>1, <1>2, InvHolds, PTL DEF Spec

(* The pool implements the abstract pool: a get hands out a node that      *)
(* nobody holds, a put releases only memory that nobody holds.             *)
THEOREM ImplementsObjPoolHolds == Spec => ImplementsObjPool
<1>1. Init => Abstract!Init
  BY DEF Init, Abstract!Init, Node
<1>2. Inv /\ [Next]_vars => [Abstract!Next]_(Abstract!vars)
  <2>. SUFFICES ASSUME Inv, [Next]_vars PROVE [Abstract!Next]_(Abstract!vars)
    OBVIOUS
  <2>. DEFINE Mapped == cache_list \X (1..IncSize)
  <2>0. Inv'
    BY NextInv
  <2>1. Mapped' \in SUBSET Node /\ is_used' \subseteq Mapped' /\ node_list \cap is_used = {}
    BY <2>0 DEF Inv, TypeOK, Accounting, Partition, Node
  <2>2. ASSUME NEW n \in Node, Get(n) PROVE Abstract!Get(n)
    BY <2>1, <2>2 DEF Get, Abstract!Get
  <2>3. ASSUME NEW c \in Cache, NEW n \in Node, GetFresh(c, n) PROVE Abstract!Get(n)
    <3>1. n \notin is_used
      BY <2>1, <2>3 DEF GetFresh, NodesOf, Inv, Accounting, Partition
    <3>2. Mapped \subseteq Mapped'
      BY <2>3 DEF GetFresh
    <3>. QED
      BY <2>1, <2>3, <3>1, <3>2 DEF GetFresh, Abstract!Get
  <2>4. ASSUME NEW n \in Node, Put(n) PROVE Abstract!Put(n)
    <3>1. cache_list' \subseteq cache_list /\ is_used' = is_used \ {n} /\ n \in is_used
      BY <2>4 DEF Put, PutNode, PutNodeAndCache
    <3>2. Mapped' \in SUBSET Mapped
      BY <3>1
    <3>. QED
      BY <2>1, <3>1, <3>2 DEF Abstract!Put
  <2>5. CASE UNCHANGED vars
    BY <2>5 DEF vars, Abstract!vars
  <2>. QED
    BY <2>2, <2>3, <2>4, <2>5 DEF Next, Abstract!Next
<1>. QED
  BY <1>1, <1>2, InvHolds, PTL DEF Spec, ImplementsObjPool, Abstract!Spec

=============================================================================
