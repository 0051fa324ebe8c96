------------------------------ MODULE Mempool ------------------------------
(***************************************************************************)
(* The memory pool of http/mempool.c: fixed-size nodes, allocated in       *)
(* caches of IncSize nodes each, handed out by mempool_get and taken back  *)
(* by mempool_put.  Both run under the pool's lock from start to end, so   *)
(* one call is one step whatever thread makes it.                          *)
(*                                                                         *)
(* node_list is the set of the nodes on the free list: which of them a get *)
(* returns is left open here.  NodeList models the list's pointers and     *)
(* implements this module.                                                 *)
(***************************************************************************)
EXTENDS Integers, FiniteSets

CONSTANTS
  Cache,            \* addresses malloc may return for a cache
  IncSize           \* nodes in one cache (incsize)

ASSUME CacheAssumption == IsFiniteSet(Cache)
ASSUME IncSizeAssumption == IncSize \in Nat \ {0}

VARIABLES
  cache_list,       \* the allocated caches
  node_list,        \* the nodes on the free list
  is_used,          \* the allocated nodes whose is_used flag is set
  nused,            \* per cache, its counter of used nodes
  nalloced,         \* counter of allocated nodes
  nfreed            \* counter of free nodes

vars == <<cache_list, node_list, is_used, nused, nalloced, nfreed>>

Node == Cache \X (1..IncSize)

NodesOf(c) == {c} \X (1..IncSize)

CacheOf(n) == n[1]

UsedIn(c) == is_used \cap NodesOf(c)

-----------------------------------------------------------------------------
(* mempool_alloc allocates the first cache. *)
Init ==
  \E c \in Cache :
    /\ cache_list = {c}
    /\ node_list = NodesOf(c)
    /\ is_used = {}
    /\ nused = [d \in Cache |-> 0]
    /\ nalloced = IncSize
    /\ nfreed = IncSize

(* The node leaves the free list and is counted as used. *)
Get(n) ==
  /\ nfreed # 0
  /\ n \in node_list
  /\ node_list' = node_list \ {n}
  /\ is_used' = is_used \cup {n}
  /\ nused' = [nused EXCEPT ![CacheOf(n)] = @ + 1]
  /\ nfreed' = nfreed - 1
  /\ UNCHANGED <<cache_list, nalloced>>

(* The counters say that nothing is free: a new cache goes on the list     *)
(* first.  When malloc fails, mempool_get returns NULL and changes nothing. *)
GetFresh(c, n) ==
  /\ nfreed = 0
  /\ c \in Cache \ cache_list
  /\ n \in node_list \cup NodesOf(c)
  /\ cache_list' = cache_list \cup {c}
  /\ node_list' = (node_list \cup NodesOf(c)) \ {n}
  /\ is_used' = is_used \cup {n}
  /\ nused' = [[nused EXCEPT ![c] = 0] EXCEPT ![CacheOf(n)] = @ + 1]
  /\ nalloced' = nalloced + IncSize
  /\ nfreed' = nfreed + IncSize - 1

(* Faulty: forgets cache->nused--. *)
PutNode_NusedStays(n) ==
  /\ node_list' = node_list \cup {n}
  /\ is_used' = is_used \ {n}
  /\ nfreed' = nfreed + 1
  /\ UNCHANGED <<cache_list, nused, nalloced>>

(* The node goes back on the list and its cache stays. *)
PutNode(n) ==
  /\ node_list' = node_list \cup {n}
  /\ is_used' = is_used \ {n}
  /\ nused' = [nused EXCEPT ![CacheOf(n)] = @ - 1]
  /\ nfreed' = nfreed + 1
  /\ UNCHANGED <<cache_list, nalloced>>

(* The node was its cache's last used one: the cache's nodes leave the     *)
(* free list and its memory is released.                                   *)
PutNodeAndCache(n) ==
  /\ node_list' = (node_list \cup {n}) \ NodesOf(CacheOf(n))
  /\ is_used' = is_used \ {n}
  /\ nused' = [nused EXCEPT ![CacheOf(n)] = @ - 1]
  /\ cache_list' = cache_list \ {CacheOf(n)}
  /\ nfreed' = nfreed + 1 - IncSize
  /\ nalloced' = nalloced - IncSize

(* Faulty variants of ReleaseDue, for the sensitivity of the properties. *)
ReleaseDue_AnyNode(n) == nfreed + 1 > 2 * IncSize

ReleaseDue_Eager(n) == nused[CacheOf(n)] = 1

ReleaseDue_Lazy(n) == nused[CacheOf(n)] = 1 /\ nfreed + 1 > 3 * IncSize

(* All nodes of the node's cache become free, and too many are free. *)
ReleaseDue(n) ==
  /\ nused[CacheOf(n)] = 1
  /\ nfreed + 1 > 2 * IncSize

(* The caller gives back a node it holds: the assertion is_used == 1. *)
Put(n) ==
  /\ n \in is_used
  /\ IF ReleaseDue(n) THEN PutNodeAndCache(n) ELSE PutNode(n)

Next ==
  \/ \E n \in Node : Get(n)
  \/ \E c \in Cache, n \in Node : GetFresh(c, n)
  \/ \E n \in Node : Put(n)

Spec == Init /\ [][Next]_vars

-----------------------------------------------------------------------------
(* The state has the shape the C structs give it. *)
TypeOK ==
  /\ cache_list \subseteq Cache
  /\ node_list \subseteq Node
  /\ is_used \subseteq Node
  /\ nused \in [Cache -> Nat]
  /\ nalloced \in Nat
  /\ nfreed \in Nat

(* The nodes of the allocated caches are exactly the free and the used     *)
(* ones, and no node is both.                                              *)
Partition ==
  /\ node_list \cap is_used = {}
  /\ node_list \cup is_used = cache_list \X (1..IncSize)

Counters ==
  /\ nfreed = Cardinality(node_list)
  /\ nalloced = IncSize * Cardinality(cache_list)
  /\ \A c \in cache_list : nused[c] = Cardinality(UsedIn(c))

(* The counters of mempool_t and of each cache count what they name, and   *)
(* a used node lies in an allocated cache.  get trusts nfreed instead of   *)
(* the list (a NULL head is dereferenced when it is too high), put trusts  *)
(* nused when it frees a cache (assert(node->is_used == 0), line 197).     *)
Accounting == Partition /\ Counters

(* The caches none of whose nodes is used. *)
Idle == {c \in cache_list : UsedIn(c) = {}}

(* The pool retains at most two caches that nobody uses, however many were *)
(* in use at the peak: the purpose of "too many free nodes" in             *)
(* _op_put_node, which compares a total with 2 * incsize.                  *)
BoundedIdle == Cardinality(Idle) <= 2

(* Releasing a cache leaves more than a cache's worth of free nodes on the *)
(* list, so that the next IncSize gets do not call malloc again.           *)
NoThrash ==
  [][\A c \in cache_list : c \notin cache_list' => Cardinality(node_list') > IncSize]_vars

(* The abstract pool: the objects are the nodes, those of an allocated     *)
(* cache are mapped.                                                       *)
Abstract == INSTANCE ObjPool WITH
  Object <- Node, used <- is_used, mapped <- cache_list \X (1..IncSize)

(* mempool_get and mempool_put keep the promise of ObjPool: never an       *)
(* object handed out twice, never a held object's memory released.         *)
ImplementsObjPool == Abstract!Spec

=============================================================================
