------------------------------ MODULE NodeList ------------------------------
(***************************************************************************)
(* The free list of http/mempool.c with its pointers: a node's next, and   *)
(* its pprev, the address of the pointer that points to it (the pool's     *)
(* node_list or the next of another node).  get takes the head, put and a  *)
(* new cache push at the head, and releasing a cache unlinks its nodes     *)
(* wherever they are.  Implements Mempool.                                 *)
(***************************************************************************)
EXTENDS Integers, FiniteSets

CONSTANTS
  Cache, IncSize,   \* as in Mempool
  NULL,             \* the null pointer
  HEAD              \* the address of the pool's node_list

ASSUME CachesAssumption == IsFiniteSet(Cache) /\ IncSize \in Nat \ {0}
ASSUME AddressAssumption == NULL # HEAD /\ {NULL, HEAD} \cap (Cache \X (1..IncSize)) = {}

VARIABLES
  list,             \* node_list, and next and pprev of every node
  cache_list, is_used, nused, nalloced, nfreed    \* as in Mempool

vars == <<list, cache_list, is_used, nused, nalloced, nfreed>>

Node == Cache \X (1..IncSize)

-----------------------------------------------------------------------------
(* List operations *)

NoList == [head |-> NULL, next |-> [n \in Node |-> NULL], pprev |-> [n \in Node |-> NULL]]

(* n->field = v when n is a node: nothing when it is NULL or the pool *)
Assign(field, n, v) == IF n \in Node THEN [field EXCEPT ![n] = v] ELSE field

Push(l, n) ==
  [head  |-> n,
   next  |-> [l.next EXCEPT ![n] = l.head],
   pprev |-> [Assign(l.pprev, l.head, n) EXCEPT ![n] = HEAD]]

(* Faulty: the new head's pprev still names the node that left. *)
Pop_KeepPrev(l) ==
  [head  |-> l.next[l.head],
   next  |-> [l.next EXCEPT ![l.head] = NULL],
   pprev |-> [l.pprev EXCEPT ![l.head] = NULL]]

Pop(l) ==
  [head  |-> l.next[l.head],
   next  |-> [l.next EXCEPT ![l.head] = NULL],
   pprev |-> [Assign(l.pprev, l.next[l.head], HEAD) EXCEPT ![l.head] = NULL]]

(* The memory of n is released afterwards: its fields are reset here. *)
Unlink(l, n) ==
  LET nx == l.next[n]
      pp == l.pprev[n]
  IN [head  |-> IF pp = HEAD THEN nx ELSE l.head,
      next  |-> [Assign(l.next, pp, nx) EXCEPT ![n] = NULL],
      pprev |-> [Assign(l.pprev, nx, pp) EXCEPT ![n] = NULL]]

(* The loops over a cache's nodes, after the first k: push each in order,   *)
(* unlink each in order.                                                   *)
Pushed(l, c, k) ==
  LET after[i \in 0..k] == IF i = 0 THEN l ELSE Push(after[i - 1], <<c, i>>)
  IN after[k]

PushCache(l, c) == Pushed(l, c, IncSize)

Unlinked(l, c, k) ==
  LET after[i \in 0..k] == IF i = 0 THEN l ELSE Unlink(after[i - 1], <<c, i>>)
  IN after[k]

(* Faulty: stops one node short. *)
UnlinkCache_Short(l, c) == Unlinked(l, c, IncSize - 1)

UnlinkCache(l, c) == Unlinked(l, c, IncSize)

(* The nodes met from the head of l: those in every set that has the head, *)
(* and the next of each of its nodes.                                      *)
Reached(l) ==
  LET Closed == {S \in SUBSET Node :
                  /\ l.head # NULL => l.head \in S
                  /\ \A n \in S : l.next[n] # NULL => l.next[n] \in S}
  IN {n \in Node : \A S \in Closed : n \in S}

Listed == Reached(list)

-----------------------------------------------------------------------------
Init ==
  \E c \in Cache :
    /\ cache_list = {c}
    /\ list = PushCache(NoList, c)
    /\ is_used = {}
    /\ nused = [d \in Cache |-> 0]
    /\ nalloced = IncSize
    /\ nfreed = IncSize

(* The head of the list, after the nodes of a new cache are pushed on it   *)
(* (_op_alloc_cache) when nothing is free.                                 *)
mempool_get ==
  \/ /\ nfreed # 0
     /\ list' = Pop(list)
     /\ is_used' = is_used \cup {list.head}
     /\ nused' = [nused EXCEPT ![list.head[1]] = @ + 1]
     /\ nfreed' = nfreed - 1
     /\ UNCHANGED <<cache_list, nalloced>>
  \/ \E c \in Cache \ cache_list :
       LET fresh == PushCache(list, c) IN
       /\ nfreed = 0
       /\ list' = Pop(fresh)
       /\ cache_list' = cache_list \cup {c}
       /\ is_used' = is_used \cup {fresh.head}
       /\ nused' = [[nused EXCEPT ![c] = 0] EXCEPT ![fresh.head[1]] = @ + 1]
       /\ nalloced' = nalloced + IncSize
       /\ nfreed' = nfreed + IncSize - 1

(* _op_put_node, and _op_free_cache when the cache is to go. *)
PutNode(n) ==
  LET c == n[1]
      release == nused[c] = 1 /\ nfreed + 1 > 2 * IncSize
  IN
  /\ is_used' = is_used \ {n}
  /\ nused' = [nused EXCEPT ![c] = @ - 1]
  /\ \/ /\ ~release
        /\ list' = Push(list, n)
        /\ nfreed' = nfreed + 1
        /\ UNCHANGED <<cache_list, nalloced>>
     \/ /\ release
        /\ list' = UnlinkCache(Push(list, n), c)
        /\ cache_list' = cache_list \ {c}
        /\ nfreed' = nfreed + 1 - IncSize
        /\ nalloced' = nalloced - IncSize

(* The caller holds the node: the assertion is_used == 1. *)
mempool_put(n) == n \in is_used /\ PutNode(n)

Next == mempool_get \/ \E n \in Node : mempool_put(n)

Spec == Init /\ [][Next]_vars

-----------------------------------------------------------------------------
(* Every link of mempool.c's list is a node, the pool, or null. *)
TypeOK ==
  /\ list.head \in Node \cup {NULL}
  /\ list.next \in [Node -> Node \cup {NULL}]
  /\ list.pprev \in [Node -> Node \cup {NULL, HEAD}]
  /\ is_used \subseteq Node /\ cache_list \subseteq Cache
  /\ nused \in [Cache -> Nat] /\ nfreed \in 0..nalloced

(* The list is doubly linked: pprev of a listed node is the address of the *)
(* one pointer that points to it, so that unlinking it in _op_free_cache   *)
(* never leaves a pointer into memory that is then freed; a node off the   *)
(* list is linked to nothing.                                              *)
DoublyLinked ==
  /\ list.head \in Node => list.pprev[list.head] = HEAD
  /\ \A n \in Listed : list.next[n] # NULL => list.pprev[list.next[n]] = n
  /\ \A n \in Node \ Listed : list.next[n] = NULL /\ list.pprev[n] = NULL

Pool == INSTANCE Mempool WITH node_list <- Listed

(* The pointer operations do what Mempool says of the set of free nodes,   *)
(* each call as one step.                                                  *)
ImplementsMempool == Pool!Spec

=============================================================================
