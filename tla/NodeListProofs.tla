---------------------------- MODULE NodeListProofs ----------------------------
(* The free list of mempool.c with its pointers stays a doubly linked list *)
(* and does what Mempool says of the set of free nodes, for every set of   *)
(* caches and every cache size.                                            *)
EXTENDS NodeList, FiniteSetTheorems, WellFoundedInduction, TLAPS

Lists ==
  [head : Node \cup {NULL}, next : [Node -> Node \cup {NULL}],
   pprev : [Node -> Node \cup {NULL, HEAD}]]

(* DoublyLinked of a list. *)
Ring(l) ==
  /\ l.head \in Node => l.pprev[l.head] = HEAD
  /\ \A n \in Reached(l) : l.next[n] # NULL => l.pprev[l.next[n]] = n
  /\ \A n \in Node \ Reached(l) : l.next[n] = NULL /\ l.pprev[n] = NULL

Sane(l) == l \in Lists /\ Ring(l)

(* S has the head of l and, with each node, the next. *)
Closed(l, S) ==
  /\ l.head # NULL => l.head \in S
  /\ \A n \in S : l.next[n] # NULL => l.next[n] \in S

LEMMA Addresses ==
  /\ NULL \notin Node /\ HEAD \notin Node /\ NULL # HEAD
BY AddressAssumption DEF Node

-----------------------------------------------------------------------------
(* The nodes of a list *)

LEMMA ReachedIs ==
  ASSUME NEW l
  PROVE  /\ Reached(l) \subseteq Node
         /\ \A S \in SUBSET Node : Closed(l, S) => Reached(l) \subseteq S
         /\ \A n \in Node : (\A S \in SUBSET Node : Closed(l, S) => n \in S) => n \in Reached(l)
BY DEF Reached, Closed

LEMMA ReachedClosed ==
  ASSUME NEW l \in Lists
  PROVE  Closed(l, Reached(l))
<1>1. l.head # NULL => l.head \in Reached(l)
  BY ReachedIs DEF Closed, Lists
<1>2. ASSUME NEW n \in Reached(l), l.next[n] # NULL
      PROVE  l.next[n] \in Reached(l)
  <2>1. n \in Node /\ l.next[n] \in Node
    BY <1>2, ReachedIs DEF Lists
  <2>2. ASSUME NEW S \in SUBSET Node, Closed(l, S)
        PROVE  l.next[n] \in S
    BY <1>2, <2>2, ReachedIs DEF Closed
  <2>. QED
    BY <2>1, <2>2, ReachedIs
<1>. QED
  BY <1>1, <1>2 DEF Closed

(* A node of the list is its head or comes after another node of it. *)
LEMMA Predecessor ==
  ASSUME NEW l \in Lists, NEW n \in Reached(l)
  PROVE  l.head = n \/ \E m \in Reached(l) : l.next[m] = n
<1>. SUFFICES ASSUME l.head # n, \A m \in Reached(l) : l.next[m] # n
              PROVE  FALSE
  OBVIOUS
<1>1. Closed(l, Reached(l))
  BY ReachedClosed
<1>2. Closed(l, Reached(l) \ {n})
  BY <1>1 DEF Closed
<1>. QED
  BY <1>2, ReachedIs

(* S is what can be reached when it is closed and in every closed set. *)
LEMMA ReachedEqual ==
  ASSUME NEW l, NEW S \in SUBSET Node, Closed(l, S),
         \A T \in SUBSET Node : Closed(l, T) => S \subseteq T
  PROVE  Reached(l) = S
BY ReachedIs

LEMMA PushIs ==
  ASSUME NEW l, Sane(l), NEW n \in Node \ Reached(l)
  PROVE  Sane(Push(l, n)) /\ Reached(Push(l, n)) = Reached(l) \cup {n} /\ Push(l, n).head = n
<1>1. PICK k : k = Push(l, n)
  OBVIOUS
<1>2. l \in Lists /\ Ring(l) /\ Closed(l, Reached(l)) /\ Reached(l) \subseteq Node
  BY ReachedClosed, ReachedIs DEF Sane
<1>3. /\ k \in Lists /\ k.head = n
      /\ \A m \in Node : k.next[m] = IF m = n THEN l.head ELSE l.next[m]
      /\ \A m \in Node : k.pprev[m] = IF m = n THEN HEAD ELSE IF m = l.head THEN n ELSE l.pprev[m]
  BY <1>1, <1>2 DEF Push, Assign, Lists
<1>4. Reached(k) = Reached(l) \cup {n}
  <2>1. Closed(k, Reached(l) \cup {n})
    BY <1>2, <1>3 DEF Closed
  <2>2. ASSUME NEW T \in SUBSET Node, Closed(k, T) PROVE Reached(l) \cup {n} \subseteq T
    <3>1. n \in T
      BY <1>3, <2>2, Addresses DEF Closed
    <3>2. Closed(l, T \cap Reached(l))
      <4>1. l.head # NULL => l.head \in T
        BY <1>3, <2>2, <3>1 DEF Closed
      <4>. QED
        BY <1>2, <1>3, <2>2, <4>1 DEF Closed
    <3>3. Reached(l) \subseteq T
      BY <1>2, <3>2, ReachedIs
    <3>. QED
      BY <3>1, <3>3
  <2>. QED
    BY <1>2, <2>1, <2>2, ReachedEqual
<1>5. Ring(k)
  <2>1. k.pprev[k.head] = HEAD
    BY <1>3
  <2>2. ASSUME NEW m \in Reached(k), k.next[m] # NULL PROVE k.pprev[k.next[m]] = m
    <3>1. CASE m = n
      BY <1>2, <1>3, <2>2, <3>1 DEF Closed
    <3>2. CASE m # n
      <4>1. /\ m \in Reached(l) /\ m \in Node /\ k.next[m] = l.next[m] /\ l.next[m] \in Reached(l)
            /\ l.pprev[l.next[m]] = m
        BY <1>2, <1>3, <1>4, <2>2, <3>2 DEF Closed, Ring
      <4>2. l.next[m] # l.head /\ l.next[m] # n
        BY <1>2, <4>1, Addresses DEF Ring
      <4>. QED
        BY <1>2, <1>3, <4>1, <4>2
    <3>. QED
      BY <3>1, <3>2
  <2>3. ASSUME NEW m \in Node \ Reached(k) PROVE k.next[m] = NULL /\ k.pprev[m] = NULL
    <3>1. m \in Node \ Reached(l) /\ m # n /\ m # l.head
      BY <1>2, <1>4, Addresses DEF Closed
    <3>. QED
      BY <1>2, <1>3, <3>1 DEF Ring
  <2>. QED
    BY <2>1, <2>2, <2>3 DEF Ring
<1>. QED
  BY <1>1, <1>3, <1>4, <1>5 DEF Sane

(* Unlinking needs what pprev says: the one pointer to n. *)
LEMMA UnlinkIs ==
  ASSUME NEW l, Sane(l), NEW n \in Reached(l)
  PROVE  Sane(Unlink(l, n)) /\ Reached(Unlink(l, n)) = Reached(l) \ {n}
<1>1. PICK k : k = Unlink(l, n)
  OBVIOUS
<1>2. l \in Lists /\ Ring(l) /\ Closed(l, Reached(l)) /\ Reached(l) \subseteq Node /\ n \in Node
  BY ReachedClosed, ReachedIs DEF Sane
<1>3. PICK p, x : p = l.pprev[n] /\ x = l.next[n]
  OBVIOUS
<1>4. \/ p = HEAD /\ l.head = n /\ \A m \in Reached(l) : l.next[m] # n
      \/ /\ p \in Reached(l) /\ p # n /\ l.head # n /\ l.next[p] = n
         /\ \A m \in Reached(l) : l.next[m] = n => m = p
  <2>1. \A m \in Reached(l) : l.next[m] = n => m = p
    BY <1>2, <1>3, Addresses DEF Ring
  <2>2. CASE l.head = n
    BY <1>2, <1>3, <2>1, <2>2, Addresses DEF Ring
  <2>3. CASE l.head # n
    <3>1. p \in Reached(l) /\ l.next[p] = n
      BY <1>2, <2>1, <2>3, Predecessor
    <3>2. p # n
      <4>1. Closed(l, Reached(l) \ {n}) \/ p # n
        BY <1>2, <2>1, <2>3 DEF Closed
      <4>. QED
        BY <1>2, <4>1, ReachedIs
    <3>. QED
      BY <2>1, <2>3, <3>1, <3>2
  <2>. QED
    BY <2>2, <2>3
<1>5. x # n /\ x \in Reached(l) \cup {NULL}
  BY <1>2, <1>3, <1>4, Addresses DEF Closed
<1>6. /\ k \in Lists /\ k.head = (IF p = HEAD THEN x ELSE l.head)
      /\ \A m \in Node : k.next[m] = IF m = n THEN NULL ELSE IF m = p THEN x ELSE l.next[m]
      /\ \A m \in Node : k.pprev[m] = IF m = n THEN NULL ELSE IF m = x THEN p ELSE l.pprev[m]
  BY <1>1, <1>2, <1>3, <1>5, Addresses DEF Unlink, Assign, Lists
<1>7. Reached(k) = Reached(l) \ {n}
  <2>1. Closed(k, Reached(l) \ {n})
    <3>1. k.head # NULL => k.head \in Reached(l) \ {n}
      BY <1>2, <1>4, <1>5, <1>6, Addresses DEF Closed
    <3>2. ASSUME NEW m \in Reached(l) \ {n}, k.next[m] # NULL PROVE k.next[m] \in Reached(l) \ {n}
      BY <1>2, <1>4, <1>5, <1>6, <3>2 DEF Closed
    <3>. QED
      BY <3>1, <3>2 DEF Closed
  <2>2. ASSUME NEW T \in SUBSET Node, Closed(k, T) PROVE Reached(l) \ {n} \subseteq T
    <3>. DEFINE U == (T \cap Reached(l)) \ {n}
    <3>1. CASE p = HEAD \/ p \in T
      <4>1. x # NULL => x \in T
        BY <1>2, <1>4, <1>5, <1>6, <2>2, <3>1, Addresses DEF Closed
      <4>2. Closed(l, U \cup {n})
        <5>1. l.head # NULL => l.head \in U \cup {n}
          BY <1>2, <1>4, <1>6, <2>2, Addresses DEF Closed
        <5>2. ASSUME NEW m \in U \cup {n}, l.next[m] # NULL PROVE l.next[m] \in U \cup {n}
          <6>1. CASE m = n
            BY <1>3, <1>5, <4>1, <5>2, <6>1
          <6>2. CASE m # n /\ m # p
            <7>1. m \in Node /\ m \in T /\ m \in Reached(l)
              BY <6>2
            <7>2. k.next[m] = l.next[m]
              BY <1>6, <6>2, <7>1
            <7>3. l.next[m] \in T /\ l.next[m] \in Reached(l)
              BY <1>2, <2>2, <5>2, <7>1, <7>2 DEF Closed
            <7>. QED
              BY <7>3
          <6>3. CASE m # n /\ m = p
            BY <1>2, <1>4, <6>3, Addresses
          <6>. QED
            BY <6>1, <6>2, <6>3
        <5>. QED
          BY <5>1, <5>2 DEF Closed
      <4>3. Reached(l) \subseteq U \cup {n}
        BY <1>2, <4>2, ReachedIs
      <4>. QED
        BY <4>3
    <3>2. CASE p # HEAD /\ p \notin T
      <4>1. p \in Reached(l) /\ l.head # n /\ l.head = k.head
        BY <1>4, <1>6, <3>2
      <4>2. Closed(l, U)
        <5>1. l.head # NULL => l.head \in U
          BY <1>2, <2>2, <4>1 DEF Closed
        <5>2. ASSUME NEW m \in U, l.next[m] # NULL PROVE l.next[m] \in U
          <6>1. m \in Node /\ m # n /\ m # p /\ m \in T /\ m \in Reached(l)
            BY <3>2
          <6>2. k.next[m] = l.next[m] /\ l.next[m] # n
            BY <1>4, <1>6, <6>1
          <6>3. l.next[m] \in T /\ l.next[m] \in Reached(l)
            BY <1>2, <2>2, <5>2, <6>1, <6>2 DEF Closed
          <6>. QED
            BY <6>2, <6>3
        <5>. QED
          BY <5>1, <5>2 DEF Closed
      <4>3. Reached(l) \subseteq U
        BY <1>2, <4>2, ReachedIs
      <4>. QED
        BY <3>2, <4>1, <4>3
    <3>. QED
      BY <3>1, <3>2
  <2>. QED
    BY <1>2, <2>1, <2>2, ReachedEqual
<1>8. Ring(k)
  <2>1. ASSUME k.head \in Node PROVE k.pprev[k.head] = HEAD
    <3>1. CASE p = HEAD
      BY <1>5, <1>6, <2>1, <3>1
    <3>2. CASE p # HEAD
      <4>1. k.head = l.head /\ l.head # n /\ l.head \in Node /\ l.pprev[l.head] = HEAD
        BY <1>2, <1>4, <1>6, <2>1, <3>2 DEF Ring
      <4>2. l.head # x
        BY <1>2, <1>3, <3>2, <4>1, Addresses DEF Ring
      <4>. QED
        BY <1>6, <4>1, <4>2
    <3>. QED
      BY <3>1, <3>2
  <2>2. ASSUME NEW m \in Reached(k), k.next[m] # NULL PROVE k.pprev[k.next[m]] = m
    <3>0. m \in Reached(l) /\ m # n /\ m \in Node
      BY <1>2, <1>7
    <3>1. CASE m = p
      BY <1>2, <1>5, <1>6, <2>2, <3>0, <3>1
    <3>2. CASE m # p
      <4>1. /\ k.next[m] = l.next[m] /\ l.next[m] \in Reached(l) /\ l.pprev[l.next[m]] = m
            /\ l.next[m] # n
        BY <1>2, <1>4, <1>6, <2>2, <3>0, <3>2 DEF Ring, Closed
      <4>2. l.next[m] # x
        <5>1. x # NULL => l.pprev[x] = n
          BY <1>2, <1>3 DEF Ring
        <5>. QED
          BY <1>2, <3>0, <4>1, <5>1, Addresses
      <4>. QED
        BY <1>2, <1>6, <4>1, <4>2
    <3>. QED
      BY <3>1, <3>2
  <2>3. ASSUME NEW m \in Node \ Reached(k) PROVE k.next[m] = NULL /\ k.pprev[m] = NULL
    <3>1. CASE m = n
      BY <1>2, <1>6, <3>1
    <3>2. CASE m # n
      <4>1. m \in Node \ Reached(l) /\ m # p /\ m # x
        BY <1>2, <1>4, <1>5, <1>7, <3>2, Addresses
      <4>. QED
        BY <1>2, <1>6, <3>2, <4>1 DEF Ring
    <3>. QED
      BY <3>1, <3>2
  <2>. QED
    BY <2>1, <2>2, <2>3 DEF Ring
<1>. QED
  BY <1>1, <1>6, <1>7, <1>8 DEF Sane

LEMMA PopIs ==
  ASSUME NEW l, Sane(l), Reached(l) # {}
  PROVE  l.head \in Reached(l) /\ Sane(Pop(l)) /\ Reached(Pop(l)) = Reached(l) \ {l.head}
<1>1. l \in Lists /\ Ring(l) /\ Closed(l, Reached(l)) /\ Reached(l) \subseteq Node
  BY ReachedClosed, ReachedIs DEF Sane
<1>2. l.head \in Reached(l)
  <2>1. l.head = NULL => Closed(l, {})
    BY DEF Closed
  <2>2. l.head # NULL
    BY <2>1, ReachedIs
  <2>. QED
    BY <1>1, <2>2 DEF Closed
<1>3. l.pprev[l.head] = HEAD
  BY <1>1, <1>2 DEF Ring
<1>4. Pop(l) = Unlink(l, l.head)
  BY <1>3, Addresses DEF Pop, Unlink, Assign
<1>. QED
  BY <1>2, <1>4, UnlinkIs

-----------------------------------------------------------------------------
(* The loops over a cache *)

LEMMA SetInduction ==
  ASSUME NEW S \in SUBSET Nat, 0 \in S, \A n \in S : n + 1 \in S
  PROVE  S = Nat
<1>. SUFFICES ASSUME Nat \ S # {} PROVE FALSE
  OBVIOUS
<1>1. PICK x \in Nat \ S : \A y \in Nat \ S : ~ (<<y, x>> \in OpToRel(<, Nat))
  BY NatLessThanWellFounded, WFMin
<1>2. x # 0 /\ x - 1 \in Nat /\ x - 1 < x /\ (x - 1) + 1 = x
  OBVIOUS
<1>3. <<x - 1, x>> \in OpToRel(<, Nat)
  BY <1>2 DEF OpToRel
<1>4. x - 1 \in S
  BY <1>1, <1>2, <1>3
<1>. QED
  BY <1>2, <1>4

(* One turn of a loop, and the lists after each turn. *)
Turn(how, l, n) == IF how = "push" THEN Push(l, n) ELSE Unlink(l, n)

Turns(how, l, c, k, f) ==
  f = [i \in 0..k |-> IF i = 0 THEN l ELSE Turn(how, f[i - 1], <<c, i>>)]

LEMMA LoopRuns ==
  ASSUME NEW how, NEW l, NEW c, NEW k \in Nat
  PROVE  \E f : Turns(how, l, c, k, f)
<1>. DEFINE S == {n \in Nat : \E f : Turns(how, l, c, n, f)}
<1>1. 0 \in S
  <2>1. [i \in 0..0 |-> l] = [i \in 0..0 |-> IF i = 0 THEN l ELSE Turn(how, [j \in 0..0 |-> l][i - 1], <<c, i>>)]
    OBVIOUS
  <2>. QED
    BY <2>1 DEF Turns
<1>2. ASSUME NEW n \in S PROVE n + 1 \in S
  <2>1. PICK f : f = [i \in 0..n |-> IF i = 0 THEN l ELSE Turn(how, f[i - 1], <<c, i>>)]
    BY <1>2 DEF Turns
  <2>2. PICK g : g = [i \in 0..(n + 1) |-> IF i = n + 1 THEN Turn(how, f[n], <<c, n + 1>>) ELSE f[i]]
    OBVIOUS
  <2>3. ASSUME NEW i \in 0..(n + 1)
        PROVE  g[i] = IF i = 0 THEN l ELSE Turn(how, g[i - 1], <<c, i>>)
    <3>1. CASE i = n + 1
      <4>1. g[i] = Turn(how, f[n], <<c, i>>) /\ n \in 0..(n + 1) /\ n # n + 1 /\ i # 0 /\ i - 1 = n
        BY <2>2, <3>1
      <4>2. g[i - 1] = f[n]
        BY <2>2, <4>1
      <4>. QED
        BY <4>1, <4>2
    <3>2. CASE i = 0
      <4>1. 0 \in 0..n /\ 0 # n + 1 /\ 0 \in 0..(n + 1)
        OBVIOUS
      <4>2. g[0] = f[0] /\ f[0] = l
        BY <2>1, <2>2, <4>1
      <4>. QED
        BY <3>2, <4>2
    <3>3. CASE i # n + 1 /\ i # 0
      <4>1. i \in 0..n /\ i - 1 \in 0..n /\ i - 1 \in 0..(n + 1) /\ i - 1 # n + 1
        BY <3>3
      <4>2. g[i] = f[i] /\ g[i - 1] = f[i - 1]
        BY <2>2, <3>3, <4>1
      <4>3. f[i] = Turn(how, f[i - 1], <<c, i>>)
        BY <2>1, <3>3, <4>1
      <4>. QED
        BY <3>3, <4>2, <4>3
    <3>. QED
      BY <3>1, <3>2, <3>3
  <2>4. g = [i \in 0..(n + 1) |-> IF i = 0 THEN l ELSE Turn(how, g[i - 1], <<c, i>>)]
    BY <2>2, <2>3
  <2>. QED
    BY <2>4 DEF Turns
<1>3. S \in SUBSET Nat
  OBVIOUS
<1>4. S = Nat
  <2>. HIDE DEF S
  <2>. QED
    BY <1>1, <1>2, <1>3, SetInduction
<1>. QED
  BY <1>4

LEMMA PushCacheIs ==
  ASSUME NEW l, Sane(l), NEW c \in Cache, Reached(l) \cap ({c} \X (1..IncSize)) = {}
  PROVE  /\ Sane(PushCache(l, c))
         /\ Reached(PushCache(l, c)) = Reached(l) \cup ({c} \X (1..IncSize))
<1>1. PICK f : /\ f = [i \in 0..IncSize |-> IF i = 0 THEN l ELSE Push(f[i - 1], <<c, i>>)]
               /\ PushCache(l, c) = f[IncSize]
  <2>1. \E f : Turns("push", l, c, IncSize, f)
    BY CachesAssumption, LoopRuns
  <2>2. PushCache(l, c) = (CHOOSE f : Turns("push", l, c, IncSize, f))[IncSize]
    BY DEF PushCache, Pushed, Turns, Turn
  <2>. QED
    BY <2>1, <2>2 DEF Turns, Turn
<1>. DEFINE P(i) == Sane(f[i]) /\ Reached(f[i]) = Reached(l) \cup ({c} \X (1..i))
            S == {i \in Nat : i <= IncSize => P(i)}
<1>2. 0 \in S
  <2>1. f[0] = l
    BY <1>1, CachesAssumption
  <2>. QED
    BY <2>1
<1>3. ASSUME NEW i \in S PROVE i + 1 \in S
  <2>. SUFFICES ASSUME i + 1 <= IncSize PROVE P(i + 1)
    OBVIOUS
  <2>1. P(i) /\ i \in Nat
    BY <1>3, CachesAssumption
  <2>2. f[i + 1] = Push(f[i], <<c, i + 1>>)
    BY <1>1, <2>1, CachesAssumption
  <2>3. <<c, i + 1>> \in Node \ Reached(f[i])
    BY <2>1 DEF Node
  <2>4. Sane(f[i + 1]) /\ Reached(f[i + 1]) = Reached(f[i]) \cup {<<c, i + 1>>}
    BY <2>1, <2>2, <2>3, PushIs
  <2>5. {c} \X (1..(i + 1)) = ({c} \X (1..i)) \cup {<<c, i + 1>>}
    <3>1. 1..(i + 1) = (1..i) \cup {i + 1}
      BY <2>1
    <3>. QED
      BY <3>1
  <2>. QED
    BY <2>1, <2>4, <2>5
<1>4. S = Nat
  <2>. HIDE DEF S
  <2>1. S \in SUBSET Nat
    BY DEF S
  <2>. QED
    BY <1>2, <1>3, <2>1, SetInduction
<1>5. P(IncSize)
  BY <1>4, CachesAssumption
<1>. QED
  BY <1>1, <1>5

LEMMA UnlinkCacheIs ==
  ASSUME NEW l, Sane(l), NEW c \in Cache, {c} \X (1..IncSize) \subseteq Reached(l)
  PROVE  /\ Sane(UnlinkCache(l, c))
         /\ Reached(UnlinkCache(l, c)) = Reached(l) \ ({c} \X (1..IncSize))
<1>1. PICK f : /\ f = [i \in 0..IncSize |-> IF i = 0 THEN l ELSE Unlink(f[i - 1], <<c, i>>)]
               /\ UnlinkCache(l, c) = f[IncSize]
  <2>1. \E f : Turns("unlink", l, c, IncSize, f)
    BY CachesAssumption, LoopRuns
  <2>2. UnlinkCache(l, c) = (CHOOSE f : Turns("unlink", l, c, IncSize, f))[IncSize]
    BY DEF UnlinkCache, Unlinked, Turns, Turn
  <2>. QED
    BY <2>1, <2>2 DEF Turns, Turn
<1>. DEFINE P(i) == Sane(f[i]) /\ Reached(f[i]) = Reached(l) \ ({c} \X (1..i))
            S == {i \in Nat : i <= IncSize => P(i)}
<1>2. 0 \in S
  <2>1. f[0] = l
    BY <1>1, CachesAssumption
  <2>. QED
    BY <2>1
<1>3. ASSUME NEW i \in S PROVE i + 1 \in S
  <2>. SUFFICES ASSUME i + 1 <= IncSize PROVE P(i + 1)
    OBVIOUS
  <2>1. P(i) /\ i \in Nat
    BY <1>3, CachesAssumption
  <2>2. f[i + 1] = Unlink(f[i], <<c, i + 1>>)
    BY <1>1, <2>1, CachesAssumption
  <2>3. <<c, i + 1>> \in Reached(f[i])
    BY <2>1
  <2>4. Sane(f[i + 1]) /\ Reached(f[i + 1]) = Reached(f[i]) \ {<<c, i + 1>>}
    BY <2>1, <2>2, <2>3, UnlinkIs
  <2>5. {c} \X (1..(i + 1)) = ({c} \X (1..i)) \cup {<<c, i + 1>>}
    <3>1. 1..(i + 1) = (1..i) \cup {i + 1}
      BY <2>1
    <3>. QED
      BY <3>1
  <2>. QED
    BY <2>1, <2>4, <2>5
<1>4. S = Nat
  <2>. HIDE DEF S
  <2>1. S \in SUBSET Nat
    BY DEF S
  <2>. QED
    BY <1>2, <1>3, <2>1, SetInduction
<1>5. P(IncSize)
  BY <1>4, CachesAssumption
<1>. QED
  BY <1>1, <1>5

-----------------------------------------------------------------------------
(* The pool *)

(* What is proved of Mempool, of the set of the listed nodes. *)
Sets == INSTANCE MempoolProofs WITH node_list <- Listed

IInv == Sane(list) /\ Sets!Inv

LEMMA SetsAssumptions == Sets!IsFiniteSet(Cache) /\ IncSize \in Nat \ {0}
BY CachesAssumption DEF Sets!IsFiniteSet, IsFiniteSet

LEMMA SetsAre ==
  /\ Sets!TypeOK <=> Pool!TypeOK
  /\ Sets!Partition <=> Pool!Partition
  /\ \A n : Pool!Get(n) <=> Sets!Get(n)
  /\ \A c, n : Pool!GetFresh(c, n) <=> Sets!GetFresh(c, n)
  /\ \A n : Pool!Put(n) <=> Sets!Put(n)
<1>1. \A S : Sets!Cardinality(S) = Cardinality(S)
  BY DEF Sets!Cardinality, Cardinality
<1>2. Sets!TypeOK <=> Pool!TypeOK
  BY DEF Sets!TypeOK, Pool!TypeOK, Sets!Node, Pool!Node
<1>3. Sets!Partition <=> Pool!Partition
  BY DEF Sets!Partition, Pool!Partition
<1>4. \A n : Pool!Get(n) <=> Sets!Get(n)
  BY DEF Sets!Get, Pool!Get, Sets!CacheOf, Pool!CacheOf
<1>5. \A c, n : Pool!GetFresh(c, n) <=> Sets!GetFresh(c, n)
  BY DEF Sets!GetFresh, Pool!GetFresh, Sets!CacheOf, Pool!CacheOf, Sets!NodesOf, Pool!NodesOf
<1>6. \A n : Pool!Put(n) <=> Sets!Put(n)
  BY DEF Sets!Put, Pool!Put, Sets!PutNode, Pool!PutNode, Sets!PutNodeAndCache, Pool!PutNodeAndCache,
         Sets!ReleaseDue, Pool!ReleaseDue, Sets!CacheOf, Pool!CacheOf, Sets!NodesOf, Pool!NodesOf
<1>. QED
  BY <1>2, <1>3, <1>4, <1>5, <1>6

LEMMA InvIs ==
  ASSUME Sets!Inv
  PROVE  /\ cache_list \subseteq Cache /\ is_used \subseteq Node /\ nused \in [Cache -> Nat]
         /\ nfreed \in Nat /\ nalloced \in Nat
         /\ Listed \cap is_used = {} /\ Listed \cup is_used = cache_list \X (1..IncSize)
         /\ nfreed = Cardinality(Listed) /\ nalloced = IncSize * Cardinality(cache_list)
         /\ \A c \in cache_list : nused[c] = Cardinality(is_used \cap ({c} \X (1..IncSize)))
<1>1. \A S : Sets!Cardinality(S) = Cardinality(S)
  BY DEF Sets!Cardinality, Cardinality
<1>2. Sets!TypeOK /\ Sets!Partition /\ Sets!Counters
  BY DEF Sets!Inv, Sets!Accounting
<1>3. /\ cache_list \subseteq Cache /\ is_used \subseteq Node /\ nused \in [Cache -> Nat]
      /\ nfreed \in Nat /\ nalloced \in Nat
  BY <1>2 DEF Sets!TypeOK, Sets!Node, Node
<1>4. Listed \cap is_used = {} /\ Listed \cup is_used = cache_list \X (1..IncSize)
  BY <1>2 DEF Sets!Partition
<1>5. /\ nfreed = Cardinality(Listed) /\ nalloced = IncSize * Cardinality(cache_list)
      /\ \A c \in cache_list : nused[c] = Cardinality(is_used \cap ({c} \X (1..IncSize)))
  BY <1>1, <1>2 DEF Sets!Counters, Sets!UsedIn, Sets!NodesOf
<1>. QED
  BY <1>3, <1>4, <1>5

LEMMA NodesFinite ==
  /\ IsFiniteSet(1..IncSize) /\ Cardinality(1..IncSize) = IncSize
  /\ \A S \in SUBSET Cache :
       /\ IsFiniteSet(S) /\ Cardinality(S) \in Nat
       /\ IsFiniteSet(S \X (1..IncSize))
       /\ Cardinality(S \X (1..IncSize)) = Cardinality(S) * IncSize
  /\ IsFiniteSet(Node) /\ \A S \in SUBSET Node : IsFiniteSet(S) /\ Cardinality(S) \in Nat
<1>1. IsFiniteSet(1..IncSize) /\ Cardinality(1..IncSize) = IncSize
  BY CachesAssumption, FS_Interval
<1>2. \A S \in SUBSET Cache : IsFiniteSet(S) /\ Cardinality(S) \in Nat
  BY CachesAssumption, FS_Subset, FS_CardinalityType
<1>3. \A S \in SUBSET Cache : /\ IsFiniteSet(S \X (1..IncSize))
                              /\ Cardinality(S \X (1..IncSize)) = Cardinality(S) * IncSize
  BY <1>1, <1>2, FS_Product
<1>4. IsFiniteSet(Node)
  BY <1>3 DEF Node
<1>5. \A S \in SUBSET Node : IsFiniteSet(S) /\ Cardinality(S) \in Nat
  BY <1>4, FS_Subset, FS_CardinalityType
<1>. QED
  BY <1>1, <1>2, <1>3, <1>4, <1>5

(* mempool_get takes the counter's word that the list has a head.          *)
LEMMA GetStep ==
  ASSUME IInv, mempool_get
  PROVE  Sane(list') /\ Pool!Next
<1>1. /\ cache_list \subseteq Cache /\ is_used \subseteq Node
      /\ Listed \subseteq Node /\ nfreed = Cardinality(Listed)
  BY InvIs, ReachedIs DEF IInv, Listed
<1>2. ASSUME nfreed # 0, list' = Pop(list), is_used' = is_used \cup {list.head},
             nused' = [nused EXCEPT ![list.head[1]] = @ + 1], nfreed' = nfreed - 1,
             UNCHANGED <<cache_list, nalloced>>
      PROVE  Sane(list') /\ Pool!Next
  <2>1. Listed # {}
    BY <1>1, <1>2, FS_EmptySet
  <2>2. list.head \in Listed /\ Sane(list') /\ Listed' = Listed \ {list.head}
    BY <1>2, <2>1, PopIs DEF IInv, Listed
  <2>3. list.head \in Pool!Node
    BY <1>1, <2>2 DEF Pool!Node, Node
  <2>4. Pool!Get(list.head)
    BY <1>2, <2>2 DEF Pool!Get, Pool!CacheOf
  <2>. QED
    BY <2>2, <2>3, <2>4 DEF Pool!Next
<1>3. ASSUME NEW c \in Cache \ cache_list, nfreed = 0, NEW fresh, fresh = PushCache(list, c),
             list' = Pop(fresh), cache_list' = cache_list \cup {c},
             is_used' = is_used \cup {fresh.head},
             nused' = [[nused EXCEPT ![c] = 0] EXCEPT ![fresh.head[1]] = @ + 1],
             nalloced' = nalloced + IncSize, nfreed' = nfreed + IncSize - 1
      PROVE  Sane(list') /\ Pool!Next
  <2>1. Listed = {}
    BY <1>1, <1>3, NodesFinite, FS_EmptySet
  <2>2. Sane(fresh) /\ Reached(fresh) = {c} \X (1..IncSize)
    BY <1>3, <2>1, PushCacheIs DEF IInv, Listed
  <2>3. <<c, 1>> \in Reached(fresh)
    BY <2>2, CachesAssumption
  <2>4. fresh.head \in Reached(fresh) /\ Sane(list') /\ Listed' = Reached(fresh) \ {fresh.head}
    BY <1>3, <2>2, <2>3, PopIs DEF Listed
  <2>5. fresh.head \in Pool!Node
    BY <2>2, <2>4 DEF Pool!Node
  <2>6. Pool!GetFresh(c, fresh.head)
    BY <1>3, <2>1, <2>2, <2>4 DEF Pool!GetFresh, Pool!CacheOf, Pool!NodesOf
  <2>. QED
    BY <2>4, <2>5, <2>6 DEF Pool!Next
<1>. QED
  BY <1>2, <1>3 DEF mempool_get

(* mempool_put: the nodes of a cache that goes are all on the list.        *)
LEMMA PutStep ==
  ASSUME IInv, NEW n \in Node, mempool_put(n)
  PROVE  Sane(list') /\ Pool!Next
<1>1. /\ cache_list \subseteq Cache /\ is_used \subseteq Node
      /\ Listed \cap is_used = {} /\ Listed \cup is_used = cache_list \X (1..IncSize)
      /\ \A c \in cache_list : nused[c] = Cardinality(is_used \cap ({c} \X (1..IncSize)))
  BY InvIs DEF IInv
<1>2. PICK c : c = n[1]
  OBVIOUS
<1>3. n \in is_used /\ n \notin Listed /\ c \in cache_list /\ n \in {c} \X (1..IncSize)
  BY <1>1, <1>2 DEF mempool_put, Node
<1>4. PICK l : l = Push(list, n)
  OBVIOUS
<1>5. Sane(l) /\ Reached(l) = Listed \cup {n}
  BY <1>3, <1>4, PushIs DEF IInv, Listed
<1>6. n \in Pool!Node
  BY DEF Pool!Node, Node
<1>7. CASE nused[c] = 1 /\ nfreed + 1 > 2 * IncSize
  <2>1. /\ is_used' = is_used \ {n} /\ nused' = [nused EXCEPT ![c] = @ - 1]
        /\ list' = UnlinkCache(l, c) /\ cache_list' = cache_list \ {c}
        /\ nfreed' = nfreed + 1 - IncSize /\ nalloced' = nalloced - IncSize
    BY <1>2, <1>4, <1>7 DEF mempool_put, PutNode
  <2>2. {c} \X (1..IncSize) \subseteq Reached(l)
    <3>. DEFINE U == is_used \cap ({c} \X (1..IncSize))
    <3>1. IsFiniteSet(U) /\ Cardinality(U) = 1 /\ n \in U
      BY <1>1, <1>3, <1>7, NodesFinite
    <3>2. Cardinality(U \ {n}) = 0 /\ IsFiniteSet(U \ {n})
      <4>. HIDE DEF U
      <4>. QED
        BY <3>1, FS_RemoveElement, FS_Subset
    <3>3. U \ {n} = {}
      BY <3>2, FS_EmptySet
    <3>4. ASSUME NEW m \in {c} \X (1..IncSize) PROVE m \in Listed \cup {n}
      <4>1. m \in Listed \cup is_used
        BY <1>1, <1>3
      <4>. QED
        BY <3>3, <4>1
    <3>. QED
      BY <1>5, <3>4
  <2>3. Sane(list') /\ Listed' = (Listed \cup {n}) \ ({c} \X (1..IncSize))
    BY <1>1, <1>3, <1>5, <2>1, <2>2, UnlinkCacheIs DEF Listed
  <2>4. Pool!PutNodeAndCache(n)
    BY <1>2, <2>1, <2>3 DEF Pool!PutNodeAndCache, Pool!CacheOf, Pool!NodesOf
  <2>5. Pool!Put(n)
    BY <1>2, <1>3, <1>7, <2>4 DEF Pool!Put, Pool!ReleaseDue, Pool!CacheOf
  <2>. QED
    BY <1>6, <2>3, <2>5 DEF Pool!Next
<1>8. CASE ~(nused[c] = 1 /\ nfreed + 1 > 2 * IncSize)
  <2>1. /\ is_used' = is_used \ {n} /\ nused' = [nused EXCEPT ![c] = @ - 1]
        /\ list' = l /\ nfreed' = nfreed + 1 /\ UNCHANGED <<cache_list, nalloced>>
    BY <1>2, <1>4, <1>8 DEF mempool_put, PutNode
  <2>2. Sane(list') /\ Listed' = Listed \cup {n}
    BY <1>5, <2>1 DEF Listed
  <2>3. Pool!PutNode(n)
    BY <1>2, <2>1, <2>2 DEF Pool!PutNode, Pool!CacheOf
  <2>4. Pool!Put(n)
    BY <1>2, <1>3, <1>8, <2>3 DEF Pool!Put, Pool!ReleaseDue, Pool!CacheOf
  <2>. QED
    BY <1>6, <2>2, <2>4 DEF Pool!Next
<1>. QED
  BY <1>7, <1>8

LEMMA InitStep == Init => IInv /\ Pool!Init
<1>. SUFFICES ASSUME Init PROVE IInv /\ Pool!Init
  OBVIOUS
<1>1. PICK c \in Cache : cache_list = {c} /\ list = PushCache(NoList, c)
  BY DEF Init
<1>2. Sane(NoList) /\ Reached(NoList) = {}
  <2>1. NoList \in Lists /\ NoList.head = NULL /\ \A n \in Node : NoList.next[n] = NULL /\ NoList.pprev[n] = NULL
    BY DEF NoList, Lists
  <2>2. Reached(NoList) = {}
    <3>1. Closed(NoList, {})
      BY <2>1 DEF Closed
    <3>. QED
      BY <3>1, ReachedIs
  <2>3. Ring(NoList)
    BY <2>1, <2>2, Addresses DEF Ring
  <2>. QED
    BY <2>1, <2>2, <2>3 DEF Sane
<1>3. Sane(list) /\ Listed = {c} \X (1..IncSize)
  BY <1>1, <1>2, PushCacheIs DEF Listed
<1>4. Pool!Init /\ Sets!Init
  BY <1>1, <1>3 DEF Init, Pool!Init, Sets!Init, Pool!NodesOf, Sets!NodesOf
<1>5. Sets!Inv
  BY <1>4, Sets!InitInv, SetsAssumptions
<1>. QED
  BY <1>3, <1>4, <1>5 DEF IInv

LEMMA NextStep == IInv /\ [Next]_vars => IInv' /\ [Pool!Next]_(Pool!vars)
<1>. SUFFICES ASSUME IInv, [Next]_vars PROVE IInv' /\ [Pool!Next]_(Pool!vars)
  OBVIOUS
<1>1. Sane(list') /\ (Pool!Next \/ UNCHANGED Pool!vars)
  <2>1. CASE mempool_get
    BY <2>1, GetStep
  <2>2. ASSUME NEW n \in Node, mempool_put(n) PROVE Sane(list') /\ Pool!Next
    BY <2>2, PutStep
  <2>3. CASE UNCHANGED vars
    BY <2>3 DEF vars, IInv, Pool!vars, Listed
  <2>. QED
    BY <2>1, <2>2, <2>3 DEF Next
<1>2. [Sets!Next]_(Sets!vars)
  <2>1. CASE Pool!Next
    <3>1. Sets!Node = Pool!Node
      BY DEF Sets!Node, Pool!Node
    <3>. QED
      BY <2>1, <3>1, SetsAre DEF Pool!Next, Sets!Next
  <2>2. CASE UNCHANGED Pool!vars
    BY <2>2 DEF Pool!vars, Sets!vars
  <2>. QED
    BY <1>1, <2>1, <2>2
<1>3. Sets!Inv'
  BY <1>2, Sets!NextInv, SetsAssumptions DEF IInv
<1>. QED
  BY <1>1, <1>3 DEF IInv

LEMMA Invariance == Spec => []IInv
<1>1. Init => IInv
  BY InitStep
<1>2. IInv /\ [Next]_vars => IInv'
  BY NextStep
<1>. QED
  BY <1>1, <1>2, PTL DEF Spec

-----------------------------------------------------------------------------
(* Every pointer of the list is a node, the pool's node_list or null, and  *)
(* no more nodes are free than are allocated.                              *)
THEOREM TypeCorrect == Spec => []TypeOK
<1>1. IInv => TypeOK
  <2>. SUFFICES ASSUME IInv PROVE TypeOK
    OBVIOUS
  <2>1. list \in Lists
    BY DEF IInv, Sane
  <2>2. /\ cache_list \subseteq Cache /\ is_used \subseteq Node /\ nused \in [Cache -> Nat]
        /\ nfreed \in Nat /\ nalloced \in Nat
        /\ Listed \subseteq cache_list \X (1..IncSize)
        /\ nfreed = Cardinality(Listed) /\ nalloced = IncSize * Cardinality(cache_list)
    BY InvIs DEF IInv
  <2>3. nfreed <= Cardinality(cache_list) * IncSize
    <3>1. /\ IsFiniteSet(cache_list \X (1..IncSize))
          /\ Cardinality(cache_list \X (1..IncSize)) = Cardinality(cache_list) * IncSize
      BY <2>2, NodesFinite
    <3>2. Cardinality(Listed) <= Cardinality(cache_list \X (1..IncSize))
      BY <2>2, <3>1, FS_Subset
    <3>. QED
      BY <2>2, <3>1, <3>2
  <2>4. nfreed \in 0..nalloced
    <3>1. PICK k \in Nat : k = Cardinality(cache_list)
      BY <2>2, NodesFinite
    <3>2. k * IncSize = IncSize * k
      BY CachesAssumption
    <3>. QED
      BY <2>2, <2>3, <3>1, <3>2
  <2>. QED
    BY <2>1, <2>2, <2>4 DEF TypeOK, Lists
<1>. QED
  BY <1>1, Invariance, PTL

(* mempool.c's free list stays doubly linked through every get, put and    *)
(* release of a cache: a node that is unlinked anywhere in it leaves no    *)
(* pointer behind.                                                         *)
THEOREM DoublyLinkedHolds == Spec => []DoublyLinked
<1>1. IInv => DoublyLinked
  BY DEF IInv, Sane, Ring, Listed, DoublyLinked
<1>. QED
  BY <1>1, Invariance, PTL

(* The pointer operations of mempool.c do to the set of listed nodes what  *)
(* Mempool says: get finds a head whenever nfreed says so, and releasing a *)
(* cache takes exactly its nodes off the list.                             *)
THEOREM ImplementsMempoolHolds == Spec => ImplementsMempool
<1>1. Init => Pool!Init
  BY InitStep
<1>2. IInv /\ [Next]_vars => [Pool!Next]_(Pool!vars)
  BY NextStep
<1>. QED
  BY <1>1, <1>2, Invariance, PTL DEF Spec, ImplementsMempool, Pool!Spec
=============================================================================
