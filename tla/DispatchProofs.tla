--------------------------- MODULE DispatchProofs ---------------------------
(* Proofs about module Dispatch, for any number of clients and workers and *)
(* any width of the counters.                                              *)
EXTENDS Dispatch, FiniteSetTheorems, SequenceTheorems, TLAPS

(* A queue holds a client once. *)
Distinct(queue) == \A i, j \in DOMAIN queue : queue[i] = queue[j] => i = j

(* The clients a worker has, queued, taken or connected. *)
Of(w) == Elements(inq[w]) \cup Elements(inq2[w]) \cup conns[w]

(* A worker has no client twice. *)
Own(w) ==
  /\ Distinct(inq[w]) /\ Distinct(inq2[w])
  /\ Elements(inq[w]) \cap Elements(inq2[w]) = {}
  /\ conns[w] \cap (Elements(inq[w]) \cup Elements(inq2[w])) = {}

(* No two workers have a client, nor one that is closed or in the accept   *)
(* thread's hand; and every client that came is somewhere.                 *)
Between ==
  /\ \A v, w \in Worker : v # w => Of(v) \cap Of(w) = {}
  /\ \A w \in Worker : Of(w) \cap closed = {} /\ clifd \notin Of(w)
  /\ clifd \notin closed
  /\ \A c \in Client : c <= came <=> c = clifd \/ c \in closed \/ \E w \in Worker : c \in Of(w)

(* The workers before the next one got a client more than the others, and  *)
(* so did the next one while the accept thread has not gone on from it.    *)
Lead(w) == IF w < index \/ (w = index /\ acc = "count") THEN 1 ELSE 0

Turns == \A v, w \in Worker : given[v] - Lead(v) = given[w] - Lead(w)

IInv ==
  /\ StateOK
  /\ \A w \in Worker : Own(w)
  /\ Between /\ LiveAccounting /\ Turns

-----------------------------------------------------------------------------
(* Remainders *)

LEMMA DivMod ==
  ASSUME NEW a \in Int, NEW n \in Nat \ {0}
  PROVE  a % n \in 0..(n - 1) /\ a \div n \in Int /\ a = n * (a \div n) + (a % n)
BY SMT

LEMMA ModUnique ==
  ASSUME NEW n \in Nat \ {0}, NEW q \in Int, NEW r \in 0..(n - 1)
  PROVE  (n * q + r) % n = r
<1>. DEFINE a == n * q + r
            p == a \div n
            s == a % n
<1>1. s \in 0..(n - 1) /\ p \in Int /\ a = n * p + s
  BY DivMod
<1>2. a = n * q + r
  OBVIOUS
<1>. SUFFICES s = r
  OBVIOUS
<1>. HIDE DEF p, s, a
<1>3. n * (p - q) = r - s
  BY <1>1, <1>2
<1>4. CASE p > q
  <2>1. n * (p - q) >= n
    BY <1>1, <1>4
  <2>. QED
    BY <2>1, <1>3, <1>1
<1>5. CASE p < q
  <2>1. n * (q - p) >= n
    BY <1>1, <1>5
  <2>2. n * (q - p) = s - r
    BY <1>1, <1>2
  <2>. QED
    BY <2>1, <2>2, <1>1
<1>6. CASE p = q
  BY <1>1, <1>2, <1>6
<1>. QED
  BY <1>1, <1>4, <1>5, <1>6

(* A counter that wraps counts on as if it had not. *)
LEMMA ModPlus ==
  ASSUME NEW a \in Int, NEW d \in Int, NEW n \in Nat \ {0}
  PROVE  ((a % n) + d) % n = (a + d) % n
<1>. DEFINE q == a \div n
            r == a % n
            p == (r + d) \div n
            s == (r + d) % n
<1>1. r \in 0..(n - 1) /\ q \in Int /\ a = n * q + r
  BY DivMod
<1>2. s \in 0..(n - 1) /\ p \in Int /\ r + d = n * p + s
  BY <1>1, DivMod
<1>. HIDE DEF q, r, p, s
<1>3. a + d = n * (q + p) + s
  BY <1>1, <1>2
<1>4. (n * (q + p) + s) % n = s
  BY <1>1, <1>2, ModUnique
<1>. QED
  BY <1>3, <1>4 DEF r, s

(* The index of the next worker goes round. *)
LEMMA NextIndex ==
  ASSUME NEW i \in Worker
  PROVE  (i + 1) % nwork = IF i = nwork - 1 THEN 0 ELSE i + 1
<1>1. CASE i = nwork - 1
  <2>1. (nwork * 1 + 0) % nwork = 0
    BY NworkAssumption, ModUnique
  <2>. QED
    BY <1>1, <2>1, NworkAssumption
<1>2. CASE i # nwork - 1
  <2>1. i + 1 \in 0..(nwork - 1)
    BY <1>2, NworkAssumption DEF Worker
  <2>2. (nwork * 0 + (i + 1)) % nwork = i + 1
    BY <2>1, NworkAssumption, ModUnique
  <2>3. nwork * 0 + (i + 1) = i + 1
    BY <2>1, NworkAssumption
  <2>. QED
    BY <1>2, <2>2, <2>3
<1>. QED
  BY <1>1, <1>2

-----------------------------------------------------------------------------
(* Queues *)

(* What is put at the end of a queue is in it. *)
LEMMA Appended ==
  ASSUME NEW queue \in Seq(Client), NEW c \in Client
  PROVE  /\ Elements(Append(queue, c)) = Elements(queue) \cup {c}
         /\ Distinct(queue) /\ c \notin Elements(queue) => Distinct(Append(queue, c))
<1>. DEFINE t == Append(queue, c)
<1>1. /\ t \in Seq(Client) /\ Len(t) = Len(queue) + 1 /\ Len(queue) \in Nat
      /\ \A i \in 1..Len(queue) : t[i] = queue[i]
      /\ t[Len(queue) + 1] = c
      /\ DOMAIN t = 1..(Len(queue) + 1) /\ DOMAIN queue = 1..Len(queue)
  BY AppendProperties, LenProperties
<1>. HIDE DEF t
<1>2. Elements(t) = Elements(queue) \cup {c}
  BY <1>1 DEF Elements
<1>3. Distinct(queue) /\ c \notin Elements(queue) => Distinct(t)
  BY <1>1 DEF Elements, Distinct
<1>. QED
  BY <1>2, <1>3 DEF t

(* The first of a queue is not in its rest. *)
LEMMA Taken ==
  ASSUME NEW queue \in Seq(Client), queue # <<>>
  PROVE  /\ Head(queue) \in Elements(queue) /\ Head(queue) \in Client
         /\ Distinct(queue) => /\ Elements(Tail(queue)) = Elements(queue) \ {Head(queue)}
                               /\ Distinct(Tail(queue))
<1>. DEFINE t == Tail(queue)
<1>1. /\ t \in Seq(Client) /\ Len(t) = Len(queue) - 1 /\ Len(queue) \in Nat \ {0}
      /\ \A i \in 1..Len(t) : t[i] = queue[i + 1]
      /\ DOMAIN t = 1..Len(t) /\ DOMAIN queue = 1..Len(queue)
      /\ Head(queue) = queue[1]
  BY HeadTailProperties, LenProperties, EmptySeq
<1>. HIDE DEF t
<1>2. Head(queue) \in Elements(queue) /\ Head(queue) \in Client
  BY <1>1, ElementOfSeq DEF Elements
<1>3. ASSUME Distinct(queue)
      PROVE  Elements(t) = Elements(queue) \ {Head(queue)} /\ Distinct(t)
  <2>1. Distinct(t)
    BY <1>1, <1>3 DEF Distinct
  <2>2. Elements(t) \subseteq Elements(queue) \ {Head(queue)}
    BY <1>1, <1>3 DEF Distinct, Elements
  <2>3. ASSUME NEW i \in DOMAIN queue, queue[i] # Head(queue)
        PROVE  \E j \in DOMAIN t : t[j] = queue[i]
    <3>1. i - 1 \in 1..Len(t)
      BY <1>1, <2>3
    <3>2. t[i - 1] = queue[i]
      BY <1>1, <3>1
    <3>. QED
      BY <1>1, <3>1, <3>2
  <2>4. Elements(queue) \ {Head(queue)} \subseteq Elements(t)
    BY <2>3 DEF Elements
  <2>. QED
    BY <2>1, <2>2, <2>4
<1>. QED
  BY <1>2, <1>3 DEF t

LEMMA NoElements == Elements(<<>>) = {} /\ Distinct(<<>>)
BY DEF Elements, Distinct

-----------------------------------------------------------------------------
(* Sets of clients *)

LEMMA Sizes ==
  /\ maxfds \in Nat /\ maxfds > 0
  /\ Client \subseteq Nat \ {0} /\ NoClient \notin Client
  /\ IsFiniteSet(Client) /\ IsFiniteSet(Worker)
<1>1. max \div nwork \in Nat
  <2>. DEFINE q == max \div nwork
              r == max % nwork
  <2>1. r \in 0..(nwork - 1) /\ q \in Int /\ max = nwork * q + r
    BY MaxAssumption, NworkAssumption, DivMod
  <2>. HIDE DEF q, r
  <2>2. ASSUME q < 0
        PROVE  FALSE
    <3>1. nwork * q <= -nwork
      BY <2>1, <2>2, NworkAssumption
    <3>. QED
      BY <3>1, <2>1, MaxAssumption, NworkAssumption
  <2>3. q \in Nat
    BY <2>1, <2>2
  <2>. QED
    BY <2>3 DEF q
<1>2. IsFiniteSet(Client)
  BY ClientAssumption, FS_Interval DEF Client
<1>3. IsFiniteSet(Worker)
  BY NworkAssumption, FS_Interval DEF Worker
<1>. QED
  BY <1>1, <1>2, <1>3 DEF maxfds, Client, NoClient

(* What nowlive counts, before it wraps. *)
Freed == {w \in Worker : uncount[w]}

Owed == Cardinality(Sessions) + refused + Cardinality(Freed) - (IF acc = "count" THEN 1 ELSE 0)

LEMMA Counted ==
  ASSUME StateOK
  PROVE  /\ Sessions = UNION {Of(w) : w \in Worker}
         /\ \A w \in Worker : Of(w) \subseteq Client
         /\ Sessions \subseteq Client /\ IsFiniteSet(Sessions)
         /\ Cardinality(Sessions) \in Nat
         /\ IsFiniteSet(Freed) /\ Cardinality(Freed) \in Nat
         /\ Owed \in Int
<1>1. Sessions = UNION {Of(w) : w \in Worker}
  BY DEF Sessions, Of
<1>2. ASSUME NEW w \in Worker
      PROVE  Of(w) \subseteq Client
  <2>1. inq[w] \in Seq(Client) /\ inq2[w] \in Seq(Client) /\ conns[w] \subseteq Client
    BY DEF StateOK
  <2>2. Elements(inq[w]) \subseteq Client /\ Elements(inq2[w]) \subseteq Client
    BY <2>1, ElementOfSeq, LenProperties DEF Elements
  <2>. QED
    BY <2>1, <2>2 DEF Of
<1>3. Sessions \subseteq Client
  BY <1>1, <1>2
<1>4. IsFiniteSet(Sessions) /\ Cardinality(Sessions) \in Nat
  BY <1>3, Sizes, FS_Subset, FS_CardinalityType
<1>5. IsFiniteSet(Freed) /\ Cardinality(Freed) \in Nat
  BY Sizes, FS_Subset, FS_CardinalityType DEF Freed
<1>6. Owed \in Int
  BY <1>4, <1>5 DEF Owed, StateOK
<1>. QED
  BY <1>1, <1>2, <1>3, <1>4, <1>5, <1>6

(* nowlive keeps up when it changes as what it counts does. *)
LEMMA Adjusted ==
  ASSUME StateOK, LiveAccounting, NEW d \in Int,
         Owed' = Owed + d, nowlive' = (nowlive + d) % WORD
  PROVE  LiveAccounting'
<1>1. nowlive = Owed % WORD
  BY DEF LiveAccounting, Owed, Freed
<1>2. Owed \in Int
  BY Counted
<1>3. nowlive' = (Owed + d) % WORD
  BY <1>1, <1>2, ModPlus, WordAssumption, MaxAssumption
<1>4. nowlive' = (Owed') % WORD
  BY <1>3
<1>. QED
  BY <1>4 DEF LiveAccounting, Owed, Freed

LEMMA Unadjusted ==
  ASSUME StateOK, LiveAccounting, Owed' = Owed, nowlive' = nowlive
  PROVE  LiveAccounting'
<1>1. nowlive' = (Owed') % WORD
  BY DEF LiveAccounting, Owed, Freed
<1>. QED
  BY <1>1 DEF LiveAccounting, Owed, Freed

(* No client comes, leaves or changes its worker. *)
LEMMA Within ==
  ASSUME StateOK, Between,
         \A w \in Worker : Of(w)' = Of(w), came' = came, clifd' = clifd, closed' = closed
  PROVE  Between' /\ Sessions' = Sessions
<1>1. Sessions' = UNION {Of(w)' : w \in Worker} /\ Sessions = UNION {Of(w) : w \in Worker}
  BY DEF Sessions, Of
<1>2. Between'
  BY DEF Between
<1>. QED
  BY <1>1, <1>2

(* A client leaves its worker and is closed. *)
LEMMA Leaves ==
  ASSUME StateOK, Between, NEW w \in Worker, NEW c \in Of(w),
         Of(w)' = Of(w) \ {c}, \A v \in Worker \ {w} : Of(v)' = Of(v),
         closed' = closed \cup {c}, came' = came, clifd' = clifd
  PROVE  /\ Between' /\ Sessions' = Sessions \ {c}
         /\ Cardinality(Sessions') = Cardinality(Sessions) - 1
<1>1. Sessions' = UNION {Of(v)' : v \in Worker} /\ Sessions = UNION {Of(v) : v \in Worker}
  BY DEF Sessions, Of
<1>2. \A v \in Worker \ {w} : c \notin Of(v)
  BY DEF Between
<1>3. Sessions' = Sessions \ {c} /\ c \in Sessions
  BY <1>1, <1>2
<1>4. Cardinality(Sessions') = Cardinality(Sessions) - 1
  BY <1>3, Counted, FS_RemoveElement
<1>5. Between'
  <2>1. /\ \A u, v \in Worker : u # v => Of(u)' \cap Of(v)' = {}
        /\ \A v \in Worker : Of(v)' \cap closed' = {} /\ clifd' \notin Of(v)'
        /\ clifd' \notin closed'
    BY <1>2 DEF Between
  <2>2. ASSUME NEW x \in Client
        PROVE  x <= came' <=> x = clifd' \/ x \in closed' \/ \E v \in Worker : x \in Of(v)'
    <3>1. x <= came <=> x = clifd \/ x \in closed \/ \E v \in Worker : x \in Of(v)
      BY DEF Between
    <3>2. (\E v \in Worker : x \in Of(v)') \/ x = c <=> (\E v \in Worker : x \in Of(v)) \/ x = c
      BY <1>2
    <3>3. x = c => \E v \in Worker : x \in Of(v)
      OBVIOUS
    <3>. QED
      BY <3>1, <3>2, <3>3
  <2>. QED
    BY <2>1, <2>2 DEF Between
<1>. QED
  BY <1>3, <1>4, <1>5

-----------------------------------------------------------------------------
(* Steps that leave something alone *)

LEMMA SameQueues ==
  ASSUME queues' = queues
  PROVE  /\ \A w \in Worker : Of(w)' = Of(w) /\ (Own(w) => Own(w)')
         /\ Sessions' = Sessions
BY DEF queues, Of, Own, Sessions

LEMMA SameTurns ==
  ASSUME Turns, given' = given, index' = index, (acc' = "count") <=> (acc = "count")
  PROVE  Turns'
<1>1. \A w \in Worker : Lead(w)' = Lead(w)
  BY DEF Lead
<1>. QED
  BY <1>1 DEF Turns

LEMMA SameOwed ==
  ASSUME StateOK, LiveAccounting, Sessions' = Sessions, refused' = refused, uncount' = uncount,
         (acc' = "count") <=> (acc = "count"), nowlive' = nowlive
  PROVE  LiveAccounting'
<1>1. Owed' = Owed
  BY DEF Owed, Freed
<1>. QED
  BY <1>1, Unadjusted

-----------------------------------------------------------------------------
(* The accept thread *)

LEMMA AcceptKeeps ==
  ASSUME IInv, Accept
  PROVE  IInv'
<1>1. StateOK'
  <2>1. came + 1 \in Client /\ came' \in 0..MaxClient
    <3>1. came \in 0..MaxClient /\ came < MaxClient /\ came' = came + 1
      BY DEF IInv, Accept, StateOK
    <3>. QED
      BY <3>1, ClientAssumption DEF Client
  <2>2. clifd' \in Client \cup {NoClient} /\ clifd' # NoClient
    BY <2>1, Sizes DEF Accept
  <2>. QED
    BY <2>1, <2>2 DEF IInv, Accept, StateOK, queues
<1>2. \A w \in Worker : Own(w)'
  BY SameQueues DEF IInv, Accept
<1>3. Between'
  <2>1. \A w \in Worker : Of(w)' = Of(w)
    BY SameQueues DEF Accept
  <2>2. /\ clifd = NoClient /\ clifd' = came + 1 /\ came' = came + 1 /\ closed' = closed
        /\ came + 1 \in Client /\ came \in Nat
    <3>1. came \in 0..MaxClient /\ came < MaxClient
      BY DEF IInv, Accept, StateOK
    <3>2. came + 1 \in Client /\ came \in Nat
      BY <3>1, ClientAssumption DEF Client
    <3>. QED
      BY <3>2 DEF IInv, Accept, StateOK
  <2>3. \A c \in Client : c # clifd
    BY <2>2, Sizes
  <2>4. \A c \in Client : c <= came <=> c \in closed \/ \E w \in Worker : c \in Of(w)
    BY <2>3 DEF IInv, Between
  <2>5. ~(came + 1 <= came)
    BY <2>2
  <2>6. came + 1 \notin closed /\ \A w \in Worker : came + 1 \notin Of(w)
    BY <2>4, <2>5, <2>2
  <2>7. \A c \in Client : c <= came + 1 <=> c = came + 1 \/ c <= came
    BY <2>2, Sizes
  <2>. QED
    BY <2>1, <2>2, <2>4, <2>6, <2>7 DEF IInv, Between
<1>4. LiveAccounting'
  BY SameQueues, SameOwed DEF IInv, Accept
<1>5. Turns'
  BY SameTurns DEF IInv, Accept
<1>. QED
  BY <1>1, <1>2, <1>3, <1>4, <1>5 DEF IInv

LEMMA CloseInHandKeeps ==
  ASSUME IInv, CloseInHand, acc \in {"check", "assign"}
  PROVE  IInv'
<1>1. clifd \in Client
  BY DEF IInv, StateOK
<1>2. StateOK'
  BY <1>1 DEF IInv, CloseInHand, StateOK, queues
<1>3. \A w \in Worker : Own(w)'
  BY SameQueues DEF IInv, CloseInHand
<1>4. Between'
  <2>1. /\ \A w \in Worker : Of(w)' = Of(w)
        /\ closed' = closed \cup {clifd} /\ clifd' = NoClient /\ came' = came
    BY SameQueues DEF CloseInHand
  <2>2. \A w \in Worker : NoClient \notin Of(w)
    BY Sizes, Counted DEF IInv
  <2>3. NoClient \notin closed'
    BY <1>1, <2>1, Sizes DEF IInv, StateOK
  <2>4. \A c \in Client : c # NoClient
    BY Sizes
  <2>. QED
    BY <2>1, <2>2, <2>3, <2>4 DEF IInv, Between
<1>5. LiveAccounting'
  BY SameQueues, SameOwed DEF IInv, CloseInHand
<1>6. Turns'
  BY SameTurns DEF IInv, CloseInHand
<1>. QED
  BY <1>2, <1>3, <1>4, <1>5, <1>6 DEF IInv

LEMMA CheckKeeps ==
  ASSUME IInv, Check
  PROVE  IInv'
<1>1. CASE CloseInHand
  BY <1>1, CloseInHandKeeps DEF Check
<1>2. CASE /\ nlive < max /\ acc' = "assign"
           /\ UNCHANGED <<came, clifd, index, ready, queues, uncount, closed, nlive, nowlive,
                          refused, given>>
  <2>1. acc = "check"
    BY DEF Check
  <2>2. StateOK'
    BY <1>2, <2>1 DEF IInv, StateOK, queues
  <2>3. \A w \in Worker : Own(w)'
    BY <1>2, SameQueues DEF IInv
  <2>4. Between'
    BY <1>2, SameQueues, Within DEF IInv
  <2>5. LiveAccounting'
    BY <1>2, <2>1, SameQueues, SameOwed DEF IInv
  <2>6. Turns'
    BY <1>2, <2>1, SameTurns DEF IInv
  <2>. QED
    BY <2>2, <2>3, <2>4, <2>5, <2>6 DEF IInv
<1>. QED
  BY <1>1, <1>2 DEF Check

(* The worker gets the client in the accept thread's hand. *)
LEMMA AssignKeeps ==
  ASSUME IInv, Assign
  PROVE  IInv'
<1>1. CASE CloseInHand
  BY <1>1, CloseInHandKeeps DEF Assign
<1>2. CASE /\ index \in ready /\ Len(inq[index]) < maxfds
           /\ inq' = [inq EXCEPT ![index] = Append(@, clifd)]
           /\ given' = [given EXCEPT ![index] = @ + 1]
           /\ acc' = "count" /\ clifd' = NoClient
           /\ UNCHANGED <<came, index, ready, inq2, conns, uncount, closed, nlive, nowlive, refused>>
  <2>0. PICK u \in Worker : u = index
    BY DEF IInv, StateOK
  <2>1. /\ acc = "assign" /\ clifd \in Client
        /\ inq[u] \in Seq(Client) /\ clifd' = NoClient
    BY <1>2, <2>0 DEF Assign, IInv, StateOK
  <2>2. /\ inq'[u] = Append(inq[u], clifd) /\ inq'[u] \in Seq(Client)
        /\ Len(inq'[u]) = Len(inq[u]) + 1 /\ Len(inq[u]) \in Nat
        /\ \A w \in Worker \ {u} : inq'[w] = inq[w]
        /\ inq' \in [Worker -> Seq(Client)]
    BY <1>2, <2>0, <2>1, AppendProperties, LenProperties DEF IInv, StateOK
  <2>3. StateOK'
    BY <1>2, <2>0, <2>1, <2>2, Sizes DEF IInv, StateOK
  <2>4. /\ Elements(inq'[u]) = Elements(inq[u]) \cup {clifd}
        /\ clifd \notin Elements(inq[u]) => Distinct(inq'[u]) \/ ~Distinct(inq[u])
    BY <2>1, <2>2, Appended
  <2>5. /\ Of(u)' = Of(u) \cup {clifd}
        /\ \A w \in Worker \ {u} : Of(w)' = Of(w)
    BY <1>2, <2>2, <2>4 DEF Of
  <2>6. \A w \in Worker : clifd \notin Of(w)
    BY DEF IInv, Between
  <2>7. \A w \in Worker : Own(w)'
    BY <1>2, <2>1, <2>2, <2>4, <2>6 DEF IInv, Own, Of
  <2>8. Between'
    <3>1. \A c \in Client : c # NoClient
      BY Sizes
    <3>2. NoClient \notin closed' /\ \A w \in Worker : NoClient \notin Of(w)'
      BY <1>2, <2>5, <2>1, <3>1, Counted DEF IInv, StateOK
    <3>3. /\ \A v, w \in Worker : v # w => Of(v)' \cap Of(w)' = {}
          /\ \A w \in Worker : Of(w)' \cap closed' = {}
      BY <1>2, <2>5, <2>6 DEF IInv, Between
    <3>4. ASSUME NEW c \in Client
          PROVE  c <= came' <=> c = clifd' \/ c \in closed' \/ \E w \in Worker : c \in Of(w)'
      <4>1. c <= came <=> c = clifd \/ c \in closed \/ \E w \in Worker : c \in Of(w)
        BY DEF IInv, Between
      <4>2. ASSUME NEW w \in Worker, c \in Of(w)'
            PROVE  c = clifd \/ \E v \in Worker : c \in Of(v)
        BY <2>5, <4>2
      <4>3. \A w \in Worker : c \in Of(w) => c \in Of(w)'
        BY <2>5
      <4>4. c = clifd => c \in Of(u)'
        BY <2>5
      <4>. QED
        BY <1>2, <4>1, <4>2, <4>3, <4>4, <3>1, <2>1
    <3>. QED
      BY <2>1, <3>2, <3>3, <3>4 DEF Between
  <2>9. LiveAccounting'
    <3>1. Sessions = UNION {Of(w) : w \in Worker} /\ Sessions' = UNION {Of(w)' : w \in Worker}
      BY DEF Sessions, Of
    <3>2. Sessions' = Sessions \cup {clifd} /\ clifd \notin Sessions
      <4>1. \A w \in Worker : Of(w)' \subseteq Sessions \cup {clifd} /\ Of(w) \subseteq Of(w)'
        BY <2>5, <3>1
      <4>2. clifd \in Of(u)'
        BY <2>5
      <4>. QED
        BY <2>1, <2>6, <3>1, <4>1, <4>2
    <3>3. Cardinality(Sessions') = Cardinality(Sessions) + 1
      BY <3>2, Counted, FS_AddElement DEF IInv
    <3>4. Owed' = Owed
      BY <1>2, <2>1, <3>3, Counted DEF Owed, Freed, IInv, StateOK
    <3>. QED
      BY <1>2, <3>4, Unadjusted DEF IInv
  <2>10. Turns'
    <3>1. /\ Lead(u)' = Lead(u) + 1 /\ given'[u] = given[u] + 1
          /\ \A w \in Worker \ {u} : Lead(w)' = Lead(w) /\ given'[w] = given[w]
      BY <1>2, <2>0, <2>1 DEF Lead, IInv, StateOK, Worker
    <3>2. \A w \in Worker : given[w] \in Nat /\ Lead(w) \in Nat
      BY DEF IInv, StateOK, Lead
    <3>3. \A w \in Worker : given'[w] - Lead(w)' = given[w] - Lead(w)
      BY <3>1, <3>2, <2>1
    <3>. QED
      BY <3>3 DEF Turns, IInv
  <2>. QED
    BY <2>3, <2>7, <2>8, <2>9, <2>10 DEF IInv
<1>. QED
  BY <1>1, <1>2 DEF Assign

(* The client handed over is counted, and the next worker gets the turn. *)
LEMMA CountKeeps ==
  ASSUME IInv, Count
  PROVE  IInv'
<1>1. /\ acc = "count" /\ acc' = "poll" /\ index \in Worker
      /\ index' = IF index = nwork - 1 THEN 0 ELSE index + 1
  BY NextIndex DEF Count, IInv, StateOK
<1>2. index' \in Worker
  BY <1>1, NworkAssumption DEF Worker
<1>3. nlive' \in 0..(WORD - 1) /\ nowlive' \in 0..(WORD - 1)
  <2>1. nlive + 1 \in Int /\ nowlive + 1 \in Int /\ WORD \in Nat \ {0}
    BY WordAssumption, MaxAssumption DEF IInv, StateOK
  <2>. QED
    BY <2>1, DivMod DEF Count
<1>4. StateOK'
  BY <1>1, <1>2, <1>3 DEF IInv, StateOK, Count, queues
<1>5. \A w \in Worker : Own(w)'
  BY SameQueues DEF IInv, Count
<1>6. Between'
  BY SameQueues, Within DEF IInv, Count
<1>7. LiveAccounting'
  <2>1. Owed' = Owed + 1
    BY <1>1, SameQueues, Counted DEF Owed, Freed, Count, IInv, StateOK
  <2>. QED
    BY <2>1, Adjusted DEF IInv, Count
<1>8. Turns'
  <2>1. given' = given /\ \A w \in Worker : given[w] \in Nat
    BY DEF Count, IInv, StateOK
  <2>2. CASE index # nwork - 1
    <3>1. \A w \in Worker : Lead(w)' = Lead(w)
      BY <1>1, <2>2 DEF Lead, Worker
    <3>. QED
      BY <2>1, <3>1 DEF IInv, Turns
  <2>3. CASE index = nwork - 1
    <3>1. \A w \in Worker : Lead(w)' = 0 /\ Lead(w) = 1
      BY <1>1, <2>3, NworkAssumption DEF Lead, Worker
    <3>. QED
      BY <2>1, <3>1 DEF IInv, Turns
  <2>. QED
    BY <2>2, <2>3
<1>. QED
  BY <1>4, <1>5, <1>6, <1>7, <1>8 DEF IInv

-----------------------------------------------------------------------------
(* The workers and the clock thread *)

LEMMA StartWorkerKeeps ==
  ASSUME IInv, NEW w \in Worker, StartWorker(w)
  PROVE  IInv'
<1>1. StateOK'
  BY DEF IInv, StartWorker, StateOK, queues
<1>2. \A v \in Worker : Own(v)'
  BY SameQueues DEF IInv, StartWorker
<1>3. Between'
  BY SameQueues, Within DEF IInv, StartWorker
<1>4. LiveAccounting'
  BY SameQueues, SameOwed DEF IInv, StartWorker
<1>5. Turns'
  BY SameTurns DEF IInv, StartWorker
<1>. QED
  BY <1>1, <1>2, <1>3, <1>4, <1>5 DEF IInv

LEMMA TakeKeeps ==
  ASSUME IInv, NEW w \in Worker, Take(w)
  PROVE  IInv'
<1>1. /\ inq'[w] = <<>> /\ inq2'[w] = inq[w] /\ inq2[w] = <<>> /\ conns' = conns
      /\ \A v \in Worker \ {w} : inq'[v] = inq[v] /\ inq2'[v] = inq2[v]
      /\ inq' \in [Worker -> Seq(Client)] /\ inq2' \in [Worker -> Seq(Client)]
  <2>1. <<>> \in Seq(Client)
    BY EmptySeq
  <2>. QED
    BY <2>1 DEF IInv, StateOK, Take
<1>2. StateOK'
  <2>1. Len(<<>>) <= maxfds
    BY Sizes, EmptySeq
  <2>2. \A v \in Worker : Len(inq'[v]) <= maxfds /\ Len(inq2'[v]) <= maxfds
    BY <1>1, <2>1 DEF IInv, StateOK
  <2>. QED
    BY <1>1, <2>2 DEF IInv, StateOK, Take
<1>3. \A v \in Worker : Own(v)'
  <2>1. Own(w)'
    BY <1>1, NoElements DEF IInv, Own
  <2>2. \A v \in Worker \ {w} : Own(v)'
    BY <1>1 DEF IInv, Own
  <2>. QED
    BY <2>1, <2>2
<1>4. \A v \in Worker : Of(v)' = Of(v)
  BY <1>1, NoElements DEF Of
<1>5. Between' /\ Sessions' = Sessions
  BY <1>4, Within DEF IInv, Take
<1>6. LiveAccounting'
  BY <1>5, SameOwed DEF IInv, Take
<1>7. Turns'
  BY SameTurns DEF IInv, Take
<1>. QED
  BY <1>2, <1>3, <1>5, <1>6, <1>7 DEF IInv

(* The next of the clients taken is no longer waiting. *)
LEMMA Popped ==
  ASSUME IInv, NEW w \in Worker, NextTaken(w)
  PROVE  LET c == Head(inq2[w])
         IN  /\ c \in Client /\ c \in Elements(inq2[w])
             /\ inq2' \in [Worker -> Seq(Client)]
             /\ \A v \in Worker : Len(inq2'[v]) <= maxfds
             /\ Elements(inq2'[w]) = Elements(inq2[w]) \ {c} /\ Distinct(inq2'[w])
             /\ \A v \in Worker \ {w} : inq2'[v] = inq2[v]
             /\ inq' = inq
<1>1. inq2[w] \in Seq(Client) /\ inq2[w] # <<>> /\ Distinct(inq2[w]) /\ Len(inq2[w]) <= maxfds
  BY DEF IInv, StateOK, Own, NextTaken
<1>2. inq2' = [inq2 EXCEPT ![w] = Tail(@)] /\ inq2 \in [Worker -> Seq(Client)] /\ inq' = inq
  BY DEF IInv, StateOK, NextTaken
<1>3. inq2'[w] = Tail(inq2[w]) /\ \A v \in Worker \ {w} : inq2'[v] = inq2[v]
  BY <1>2
<1>4. Tail(inq2[w]) \in Seq(Client) /\ Len(Tail(inq2[w])) = Len(inq2[w]) - 1 /\ Len(inq2[w]) \in Nat
  BY <1>1, HeadTailProperties, LenProperties
<1>5. inq2' \in [Worker -> Seq(Client)]
  BY <1>2, <1>4
<1>6. \A v \in Worker : Len(inq2'[v]) <= maxfds
  <2>1. Len(inq2'[w]) <= maxfds
    BY <1>1, <1>3, <1>4, Sizes
  <2>2. \A v \in Worker \ {w} : Len(inq2'[v]) <= maxfds
    BY <1>3 DEF IInv, StateOK
  <2>. QED
    BY <2>1, <2>2
<1>. QED
  BY <1>1, <1>2, <1>3, <1>5, <1>6, Taken

LEMMA ServeKeeps ==
  ASSUME IInv, NEW w \in Worker, Serve(w)
  PROVE  IInv'
<1>. DEFINE c == Head(inq2[w])
<1>1. NextTaken(w)
  BY DEF Serve
<1>2. /\ c \in Client /\ c \in Elements(inq2[w]) /\ inq2' \in [Worker -> Seq(Client)]
      /\ \A v \in Worker : Len(inq2'[v]) <= maxfds
      /\ Elements(inq2'[w]) = Elements(inq2[w]) \ {c} /\ Distinct(inq2'[w])
      /\ \A v \in Worker \ {w} : inq2'[v] = inq2[v]
      /\ inq' = inq
  BY <1>1, Popped
<1>3. /\ conns'[w] = conns[w] \cup {c} /\ \A v \in Worker \ {w} : conns'[v] = conns[v]
      /\ conns' = [conns EXCEPT ![w] = @ \cup {c}]
  BY DEF IInv, StateOK, Serve
<1>4. c \notin conns[w] /\ c \notin Elements(inq[w])
  BY <1>2 DEF IInv, Own
<1>. HIDE DEF c
<1>5. Cardinality(conns'[w]) <= max
  <2>1. IsFiniteSet(conns[w])
    BY Sizes, FS_Subset DEF IInv, StateOK
  <2>2. Cardinality(conns'[w]) = Cardinality(conns[w]) + 1 /\ Cardinality(conns[w]) \in Nat
    BY <1>3, <1>4, <2>1, FS_AddElement, FS_CardinalityType
  <2>. QED
    BY <2>2, MaxAssumption DEF Serve
<1>6. StateOK'
  <2>1. conns' \in [Worker -> SUBSET Client]
    BY <1>2, <1>3 DEF IInv, StateOK
  <2>2. \A v \in Worker : Cardinality(conns'[v]) <= max
    BY <1>3, <1>5 DEF IInv, StateOK
  <2>. QED
    BY <1>1, <1>2, <2>1, <2>2 DEF IInv, StateOK, Serve, NextTaken
<1>7. \A v \in Worker : Own(v)'
  <2>1. Own(w)'
    BY <1>2, <1>3, <1>4 DEF IInv, Own
  <2>2. \A v \in Worker \ {w} : Own(v)'
    BY <1>2, <1>3 DEF IInv, Own
  <2>. QED
    BY <2>1, <2>2
<1>8. \A v \in Worker : Of(v)' = Of(v)
  BY <1>2, <1>3 DEF Of
<1>9. Between' /\ Sessions' = Sessions
  BY <1>1, <1>8, Within DEF IInv, Serve, NextTaken
<1>10. LiveAccounting'
  BY <1>1, <1>9, SameOwed DEF IInv, Serve, NextTaken
<1>11. Turns'
  BY <1>1, SameTurns DEF IInv, NextTaken
<1>. QED
  BY <1>6, <1>7, <1>9, <1>10, <1>11 DEF IInv

(* What holds of the workers' clients when one of those taken is gone. *)
LEMMA Dropped ==
  ASSUME IInv, NEW w \in Worker, NextTaken(w), conns' = conns,
         closed' = closed \cup {Head(inq2[w])}
  PROVE  /\ \A v \in Worker : Own(v)'
         /\ Between' /\ closed' \subseteq Client
         /\ Cardinality(Sessions') = Cardinality(Sessions) - 1
         /\ inq' \in [Worker -> Seq(Client)] /\ inq2' \in [Worker -> Seq(Client)]
         /\ \A v \in Worker : Len(inq2'[v]) <= maxfds /\ inq'[v] = inq[v]
<1>. DEFINE c == Head(inq2[w])
<1>1. /\ c \in Client /\ c \in Elements(inq2[w]) /\ inq2' \in [Worker -> Seq(Client)]
      /\ \A v \in Worker : Len(inq2'[v]) <= maxfds
      /\ Elements(inq2'[w]) = Elements(inq2[w]) \ {c} /\ Distinct(inq2'[w])
      /\ \A v \in Worker \ {w} : inq2'[v] = inq2[v]
      /\ inq' = inq /\ closed' = closed \cup {c}
  BY Popped
<1>2. c \notin conns[w] /\ c \notin Elements(inq[w])
  BY <1>1 DEF IInv, Own
<1>. HIDE DEF c
<1>3. \A v \in Worker : Own(v)'
  <2>1. Own(w)'
    BY <1>1 DEF IInv, Own
  <2>2. \A v \in Worker \ {w} : Own(v)'
    BY <1>1 DEF IInv, Own
  <2>. QED
    BY <2>1, <2>2
<1>4. /\ Of(w)' = Of(w) \ {c} /\ c \in Of(w)
      /\ \A v \in Worker \ {w} : Of(v)' = Of(v)
  BY <1>1, <1>2 DEF Of
<1>5. came' = came /\ clifd' = clifd
  BY DEF NextTaken
<1>6. Between' /\ Cardinality(Sessions') = Cardinality(Sessions) - 1
  BY <1>1, <1>4, <1>5, Leaves DEF IInv
<1>. QED
  BY <1>1, <1>3, <1>6 DEF IInv, StateOK

LEMMA RefuseKeeps ==
  ASSUME IInv, NEW w \in Worker, Refuse(w)
  PROVE  IInv'
<1>1. /\ NextTaken(w) /\ conns' = conns /\ closed' = closed \cup {Head(inq2[w])}
      /\ refused' = refused + 1 /\ uncount' = uncount
  BY DEF Refuse
<1>2. /\ \A v \in Worker : Own(v)'
      /\ Between' /\ closed' \subseteq Client
      /\ Cardinality(Sessions') = Cardinality(Sessions) - 1
      /\ inq' \in [Worker -> Seq(Client)] /\ inq2' \in [Worker -> Seq(Client)]
      /\ \A v \in Worker : Len(inq2'[v]) <= maxfds /\ inq'[v] = inq[v]
  BY <1>1, Dropped
<1>3. StateOK'
  BY <1>1, <1>2 DEF IInv, StateOK, NextTaken
<1>4. LiveAccounting'
  <2>1. Freed' = Freed /\ acc' = acc /\ refused \in Nat
    BY <1>1 DEF Freed, NextTaken, IInv, StateOK
  <2>2. Cardinality(Sessions) \in Nat /\ Cardinality(Freed) \in Nat
    BY Counted DEF IInv
  <2>3. Owed' = Owed
    BY <1>1, <1>2, <2>1, <2>2 DEF Owed
  <2>. QED
    BY <1>1, <2>3, Unadjusted DEF IInv, NextTaken
<1>5. Turns'
  BY <1>1, SameTurns DEF IInv, NextTaken
<1>. QED
  BY <1>2, <1>3, <1>4, <1>5 DEF IInv

(* A freed connection is to be counted off. *)
LEMMA FreedMore ==
  ASSUME StateOK, NEW w \in Worker, ~uncount[w], uncount' = [uncount EXCEPT ![w] = TRUE]
  PROVE  Cardinality(Freed') = Cardinality(Freed) + 1 /\ uncount' \in [Worker -> BOOLEAN]
<1>1. uncount \in [Worker -> BOOLEAN]
  BY DEF StateOK
<1>2. Freed' = Freed \cup {w} /\ w \notin Freed
  BY <1>1 DEF Freed
<1>. QED
  BY <1>1, <1>2, Counted, FS_AddElement

LEMMA ServeFailsKeeps ==
  ASSUME IInv, NEW w \in Worker, ServeFails(w)
  PROVE  IInv'
<1>1. /\ NextTaken(w) /\ conns' = conns /\ closed' = closed \cup {Head(inq2[w])}
      /\ refused' = refused /\ uncount' = [uncount EXCEPT ![w] = TRUE] /\ ~uncount[w]
  BY DEF ServeFails, NextTaken, Free
<1>2. /\ \A v \in Worker : Own(v)'
      /\ Between' /\ closed' \subseteq Client
      /\ Cardinality(Sessions') = Cardinality(Sessions) - 1
      /\ inq' \in [Worker -> Seq(Client)] /\ inq2' \in [Worker -> Seq(Client)]
      /\ \A v \in Worker : Len(inq2'[v]) <= maxfds /\ inq'[v] = inq[v]
  BY <1>1, Dropped
<1>3. Cardinality(Freed') = Cardinality(Freed) + 1 /\ uncount' \in [Worker -> BOOLEAN]
  BY <1>1, FreedMore DEF IInv
<1>4. StateOK'
  BY <1>1, <1>2, <1>3 DEF IInv, StateOK, NextTaken
<1>5. LiveAccounting'
  <2>1. acc' = acc /\ refused \in Nat /\ refused' = refused
    BY <1>1 DEF NextTaken, IInv, StateOK
  <2>2. /\ Cardinality(Sessions) \in Nat /\ Cardinality(Freed) \in Nat
        /\ Cardinality(Sessions') = Cardinality(Sessions) - 1
    BY <1>2, Counted DEF IInv
  <2>3. Owed' = Owed
    BY <1>3, <2>1, <2>2 DEF Owed
  <2>. QED
    BY <1>1, <2>3, Unadjusted DEF IInv, NextTaken
<1>6. Turns'
  BY <1>1, SameTurns DEF IInv, NextTaken
<1>. QED
  BY <1>2, <1>4, <1>5, <1>6 DEF IInv

LEMMA EndKeeps ==
  ASSUME IInv, NEW w \in Worker, NEW c \in Client, End(w, c)
  PROVE  IInv'
<1>1. /\ c \in conns[w] /\ ~uncount[w] /\ inq' = inq /\ inq2' = inq2
      /\ came' = came /\ clifd' = clifd /\ acc' = acc /\ refused' = refused /\ nowlive' = nowlive
      /\ closed' = closed \cup {c} /\ uncount' = [uncount EXCEPT ![w] = TRUE]
      /\ conns' = [conns EXCEPT ![w] = @ \ {c}]
  BY DEF End, Free
<1>2. /\ conns'[w] = conns[w] \ {c} /\ \A v \in Worker \ {w} : conns'[v] = conns[v]
      /\ conns' \in [Worker -> SUBSET Client]
  BY <1>1 DEF IInv, StateOK
<1>3. c \notin Elements(inq[w]) /\ c \notin Elements(inq2[w])
  BY <1>1 DEF IInv, Own
<1>4. Cardinality(Freed') = Cardinality(Freed) + 1 /\ uncount' \in [Worker -> BOOLEAN]
  BY <1>1, FreedMore DEF IInv
<1>5. \A v \in Worker : Own(v)'
  <2>1. Own(w)'
    BY <1>1, <1>2 DEF IInv, Own
  <2>2. \A v \in Worker \ {w} : Own(v)'
    BY <1>1, <1>2 DEF IInv, Own
  <2>. QED
    BY <2>1, <2>2
<1>6. /\ Of(w)' = Of(w) \ {c} /\ c \in Of(w)
      /\ \A v \in Worker \ {w} : Of(v)' = Of(v)
  BY <1>1, <1>2, <1>3 DEF Of
<1>7. Between' /\ Cardinality(Sessions') = Cardinality(Sessions) - 1
  BY <1>1, <1>6, Leaves DEF IInv
<1>8. StateOK'
  <2>1. Cardinality(conns'[w]) <= max
    <3>1. IsFiniteSet(conns[w]) /\ Cardinality(conns[w]) <= max
      BY Sizes, FS_Subset DEF IInv, StateOK
    <3>2. Cardinality(conns'[w]) = Cardinality(conns[w]) - 1 /\ Cardinality(conns[w]) \in Nat
      BY <1>1, <1>2, <3>1, FS_RemoveElement, FS_CardinalityType
    <3>. QED
      BY <3>1, <3>2, MaxAssumption
  <2>2. \A v \in Worker : Cardinality(conns'[v]) <= max
    BY <1>2, <2>1 DEF IInv, StateOK
  <2>. QED
    BY <1>1, <1>2, <1>4, <2>2 DEF IInv, StateOK, End
<1>9. LiveAccounting'
  <2>1. refused \in Nat /\ refused' = refused /\ acc' = acc
    BY <1>1 DEF IInv, StateOK
  <2>2. Cardinality(Sessions) \in Nat /\ Cardinality(Freed) \in Nat
    BY Counted DEF IInv
  <2>3. Owed' = Owed
    BY <1>4, <1>7, <2>1, <2>2 DEF Owed
  <2>. QED
    BY <1>1, <2>3, Unadjusted DEF IInv
<1>10. Turns'
  BY SameTurns DEF IInv, End
<1>. QED
  BY <1>5, <1>7, <1>8, <1>9, <1>10 DEF IInv

LEMMA UncountKeeps ==
  ASSUME IInv, NEW w \in Worker, Uncount(w)
  PROVE  IInv'
<1>1. /\ uncount[w] /\ uncount' = [uncount EXCEPT ![w] = FALSE]
      /\ queues' = queues /\ acc' = acc /\ refused' = refused
      /\ nowlive' = (nowlive - 1) % WORD
  BY DEF Uncount
<1>2. Cardinality(Freed') = Cardinality(Freed) - 1 /\ uncount' \in [Worker -> BOOLEAN]
  <2>1. uncount \in [Worker -> BOOLEAN]
    BY DEF IInv, StateOK
  <2>2. Freed' = Freed \ {w} /\ w \in Freed
    BY <1>1, <2>1 DEF Freed
  <2>. QED
    BY <1>1, <2>1, <2>2, Counted, FS_RemoveElement DEF IInv
<1>3. nowlive' \in 0..(WORD - 1)
  <2>1. nowlive - 1 \in Int /\ WORD \in Nat \ {0}
    BY WordAssumption, MaxAssumption DEF IInv, StateOK
  <2>. QED
    BY <1>1, <2>1, DivMod
<1>4. StateOK'
  BY <1>2, <1>3 DEF IInv, StateOK, Uncount, queues
<1>5. \A v \in Worker : Own(v)'
  BY <1>1, SameQueues DEF IInv
<1>6. Between' /\ Sessions' = Sessions
  BY SameQueues, Within DEF IInv, Uncount
<1>7. LiveAccounting'
  <2>1. refused \in Nat /\ Cardinality(Sessions) \in Nat /\ Cardinality(Freed) \in Nat
    BY Counted DEF IInv, StateOK
  <2>2. Owed' = Owed + (-1)
    BY <1>1, <1>2, <1>6, <2>1 DEF Owed
  <2>3. nowlive' = (nowlive + (-1)) % WORD
    BY <1>1 DEF IInv, StateOK
  <2>. QED
    BY <2>2, <2>3, Adjusted DEF IInv
<1>8. Turns'
  BY SameTurns DEF IInv, Uncount
<1>. QED
  BY <1>4, <1>5, <1>6, <1>7, <1>8 DEF IInv

LEMMA UpdateTrafficKeeps ==
  ASSUME IInv, UpdateTraffic
  PROVE  IInv'
<1>1. StateOK'
  BY WordAssumption, MaxAssumption DEF IInv, UpdateTraffic, StateOK, queues
<1>2. \A v \in Worker : Own(v)'
  BY SameQueues DEF IInv, UpdateTraffic
<1>3. Between'
  BY SameQueues, Within DEF IInv, UpdateTraffic
<1>4. LiveAccounting'
  BY SameQueues, SameOwed DEF IInv, UpdateTraffic
<1>5. Turns'
  BY SameTurns DEF IInv, UpdateTraffic
<1>. QED
  BY <1>1, <1>2, <1>3, <1>4, <1>5 DEF IInv

-----------------------------------------------------------------------------
(* The invariant *)

LEMMA InitHolds == Init => IInv
<1>. SUFFICES ASSUME Init PROVE IInv
  OBVIOUS
<1>1. /\ \A w \in Worker : inq[w] = <<>> /\ inq2[w] = <<>> /\ conns[w] = {} /\ ~uncount[w]
      /\ <<>> \in Seq(Client) /\ Len(<<>>) = 0
      /\ Cardinality({}) = 0
  BY EmptySeq, FS_EmptySet DEF Init
<1>2. StateOK
  <2>1. inq \in [Worker -> Seq(Client)] /\ inq2 \in [Worker -> Seq(Client)]
    BY <1>1 DEF Init
  <2>2. conns \in [Worker -> SUBSET Client]
    BY DEF Init
  <2>3. \A w \in Worker : Len(inq[w]) <= maxfds /\ Len(inq2[w]) <= maxfds /\ Cardinality(conns[w]) <= max
    <3>1. Len(<<>>) <= maxfds /\ Cardinality({}) <= max
      BY <1>1, Sizes, MaxAssumption
    <3>. QED
      BY <1>1, <3>1
  <2>4. index \in Worker
    BY NworkAssumption DEF Init, Worker
  <2>. QED
    BY <2>1, <2>2, <2>3, <2>4, ClientAssumption, WordAssumption, MaxAssumption DEF Init, StateOK
<1>3. \A w \in Worker : Own(w) /\ Of(w) = {}
  BY <1>1, NoElements DEF Own, Of
<1>4. Between
  <2>1. \A c \in Client : ~(c <= 0) /\ c # NoClient
    BY Sizes
  <2>. QED
    BY <1>3, <2>1 DEF Init, Between
<1>5. LiveAccounting
  <2>1. Sessions = {}
    BY <1>3 DEF Sessions, Of
  <2>2. {w \in Worker : uncount[w]} = {}
    BY <1>1
  <2>3. 0 % WORD = 0
    <3>1. WORD \in Nat \ {0}
      BY WordAssumption, MaxAssumption
    <3>2. (WORD * 0 + 0) % WORD = 0
      BY <3>1, ModUnique
    <3>. QED
      BY <3>1, <3>2
  <2>4. Cardinality(Sessions) + refused + Cardinality({w \in Worker : uncount[w]})
          - (IF acc = "count" THEN 1 ELSE 0) = 0
    <3>1. Cardinality(Sessions) = 0 /\ Cardinality({w \in Worker : uncount[w]}) = 0
      BY <1>1, <2>1, <2>2
    <3>2. refused = 0 /\ acc # "count"
      BY DEF Init
    <3>. QED
      BY <3>1, <3>2
  <2>. QED
    BY <2>3, <2>4 DEF Init, LiveAccounting
<1>6. Turns
  <2>1. \A w \in Worker : Lead(w) = 0 /\ given[w] = 0
    BY NworkAssumption DEF Init, Lead, Worker
  <2>. QED
    BY <2>1 DEF Turns
<1>. QED
  BY <1>2, <1>3, <1>4, <1>5, <1>6 DEF IInv

LEMMA StepHolds == IInv /\ [Next]_vars => IInv'
<1>. SUFFICES ASSUME IInv, ThreadStep \/ UNCHANGED threads PROVE IInv'
  BY DEF Next, Sound, Overflow, vars
<1>1. CASE Accept
  BY <1>1, AcceptKeeps
<1>2. CASE Check
  BY <1>2, CheckKeeps
<1>3. CASE Assign
  BY <1>3, AssignKeeps
<1>4. CASE Count
  BY <1>4, CountKeeps
<1>5. ASSUME NEW w \in Worker, WorkerStep(w) PROVE IInv'
  BY <1>5, StartWorkerKeeps, TakeKeeps, ServeKeeps, RefuseKeeps, ServeFailsKeeps, UncountKeeps
     DEF WorkerStep
<1>6. ASSUME NEW w \in Worker, NEW c \in Client, End(w, c) PROVE IInv'
  BY <1>6, EndKeeps
<1>7. CASE UpdateTraffic
  BY <1>7, UpdateTrafficKeeps
<1>8. CASE UNCHANGED threads
  <2>1. StateOK'
    BY <1>8 DEF IInv, StateOK, threads, queues
  <2>2. \A v \in Worker : Own(v)'
    BY <1>8, SameQueues DEF IInv, threads
  <2>3. Between'
    BY <1>8, SameQueues, Within DEF IInv, threads
  <2>4. LiveAccounting'
    BY <1>8, SameQueues, SameOwed DEF IInv, threads
  <2>5. Turns'
    BY <1>8, SameTurns DEF IInv, threads
  <2>. QED
    BY <2>1, <2>2, <2>3, <2>4, <2>5 DEF IInv
<1>. QED
  BY <1>1, <1>2, <1>3, <1>4, <1>5, <1>6, <1>7, <1>8 DEF ThreadStep, AcceptStep

THEOREM InvHolds == Spec => []IInv
BY InitHolds, StepHolds, PTL DEF Spec

(* The queues of the workers stay within maxfds, their tables within max,  *)
(* the counters within their words; a client is in the accept thread's     *)
(* hand exactly while it is being checked or handed over (http/accept.c).  *)
THEOREM TypeCorrect == Spec => []TypeOK
<1>. DEFINE Flag == corrupt \in BOOLEAN
<1>1. Init => Flag
  BY DEF Init
<1>2. Flag /\ [Next]_vars => Flag'
  BY DEF Next, Sound, Overflow, vars
<1>3. IInv /\ Flag => TypeOK
  BY DEF IInv, TypeOK
<1>. QED
  BY <1>1, <1>2, <1>3, InvHolds, PTL DEF Spec

(* nowlive is the number of sessions but for what is still to be counted,  *)
(* however the threads interleave: the updates of accept.c and work2.c     *)
(* outside the queues' locks lose nothing, and a client refused by a       *)
(* worker stays counted for ever.                                          *)
THEOREM LiveAccountingHolds == Spec => []LiveAccounting
BY InvHolds, PTL DEF IInv

(* Whoever is refused or not ready, no worker is given two clients more    *)
(* than another (the rotation of ai->index in _accept_client).             *)
THEOREM BalancedHolds == Spec => []Balanced
<1>1. IInv => Balanced
  <2>. SUFFICES ASSUME IInv, NEW v \in Worker, NEW w \in Worker
                PROVE  given[v] <= given[w] + 1
    BY DEF Balanced
  <2>1. given[v] - Lead(v) = given[w] - Lead(w)
    BY DEF IInv, Turns
  <2>2. Lead(v) \in {0, 1} /\ Lead(w) \in {0, 1} /\ given[v] \in Nat /\ given[w] \in Nat
    BY DEF Lead, IInv, StateOK
  <2>. QED
    BY <2>1, <2>2
<1>. QED
  BY <1>1, InvHolds, PTL

-----------------------------------------------------------------------------
(* One place *)

LEMMA NotQueued ==
  ASSUME NEW queue, NEW c, \A v \in Worker : c \notin Elements(queue[v])
  PROVE  Positions(queue, c) = {}
BY DEF Positions, Elements

LEMMA QueuedOnce ==
  ASSUME NEW queue \in [Worker -> Seq(Client)], \A v \in Worker : Len(queue[v]) <= maxfds,
         NEW c, NEW w \in Worker, c \in Elements(queue[w]), Distinct(queue[w]),
         \A v \in Worker \ {w} : c \notin Elements(queue[v])
  PROVE  \E p : Positions(queue, c) = {p}
<1>1. PICK i \in DOMAIN queue[w] : queue[w][i] = c
  BY DEF Elements
<1>2. i \in 1..maxfds
  <2>1. queue[w] \in Seq(Client) /\ Len(queue[w]) <= maxfds
    OBVIOUS
  <2>2. DOMAIN queue[w] = 1..Len(queue[w]) /\ Len(queue[w]) \in Nat
    BY <2>1, LenProperties
  <2>. QED
    BY <1>1, <2>1, <2>2, Sizes
<1>3. <<w, i>> \in Positions(queue, c)
  BY <1>1, <1>2 DEF Positions
<1>4. ASSUME NEW p \in Positions(queue, c)
      PROVE  p = <<w, i>>
  <2>1. PICK v \in Worker, j \in 1..maxfds : p = <<v, j>> /\ j \in DOMAIN queue[v] /\ queue[v][j] = c
    BY DEF Positions
  <2>2. v = w
    BY <2>1 DEF Elements
  <2>3. j = i
    BY <1>1, <2>1, <2>2 DEF Distinct
  <2>. QED
    BY <2>1, <2>2, <2>3
<1>5. Positions(queue, c) = {<<w, i>>}
  BY <1>3, <1>4
<1>. QED
  BY <1>5

LEMMA PlaceIsOne ==
  ASSUME IInv, NEW c \in 1..came
  PROVE  \E place : Places(c) = {place}
<1>1. c \in Client /\ c <= came
  BY ClientAssumption DEF IInv, StateOK, Client
<1>2. c = clifd \/ c \in closed \/ \E w \in Worker : c \in Of(w)
  BY <1>1 DEF IInv, Between
<1>3. CASE \A w \in Worker : c \notin Of(w)
  <2>1. /\ Positions(inq, c) = {} /\ Positions(inq2, c) = {}
        /\ \A w \in Worker : c \notin conns[w]
    BY <1>3, NotQueued DEF Of
  <2>2. clifd \notin closed
    BY DEF IInv, Between
  <2>3. CASE c = clifd
    <3>1. Places(c) = {<<"hand">>}
      BY <2>1, <2>2, <2>3 DEF Places
    <3>. QED
      BY <3>1
  <2>4. CASE c \in closed
    <3>1. Places(c) = {<<"closed">>}
      BY <2>1, <2>2, <2>4 DEF Places
    <3>. QED
      BY <3>1
  <2>. QED
    BY <1>2, <1>3, <2>3, <2>4
<1>4. ASSUME NEW w \in Worker, c \in Of(w)
      PROVE  \E place : Places(c) = {place}
  <2>1. c # clifd /\ c \notin closed /\ \A v \in Worker \ {w} : c \notin Of(v)
    BY <1>4 DEF IInv, Between
  <2>2. /\ Distinct(inq[w]) /\ Distinct(inq2[w])
        /\ Elements(inq[w]) \cap Elements(inq2[w]) = {}
        /\ conns[w] \cap (Elements(inq[w]) \cup Elements(inq2[w])) = {}
    BY DEF IInv, Own
  <2>3. /\ inq \in [Worker -> Seq(Client)] /\ inq2 \in [Worker -> Seq(Client)]
        /\ \A v \in Worker : Len(inq[v]) <= maxfds /\ Len(inq2[v]) <= maxfds
    BY DEF IInv, StateOK
  <2>4. CASE c \in Elements(inq[w])
    <3>1. \A v \in Worker : c \notin Elements(inq2[v]) /\ c \notin conns[v]
      BY <2>1, <2>2, <2>4 DEF Of
    <3>2. PICK p : Positions(inq, c) = {p}
      BY <2>1, <2>2, <2>3, <2>4, QueuedOnce DEF Of
    <3>3. Positions(inq2, c) = {}
      BY <3>1, NotQueued
    <3>4. Places(c) = {<<"inq", p>>}
      BY <2>1, <3>1, <3>2, <3>3 DEF Places
    <3>. QED
      BY <3>4
  <2>5. CASE c \in Elements(inq2[w])
    <3>1. \A v \in Worker : c \notin Elements(inq[v]) /\ c \notin conns[v]
      BY <2>1, <2>2, <2>5 DEF Of
    <3>2. PICK p : Positions(inq2, c) = {p}
      BY <2>1, <2>2, <2>3, <2>5, QueuedOnce DEF Of
    <3>3. Positions(inq, c) = {}
      BY <3>1, NotQueued
    <3>4. Places(c) = {<<"inq2", p>>}
      BY <2>1, <3>1, <3>2, <3>3 DEF Places
    <3>. QED
      BY <3>4
  <2>6. CASE c \in conns[w]
    <3>1. \A v \in Worker : c \notin Elements(inq[v]) /\ c \notin Elements(inq2[v])
      BY <2>1, <2>2, <2>6 DEF Of
    <3>2. {v \in Worker : c \in conns[v]} = {w}
      BY <2>1, <2>6 DEF Of
    <3>3. Positions(inq, c) = {} /\ Positions(inq2, c) = {}
      BY <3>1, NotQueued
    <3>4. Places(c) = {<<"conns", w>>}
      BY <2>1, <3>2, <3>3 DEF Places
    <3>. QED
      BY <3>4
  <2>. QED
    BY <1>4, <2>4, <2>5, <2>6 DEF Of
<1>. QED
  BY <1>3, <1>4

(* A client that was accepted is in exactly one place: no client is lost   *)
(* between _accept_client, work_add_connection and _work_get_connection,   *)
(* none is served twice, none after its socket was closed.                 *)
THEOREM OnePlaceHolds == Spec => []OnePlace
<1>1. IInv => OnePlace
  <2>. SUFFICES ASSUME IInv, NEW c \in 1..came
                PROVE  Cardinality(Places(c)) = 1
    BY DEF OnePlace
  <2>1. PICK place : Places(c) = {place}
    BY PlaceIsOne
  <2>. QED
    BY <2>1, FS_Singleton
<1>. QED
  BY <1>1, InvHolds, PTL

=============================================================================
