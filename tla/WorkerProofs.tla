---------------------------- MODULE WorkerProofs ----------------------------
(* Proofs about module Worker, for a table of any size, any number of      *)
(* clients, and streams and packets of any length.                         *)
EXTENDS Worker, FiniteSetTheorems, SequenceTheorems, TLAPS

EventSets == SUBSET ((Fd \cup {NoFd}) \X Id)

WorldType ==
  [id : Id, c : Connection, snd : EventSets, rcv : EventSets, nb : Int,
   ret : Int, close : BOOLEAN, frees : Nat]

(* PacketAccounting of one connection. *)
Counted(c) == c.nalloced = Held(c.q.cli) + Held(c.q.svr) + c.q.cli.lost + c.q.svr.lost

(* Nothing was sent in part to a server that is not connected yet.         *)
Early(c) == c.wait \/ c.fd.svr = NoFd => c.q.cli.blkpkt = NoPkt

(* No packet is current. *)
Clear(c) == \A x \in Side : c.q[x].pkt = NoPkt

Fine(c) == Counted(c) /\ Early(c) /\ Clear(c)

(* A handler goes on with the connection, or has failed. *)
Same(w, v) ==
  v \in WorldType /\ v.id = w.id /\ v.frees = w.frees /\ (v.ret = -1 \/ Fine(v.c))

(* A handler goes on with the connection or has freed it, once. *)
Done(w, v) ==
  /\ v \in WorldType /\ v.id = w.id /\ v.frees \in {0, 1}
  /\ v.frees = 0 => Fine(v.c)

-----------------------------------------------------------------------------
(* Queues *)

LEMMA PendingIs ==
  ASSUME NEW q \in Queue
  PROVE  /\ Pending(q) \in Seq(Packet)
         /\ Len(Pending(q)) = (IF q.blkpkt = NoPkt THEN 0 ELSE 1) + Len(q.outq)
         /\ q.blkpkt = NoPkt => Pending(q) = q.outq
         /\ Len(q.outq) \in Nat
         /\ Held(q) = Len(Pending(q)) + (IF q.pkt = NoPkt THEN 0 ELSE 1)
         /\ Held(q) \in Nat
<1>. DEFINE b == IF q.blkpkt = NoPkt THEN <<>> ELSE <<q.blkpkt>>
<1>1. q.outq \in Seq(Packet) /\ q.blkpkt \in Packet \cup {NoPkt}
  BY DEF Queue
<1>2. b \in Seq(Packet) /\ Len(b) = (IF q.blkpkt = NoPkt THEN 0 ELSE 1)
  <2>1. CASE q.blkpkt = NoPkt
    <3>1. b = <<>>
      BY <2>1
    <3>. QED
      BY <3>1, <2>1
  <2>2. CASE q.blkpkt # NoPkt
    <3>1. q.blkpkt \in Packet /\ b = <<q.blkpkt>>
      BY <1>1, <2>2
    <3>. HIDE DEF b
    <3>. QED
      BY <3>1, <2>2
  <2>. QED
    BY <2>1, <2>2
<1>3. Pending(q) = b \o q.outq
  BY DEF Pending
<1>4. q.blkpkt = NoPkt => b = <<>>
  OBVIOUS
<1>. HIDE DEF b
<1>5. Pending(q) \in Seq(Packet) /\ Len(Pending(q)) = Len(b) + Len(q.outq)
  BY <1>1, <1>2, <1>3, ConcatProperties, Zenon
<1>6. Len(q.outq) \in Nat
  BY <1>1
<1>7. q.blkpkt = NoPkt => Pending(q) = q.outq
  BY <1>1, <1>3, <1>4, ConcatEmptySeq, Zenon
<1>8. Held(q) = Len(Pending(q)) + (IF q.pkt = NoPkt THEN 0 ELSE 1)
  BY DEF Held
<1>9. Len(Pending(q)) \in Nat
  <2>1. \A s \in Seq(Packet) : Len(s) \in Nat
    OBVIOUS
  <2>. QED
    BY <1>5, <2>1, Zenon
<1>10. Held(q) \in Nat
  BY <1>8, <1>9
<1>. QED
  BY <1>2, <1>5, <1>6, <1>7, <1>8, <1>10, Zenon

LEMMA SidesAre ==
  ASSUME NEW x \in Side
  PROVE  Other(x) \in Side /\ Other(x) # x /\ Other(Other(x)) = x /\ Side = {x, Other(x)}
BY DEF Side, Other

LEMMA ConnectionIs ==
  ASSUME NEW c \in Connection, NEW x \in Side
  PROVE  /\ c.q[x] \in Queue /\ c.q[Other(x)] \in Queue /\ c.nalloced \in Int
         /\ Held(c.q[x]) \in Nat /\ Held(c.q[Other(x)]) \in Nat
         /\ c.q[x].lost \in Int /\ c.q[Other(x)].lost \in Int
         /\ Counted(c) <=>
              c.nalloced = Held(c.q[x]) + Held(c.q[Other(x)]) + c.q[x].lost + c.q[Other(x)].lost
<1>1. /\ c.q[x] \in Queue /\ c.q[Other(x)] \in Queue /\ c.nalloced \in Int
  BY SidesAre DEF Connection
<1>2. /\ Held(c.q[x]) \in Nat /\ Held(c.q[Other(x)]) \in Nat
      /\ c.q[x].lost \in Int /\ c.q[Other(x)].lost \in Int
  BY <1>1, PendingIs DEF Queue
<1>3. CASE x = "cli"
  BY <1>1, <1>2, <1>3 DEF Counted, Other
<1>4. CASE x = "svr"
  BY <1>1, <1>2, <1>4 DEF Counted, Other
<1>. QED
  BY <1>3, <1>4, <1>1, <1>2 DEF Side

(* What a send leaves of a queue. *)
LEMMA SentIs ==
  ASSUME NEW q \in Queue, NEW ps \in Seq(Packet)
  PROVE  /\ Sent(q, ps) \in Queue
         /\ Sent(q, ps).pkt = q.pkt /\ Sent(q, ps).outq = q.outq
         /\ Sent(q, ps).blkpkt = q.blkpkt /\ Sent(q, ps).lost = q.lost
<1>1. EndOf(ps, q.sent) \in Int
  <2>1. CASE ps = <<>>
    BY <2>1 DEF EndOf, Queue
  <2>2. CASE ps # <<>>
    <3>1. Len(ps) \in 1..Len(ps)
      BY <2>2
    <3>2. ps[Len(ps)] \in Packet
      BY <3>1
    <3>. QED
      BY <2>2, <3>2 DEF EndOf, Packet
  <2>. QED
    BY <2>1, <2>2
<1>2. (q.gap \/ ~Follows(ps, q.sent)) \in BOOLEAN
  OBVIOUS
<1>3. PICK e \in Int, g \in BOOLEAN :
         e = EndOf(ps, q.sent) /\ g = (q.gap \/ ~Follows(ps, q.sent))
  BY <1>1, <1>2
<1>4. Sent(q, ps) = [q EXCEPT !.gap = g, !.sent = e]
  BY <1>3 DEF Sent
<1>. QED
  BY <1>4 DEF Queue

-----------------------------------------------------------------------------
(* Worlds *)

(* A new queue, count of packets, flag and send set. *)
Put(w, x, q, a, y, b, s, n) ==
  [w EXCEPT !.c.q[x] = q, !.c.nalloced = a, !.c.block[y] = b, !.snd = s, !.nb = n]

(* v is w but for the queue of x and the count. *)
Differs(w, v, x, q, a) ==
  /\ v \in WorldType /\ v.id = w.id /\ v.frees = w.frees
  /\ v.c.fd = w.c.fd /\ v.c.wait = w.c.wait /\ v.c.nalloced = a
  /\ v.c.q[x] = q /\ \A z \in Side : z # x => v.c.q[z] = w.c.q[z]

LEMMA PutIs ==
  ASSUME NEW w \in WorldType, NEW x \in Side, NEW y \in Side, NEW q \in Queue,
         NEW a \in Int, NEW b \in BOOLEAN, NEW s \in EventSets, NEW n \in Int
  PROVE  Differs(w, Put(w, x, q, a, y, b, s, n), x, q, a)
<1>0. PICK v : v = Put(w, x, q, a, y, b, s, n)
  OBVIOUS
<1>1. w.c \in Connection /\ w.c.q \in [Side -> Queue] /\ w.c.block \in [Side -> BOOLEAN]
  BY DEF WorldType, Connection
<1>. DEFINE c == [w.c EXCEPT !.q = [w.c.q EXCEPT ![x] = q], !.nalloced = a,
                             !.block = [w.c.block EXCEPT ![y] = b]]
<1>2. /\ c \in Connection /\ c.fd = w.c.fd /\ c.wait = w.c.wait /\ c.nalloced = a
      /\ c.q[x] = q /\ \A z \in Side : z # x => c.q[z] = w.c.q[z]
  BY <1>1 DEF Connection
<1>3. v = [w EXCEPT !.c = c, !.snd = s, !.nb = n]
  BY <1>0, <1>1 DEF Put, WorldType, Connection
<1>. HIDE DEF c
<1>4. v \in WorldType /\ v.id = w.id /\ v.frees = w.frees /\ v.c = c
  BY <1>2, <1>3 DEF WorldType
<1>. QED
  BY <1>0, <1>2, <1>4 DEF Differs

LEMMA FailedIs ==
  ASSUME NEW w \in WorldType
  PROVE  /\ Failed(w) \in WorldType /\ Failed(w).id = w.id /\ Failed(w).frees = w.frees
         /\ Failed(w).c = w.c
BY DEF Failed, WorldType

LEMMA FreeIs ==
  ASSUME NEW w \in WorldType
  PROVE  /\ Free(w) \in WorldType /\ Free(w).id = w.id /\ Free(w).frees = w.frees + 1
         /\ Free(w).close = w.close
         /\ Free(w).c.q.cli.outq = <<>> /\ Free(w).c.q.cli.blkpkt = w.c.q.cli.blkpkt
<1>1. /\ w.c \in Connection /\ w.c.q.cli \in Queue /\ w.c.q.svr \in Queue
  BY DEF WorldType, Connection, Side
<1>2. PICK n \in Int : n = w.c.nalloced - Held(w.c.q.cli) - Held(w.c.q.svr)
  <2>1. Held(w.c.q.cli) \in Nat /\ Held(w.c.q.svr) \in Nat /\ w.c.nalloced \in Int
    BY <1>1, PendingIs DEF Connection
  <2>. QED
    BY <2>1
<1>3. \A z \in Side : [w.c.q[z] EXCEPT !.outq = <<>>] \in Queue
  <2>1. <<>> \in Seq(Packet)
    OBVIOUS
  <2>. QED
    BY <2>1, <1>1 DEF Queue, Connection
<1>4. PICK c : c = Clean(w.c)
  OBVIOUS
<1>5. c = [w.c EXCEPT !.nalloced = n, !.q.cli.outq = <<>>, !.q.svr.outq = <<>>]
  BY <1>2, <1>4 DEF Clean
<1>6. c \in Connection
  BY <1>1, <1>3, <1>5 DEF Connection, Side
<1>7. c.q.cli.outq = <<>> /\ c.q.cli.blkpkt = w.c.q.cli.blkpkt
  BY <1>1, <1>5 DEF Connection, Side, Queue
<1>8. PICK s \in EventSets, r \in EventSets, f \in Nat :
        /\ Free(w) = [w EXCEPT !.snd = s, !.rcv = r, !.c = c, !.frees = f]
        /\ f = w.frees + 1
  <2>. DEFINE s == {e \in w.snd : e[1] \notin {w.c.fd[x] : x \in Side}}
              r == {e \in w.rcv : e[1] \notin {w.c.fd[x] : x \in Side}}
  <2>1. s \in EventSets /\ r \in EventSets /\ w.frees + 1 \in Nat
    BY DEF WorldType, EventSets
  <2>2. Free(w) = [w EXCEPT !.snd = s, !.rcv = r, !.c = c, !.frees = w.frees + 1]
    BY <1>4, Zenon DEF Free
  <2>. QED
    BY <2>1, <2>2
<1>9. Free(w) \in WorldType /\ Free(w).id = w.id /\ Free(w).frees = w.frees + 1
  BY <1>6, <1>8 DEF WorldType
<1>10. Free(w).c = c /\ Free(w).close = w.close
  BY <1>8 DEF WorldType
<1>. QED
  BY <1>7, <1>9, <1>10

LEMMA FreeIfIs ==
  ASSUME NEW w, NEW v, Same(w, v), w.frees = 0
  PROVE  Done(w, FreeIf(v))
<1>1. v \in WorldType /\ v.id = w.id /\ v.frees = 0 /\ (v.ret = -1 \/ Fine(v.c))
  BY DEF Same
<1>2. Free(v) \in WorldType /\ Free(v).id = w.id /\ Free(v).frees = 1
  BY <1>1, FreeIs
<1>. QED
  BY <1>1, <1>2 DEF Done, FreeIf

(* A new queue. *)
PutQueue(w, x, q) == [w EXCEPT !.c.q[x] = q]

LEMMA PutQueueIs ==
  ASSUME NEW w \in WorldType, NEW x \in Side, NEW q \in Queue
  PROVE  /\ Differs(w, PutQueue(w, x, q), x, q, w.c.nalloced)
         /\ PutQueue(w, x, q).c.block = w.c.block
<1>0. PICK v : v = PutQueue(w, x, q)
  OBVIOUS
<1>1. w.c \in Connection /\ w.c.q \in [Side -> Queue]
  BY DEF WorldType, Connection
<1>. DEFINE c == [w.c EXCEPT !.q = [w.c.q EXCEPT ![x] = q]]
<1>2. /\ c \in Connection /\ c.fd = w.c.fd /\ c.wait = w.c.wait /\ c.nalloced = w.c.nalloced
      /\ c.block = w.c.block
      /\ c.q[x] = q /\ \A z \in Side : z # x => c.q[z] = w.c.q[z]
  BY <1>1 DEF Connection
<1>3. v = [w EXCEPT !.c = c]
  BY <1>0, <1>1 DEF PutQueue, WorldType, Connection
<1>. HIDE DEF c
<1>4. v \in WorldType /\ v.id = w.id /\ v.frees = w.frees /\ v.c = c
  BY <1>2, <1>3 DEF WorldType
<1>. QED
  BY <1>0, <1>2, <1>4 DEF Differs

(* What the properties of a connection need of a changed queue. *)
Balanced(w, q, a, x) ==
  /\ q.pkt = NoPkt
  /\ a - Held(q) - q.lost = w.c.nalloced - Held(w.c.q[x]) - w.c.q[x].lost
  /\ x = "cli" => q.blkpkt = NoPkt \/ (~w.c.wait /\ w.c.fd.svr # NoFd)

LEMMA FineIs ==
  ASSUME NEW w \in WorldType, Fine(w.c), NEW v, NEW x \in Side, NEW q \in Queue, NEW a,
         Differs(w, v, x, q, a), Balanced(w, q, a, x)
  PROVE  Fine(v.c)
<1>1. v.c \in Connection /\ w.c \in Connection
  BY DEF WorldType, Differs
<1>0. /\ v.c.fd = w.c.fd /\ v.c.wait = w.c.wait
      /\ v.c.q[Other(x)] = w.c.q[Other(x)] /\ v.c.q[x].pkt = NoPkt
      /\ v.c.nalloced - Held(v.c.q[x]) - v.c.q[x].lost
           = w.c.nalloced - Held(w.c.q[x]) - w.c.q[x].lost
      /\ x = "cli" => v.c.q[x].blkpkt = NoPkt \/ (~w.c.wait /\ w.c.fd.svr # NoFd)
  BY SidesAre DEF Differs, Balanced
<1>2. Counted(v.c)
  <2>1. /\ v.c.nalloced \in Int /\ w.c.nalloced \in Int
        /\ Held(v.c.q[x]) \in Nat /\ Held(w.c.q[x]) \in Nat /\ Held(w.c.q[Other(x)]) \in Nat
        /\ v.c.q[x].lost \in Int /\ w.c.q[x].lost \in Int /\ w.c.q[Other(x)].lost \in Int
    BY <1>1, ConnectionIs
  <2>2. w.c.nalloced = Held(w.c.q[x]) + Held(w.c.q[Other(x)]) + w.c.q[x].lost + w.c.q[Other(x)].lost
    BY <1>1, ConnectionIs DEF Fine
  <2>3. v.c.nalloced = Held(v.c.q[x]) + Held(v.c.q[Other(x)]) + v.c.q[x].lost + v.c.q[Other(x)].lost
    BY <2>1, <2>2, <1>0
  <2>. QED
    BY <1>1, <2>3, ConnectionIs
<1>3. Early(v.c)
  <2>1. CASE x = "cli"
    BY <1>0, <2>1 DEF Early
  <2>2. CASE x = "svr"
    <3>1. v.c.q.cli = w.c.q.cli
      BY <1>0, <2>2 DEF Other
    <3>. QED
      BY <1>0, <3>1 DEF Fine, Early
  <2>. QED
    BY <2>1, <2>2 DEF Side
<1>4. Clear(v.c)
  BY <1>0, SidesAre DEF Fine, Clear
<1>. QED
  BY <1>2, <1>3, <1>4 DEF Fine

-----------------------------------------------------------------------------
(* Receiving *)

(* A packet from the pool, with n bytes in it. *)
LEMMA ReceivedIs ==
  ASSUME NEW w \in WorldType, Fine(w.c), NEW x \in Side, NEW n \in Nat, NEW v,
         v = [w EXCEPT !.c.q[x] = [@ EXCEPT !.pkt = <<w.c.q[x].got + 1, w.c.q[x].got + n>>,
                                           !.got = w.c.q[x].got + n],
                       !.c.nalloced = @ + 1]
  PROVE  /\ v \in WorldType /\ v.id = w.id /\ v.frees = w.frees
         /\ Counted(v.c) /\ Early(v.c) /\ v.c.q[Other(x)].pkt = NoPkt
<1>1. w.c \in Connection /\ w.c.q \in [Side -> Queue]
  BY DEF WorldType, Connection
<1>2. PICK p \in Packet, g \in Int, a \in Int :
        /\ p = <<w.c.q[x].got + 1, w.c.q[x].got + n>> /\ g = w.c.q[x].got + n
        /\ a = w.c.nalloced + 1
  <2>1. w.c.q[x].got \in Int /\ w.c.nalloced \in Int
    BY <1>1 DEF Queue, Connection
  <2>2. w.c.q[x].got + 1 \in Int /\ w.c.q[x].got + n \in Int /\ w.c.nalloced + 1 \in Int
    BY <2>1
  <2>3. <<w.c.q[x].got + 1, w.c.q[x].got + n>> \in Packet
    BY <2>2 DEF Packet
  <2>. QED
    BY <2>2, <2>3, Zenon
<1>. DEFINE q == [w.c.q[x] EXCEPT !.pkt = p, !.got = g]
            c == [w.c EXCEPT !.q = [w.c.q EXCEPT ![x] = q], !.nalloced = a]
<1>3. /\ q \in Queue /\ q.pkt = p /\ q.outq = w.c.q[x].outq
      /\ q.blkpkt = w.c.q[x].blkpkt /\ q.lost = w.c.q[x].lost
  BY <1>1 DEF Queue
<1>4. v = [w EXCEPT !.c.q[x] = q, !.c.nalloced = a]
  BY <1>2, Zenon
<1>. HIDE DEF q
<1>5. /\ c \in Connection /\ c.fd = w.c.fd /\ c.wait = w.c.wait /\ c.nalloced = a
      /\ c.q[x] = q /\ \A z \in Side : z # x => c.q[z] = w.c.q[z]
  BY <1>1, <1>3 DEF Connection
<1>51. v = [w EXCEPT !.c = c]
  BY <1>1, <1>4 DEF WorldType, Connection
<1>. HIDE DEF c
<1>6. /\ v \in WorldType /\ v.id = w.id /\ v.frees = w.frees /\ v.c = c
  BY <1>51, <1>5 DEF WorldType
<1>7. c.q[Other(x)] = w.c.q[Other(x)] /\ w.c.q[x].pkt = NoPkt /\ w.c.q[Other(x)].pkt = NoPkt
  BY <1>5, SidesAre DEF Fine, Clear
<1>8. Held(q) = Held(w.c.q[x]) + 1
  <2>1. p # NoPkt
    BY <1>2 DEF NoPkt
  <2>2. Pending(q) = Pending(w.c.q[x])
    BY <1>3 DEF Pending
  <2>3. Held(q) = Len(Pending(w.c.q[x])) + 1 /\ Held(w.c.q[x]) = Len(Pending(w.c.q[x])) + 0
    BY <2>1, <2>2, <1>3, <1>7 DEF Held
  <2>4. Len(Pending(w.c.q[x])) \in Nat
    BY <1>1, PendingIs
  <2>. QED
    BY <2>3, <2>4
<1>9. Counted(c)
  <2>1. c.nalloced = Held(c.q[x]) + Held(c.q[Other(x)]) + c.q[x].lost + c.q[Other(x)].lost
    <3>1. /\ w.c.nalloced \in Int /\ Held(w.c.q[x]) \in Nat /\ Held(w.c.q[Other(x)]) \in Nat
          /\ w.c.q[x].lost \in Int /\ w.c.q[Other(x)].lost \in Int
          /\ w.c.nalloced = Held(w.c.q[x]) + Held(w.c.q[Other(x)])
                              + w.c.q[x].lost + w.c.q[Other(x)].lost
      BY <1>1, ConnectionIs DEF Fine
    <3>. QED
      BY <3>1, <1>2, <1>3, <1>5, <1>7, <1>8
  <2>. QED
    BY <2>1, <1>5, ConnectionIs
<1>10. Early(c)
  <2>1. c.q.cli.blkpkt = w.c.q.cli.blkpkt
    BY <1>3, <1>5 DEF Side
  <2>. QED
    BY <2>1, <1>5 DEF Fine, Early
<1>. QED
  BY <1>6, <1>7, <1>9, <1>10

LEMMA RecvFromIs ==
  ASSUME NEW w \in WorldType, Fine(w.c), NEW x \in Side, NEW v \in RecvFrom(w, x)
  PROVE  /\ v \in WorldType /\ v.id = w.id /\ v.frees = w.frees
         /\ Counted(v.c) /\ Early(v.c) /\ v.c.q[Other(x)].pkt = NoPkt
<1>. DEFINE R(n) == [w EXCEPT !.c.q[x] =
                                [@ EXCEPT !.pkt = <<w.c.q[x].got + 1, w.c.q[x].got + n>>,
                                          !.got = w.c.q[x].got + n],
                              !.c.nalloced = @ + 1]
            Good(u) == /\ u \in WorldType /\ u.id = w.id /\ u.frees = w.frees
                       /\ Counted(u.c) /\ Early(u.c) /\ u.c.q[Other(x)].pkt = NoPkt
<1>1. \/ v = Failed(w) \/ v = Failed(R(0)) \/ v = w \/ v = [w EXCEPT !.close = TRUE]
      \/ \E n \in 1..MaxPkt : v = R(n)
  BY DEF RecvFrom
<1>2. ASSUME NEW n \in Nat PROVE Good(R(n))
  BY ReceivedIs
<1>3. Good(w)
  BY SidesAre DEF Fine, Clear
<1>. HIDE DEF R
<1>4. ASSUME NEW u, Good(u) PROVE Good(Failed(u))
  BY <1>4, FailedIs
<1>5. Good([w EXCEPT !.close = TRUE])
  <2>1. [w EXCEPT !.close = TRUE] \in WorldType /\ [w EXCEPT !.close = TRUE].c = w.c
    BY DEF WorldType
  <2>2. [w EXCEPT !.close = TRUE].id = w.id /\ [w EXCEPT !.close = TRUE].frees = w.frees
    BY DEF WorldType
  <2>. QED
    BY <2>1, <2>2, <1>3
<1>6. \A n \in 1..MaxPkt : n \in Nat
  BY SizeAssumption
<1>. HIDE DEF Good
<1>7. Good(v)
  BY <1>1, <1>2, <1>3, <1>4, <1>5, <1>6
<1>. QED
  BY <1>7 DEF Good

(* The packet moves to the output queue. *)
LEMMA ParseIs ==
  ASSUME NEW w \in WorldType, NEW x \in Side, Counted(w.c), Early(w.c),
         w.c.q[Other(x)].pkt = NoPkt
  PROVE  Same(w, Parse(w, x))
<1>1. CASE w.c.q[x].pkt = NoPkt
  <2>1. Clear(w.c)
    BY <1>1, SidesAre DEF Clear
  <2>. QED
    BY <1>1, <2>1 DEF Parse, Same, Fine
<1>2. CASE w.c.q[x].pkt # NoPkt
  <2>1. /\ w.c \in Connection /\ w.c.q \in [Side -> Queue] /\ w.c.q[x] \in Queue
    BY DEF WorldType, Connection
  <2>2. w.c.q[x].pkt \in Packet /\ w.c.q[x].outq \in Seq(Packet)
    BY <1>2, <2>1 DEF Queue
  <2>. DEFINE o == Append(w.c.q[x].outq, w.c.q[x].pkt)
              q == [w.c.q[x] EXCEPT !.outq = o, !.pkt = NoPkt]
              c == [w.c EXCEPT !.q = [w.c.q EXCEPT ![x] = q]]
              v == [w EXCEPT !.c = c]
  <2>3. o \in Seq(Packet) /\ Len(o) = Len(w.c.q[x].outq) + 1
    BY <2>2
  <2>. HIDE DEF o
  <2>4. /\ q \in Queue /\ q.pkt = NoPkt /\ q.outq = o
        /\ q.blkpkt = w.c.q[x].blkpkt /\ q.lost = w.c.q[x].lost
    BY <2>1, <2>3 DEF Queue
  <2>50. Parse(w, x) = [w EXCEPT !.c.q[x] = q]
    BY <1>2 DEF Parse, o
  <2>. HIDE DEF q
  <2>5. Parse(w, x) = v
    BY <2>50, <2>1 DEF WorldType, Connection
  <2>6. /\ c \in Connection /\ c.fd = w.c.fd /\ c.wait = w.c.wait /\ c.nalloced = w.c.nalloced
        /\ c.q[x] = q /\ \A z \in Side : z # x => c.q[z] = w.c.q[z]
    BY <2>1, <2>4 DEF Connection
  <2>. HIDE DEF c
  <2>7. v \in WorldType /\ v.id = w.id /\ v.frees = w.frees /\ v.c = c
    BY <2>6 DEF WorldType
  <2>8. c.q[Other(x)] = w.c.q[Other(x)]
    BY <2>6, SidesAre
  <2>9. Held(q) = Held(w.c.q[x])
    <3>. DEFINE b == IF w.c.q[x].blkpkt = NoPkt THEN 0 ELSE 1
    <3>1. Len(w.c.q[x].outq) \in Nat
      BY <2>2, SMTT(30)
    <3>2. Len(Pending(q)) = b + Len(o) /\ Held(q) = Len(Pending(q)) + 0
      BY <2>4, PendingIs
    <3>3. /\ Len(Pending(w.c.q[x])) = b + Len(w.c.q[x].outq)
          /\ Held(w.c.q[x]) = Len(Pending(w.c.q[x])) + 1
      BY <2>1, <1>2, PendingIs
    <3>4. b \in Nat
      OBVIOUS
    <3>. HIDE DEF b
    <3>. QED
      BY <3>1, <3>2, <3>3, <3>4, <2>3
  <2>10. Counted(c)
    BY <2>1, <2>4, <2>6, <2>8, <2>9, ConnectionIs
  <2>11. Early(c)
    <3>1. c.q.cli.blkpkt = w.c.q.cli.blkpkt
      BY <2>4, <2>6 DEF Side
    <3>. QED
      BY <3>1, <2>6 DEF Early
  <2>12. Clear(c)
    BY <2>4, <2>6, <2>8, SidesAre DEF Clear
  <2>. QED
    BY <2>5, <2>7, <2>10, <2>11, <2>12 DEF Same, Fine
<1>. QED
  BY <1>1, <1>2

-----------------------------------------------------------------------------
(* Sending *)

(* k whole packets leave the queue. *)
LEMMA SentWholeIs ==
  ASSUME NEW w \in WorldType, Fine(w.c), NEW y \in Side, NEW x, x = Other(y),
         NEW k \in 0..Len(Pending(w.c.q[x])), NEW v, v = SentWhole(w, y, k)
  PROVE  /\ v \in WorldType /\ v.id = w.id /\ v.frees = w.frees /\ Fine(v.c)
         /\ v.c.fd = w.c.fd /\ v.c.wait = w.c.wait /\ v.c.q[x].blkpkt = NoPkt
         /\ k < Len(Pending(w.c.q[x])) => v.c.q[x].outq # <<>>
<1>. DEFINE ps == Pending(w.c.q[x])
            rest == SubSeq(ps, k + 1, Len(ps))
<1>1. x \in Side /\ Other(x) = y /\ w.c \in Connection /\ w.c.q[x] \in Queue
  BY SidesAre DEF WorldType, Connection
<1>2. ps \in Seq(Packet)
  BY <1>1, PendingIs
<1>. HIDE DEF ps
<1>3. SubSeq(ps, 1, k) \in Seq(Packet) /\ rest \in Seq(Packet) /\ Len(rest) = Len(ps) - k
  BY <1>2 DEF ps
<1>. HIDE DEF rest
<1>4. PICK s \in Queue : s = Sent(w.c.q[x], SubSeq(ps, 1, k)) /\ s.pkt = w.c.q[x].pkt /\ s.lost = w.c.q[x].lost
  BY <1>1, <1>3, SentIs
<1>. DEFINE q == [s EXCEPT !.blkpkt = NoPkt, !.outq = rest]
<1>5. /\ q \in Queue /\ q.pkt = NoPkt /\ q.outq = rest /\ q.blkpkt = NoPkt /\ q.lost = w.c.q[x].lost
  BY <1>1, <1>3, <1>4 DEF Queue, Fine, Clear
<1>6. PICK b \in BOOLEAN, e \in EventSets, n \in Int, a \in Int :
        /\ v = Put(w, x, q, a, y, b, e, n)
        /\ a = w.c.nalloced - k
  <2>. DEFINE u == k > 0 /\ w.c.block[y]
              b == w.c.block[y] /\ ~u
              e == IF u THEN w.snd \ {Event(w, y)} ELSE w.snd
              n == IF u THEN w.nb - 1 ELSE w.nb
              a == w.c.nalloced - k
  <2>1. b \in BOOLEAN /\ e \in EventSets /\ n \in Int /\ a \in Int
    <3>1. w.c.block \in [Side -> BOOLEAN] /\ w.snd \in EventSets /\ w.nb \in Int /\ w.c.nalloced \in Int
      BY <1>1 DEF WorldType, Connection
    <3>2. k \in Int
      OBVIOUS
    <3>. QED
      BY <3>1, <3>2 DEF EventSets
  <2>2. v = Put(w, x, q, a, y, b, e, n)
    BY <1>4 DEF SentWhole, Put, ps, rest
  <2>. QED
    BY <2>1, <2>2, Zenon
<1>. HIDE DEF q
<1>7. Differs(w, v, x, q, a)
  BY <1>1, <1>5, <1>6, PutIs
<1>8. Len(ps) \in Nat /\ k \in Int
  BY <1>2
<1>9. Held(q) = Len(ps) - k /\ Held(w.c.q[x]) = Len(ps)
  <2>1. Pending(q) = rest /\ Held(q) = Len(Pending(q)) + 0
    BY <1>5, PendingIs
  <2>2. Held(w.c.q[x]) = Len(ps) + 0
    BY <1>1, PendingIs DEF ps, Fine, Clear
  <2>. QED
    BY <2>1, <2>2, <1>3, <1>8
<1>10. Balanced(w, q, a, x)
  <2>1. w.c.nalloced \in Int /\ w.c.q[x].lost \in Int
    BY <1>1, ConnectionIs
  <2>2. a - Held(q) - q.lost = w.c.nalloced - Held(w.c.q[x]) - w.c.q[x].lost
    <3>1. PICK h \in Int, l \in Int, m \in Int :
            h = Len(ps) /\ l = w.c.q[x].lost /\ m = w.c.nalloced
      BY <2>1, <1>8
    <3>2. a = m - k /\ Held(q) = h - k /\ q.lost = l /\ Held(w.c.q[x]) = h
      BY <3>1, <1>5, <1>6, <1>9
    <3>3. (m - k) - (h - k) - l = m - h - l
      BY <3>1, <1>8
    <3>. QED
      BY <3>1, <3>2, <3>3
  <2>3. q.pkt = NoPkt /\ q.blkpkt = NoPkt
    BY <1>5
  <2>. QED
    BY <2>2, <2>3 DEF Balanced
<1>11. Fine(v.c)
  BY <1>1, <1>5, <1>7, <1>10, FineIs
<1>12. k < Len(ps) => rest # <<>>
  BY <1>3, <1>8
<1>. QED
  BY <1>5, <1>7, <1>11, <1>12 DEF ps, Differs

(* The next packet goes unsent. *)
LEMMA SendFailsIs ==
  ASSUME NEW w \in WorldType, NEW x \in Side, w.c.q[x].outq # <<>>
  PROVE  Same(w, SendFails(w, x))
<1>1. w.c \in Connection /\ w.c.q[x] \in Queue
  BY DEF WorldType, Connection
<1>. DEFINE q == [w.c.q[x] EXCEPT !.outq = Tail(w.c.q[x].outq)]
<1>2. q \in Queue
  <2>1. Tail(w.c.q[x].outq) \in Seq(Packet)
    BY <1>1 DEF Queue
  <2>. QED
    BY <2>1, <1>1 DEF Queue
<1>3. PICK a \in Int : a = w.c.nalloced - 1
  BY <1>1 DEF Connection
<1>. DEFINE u == [w EXCEPT !.c.q[x] = q, !.c.nalloced = a]
            c == [w.c EXCEPT !.q = [w.c.q EXCEPT ![x] = q], !.nalloced = a]
<1>4. SendFails(w, x) = Failed(u)
  BY <1>3 DEF SendFails
<1>. HIDE DEF q
<1>5. u = [w EXCEPT !.c = c] /\ c \in Connection
  BY <1>1, <1>2 DEF WorldType, Connection
<1>. HIDE DEF u, c
<1>6. u \in WorldType /\ u.id = w.id /\ u.frees = w.frees
  BY <1>5 DEF WorldType
<1>7. Failed(u).ret = -1
  BY <1>6 DEF Failed, WorldType
<1>. QED
  BY <1>4, <1>6, <1>7, FailedIs DEF Same

(* The next packet leaves the queue, sent in part. *)
Part(p, n) == IF n = 0 THEN <<>> ELSE <<<<p[1], p[1] + n - 1>>>>

LEMMA CutIs ==
  ASSUME NEW q \in Queue, q.pkt = NoPkt, q.blkpkt = NoPkt, q.outq # <<>>,
         NEW n \in Nat, NEW p, p = Head(q.outq)
  PROVE  /\ <<p[1] + n, p[2]>> \in Packet
         /\ Held(q) = Len(q.outq)
         /\ Len(Tail(q.outq)) = Len(q.outq) - 1
         /\ Len(q.outq) \in Nat
         /\ \E t \in Queue : /\ t = [Sent(q, Part(p, n)) EXCEPT !.outq = Tail(q.outq)]
                            /\ t.pkt = NoPkt /\ t.blkpkt = NoPkt /\ t.lost = q.lost
                            /\ t.outq = Tail(q.outq)
<1>. DEFINE ps == Part(p, n)
<1>1. q.outq \in Seq(Packet)
  BY DEF Queue
<1>2. /\ p \in Packet /\ Tail(q.outq) \in Seq(Packet)
      /\ Len(Tail(q.outq)) = Len(q.outq) - 1 /\ Len(q.outq) \in Nat
  BY <1>1
<1>3. p[1] \in Int /\ p[2] \in Int
  BY <1>2 DEF Packet
<1>4. <<p[1], p[1] + n - 1>> \in Packet /\ <<p[1] + n, p[2]>> \in Packet
  BY <1>3 DEF Packet
<1>5. ps \in Seq(Packet)
  <2>1. PICK one \in Packet : one = <<p[1], p[1] + n - 1>>
    BY <1>4
  <2>2. <<one>> \in Seq(Packet) /\ <<>> \in Seq(Packet)
    OBVIOUS
  <2>. QED
    BY <2>1, <2>2, Zenon DEF Part
<1>. HIDE DEF ps
<1>6. PICK s \in Queue : s = Sent(q, ps) /\ s.pkt = q.pkt /\ s.blkpkt = q.blkpkt /\ s.lost = q.lost
  BY <1>5, SentIs
<1>7. PICK o \in Seq(Packet) : o = Tail(q.outq)
  BY <1>2
<1>8. PICK t : t = [s EXCEPT !.outq = o]
  OBVIOUS
<1>9. t \in Queue /\ t.outq = o /\ t.pkt = s.pkt /\ t.blkpkt = s.blkpkt /\ t.lost = s.lost
  BY <1>8 DEF Queue
<1>10. \E u \in Queue : /\ u = [Sent(q, ps) EXCEPT !.outq = Tail(q.outq)]
                        /\ u.pkt = NoPkt /\ u.blkpkt = NoPkt /\ u.lost = q.lost
                        /\ u.outq = Tail(q.outq)
  BY <1>6, <1>7, <1>8, <1>9
<1>11. Held(q) = Len(q.outq)
  <2>1. Held(q) = Len(Pending(q)) + 0 /\ Pending(q) = q.outq
    BY PendingIs
  <2>. QED
    BY <2>1, <1>2
<1>. QED
  BY <1>2, <1>4, <1>10, <1>11 DEF ps

(* The rest of it is lost, or is the blocked packet. *)
LEMMA RestIs ==
  ASSUME NEW t \in Queue, t.pkt = NoPkt, t.blkpkt = NoPkt, NEW left \in Packet
  PROVE  /\ [t EXCEPT !.lost = t.lost + 1] \in Queue
         /\ [t EXCEPT !.lost = t.lost + 1].pkt = NoPkt
         /\ [t EXCEPT !.lost = t.lost + 1].blkpkt = NoPkt
         /\ [t EXCEPT !.lost = t.lost + 1].lost = t.lost + 1
         /\ Held([t EXCEPT !.lost = t.lost + 1]) = Len(t.outq)
         /\ [t EXCEPT !.blkpkt = left] \in Queue
         /\ [t EXCEPT !.blkpkt = left].pkt = NoPkt
         /\ [t EXCEPT !.blkpkt = left].lost = t.lost
         /\ Held([t EXCEPT !.blkpkt = left]) = 1 + Len(t.outq)
         /\ t.lost \in Int
<1>1. PICK u : u = [t EXCEPT !.lost = t.lost + 1]
  OBVIOUS
<1>2. PICK v : v = [t EXCEPT !.blkpkt = left]
  OBVIOUS
<1>3. u \in Queue /\ u.pkt = NoPkt /\ u.blkpkt = NoPkt /\ u.lost = t.lost + 1 /\ u.outq = t.outq
  BY <1>1 DEF Queue
<1>4. v \in Queue /\ v.pkt = NoPkt /\ v.blkpkt = left /\ v.lost = t.lost /\ v.outq = t.outq
  BY <1>2 DEF Queue
<1>5. left # NoPkt
  BY DEF Packet, NoPkt
<1>6. Held(u) = Len(Pending(u)) + 0 /\ Pending(u) = t.outq
  BY <1>3, PendingIs
<1>7. Held(v) = Len(Pending(v)) + 0 /\ Len(Pending(v)) = 1 + Len(t.outq)
  BY <1>4, <1>5, PendingIs
<1>8. Len(t.outq) \in Nat /\ t.lost \in Int
  BY PendingIs DEF Queue
<1>9. Held(u) = Len(t.outq) /\ Held(v) = 1 + Len(t.outq)
  BY <1>6, <1>7, <1>8
<1>. QED
  BY <1>1, <1>2, <1>3, <1>4, <1>8, <1>9

(* Part of the next packet is sent, the rest blocked or lost. *)
LEMMA SentPartIs ==
  ASSUME NEW w \in WorldType, Fine(w.c), NEW y \in Side, NEW x, x = Other(y), NEW n \in Nat,
         w.c.q[x].blkpkt = NoPkt, w.c.q[x].outq # <<>>,
         y = "svr" => ~w.c.wait /\ w.c.fd.svr # NoFd,
         NEW v \in SentPart(w, y, n)
  PROVE  Same(w, v)
<1>1. x \in Side
  BY SidesAre
<1>2. PICK q \in Queue : q = w.c.q[x]
  BY <1>1 DEF WorldType, Connection
<1>3. q.pkt = NoPkt /\ q.blkpkt = NoPkt /\ q.outq # <<>>
  BY <1>1, <1>2 DEF Fine, Clear
<1>4. PICK p : p = Head(q.outq)
  OBVIOUS
<1>5. PICK left \in Packet : left = <<p[1] + n, p[2]>>
  BY <1>3, <1>4, CutIs
<1>6. PICK t \in Queue : /\ t = [Sent(q, Part(p, n)) EXCEPT !.outq = Tail(q.outq)]
                         /\ t.pkt = NoPkt /\ t.blkpkt = NoPkt /\ t.lost = q.lost
                         /\ t.outq = Tail(q.outq)
  BY <1>3, <1>4, CutIs
<1>7. PICK h \in Nat : h = Held(q) /\ Len(t.outq) = h - 1
  <2>1. Held(q) = Len(q.outq) /\ Len(Tail(q.outq)) = Len(q.outq) - 1 /\ Len(q.outq) \in Nat
    BY <1>3, <1>4, CutIs
  <2>. QED
    BY <2>1, <1>6
<1>8. PICK cut : cut = PutQueue(w, x, t)
  OBVIOUS
<1>9. Differs(w, cut, x, t, w.c.nalloced) /\ cut.c.block = w.c.block
  BY <1>1, <1>8, PutQueueIs
<1>10. cut.c.q[x] = t /\ cut \in WorldType /\ cut.c.nalloced = w.c.nalloced
  BY <1>9 DEF Differs
<1>11. q.lost \in Int /\ w.c.nalloced \in Int
  BY DEF Queue, WorldType, Connection
<1>12. ASSUME w.c.block[y] PROVE v = PutQueue(cut, x, [t EXCEPT !.lost = t.lost + 1])
  <2>1. v = [cut EXCEPT !.c.q[x].lost = @ + 1]
    BY <1>2, <1>4, <1>6, <1>8, <1>12, Zenon DEF SentPart, PutQueue, Part
  <2>. QED
    BY <2>1, <1>10 DEF PutQueue
<1>13. ASSUME ~w.c.block[y]
       PROVE  \/ v = [cut EXCEPT !.c.q[x].blkpkt = left, !.c.block[y] = TRUE,
                                 !.snd = cut.snd \cup {Event(w, y)}, !.nb = cut.nb + 1]
              \/ v = SendFails(w, x)
  <2>1. Event(cut, y) = Event(w, y)
    BY <1>9 DEF Event, Differs
  <2>. QED
    BY <1>2, <1>4, <1>5, <1>6, <1>8, <1>13, <2>1, Zenon DEF SentPart, PutQueue, Part
<1>14. CASE w.c.block[y]
  <2>1. PICK u \in Queue : /\ u = [t EXCEPT !.lost = t.lost + 1]
                           /\ u.pkt = NoPkt /\ u.blkpkt = NoPkt
                           /\ u.lost = q.lost + 1 /\ Held(u) = Len(t.outq)
    BY <1>5, <1>6, RestIs
  <2>2. Differs(cut, v, x, u, cut.c.nalloced)
    BY <1>1, <1>10, <1>12, <1>14, <2>1, PutQueueIs
  <2>3. Differs(w, v, x, u, w.c.nalloced)
    BY <1>9, <2>2 DEF Differs
  <2>4. Balanced(w, u, w.c.nalloced, x)
    <3>1. w.c.nalloced - Held(u) - u.lost = w.c.nalloced - Held(q) - q.lost
      <4>1. Held(u) = h - 1 /\ Held(q) = h /\ u.lost = q.lost + 1
        BY <2>1, <1>7
      <4>. QED
        BY <4>1, <1>11
    <3>. QED
      BY <2>1, <3>1, <1>2 DEF Balanced
  <2>5. Fine(v.c)
    BY <1>1, <2>3, <2>4, FineIs
  <2>. QED
    BY <2>3, <2>5 DEF Same, Differs
<1>15. CASE ~w.c.block[y]
  <2>1. PICK e \in EventSets, z \in Int : e = cut.snd \cup {Event(w, y)} /\ z = cut.nb + 1
    <3>1. cut.snd \in EventSets /\ cut.nb \in Int
      BY <1>10 DEF WorldType
    <3>2. Event(w, y) \in (Fd \cup {NoFd}) \X Id
      BY DEF Event, WorldType, Connection
    <3>3. cut.snd \cup {Event(w, y)} \in EventSets
      BY <3>1, <3>2 DEF EventSets
    <3>4. cut.nb + 1 \in Int
      BY <3>1
    <3>. QED
      BY <3>3, <3>4
  <2>2. CASE v = [cut EXCEPT !.c.q[x].blkpkt = left, !.c.block[y] = TRUE, !.snd = e, !.nb = z]
    <3>1. PICK u \in Queue : /\ u = [t EXCEPT !.blkpkt = left]
                             /\ u.pkt = NoPkt /\ u.lost = q.lost /\ Held(u) = 1 + Len(t.outq)
      <4>. DEFINE u == [t EXCEPT !.blkpkt = left]
      <4>1. t.pkt = NoPkt /\ t.blkpkt = NoPkt
        BY <1>6
      <4>2. u \in Queue /\ u.pkt = NoPkt /\ u.lost = t.lost /\ Held(u) = 1 + Len(t.outq)
        BY <4>1, RestIs
      <4>. QED
        BY <4>2, <1>6
    <3>2. v = Put(cut, x, u, cut.c.nalloced, y, TRUE, e, z)
      BY <2>2, <3>1, <1>1, <1>10, ZenonT(60) DEF Put, WorldType, Connection
    <3>3. Differs(cut, v, x, u, cut.c.nalloced)
      BY <1>1, <1>10, <1>11, <3>2, PutIs
    <3>4. Differs(w, v, x, u, w.c.nalloced)
      BY <1>9, <3>3 DEF Differs
    <3>5. Balanced(w, u, w.c.nalloced, x)
      <4>1. w.c.nalloced - Held(u) - u.lost = w.c.nalloced - Held(q) - q.lost
        BY <3>1, <1>7, <1>11
      <4>2. x = "cli" => y = "svr"
        BY DEF Other, Side
      <4>. QED
        BY <3>1, <4>1, <4>2, <1>2 DEF Balanced
    <3>6. Fine(v.c)
      BY <1>1, <3>4, <3>5, FineIs
    <3>. QED
      BY <3>4, <3>6 DEF Same, Differs
  <2>3. CASE v = SendFails(w, x)
    BY <1>1, <2>3, SendFailsIs
  <2>. QED
    BY <2>1, <2>2, <2>3, <1>13, <1>15
<1>. QED
  BY <1>14, <1>15

(* _work_sendto_client's loop, and _work_sendto_server's. *)
LEMMA SendLoopIs ==
  ASSUME NEW w \in WorldType, Fine(w.c), NEW y \in Side,
         y = "svr" => ~w.c.wait /\ w.c.fd.svr # NoFd,
         NEW v \in SendLoop(w, y)
  PROVE  Same(w, v)
<1>1. PICK x : x = Other(y)
  OBVIOUS
<1>2. x \in Side
  BY <1>1, SidesAre
<1>3. PICK l \in Nat : l = Len(Pending(w.c.q[x]))
  <2>1. w.c.q[x] \in Queue
    BY <1>2 DEF WorldType, Connection
  <2>2. Pending(w.c.q[x]) \in Seq(Packet)
    BY <2>1, PendingIs
  <2>. QED
    BY <2>2
<1>4. \/ v = SentWhole(w, y, l)
      \/ \E k \in 0..(l - 1) : v = SendFails(SentWhole(w, y, k), x)
      \/ \E k \in 1..l, n \in Nat : v \in SentPart(SentWhole(w, y, k - 1), y, n)
  <2>. DEFINE ps == Pending(w.c.q[Other(y)])
              least == IF y = "svr" THEN 1 ELSE 0
  <2>1. \/ v \in {SentWhole(w, y, Len(ps))}
        \/ v \in {SendFails(SentWhole(w, y, k), Other(y)) : k \in 0..(Len(ps) - 1)}
        \/ v \in UNION {SentPart(SentWhole(w, y, kn[1] - 1), y, kn[2]) :
                     kn \in {p \in (1..Len(ps)) \X (least..MaxPkt) : p[2] < Size(ps[p[1]])}}
    BY Zenon DEF SendLoop
  <2>2. ps = Pending(w.c.q[x])
    BY <1>1
  <2>. HIDE DEF ps
  <2>3. CASE v \in UNION {SentPart(SentWhole(w, y, kn[1] - 1), y, kn[2]) :
                     kn \in {p \in (1..Len(ps)) \X (least..MaxPkt) : p[2] < Size(ps[p[1]])}}
    <3>1. PICK kn \in (1..Len(ps)) \X (least..MaxPkt) :
            v \in SentPart(SentWhole(w, y, kn[1] - 1), y, kn[2])
      BY <2>3, Zenon
    <3>2. kn[1] \in 1..Len(ps) /\ kn[2] \in least..MaxPkt
      OBVIOUS
    <3>3. kn[2] \in Nat
      BY <3>2, SizeAssumption
    <3>. QED
      BY <3>1, <3>2, <3>3, <2>2, <1>3, Zenon
  <2>. QED
    BY <2>1, <2>2, <2>3, <1>1, <1>3
<1>5. ASSUME NEW k \in 0..l
      PROVE  LET u == SentWhole(w, y, k) IN
             /\ u \in WorldType /\ u.id = w.id /\ u.frees = w.frees /\ Fine(u.c)
             /\ u.c.fd = w.c.fd /\ u.c.wait = w.c.wait /\ u.c.q[x].blkpkt = NoPkt
             /\ k < l => u.c.q[x].outq # <<>>
  BY <1>1, <1>3, SentWholeIs
<1>6. CASE v = SentWhole(w, y, l)
  BY <1>5, <1>6 DEF Same
<1>7. ASSUME NEW k \in 0..(l - 1), v = SendFails(SentWhole(w, y, k), x) PROVE Same(w, v)
  <2>1. k \in 0..l /\ k < l
    OBVIOUS
  <2>2. PICK u \in WorldType : /\ u = SentWhole(w, y, k) /\ u.id = w.id /\ u.frees = w.frees
                               /\ u.c.q[x].outq # <<>>
    BY <2>1, <1>5
  <2>3. Same(u, SendFails(u, x))
    BY <1>2, <2>2, SendFailsIs
  <2>. QED
    BY <1>7, <2>2, <2>3 DEF Same
<1>8. ASSUME NEW k \in 1..l, NEW n \in Nat, v \in SentPart(SentWhole(w, y, k - 1), y, n)
      PROVE  Same(w, v)
  <2>1. k - 1 \in 0..l /\ k - 1 < l
    OBVIOUS
  <2>2. PICK u \in WorldType :
          /\ u = SentWhole(w, y, k - 1) /\ u.id = w.id /\ u.frees = w.frees /\ Fine(u.c)
          /\ u.c.fd = w.c.fd /\ u.c.wait = w.c.wait /\ u.c.q[x].blkpkt = NoPkt
          /\ u.c.q[x].outq # <<>>
    BY <2>1, <1>5
  <2>3. v \in SentPart(u, y, n) /\ (y = "svr" => ~u.c.wait /\ u.c.fd.svr # NoFd)
    BY <1>8, <2>2
  <2>4. Same(u, v)
    BY <1>1, <2>2, <2>3, SentPartIs
  <2>. QED
    BY <2>2, <2>4 DEF Same
<1>. QED
  BY <1>4, <1>6, <1>7, <1>8

(* The server is there, fails, is connected or being connected. *)
LEMMA GetServerIs ==
  ASSUME NEW w \in WorldType, Fine(w.c), NEW v \in GetServer(w)
  PROVE  Same(w, v) /\ (v.ret = -1 \/ v.c.fd.svr # NoFd)
<1>1. CASE w.c.fd.svr # NoFd
  BY <1>1 DEF GetServer, Same
<1>2. CASE w.c.fd.svr = NoFd
  <2>1. CASE v = Failed(w)
    <3>1. v.ret = -1
      BY <2>1 DEF Failed, WorldType
    <3>. QED
      BY <2>1, <3>1, FailedIs DEF Same
  <2>2. ASSUME NEW f \in Fd, NEW b \in BOOLEAN, NEW s \in EventSets, NEW r \in EventSets, NEW n \in Int,
               v = [w EXCEPT !.c = [w.c EXCEPT !.fd = [w.c.fd EXCEPT !["svr"] = f], !.wait = b],
                             !.snd = s, !.rcv = r, !.nb = n]
        PROVE  Same(w, v) /\ v.c.fd.svr # NoFd
    <3>1. w.c \in Connection /\ w.c.fd \in [Side -> Fd \cup {NoFd}] /\ "svr" \in Side
      BY DEF WorldType, Connection, Side
    <3>. DEFINE d == [w.c.fd EXCEPT !["svr"] = f]
                c == [w.c EXCEPT !.fd = d, !.wait = b]
    <3>2. d \in [Side -> Fd \cup {NoFd}] /\ d["svr"] = f /\ f # NoFd
      BY <3>1, FdAssumption
    <3>. HIDE DEF d
    <3>3. /\ c \in Connection /\ c.fd = d /\ c.q = w.c.q /\ c.nalloced = w.c.nalloced
      BY <3>1, <3>2 DEF Connection
    <3>4. Fine(c)
      BY <1>2, <3>3 DEF Fine, Counted, Early, Clear
    <3>5. v = [w EXCEPT !.c = c, !.snd = s, !.rcv = r, !.nb = n]
      BY <2>2 DEF d
    <3>. HIDE DEF c
    <3>6. v \in WorldType /\ v.id = w.id /\ v.frees = w.frees /\ v.c = c
      BY <3>3, <3>5 DEF WorldType
    <3>. QED
      BY <3>2, <3>3, <3>4, <3>6 DEF Same
  <2>3. ASSUME NEW f \in Fd
        PROVE  /\ w.snd \cup {<<f, w.id>>} \in EventSets /\ w.rcv \cup {<<f, w.id>>} \in EventSets
               /\ w.snd \in EventSets /\ w.rcv \in EventSets /\ w.nb \in Int /\ w.nb + 1 \in Int
               /\ w.c.wait \in BOOLEAN
    BY DEF EventSets, WorldType, Connection
  <2>4. \/ v = Failed(w)
        \/ \E f \in Fd : v = [w EXCEPT !.c.fd.svr = f, !.rcv = @ \cup {<<f, w.id>>}]
        \/ \E f \in Fd : v = [w EXCEPT !.c.fd.svr = f, !.c.wait = TRUE,
                                      !.snd = @ \cup {<<f, w.id>>}, !.nb = @ + 1]
    BY <1>2 DEF GetServer
  <2>5. ASSUME NEW f \in Fd, v = [w EXCEPT !.c.fd.svr = f, !.rcv = @ \cup {<<f, w.id>>}]
        PROVE  Same(w, v) /\ v.c.fd.svr # NoFd
    <3>1. v = [w EXCEPT !.c = [w.c EXCEPT !.fd = [w.c.fd EXCEPT !["svr"] = f], !.wait = w.c.wait],
                        !.snd = w.snd, !.rcv = w.rcv \cup {<<f, w.id>>}, !.nb = w.nb]
      BY <2>5 DEF WorldType, Connection
    <3>. QED
      BY <2>2, <2>3, <3>1
  <2>6. ASSUME NEW f \in Fd, v = [w EXCEPT !.c.fd.svr = f, !.c.wait = TRUE,
                                     !.snd = @ \cup {<<f, w.id>>}, !.nb = @ + 1]
        PROVE  Same(w, v) /\ v.c.fd.svr # NoFd
    <3>1. v = [w EXCEPT !.c = [w.c EXCEPT !.fd = [w.c.fd EXCEPT !["svr"] = f], !.wait = TRUE],
                        !.snd = w.snd \cup {<<f, w.id>>}, !.rcv = w.rcv, !.nb = w.nb + 1]
      BY <2>6 DEF WorldType, Connection
    <3>. QED
      BY <2>2, <2>3, <3>1
  <2>. QED
    BY <2>1, <2>4, <2>5, <2>6
<1>. QED
  BY <1>1, <1>2

LEMMA SendtoServerIs ==
  ASSUME NEW w \in WorldType, Fine(w.c), NEW v \in SendtoServer(w)
  PROVE  Same(w, v)
<1>1. CASE v = w
  BY <1>1 DEF Same
<1>2. ASSUME NEW g \in GetServer(w), v \in IF g.ret = -1 \/ g.c.wait THEN {g} ELSE SendLoop(g, "svr")
      PROVE  Same(w, v)
  <2>1. Same(w, g) /\ (g.ret = -1 \/ g.c.fd.svr # NoFd)
    BY GetServerIs
  <2>2. CASE g.ret = -1 \/ g.c.wait
    BY <1>2, <2>1, <2>2
  <2>3. CASE ~(g.ret = -1 \/ g.c.wait)
    <3>1. g \in WorldType /\ Fine(g.c) /\ ~g.c.wait /\ g.c.fd.svr # NoFd
      BY <2>1, <2>3 DEF Same
    <3>2. v \in SendLoop(g, "svr") /\ "svr" \in Side
      BY <1>2, <2>3 DEF Side
    <3>3. Same(g, v)
      BY <3>1, <3>2, SendLoopIs
    <3>. QED
      BY <2>1, <3>3 DEF Same
  <2>. QED
    BY <2>2, <2>3
<1>. QED
  BY <1>1, <1>2, Zenon DEF SendtoServer

LEMMA SendtoIs ==
  ASSUME NEW w \in WorldType, Fine(w.c), NEW y \in Side, NEW v \in Sendto(w, y)
  PROVE  Same(w, v)
<1>1. CASE y = "svr"
  BY <1>1, SendtoServerIs DEF Sendto
<1>2. CASE y = "cli"
  BY <1>2, SendLoopIs DEF Sendto, Side
<1>. QED
  BY <1>1, <1>2 DEF Side

(* A new connection, counter and epoll sets. *)
PutWorld(w, c, n, s, t) == [w EXCEPT !.c = c, !.nb = n, !.snd = s, !.rcv = t]

(* A connection before its event. *)
Fresh(w) == w \in WorldType /\ Fine(w.c) /\ w.ret = 0 /\ w.close = FALSE /\ w.frees = 0

(* An event of the receive set. *)
LEMMA ProcessIs ==
  ASSUME NEW w, Fresh(w), NEW x \in Side, NEW v \in Process(w, x)
  PROVE  Done(w, v)
<1>1. PICK r \in RecvFrom(w, x) :
        v \in IF r.ret = -1 THEN {Free(r)} ELSE {FreeIf(s) : s \in Sendto(Parse(r, x), Other(x))}
  BY Zenon DEF Process
<1>2. w \in WorldType /\ Fine(w.c) /\ w.frees = 0
  BY DEF Fresh
<1>3. /\ r \in WorldType /\ r.id = w.id /\ r.frees = 0
      /\ Counted(r.c) /\ Early(r.c) /\ r.c.q[Other(x)].pkt = NoPkt
  BY <1>2, RecvFromIs
<1>4. CASE r.ret = -1
  <2>1. v = Free(r)
    BY <1>1, <1>4
  <2>2. v \in WorldType /\ v.id = w.id /\ v.frees = 1
    BY <1>3, <2>1, FreeIs
  <2>. QED
    BY <2>2 DEF Done
<1>5. CASE r.ret # -1
  <2>1. PICK s \in Sendto(Parse(r, x), Other(x)) : v = FreeIf(s)
    BY <1>1, <1>5
  <2>2. Same(r, Parse(r, x)) /\ Fine(Parse(r, x).c)
    <3>1. Same(r, Parse(r, x))
      BY <1>3, ParseIs
    <3>2. Parse(r, x).ret = r.ret
      BY <1>3 DEF Parse, WorldType
    <3>. QED
      BY <1>5, <3>1, <3>2 DEF Same
  <2>3. Same(Parse(r, x), s)
    BY <2>2, SidesAre, SendtoIs DEF Same
  <2>4. Same(w, s)
    BY <1>2, <1>3, <2>2, <2>3 DEF Same
  <2>. QED
    BY <1>2, <2>1, <2>4, FreeIfIs
<1>. QED
  BY <1>4, <1>5

(* An event of the server in the send set.  A connection that is being     *)
(* connected and fails is freed, and what sendto_server does with it then  *)
(* is nothing: nothing of it waits, so that it is not freed again.         *)
LEMMA ServerWritableIs ==
  ASSUME NEW w, Fresh(w), NEW v \in ServerWritable(w)
  PROVE  Done(w, v)
<1>0. /\ w \in WorldType /\ Fine(w.c) /\ w.frees = 0 /\ w.ret = 0 /\ w.close = FALSE
      /\ w.c \in Connection
  BY DEF Fresh, WorldType
<1>1. PICK r \in IF w.c.wait THEN CheckServer(w) ELSE {w} :
      \E s \in SendtoServer(IF r.ret = -1 THEN [Free(r) EXCEPT !.ret = 0] ELSE r) : v = FreeIf(s)
  BY Zenon DEF ServerWritable
<1>2. ASSUME Same(w, r), r.ret # -1 PROVE Done(w, v)
  <2>1. PICK s \in SendtoServer(r) : v = FreeIf(s)
    BY <1>1, <1>2
  <2>2. r \in WorldType /\ Fine(r.c)
    BY <1>2 DEF Same
  <2>3. Same(r, s)
    BY <2>2, SendtoServerIs
  <2>4. Same(w, s)
    BY <1>2, <2>3 DEF Same
  <2>. QED
    BY <1>0, <2>1, <2>4, FreeIfIs
<1>3. ASSUME NEW u \in WorldType, r = Failed(u), u.id = w.id, u.frees = 0, u.close = FALSE,
             u.c.q.cli.blkpkt = NoPkt
      PROVE  Done(w, v)
  <2>1. /\ r \in WorldType /\ r.id = w.id /\ r.frees = 0 /\ r.c = u.c /\ r.ret = -1 /\ r.close = FALSE
    BY <1>3 DEF Failed, WorldType
  <2>2. PICK z : z = [Free(r) EXCEPT !.ret = 0]
    OBVIOUS
  <2>3. /\ Free(r) \in WorldType /\ Free(r).id = w.id /\ Free(r).frees = 1 /\ Free(r).close = FALSE
        /\ Free(r).c.q.cli.outq = <<>> /\ Free(r).c.q.cli.blkpkt = NoPkt
    BY <1>3, <2>1, FreeIs
  <2>4. /\ z \in WorldType /\ z.id = w.id /\ z.frees = 1 /\ z.close = FALSE /\ z.ret = 0
        /\ z.c = Free(r).c
    BY <2>2, <2>3 DEF WorldType
  <2>5. Pending(z.c.q.cli) = <<>>
    <3>1. z.c.q.cli \in Queue
      BY <2>4 DEF WorldType, Connection, Side
    <3>. QED
      BY <2>3, <2>4, <3>1, PendingIs
  <2>6. SendtoServer(z) = {z}
    BY <2>5 DEF SendtoServer
  <2>7. v = FreeIf(z)
    BY <1>1, <2>1, <2>2, <2>6
  <2>8. v = z
    BY <2>4, <2>7 DEF FreeIf
  <2>. QED
    BY <2>4, <2>8 DEF Done
<1>4. CASE ~w.c.wait
  <2>1. r = w
    BY <1>4
  <2>2. Same(w, w)
    BY <1>0 DEF Same
  <2>. QED
    BY <1>0, <1>2, <2>1, <2>2
<1>5. CASE w.c.wait
  <2>1. w.c.q.cli.blkpkt = NoPkt
    BY <1>0, <1>5 DEF Fine, Early
  <2>. DEFINE c == [w.c EXCEPT !.wait = FALSE]
  <2>2. /\ c \in Connection /\ c.fd = w.c.fd /\ c.q = w.c.q /\ c.nalloced = w.c.nalloced
        /\ c.wait = FALSE
    BY <1>0 DEF Connection
  <2>3. Fine(c)
    BY <1>0, <2>1, <2>2 DEF Fine, Counted, Early, Clear
  <2>. HIDE DEF c
  <2>4. ASSUME NEW s \in EventSets, NEW t \in EventSets, NEW n \in Int
        PROVE  LET u == PutWorld(w, c, n, s, t) IN
               /\ u \in WorldType /\ u.id = w.id /\ u.frees = 0 /\ u.close = FALSE /\ u.ret = 0
               /\ u.c = c
    BY <1>0, <2>2 DEF WorldType, PutWorld
  <2>5. PICK s \in EventSets, t \in EventSets, n \in Int :
          /\ w.snd \ {Event(w, "svr")} = s /\ w.rcv \cup {Event(w, "svr")} = t /\ w.nb - 1 = n
    <3>1. Event(w, "svr") \in (Fd \cup {NoFd}) \X Id
      BY <1>0 DEF Event, WorldType, Connection, Side
    <3>2. w.snd \ {Event(w, "svr")} \in EventSets /\ w.rcv \cup {Event(w, "svr")} \in EventSets
      BY <1>0, <3>1 DEF WorldType, EventSets
    <3>3. w.nb - 1 \in Int
      BY <1>0 DEF WorldType
    <3>. QED
      BY <3>2, <3>3
  <2>6. \/ r = Failed(w)
        \/ r = PutWorld(w, c, n, s, t)
        \/ r = Failed(PutWorld(w, c, n, s, w.rcv))
    <3>. DEFINE d == [w EXCEPT !.c.wait = FALSE, !.nb = @ - 1, !.snd = @ \ {Event(w, "svr")}]
    <3>1. r = Failed(w) \/ r = [d EXCEPT !.rcv = @ \cup {Event(w, "svr")}] \/ r = Failed(d)
      <4>1. r \in CheckServer(w)
        BY <1>5
      <4>. QED
        BY <4>1 DEF CheckServer
    <3>2. d = PutWorld(w, c, n, s, w.rcv)
      BY <1>0, <2>5 DEF WorldType, PutWorld, c
    <3>3. d.rcv = w.rcv
      BY <1>0 DEF WorldType
    <3>4. [d EXCEPT !.rcv = @ \cup {Event(w, "svr")}] = PutWorld(w, c, n, s, t)
      BY <1>0, <2>5, <3>2, <3>3 DEF WorldType, PutWorld
    <3>. HIDE DEF d
    <3>. QED
      BY <3>1, <3>2, <3>4
  <2>7. CASE r = Failed(w)
    BY <1>0, <1>3, <2>1, <2>7
  <2>8. CASE r = PutWorld(w, c, n, s, t)
    <3>1. r \in WorldType /\ r.id = w.id /\ r.frees = 0 /\ r.ret = 0 /\ r.c = c
      BY <2>4, <2>8
    <3>. QED
      BY <1>0, <1>2, <2>3, <3>1 DEF Same
  <2>9. CASE r = Failed(PutWorld(w, c, n, s, w.rcv))
    <3>1. PICK u : u = PutWorld(w, c, n, s, w.rcv)
      OBVIOUS
    <3>2. w.rcv \in EventSets
      BY <1>0 DEF WorldType
    <3>3. /\ u \in WorldType /\ u.id = w.id /\ u.frees = 0 /\ u.close = FALSE /\ u.c = c
      BY <2>4, <3>1, <3>2
    <3>. QED
      BY <1>3, <2>1, <2>2, <2>9, <3>1, <3>3
  <2>. QED
    BY <2>6, <2>7, <2>8, <2>9
<1>. QED
  BY <1>4, <1>5

-----------------------------------------------------------------------------
(* The inductive invariant *)

(* The connections and what is shared with the accept thread. *)
Good ==
  /\ conn \in [Id -> Connection \cup {NULL}]
  /\ \A i \in Live : Fine(conn[i])
  /\ nfreed \in Int /\ freeid \in Nat /\ nblocked \in Int
  /\ send_ep \in EventSets /\ recv_ep \in EventSets
  /\ inq \in Seq(Fd)
  /\ ~refreed

(* The loop. *)
Flow ==
  /\ batch \in EventSets
  /\ inq2 \in Seq(Fd)
  /\ pc \in {"get", "adding", "register", "send", "sending", "recv", "receiving",
            "undefined"}
  /\ (pc \in {"sending", "receiving"}) <=> (batch # {})
  /\ (pc \in {"adding", "register"}) <=> (inq2 # <<>>)

IInv == Good /\ Flow

(* What the step does to the connection table. *)
TableStep == Table!Next \/ UNCHANGED Table!vars

LEMMA IInvType == IInv => TypeOK
BY DEF IInv, Good, Flow, TypeOK, EventSets, Fine, Clear

LEMMA WorldIs ==
  ASSUME Good, NEW id \in Id, conn[id] # NULL
  PROVE  Fresh(World(id)) /\ World(id).id = id /\ World(id).c = conn[id]
<1>1. conn[id] \in Connection /\ Fine(conn[id])
  BY DEF Good, Live
<1>. QED
  BY <1>1 DEF Good, World, Fresh, WorldType

LEMMA SkipIs ==
  ASSUME Good, Skip
  PROVE  Good' /\ TableStep
<1>1. Good'
  BY DEF Good, Skip, Live
<1>2. UNCHANGED Table!vars
  BY DEF Skip, Table!vars
<1>. QED
  BY <1>1, <1>2 DEF TableStep

LEMMA CommitIs ==
  ASSUME Good, NEW id \in Id, conn[id] # NULL, NEW v, Done(World(id), v), Commit(v)
  PROVE  Good' /\ TableStep
<1>1. /\ v \in WorldType /\ v.id = id /\ v.frees \in {0, 1}
      /\ v.frees = 0 => Fine(v.c)
      /\ v.c \in Connection /\ v.c # NULL
  BY WorldIs, NullAssumption DEF Done, WorldType
<1>2. Good'
  <2>1. conn' \in [Id -> Connection \cup {NULL}]
    BY <1>1 DEF Good, Commit
  <2>2. \A i \in Live' : Fine(conn'[i])
    BY <1>1 DEF Good, Commit, Live
  <2>3. /\ nfreed' \in Int /\ freeid' \in Nat /\ nblocked' \in Int
        /\ send_ep' \in EventSets /\ recv_ep' \in EventSets /\ inq' \in Seq(Fd)
    BY <1>1 DEF Good, Commit, WorldType
  <2>4. ~refreed'
    <3>1. ~(v.frees > 1)
      BY <1>1
    <3>. QED
      BY <3>1, Zenon DEF Good, Commit
  <2>. QED
    BY <2>1, <2>2, <2>3, <2>4 DEF Good
<1>3. CASE v.frees = 0
  <2>1. \A i \in Id : conn'[i] = NULL <=> conn[i] = NULL
    BY <1>1, <1>3 DEF Good, Commit
  <2>2. nfreed' = nfreed /\ freeid' = freeid
    BY <1>3 DEF Good, Commit
  <2>3. UNCHANGED Table!vars
    BY <2>1, <2>2 DEF Table!vars
  <2>. QED
    BY <1>2, <2>3 DEF TableStep
<1>4. CASE v.frees = 1
  <2>1. \A i \in Id : conn'[i] = IF i = id THEN NULL ELSE conn[i]
    BY <1>1, <1>4 DEF Good, Commit
  <2>2. nfreed' = nfreed + 1 /\ freeid' = freeid
    BY <1>4 DEF Good, Commit
  <2>3. id # NULL
    BY NullAssumption
  <2>4. Table!Del(id)
    BY <2>1, <2>2, <2>3 DEF Table!Del
  <2>5. Table!Next
    BY <2>4 DEF Table!Next, Table!Id, Id
  <2>. QED
    BY <1>2, <2>5 DEF TableStep
<1>. QED
  BY <1>1, <1>3, <1>4

LEMMA AllocIs ==
  ASSUME Good, Alloc
  PROVE  Good' /\ TableStep
<1>1. PICK id \in Id :
        /\ Table!Found(id) /\ conn' = [conn EXCEPT ![id] = NewConnection] /\ freeid' = id + 1
  BY DEF Alloc
<1>2. NewQueue \in Queue /\ Held(NewQueue) = 0 /\ NewQueue.lost = 0
      /\ NewQueue.pkt = NoPkt /\ NewQueue.blkpkt = NoPkt
  <2>1. NewQueue \in Queue
    BY DEF NewQueue, Queue
  <2>2. NewQueue.blkpkt = NoPkt /\ NewQueue.pkt = NoPkt /\ NewQueue.outq = <<>> /\ NewQueue.lost = 0
    BY DEF NewQueue
  <2>3. Held(NewQueue) = Len(<<>>) + 0
    BY <2>1, <2>2, PendingIs
  <2>. QED
    BY <2>1, <2>2, <2>3
<1>3. /\ NewConnection \in Connection /\ NewConnection.nalloced = 0
      /\ \A x \in Side : NewConnection.q[x] = NewQueue
  BY <1>2 DEF NewConnection, Connection
<1>4. Fine(NewConnection)
  BY <1>2, <1>3 DEF Fine, Counted, Early, Clear, Side
<1>5. NewConnection # NULL
  BY <1>3, NullAssumption
<1>6. Good'
  <2>1. conn' \in [Id -> Connection \cup {NULL}]
    BY <1>1, <1>3 DEF Good
  <2>2. \A i \in Live' : Fine(conn'[i])
    BY <1>1, <1>4 DEF Good, Live
  <2>3. freeid' \in Nat /\ nfreed' \in Int
    BY <1>1 DEF Alloc, Good, Id
  <2>. QED
    BY <2>1, <2>2, <2>3 DEF Good, Alloc
<1>7. Table!Add(id)
  <2>1. conn[id] = NULL
    BY <1>1, NullAssumption DEF Table!Found, Table!FreeIds, Table!Id, Id
  <2>2. \A i \in Id : conn'[i] = IF i = id THEN NewConnection ELSE conn[i]
    BY <1>1 DEF Good
  <2>3. {i \in Id : conn'[i] # NULL} = {i \in Id : conn[i] # NULL} \cup {id}
    BY <2>2, <1>5
  <2>4. [i \in Id |-> IF conn'[i] = NULL THEN NULL ELSE i]
          = [[i \in Id |-> IF conn[i] = NULL THEN NULL ELSE i] EXCEPT ![id] = id]
    BY <2>2, <1>5
  <2>5. nfreed >= 1 /\ nfreed' = nfreed - 1
    BY DEF Alloc
  <2>6. id \in Table!Id
    BY DEF Table!Id, Id
  <2>. QED
    BY <1>1, <2>1, <2>3, <2>4, <2>5, <2>6 DEF Table!Add
<1>8. Table!Next
  BY <1>7 DEF Table!Next
<1>. QED
  BY <1>6, <1>8 DEF TableStep

LEMMA NextClientIs ==
  ASSUME Flow, pc \in {"adding", "register"}, NextClient
  PROVE  Flow'
<1>1. inq2 \in Seq(Fd) /\ inq2 # <<>> /\ batch = {}
  BY DEF Flow
<1>2. inq2' \in Seq(Fd) /\ (inq2' = <<>> <=> Len(inq2) = 1)
  <2>1. /\ Tail(inq2) \in Seq(Fd) /\ Len(Tail(inq2)) = Len(inq2) - 1
        /\ Len(inq2) \in Nat
    BY <1>1
  <2>2. \A s \in Seq(Fd) : s = <<>> <=> Len(s) = 0
    BY EmptySeq
  <2>3. Tail(inq2) = <<>> <=> Len(Tail(inq2)) = 0
    BY <2>1, <2>2, Zenon
  <2>. QED
    BY <2>1, <2>3 DEF NextClient
<1>. QED
  BY <1>1, <1>2 DEF Flow, NextClient

LEMMA TakeIs ==
  ASSUME Flow, NEW ev, NEW here \in {"sending", "receiving"}, NEW next \in {"get", "recv"},
         Take(ev, here, next)
  PROVE  Flow'
<1>1. batch' \in EventSets /\ inq2' = inq2 /\ inq2 = <<>>
  BY DEF Flow, Take, EventSets
<1>2. pc' = IF batch' = {} THEN next ELSE here
  BY DEF Take
<1>. QED
  BY <1>1, <1>2 DEF Flow

LEMMA RegisterIs ==
  ASSUME Good, Flow, Register
  PROVE  Good' /\ TableStep
<1>1. PICK id \in Id :
        /\ conn[id] # NULL
        /\ \/ Commit([World(id) EXCEPT !.c.fd.cli = Head(inq2),
                                     !.rcv = @ \cup {<<Head(inq2), id>>}])
           \/ Commit(Free(World(id)))
  BY DEF Register
<1>2. Fresh(World(id)) /\ World(id).id = id
  BY <1>1, WorldIs
<1>3. CASE Commit(Free(World(id)))
  <2>1. Done(World(id), Free(World(id)))
    BY <1>2, FreeIs DEF Fresh, Done
  <2>. QED
    BY <1>1, <1>3, <2>1, CommitIs
<1>4. CASE Commit([World(id) EXCEPT !.c.fd.cli = Head(inq2), !.rcv = @ \cup {<<Head(inq2), id>>}])
  <2>1. PICK f \in Fd : f = Head(inq2)
    BY DEF Flow, Register
  <2>2. PICK w : w = World(id)
    OBVIOUS
  <2>3. PICK v : v = [w EXCEPT !.c.fd.cli = f, !.rcv = @ \cup {<<f, id>>}]
    OBVIOUS
  <2>4. w \in WorldType /\ w.c \in Connection /\ Fine(w.c) /\ w.frees = 0 /\ w.id = id
    BY <1>2, <2>2 DEF Fresh, WorldType
  <2>5. Done(w, v)
    <3>. DEFINE c == [w.c EXCEPT !.fd = [w.c.fd EXCEPT !["cli"] = f]]
                t == w.rcv \cup {<<f, id>>}
    <3>1. /\ c \in Connection /\ c.q = w.c.q /\ c.nalloced = w.c.nalloced /\ c.wait = w.c.wait
          /\ c.fd.svr = w.c.fd.svr
      BY <2>4 DEF Connection, Side
    <3>2. Fine(c)
      BY <2>4, <3>1 DEF Fine, Counted, Early, Clear
    <3>3. v = PutWorld(w, c, w.nb, w.snd, t)
      BY <2>3, <2>4 DEF PutWorld, WorldType, Connection
    <3>4. t \in EventSets
      BY <2>4 DEF WorldType, EventSets
    <3>. HIDE DEF c, t
    <3>5. v \in WorldType /\ v.id = w.id /\ v.frees = 0 /\ v.c = c
      BY <2>4, <3>1, <3>3, <3>4 DEF PutWorld, WorldType
    <3>. QED
      BY <3>2, <3>5 DEF Done
  <2>. QED
    BY <1>1, <1>4, <2>1, <2>2, <2>3, <2>5, CommitIs
<1>. QED
  BY <1>1, <1>3, <1>4

LEMMA ErrorEventIs ==
  ASSUME Good, NEW ev \in Fd \X Id, ErrorEvent(ev)
  PROVE  Good' /\ TableStep
<1>1. ev[2] \in Id /\ conn[ev[2]] # NULL /\ Commit(Free(World(ev[2])))
  BY DEF ErrorEvent
<1>2. Fresh(World(ev[2]))
  BY <1>1, WorldIs
<1>3. Done(World(ev[2]), Free(World(ev[2])))
  BY <1>2, FreeIs DEF Fresh, Done
<1>. QED
  BY <1>1, <1>3, CommitIs

LEMMA SendEventIs ==
  ASSUME Good, NEW ev \in Fd \X Id, SendEvent(ev)
  PROVE  Good' /\ TableStep
<1>1. ev[2] \in Id
  OBVIOUS
<1>2. CASE ErrorEvent(ev)
  BY <1>2, ErrorEventIs
<1>3. CASE Sides(ev) = {} /\ Skip
  BY <1>3, SkipIs
<1>4. ASSUME "cli" \in Sides(ev), NEW w \in SendLoop(World(ev[2]), "cli"), Commit(FreeIf(w))
      PROVE  Good' /\ TableStep
  <2>1. conn[ev[2]] # NULL
    BY <1>4 DEF Sides
  <2>2. Fresh(World(ev[2])) /\ "cli" \in Side
    BY <1>1, <2>1, WorldIs DEF Side
  <2>3. World(ev[2]) \in WorldType /\ Fine(World(ev[2]).c) /\ World(ev[2]).frees = 0
    BY <2>2 DEF Fresh
  <2>4. Same(World(ev[2]), w)
    BY <1>4, <2>2, <2>3, SendLoopIs
  <2>5. Done(World(ev[2]), FreeIf(w))
    BY <2>3, <2>4, FreeIfIs
  <2>. QED
    BY <1>1, <1>4, <2>1, <2>5, CommitIs
<1>5. ASSUME "svr" \in Sides(ev), NEW w \in ServerWritable(World(ev[2])), Commit(w)
      PROVE  Good' /\ TableStep
  <2>1. conn[ev[2]] # NULL
    BY <1>5 DEF Sides
  <2>2. Fresh(World(ev[2]))
    BY <1>1, <2>1, WorldIs
  <2>3. Done(World(ev[2]), w)
    BY <1>5, <2>2, ServerWritableIs
  <2>. QED
    BY <1>1, <1>5, <2>1, <2>3, CommitIs
<1>. QED
  BY <1>2, <1>3, <1>4, <1>5 DEF SendEvent

LEMMA RecvEventIs ==
  ASSUME Good, NEW ev \in Fd \X Id, RecvEvent(ev)
  PROVE  Good' /\ TableStep
<1>1. ev[2] \in Id
  OBVIOUS
<1>2. CASE ErrorEvent(ev)
  BY <1>2, ErrorEventIs
<1>3. CASE Skip
  BY <1>3, SkipIs
<1>4. ASSUME NEW x \in Sides(ev), NEW w \in Process(World(ev[2]), x), Commit(w)
      PROVE  Good' /\ TableStep
  <2>1. conn[ev[2]] # NULL /\ x \in Side
    BY <1>4 DEF Sides
  <2>2. Fresh(World(ev[2]))
    BY <1>1, <2>1, WorldIs
  <2>3. Done(World(ev[2]), w)
    BY <1>4, <2>1, <2>2, ProcessIs
  <2>. QED
    BY <1>1, <1>4, <2>1, <2>3, CommitIs
<1>. QED
  BY <1>2, <1>3, <1>4 DEF RecvEvent

LEMMA InitIs == Init => IInv /\ Table!Init
<1>. SUFFICES ASSUME Init PROVE IInv /\ Table!Init
  OBVIOUS
<1>1. Live = {} /\ \A i \in Id : conn[i] = NULL
  BY DEF Init, Live
<1>2. Good
  BY <1>1, SizeAssumption DEF Init, Good, EventSets
<1>3. Flow
  BY DEF Init, Flow, EventSets
<1>4. Table!Init
  BY <1>1 DEF Init, Table!Init, Table!Id, Id
<1>. QED
  BY <1>2, <1>3, <1>4 DEF IInv

LEMMA StepIs == IInv /\ [Next]_vars => IInv' /\ TableStep
<1>. SUFFICES ASSUME IInv, [Next]_vars PROVE IInv' /\ TableStep
  OBVIOUS
<1>0. Good /\ Flow
  BY DEF IInv
<1>1. CASE AddConnection
  <2>1. inq' \in Seq(Fd)
    BY <1>0, <1>1 DEF AddConnection, Good
  <2>2. Good' /\ Flow'
    BY <1>0, <1>1, <2>1 DEF AddConnection, Good, Flow, Live
  <2>3. UNCHANGED Table!vars
    BY <1>1 DEF AddConnection, Table!vars
  <2>. QED
    BY <2>2, <2>3 DEF IInv, TableStep
<1>2. CASE GetConnections
  <2>1. Good' /\ Flow'
    BY <1>0, <1>2 DEF GetConnections, Good, Flow, Live
  <2>2. UNCHANGED Table!vars
    BY <1>2 DEF GetConnections, Table!vars
  <2>. QED
    BY <2>1, <2>2 DEF IInv, TableStep
<1>3. CASE Alloc
  <2>1. Good' /\ TableStep
    BY <1>0, <1>3, AllocIs
  <2>2. Flow'
    BY <1>0, <1>3 DEF Alloc, Flow
  <2>. QED
    BY <2>1, <2>2 DEF IInv
<1>4. CASE Refuse
  <2>1. Good' /\ TableStep
    BY <1>0, <1>4, SkipIs DEF Refuse
  <2>2. Flow'
    BY <1>0, <1>4, NextClientIs DEF Refuse
  <2>. QED
    BY <2>1, <2>2 DEF IInv
<1>5. CASE Register
  <2>1. Good' /\ TableStep
    BY <1>0, <1>5, RegisterIs
  <2>2. Flow'
    BY <1>0, <1>5, NextClientIs DEF Register
  <2>. QED
    BY <2>1, <2>2 DEF IInv
<1>6. CASE SendWait \/ SendNothing \/ RecvWait
  <2>1. Good' /\ Flow'
    BY <1>0, <1>6 DEF SendWait, SendNothing, RecvWait, Good, Flow, Live, EventSets
  <2>2. UNCHANGED Table!vars
    BY <1>6 DEF SendWait, SendNothing, RecvWait, Table!vars
  <2>. QED
    BY <2>1, <2>2 DEF IInv, TableStep
<1>7. ASSUME NEW ev \in Fd \X Id, SendEvent(ev) PROVE IInv' /\ TableStep
  <2>1. Good' /\ TableStep
    BY <1>0, <1>7, SendEventIs
  <2>2. Flow'
    BY <1>0, <1>7, TakeIs DEF SendEvent
  <2>. QED
    BY <2>1, <2>2 DEF IInv
<1>8. ASSUME NEW ev \in Fd \X Id, RecvEvent(ev) PROVE IInv' /\ TableStep
  <2>1. Good' /\ TableStep
    BY <1>0, <1>8, RecvEventIs
  <2>2. Flow'
    BY <1>0, <1>8, TakeIs DEF RecvEvent
  <2>. QED
    BY <2>1, <2>2 DEF IInv
<1>9. CASE UNCHANGED vars
  <2>1. Good' /\ Flow'
    BY <1>0, <1>9 DEF vars, Good, Flow, Live
  <2>2. UNCHANGED Table!vars
    BY <1>9 DEF vars, Table!vars
  <2>. QED
    BY <2>1, <2>2 DEF IInv, TableStep
<1>10. CASE Overflow
  <2>1. Good' /\ Flow'
    BY <1>0, <1>10 DEF Overflow, Good, Flow, Live
  <2>2. UNCHANGED Table!vars
    BY <1>10 DEF Overflow, Table!vars
  <2>. QED
    BY <2>1, <2>2 DEF IInv, TableStep
<1>. QED
  BY <1>1, <1>2, <1>3, <1>4, <1>5, <1>6, <1>7, <1>8, <1>9, <1>10 DEF Next, Loop

LEMMA Invariance == Spec => []IInv
<1>1. Init => IInv
  BY InitIs
<1>2. IInv /\ [Next]_vars => IInv'
  BY StepIs
<1>. QED
  BY <1>1, <1>2, PTL DEF Spec

-----------------------------------------------------------------------------
(* Every state has its type: no packet is left as the current one of a     *)
(* queue after an event, and the loop is between two batches exactly when  *)
(* its batch, or its list of new clients, is empty.                        *)
THEOREM TypeCorrect == Spec => []TypeOK
BY Invariance, IInvType, PTL

(* nalloced of every live connection is what its queues hold and what they *)
(* lost, after any handler and however its system calls fail.              *)
THEOREM PacketAccountingHolds == Spec => []PacketAccounting
<1>1. IInv => PacketAccounting
  BY DEF IInv, Good, Fine, Counted, PacketAccounting
<1>. QED
  BY <1>1, Invariance, PTL

(* No event frees a connection twice: send_data does call sendto_server    *)
(* with a connection that check_server has just freed, but nothing of it   *)
(* waits then, as nothing is sent in part to a server not connected yet.   *)
THEOREM NoDoubleFreeHolds == Spec => []NoDoubleFree
<1>1. IInv => NoDoubleFree
  BY DEF IInv, Good, NoDoubleFree
<1>. QED
  BY <1>1, Invariance, PTL

(* What the worker does with its connections are steps of connection.c's   *)
(* table, or none of it: each is added once, and deleted once.             *)
THEOREM ImplementsConnTableHolds == Spec => ImplementsConnTable
<1>1. Init => Table!Init
  BY InitIs
<1>2. IInv /\ [Next]_vars => [Table!Next]_(Table!vars)
  BY StepIs DEF TableStep
<1>. QED
  BY <1>1, <1>2, Invariance, PTL DEF Spec, ImplementsConnTable, Table!Spec

-----------------------------------------------------------------------------
(* Streams *)

(* The packets of s are the bytes n+1..m of a stream. *)
Spans(s, n, m) == Follows(s, n) /\ EndOf(s, n) = m

LEMMA PacketIs ==
  ASSUME NEW p \in Packet
  PROVE  p[1] \in Int /\ p[2] \in Int
BY DEF Packet

LEMMA SpansEmpty ==
  ASSUME NEW n \in Int
  PROVE  Spans(<<>>, n, n)
BY DEF Spans, Follows, EndOf

LEMMA SpansAppend ==
  ASSUME NEW s \in Seq(Packet), NEW n \in Int, NEW m \in Int, Spans(s, n, m),
         NEW p \in Packet, p[1] = m + 1
  PROVE  Spans(Append(s, p), n, p[2])
<1>1. PICK t : t = Append(s, p)
  OBVIOUS
<1>2. PICK l \in Nat : l = Len(s)
  OBVIOUS
<1>3. t \in Seq(Packet) /\ Len(t) = l + 1 /\ t[l + 1] = p /\ \A i \in 1..l : t[i] = s[i]
  BY <1>1, <1>2, AppendProperties
<1>4. l = 0 => m = n
  <2>1. l = 0 => s = <<>>
    BY <1>2, EmptySeq
  <2>. QED
    BY <2>1 DEF Spans, EndOf
<1>5. l # 0 => m = s[l][2]
  <2>1. l # 0 => s # <<>>
    BY <1>2
  <2>. QED
    BY <1>2, <2>1 DEF Spans, EndOf
<1>6. Follows(t, n)
  <2>. SUFFICES ASSUME NEW j \in 1..(l + 1)
                PROVE  t[j][1] = 1 + (IF j = 1 THEN n ELSE t[j - 1][2])
    BY <1>3 DEF Follows
  <2>1. CASE j \in 1..l
    <3>1. s[j][1] = 1 + (IF j = 1 THEN n ELSE s[j - 1][2])
      BY <1>2, <2>1 DEF Spans, Follows
    <3>2. t[j] = s[j] /\ (j # 1 => t[j - 1] = s[j - 1])
      BY <1>3, <2>1
    <3>. QED
      BY <3>1, <3>2
  <2>2. CASE j = l + 1 /\ l # 0
    <3>1. t[j - 1] = s[l] /\ t[j] = p /\ j # 1
      BY <1>3, <2>2
    <3>. QED
      BY <3>1, <1>5, <2>2
  <2>3. CASE j = l + 1 /\ l = 0
    BY <1>3, <1>4, <2>3
  <2>. QED
    BY <2>1, <2>2, <2>3
<1>7. EndOf(t, n) = p[2]
  <2>1. t # <<>>
    BY <1>1, AppendProperties
  <2>. QED
    BY <2>1, <1>3 DEF EndOf
<1>. QED
  BY <1>1, <1>6, <1>7 DEF Spans

(* Between any two packets the stream is at some byte. *)
LEMMA SpansSplit ==
  ASSUME NEW s \in Seq(Packet), NEW n \in Int, NEW m \in Int, Spans(s, n, m),
         NEW k \in 0..Len(s)
  PROVE  \E j \in Int : /\ Spans(SubSeq(s, 1, k), n, j)
                        /\ Spans(SubSeq(s, k + 1, Len(s)), j, m)
<1>1. PICK l \in Nat : l = Len(s)
  OBVIOUS
<1>2. PICK a : a = SubSeq(s, 1, k)
  OBVIOUS
<1>3. PICK b : b = SubSeq(s, k + 1, l)
  OBVIOUS
<1>4. k \in Nat /\ k <= l /\ k + 1 \in Int
  BY <1>1
<1>5. \A i \in 1..l : s[i] \in Packet
  BY <1>1, ElementOfSeq
<1>6. a \in Seq(Packet) /\ Len(a) = k /\ \A i \in 1..k : a[i] = s[i]
  <2>1. \A i \in 1..k : s[i] \in Packet
    BY <1>4, <1>5
  <2>2. /\ a \in Seq(Packet) /\ Len(a) = IF 1 <= k THEN k - 1 + 1 ELSE 0
        /\ \A i \in 1..(k - 1 + 1) : a[i] = s[1 + i - 1]
    BY <1>2, <1>4, <2>1, SubSeqProperties
  <2>3. Len(a) = k
    BY <1>4, <2>2
  <2>4. k - 1 + 1 = k /\ \A i \in 1..k : 1 + i - 1 = i
    BY <1>4
  <2>. QED
    BY <2>2, <2>3, <2>4
<1>7. b \in Seq(Packet) /\ Len(b) = l - k /\ \A i \in 1..(l - k) : b[i] = s[k + i]
  <2>1. \A i \in (k + 1)..l : s[i] \in Packet
    BY <1>4, <1>5
  <2>2. /\ b \in Seq(Packet) /\ Len(b) = IF k + 1 <= l THEN l - (k + 1) + 1 ELSE 0
        /\ \A i \in 1..(l - (k + 1) + 1) : b[i] = s[k + 1 + i - 1]
    BY <1>3, <1>4, <2>1, SubSeqProperties
  <2>3. Len(b) = l - k
    BY <1>4, <2>2
  <2>4. l - (k + 1) + 1 = l - k /\ \A i \in 1..(l - k) : k + 1 + i - 1 = k + i
    BY <1>4
  <2>. QED
    BY <2>2, <2>3, <2>4
<1>8. PICK j \in Int : j = IF k = 0 THEN n ELSE s[k][2]
  <2>1. k # 0 => s[k][2] \in Int
    BY <1>4, <1>5, PacketIs
  <2>. QED
    BY <2>1
<1>9. \A i \in 1..l : s[i][1] = 1 + (IF i = 1 THEN n ELSE s[i - 1][2])
  BY <1>1 DEF Spans, Follows
<1>10. m = IF l = 0 THEN n ELSE s[l][2]
  <2>1. s = <<>> <=> l = 0
    BY <1>1, EmptySeq
  <2>. QED
    BY <1>1, <2>1 DEF Spans, EndOf
<1>11. Spans(a, n, j)
  <2>1. Follows(a, n)
    BY <1>4, <1>6, <1>9 DEF Follows
  <2>2. a = <<>> <=> k = 0
    BY <1>6, EmptySeq
  <2>3. EndOf(a, n) = j
    BY <1>4, <1>6, <1>8, <2>2 DEF EndOf
  <2>. QED
    BY <2>1, <2>3 DEF Spans
<1>12. Spans(b, j, m)
  <2>1. Follows(b, j)
    <3>. SUFFICES ASSUME NEW i \in 1..(l - k)
                  PROVE  b[i][1] = 1 + (IF i = 1 THEN j ELSE b[i - 1][2])
      BY <1>7 DEF Follows
    <3>1. b[i] = s[k + i] /\ k + i \in 1..l
      BY <1>4, <1>7
    <3>2. s[k + i][1] = 1 + (IF k + i = 1 THEN n ELSE s[k + i - 1][2])
      BY <1>9, <3>1
    <3>3. CASE i = 1
      BY <1>4, <1>8, <3>1, <3>2, <3>3
    <3>4. CASE i # 1
      <4>1. i - 1 \in 1..(l - k) /\ k + (i - 1) = k + i - 1 /\ k + i # 1
        BY <1>4, <3>4
      <4>2. b[i - 1] = s[k + i - 1]
        BY <1>7, <4>1
      <4>. QED
        BY <3>1, <3>2, <3>4, <4>1, <4>2
    <3>. QED
      BY <3>3, <3>4
  <2>2. b = <<>> <=> l - k = 0
    BY <1>7, EmptySeq
  <2>3. EndOf(b, j) = m
    <3>1. CASE l = k
      BY <1>8, <1>10, <2>2, <3>1 DEF EndOf
    <3>2. CASE l # k
      <4>1. b[l - k] = s[k + (l - k)] /\ k + (l - k) = l /\ l # 0
        BY <1>4, <1>7, <3>2
      <4>. QED
        BY <1>4, <1>7, <1>10, <2>2, <3>2, <4>1 DEF EndOf
    <3>. QED
      BY <3>1, <3>2
  <2>. QED
    BY <2>1, <2>3 DEF Spans
<1>. QED
  BY <1>1, <1>2, <1>3, <1>8, <1>11, <1>12

(* A part of the first packet goes. *)
LEMMA SpansCut ==
  ASSUME NEW s \in Seq(Packet), s # <<>>, NEW n \in Int, NEW m \in Int, Spans(s, n, m)
  PROVE  /\ Head(s) \in Packet /\ Head(s)[1] = n + 1
         /\ \A p \in Packet, j \in Int :
              p[1] = j + 1 /\ p[2] = Head(s)[2] => Spans(<<p>> \o Tail(s), j, m)
<1>1. PICK l \in Nat \ {0} : l = Len(s)
  BY EmptySeq
<1>2. /\ Head(s) = s[1] /\ s[1] \in Packet
      /\ Tail(s) \in Seq(Packet) /\ Len(Tail(s)) = l - 1
      /\ \A i \in 1..(l - 1) : Tail(s)[i] = s[i + 1]
  BY <1>1, HeadTailProperties
<1>3. \A i \in 1..l : s[i][1] = 1 + (IF i = 1 THEN n ELSE s[i - 1][2])
  BY <1>1 DEF Spans, Follows
<1>4. Head(s)[1] = n + 1
  BY <1>1, <1>2, <1>3
<1>5. ASSUME NEW p \in Packet, NEW j \in Int, p[1] = j + 1, p[2] = Head(s)[2]
      PROVE  Spans(<<p>> \o Tail(s), j, m)
  <2>1. PICK t : t = <<p>> \o Tail(s)
    OBVIOUS
  <2>2. <<p>> \in Seq(Packet) /\ Len(<<p>>) = 1 /\ <<p>>[1] = p
    OBVIOUS
  <2>3. /\ t \in Seq(Packet) /\ Len(t) = 1 + (l - 1)
        /\ \A i \in 1..(1 + (l - 1)) : t[i] = IF i <= 1 THEN <<p>>[i] ELSE Tail(s)[i - 1]
    BY <1>2, <2>1, <2>2, ConcatProperties
  <2>4. Len(t) = l /\ t[1] = p
    BY <1>1, <2>2, <2>3
  <2>5. \A i \in 2..l : t[i] = s[i]
    <3>. TAKE i \in 2..l
    <3>1. i \in 1..(1 + (l - 1)) /\ ~(i <= 1) /\ i - 1 \in 1..(l - 1) /\ (i - 1) + 1 = i
      BY <1>1
    <3>. QED
      BY <1>2, <2>3, <3>1
  <2>6. Follows(t, j)
    <3>. SUFFICES ASSUME NEW i \in 1..l
                  PROVE  t[i][1] = 1 + (IF i = 1 THEN j ELSE t[i - 1][2])
      BY <2>4 DEF Follows
    <3>1. CASE i = 1
      BY <1>5, <2>4, <3>1
    <3>2. CASE i = 2
      <4>1. t[i] = s[2] /\ s[2][1] = 1 + s[1][2] /\ t[i - 1] = p
        BY <1>3, <2>4, <2>5, <3>2
      <4>. QED
        BY <1>2, <1>5, <3>2, <4>1
    <3>3. CASE i > 2
      <4>1. i \in 2..l /\ i - 1 \in 2..l
        BY <1>1, <3>3
      <4>2. t[i] = s[i] /\ t[i - 1] = s[i - 1]
        BY <2>5, <4>1
      <4>. QED
        BY <1>3, <3>3, <4>2
    <3>. QED
      BY <3>1, <3>2, <3>3
  <2>7. EndOf(t, j) = m
    <3>1. t # <<>> /\ EndOf(t, j) = t[l][2]
      BY <1>1, <2>3, <2>4 DEF EndOf
    <3>2. m = s[l][2]
      BY <1>1 DEF Spans, EndOf
    <3>3. CASE l = 1
      BY <1>2, <1>5, <2>4, <3>1, <3>2, <3>3
    <3>4. CASE l # 1
      BY <1>1, <2>5, <3>1, <3>2, <3>4
    <3>. QED
      BY <3>3, <3>4
  <2>. QED
    BY <2>1, <2>6, <2>7 DEF Spans
<1>. QED
  BY <1>2, <1>4, <1>5

-----------------------------------------------------------------------------
(* Queues *)

(* StreamIntact of one queue. *)
Stream(q) ==
  /\ q.lost \in Nat
  /\ q.lost = 0 => ~q.gap /\ Spans(Pending(q), q.sent, q.got)

(* The queue with a packet received, after k whole packets are sent, after *)
(* n bytes of the next one are sent and the rest is blocked, or lost.      *)
Got(q, p) == [q EXCEPT !.outq = Append(q.outq, p), !.got = p[2]]

Whole(q, k) ==
  [Sent(q, SubSeq(Pending(q), 1, k)) EXCEPT
     !.blkpkt = NoPkt, !.outq = SubSeq(Pending(q), k + 1, Len(Pending(q)))]

Cut(q, n) == [Sent(q, Part(Head(q.outq), n)) EXCEPT !.outq = Tail(q.outq)]

Blocked(q, n) ==
  [Cut(q, n) EXCEPT !.blkpkt = <<Head(q.outq)[1] + n, Head(q.outq)[2]>>]

Lost(q, n) == [Cut(q, n) EXCEPT !.lost = Cut(q, n).lost + 1]

LEMMA SentMore ==
  ASSUME NEW q \in Queue, NEW ps \in Seq(Packet)
  PROVE  /\ ~Sent(q, ps).gap <=> ~q.gap /\ Follows(ps, q.sent)
         /\ Sent(q, ps).sent = EndOf(ps, q.sent)
         /\ Sent(q, ps).got = q.got
<1>1. Sent(q, ps).gap = (q.gap \/ ~Follows(ps, q.sent))
  BY DEF Sent, Queue
<1>2. Sent(q, ps).sent = EndOf(ps, q.sent) /\ Sent(q, ps).got = q.got
  BY DEF Sent, Queue
<1>3. (q.gap \/ ~Follows(ps, q.sent)) \in BOOLEAN
  OBVIOUS
<1>4. ~Sent(q, ps).gap <=> ~q.gap /\ Follows(ps, q.sent)
  BY <1>1, Zenon
<1>. QED
  BY <1>2, <1>4

LEMMA GotIs ==
  ASSUME NEW q \in Queue, q.pkt = NoPkt, NEW p \in Packet, p[1] = q.got + 1
  PROVE  /\ Got(q, p) \in Queue /\ Got(q, p).pkt = NoPkt /\ Got(q, p).blkpkt = q.blkpkt
         /\ Got(q, p).lost = q.lost /\ Got(q, p).outq = Append(q.outq, p)
         /\ Got(q, p).gap = q.gap
         /\ Len(Pending(Got(q, p))) = Len(Pending(q)) + 1
         /\ Stream(q) => Stream(Got(q, p))
<1>1. PICK o \in Seq(Packet) : o = Append(q.outq, p) /\ Len(o) = Len(q.outq) + 1
  <2>1. q.outq \in Seq(Packet)
    BY DEF Queue
  <2>2. Append(q.outq, p) \in Seq(Packet) /\ Len(Append(q.outq, p)) = Len(q.outq) + 1
    BY <2>1, AppendProperties
  <2>. QED
    BY <2>2, Zenon
<1>2. PICK g \in Int : g = p[2]
  BY PacketIs
<1>3. PICK r : r = [q EXCEPT !.outq = o, !.got = g]
  OBVIOUS
<1>4. /\ r \in Queue /\ r.pkt = NoPkt /\ r.blkpkt = q.blkpkt /\ r.lost = q.lost
      /\ r.outq = o /\ r.gap = q.gap /\ r.sent = q.sent /\ r.got = g
  BY <1>3 DEF Queue
<1>5. r = Got(q, p)
  BY <1>1, <1>2, <1>3 DEF Got
<1>6. Pending(r) = Append(Pending(q), p)
  <2>. DEFINE b == IF q.blkpkt = NoPkt THEN <<>> ELSE <<q.blkpkt>>
  <2>1. b \in Seq(Packet)
    <3>1. q.blkpkt # NoPkt => q.blkpkt \in Packet
      BY DEF Queue
    <3>2. <<>> \in Seq(Packet) /\ \A e \in Packet : <<e>> \in Seq(Packet)
      OBVIOUS
    <3>. QED
      BY <3>1, <3>2, Zenon
  <2>2. Pending(q) = b \o q.outq /\ Pending(r) = b \o o
    BY <1>4 DEF Pending
  <2>. HIDE DEF b
  <2>3. q.outq \in Seq(Packet) /\ <<p>> \in Seq(Packet)
    BY DEF Queue
  <2>4. o = q.outq \o <<p>> /\ Append(Pending(q), p) = Pending(q) \o <<p>>
    BY <1>1, <2>3, AppendIsConcat, PendingIs
  <2>5. (b \o q.outq) \o <<p>> = b \o (q.outq \o <<p>>)
    <3>1. PICK t \in Seq(Packet), u \in Seq(Packet) : t = q.outq /\ u = <<p>>
      BY <2>3, Zenon
    <3>2. (b \o t) \o u = b \o (t \o u)
      BY <2>1, ConcatAssociative
    <3>. QED
      BY <3>1, <3>2, Zenon
  <2>. QED
    BY <2>2, <2>4, <2>5, Zenon
<1>7. Pending(q) \in Seq(Packet) /\ Len(Append(Pending(q), p)) = Len(Pending(q)) + 1
  BY PendingIs, AppendProperties
<1>8. Stream(q) => Stream(r)
  <2>. SUFFICES ASSUME Stream(q), q.lost = 0
                PROVE  ~q.gap /\ Spans(Append(Pending(q), p), q.sent, g)
    BY <1>4, <1>6 DEF Stream
  <2>1. q.sent \in Int /\ q.got \in Int
    BY DEF Queue
  <2>2. Spans(Append(Pending(q), p), q.sent, p[2])
    BY <1>7, <2>1, SpansAppend DEF Stream
  <2>. QED
    BY <1>2, <2>2 DEF Stream
<1>. QED
  BY <1>1, <1>4, <1>5, <1>6, <1>7, <1>8

LEMMA WholeIs ==
  ASSUME NEW q \in Queue, q.pkt = NoPkt, NEW k \in 0..Len(Pending(q))
  PROVE  /\ Whole(q, k) \in Queue /\ Whole(q, k).pkt = NoPkt /\ Whole(q, k).blkpkt = NoPkt
         /\ Whole(q, k).lost = q.lost
         /\ Pending(Whole(q, k)) = Whole(q, k).outq
         /\ Len(Whole(q, k).outq) = Len(Pending(q)) - k
         /\ k = 0 => Pending(Whole(q, k)) = Pending(q)
         /\ Stream(q) => Stream(Whole(q, k))
         /\ k = 0 /\ ~q.gap => ~Whole(q, k).gap
<1>1. PICK ps \in Seq(Packet) : ps = Pending(q)
  BY PendingIs
<1>0. k \in 0..Len(ps)
  BY <1>1
<1>2. PICK a \in Seq(Packet) : a = SubSeq(ps, 1, k)
  <2>1. SubSeq(ps, 1, k) \in Seq(Packet)
    BY <1>0
  <2>. QED
    BY <2>1
<1>3. PICK b \in Seq(Packet) : b = SubSeq(ps, k + 1, Len(ps)) /\ Len(b) = Len(ps) - k
  <2>1. /\ SubSeq(ps, k + 1, Len(ps)) \in Seq(Packet)
        /\ Len(SubSeq(ps, k + 1, Len(ps))) = Len(ps) - k
    BY <1>0
  <2>. QED
    BY <2>1
<1>4. PICK r \in Queue :
        /\ r = Sent(q, a) /\ r.pkt = NoPkt /\ r.lost = q.lost /\ r.got = q.got
        /\ r.sent = EndOf(a, q.sent) /\ (~r.gap <=> ~q.gap /\ Follows(a, q.sent))
  BY SentIs, SentMore
<1>5. PICK t : t = [r EXCEPT !.blkpkt = NoPkt, !.outq = b]
  OBVIOUS
<1>6. /\ t \in Queue /\ t.pkt = NoPkt /\ t.blkpkt = NoPkt /\ t.outq = b
      /\ t.lost = q.lost /\ t.got = q.got /\ t.sent = r.sent /\ t.gap = r.gap
  BY <1>4, <1>5 DEF Queue
<1>7. t = Whole(q, k)
  BY <1>1, <1>2, <1>3, <1>4, <1>5 DEF Whole
<1>8. Pending(t) = b
  BY <1>6, PendingIs
<1>9. k = 0 => b = ps
  <2>1. k = 0 => b = SubSeq(ps, 1, Len(ps))
    BY <1>3
  <2>. QED
    BY <2>1, SubSeqFull
<1>10. k = 0 => a = <<>>
  BY <1>2, SubSeqEmpty
<1>11. k = 0 /\ ~q.gap => ~t.gap
  BY <1>4, <1>6, <1>10 DEF Follows
<1>12. Stream(q) => Stream(t)
  <2>. SUFFICES ASSUME Stream(q), q.lost = 0
                PROVE  ~t.gap /\ Spans(b, t.sent, t.got)
    BY <1>6, <1>8 DEF Stream
  <2>1. q.sent \in Int /\ q.got \in Int /\ ~q.gap /\ Spans(ps, q.sent, q.got)
    BY <1>1 DEF Queue, Stream
  <2>2. k \in 0..Len(ps)
    BY <1>1
  <2>3. PICK j \in Int : Spans(a, q.sent, j) /\ Spans(b, j, q.got)
    BY <1>2, <1>3, <2>1, <2>2, SpansSplit
  <2>4. Follows(a, q.sent) /\ EndOf(a, q.sent) = j
    BY <2>3 DEF Spans
  <2>. QED
    BY <1>4, <1>6, <2>1, <2>3, <2>4
<1>. QED
  BY <1>1, <1>3, <1>6, <1>7, <1>8, <1>9, <1>11, <1>12

LEMMA CutMore ==
  ASSUME NEW q \in Queue, q.pkt = NoPkt, q.blkpkt = NoPkt, q.outq # <<>>, NEW n \in Nat
  PROVE  /\ Blocked(q, n) \in Queue /\ Blocked(q, n).pkt = NoPkt
         /\ Blocked(q, n).blkpkt # NoPkt /\ Blocked(q, n).lost = q.lost
         /\ Blocked(q, n).outq = Tail(q.outq)
         /\ Stream(q) => Stream(Blocked(q, n))
         /\ Lost(q, n) \in Queue /\ Lost(q, n).pkt = NoPkt /\ Lost(q, n).blkpkt = NoPkt
         /\ Lost(q, n).lost = q.lost + 1
         /\ Lost(q, n).outq = Tail(q.outq) /\ Pending(Lost(q, n)) = Tail(q.outq)
         /\ Stream(q) => Stream(Lost(q, n))
         /\ Stream(q) /\ q.lost = 0 => ~Lost(q, n).gap
         /\ Len(Tail(q.outq)) = Len(q.outq) - 1
<1>1. PICK o \in Seq(Packet) : o = q.outq /\ o # <<>>
  BY DEF Queue
<1>2. PICK p \in Packet : p = Head(o)
  BY <1>1, HeadTailProperties
<1>3. PICK z \in Seq(Packet) : z = Tail(o) /\ Len(z) = Len(o) - 1
  BY <1>1, HeadTailProperties
<1>4. p[1] \in Int /\ p[2] \in Int
  BY <1>2, PacketIs
<1>5. PICK left \in Packet : left = <<p[1] + n, p[2]>> /\ left[1] = p[1] + n /\ left[2] = p[2]
  <2>1. <<p[1] + n, p[2]>> \in Packet
    BY <1>4 DEF Packet
  <2>. QED
    BY <2>1
<1>6. PICK a \in Seq(Packet) : a = Part(p, n)
  <2>1. <<p[1], p[1] + n - 1>> \in Packet
    BY <1>4 DEF Packet
  <2>2. <<>> \in Seq(Packet) /\ \A e \in Packet : <<e>> \in Seq(Packet)
    OBVIOUS
  <2>. QED
    BY <2>1, <2>2, Zenon DEF Part
<1>7. PICK r \in Queue :
        /\ r = Sent(q, a) /\ r.pkt = NoPkt /\ r.blkpkt = NoPkt /\ r.lost = q.lost /\ r.got = q.got
        /\ r.sent = EndOf(a, q.sent) /\ (~r.gap <=> ~q.gap /\ Follows(a, q.sent))
  BY SentIs, SentMore
<1>8. PICK c : c = [r EXCEPT !.outq = z]
  OBVIOUS
<1>9. /\ c \in Queue /\ c.pkt = NoPkt /\ c.blkpkt = NoPkt /\ c.outq = z /\ c.lost = q.lost
      /\ c.got = q.got /\ c.sent = r.sent /\ c.gap = r.gap
  BY <1>7, <1>8 DEF Queue
<1>10. c = Cut(q, n)
  BY <1>1, <1>2, <1>3, <1>6, <1>7, <1>8 DEF Cut
<1>11. PICK b : b = [c EXCEPT !.blkpkt = left]
  OBVIOUS
<1>12. /\ b \in Queue /\ b.pkt = NoPkt /\ b.blkpkt = left /\ b.outq = z /\ b.lost = q.lost
       /\ b.got = q.got /\ b.sent = r.sent /\ b.gap = r.gap
  BY <1>9, <1>11 DEF Queue
<1>13. b = Blocked(q, n)
  BY <1>1, <1>2, <1>5, <1>10, <1>11 DEF Blocked
<1>14. PICK k \in Int : k = q.lost + 1
  BY DEF Queue
<1>15. PICK d : d = [c EXCEPT !.lost = k]
  OBVIOUS
<1>16. /\ d \in Queue /\ d.pkt = NoPkt /\ d.blkpkt = NoPkt /\ d.outq = z /\ d.lost = k
       /\ d.gap = r.gap
  BY <1>9, <1>15 DEF Queue
<1>17. d = Lost(q, n)
  BY <1>9, <1>10, <1>14, <1>15 DEF Lost
<1>18. left # NoPkt
  BY <1>5 DEF NoPkt
<1>19. Pending(d) = z
  BY <1>16, PendingIs
<1>20. ASSUME Stream(q), q.lost = 0
       PROVE  ~r.gap /\ Spans(<<left>> \o z, r.sent, q.got)
  <2>1. q.sent \in Int /\ q.got \in Int /\ ~q.gap /\ Spans(o, q.sent, q.got)
    BY <1>1, <1>20, PendingIs DEF Queue, Stream
  <2>2. p[1] = q.sent + 1
    BY <1>1, <1>2, <2>1, SpansCut
  <2>3. Follows(a, q.sent) /\ EndOf(a, q.sent) = q.sent + n
    <3>1. CASE n = 0
      <4>1. a = <<>>
        BY <1>6, <3>1 DEF Part
      <4>. QED
        BY <2>1, <3>1, <4>1 DEF Follows, EndOf
    <3>2. CASE n # 0
      <4>1. a = <<<<p[1], p[1] + n - 1>>>>
        BY <1>6, <3>2, Zenon DEF Part
      <4>2. Len(a) = 1 /\ a # <<>> /\ a[1][1] = p[1] /\ a[1][2] = p[1] + n - 1
        BY <4>1
      <4>3. p[1] + n - 1 = q.sent + n
        BY <1>4, <2>1, <2>2, SMTT(30)
      <4>4. Follows(a, q.sent)
        BY <2>1, <2>2, <4>2 DEF Follows
      <4>. QED
        BY <4>2, <4>3, <4>4 DEF EndOf
    <3>. QED
      BY <3>1, <3>2
  <2>4. left[1] = (q.sent + n) + 1 /\ q.sent + n \in Int
    BY <1>5, <2>1, <2>2
  <2>5. Spans(<<left>> \o z, q.sent + n, q.got)
    BY <1>1, <1>2, <1>3, <1>5, <2>1, <2>4, SpansCut
  <2>. QED
    BY <1>7, <2>1, <2>3, <2>5
<1>21. Pending(b) = <<left>> \o z
  BY <1>12, <1>18 DEF Pending
<1>22. Stream(q) => Stream(b)
  BY <1>12, <1>20, <1>21 DEF Stream
<1>23. Stream(q) => Stream(d)
  BY <1>14, <1>16 DEF Stream
<1>. QED
  BY <1>1, <1>3, <1>12, <1>13, <1>14, <1>16, <1>17, <1>18, <1>19, <1>20, <1>22, <1>23

-----------------------------------------------------------------------------
(* Connections *)

(* The registrations a connection should have. *)
Waits(c, x) == c.block[x] \/ (x = "svr" /\ c.wait)

Reads(c, x) == c.fd[x] # NoFd /\ ~(x = "svr" /\ c.wait)

(* The sockets of a connection. *)
Flags(c) ==
  /\ \A x \in Side : Waits(c, x) => c.fd[x] # NoFd
  /\ c.wait => ~c.block.svr
  /\ c.fd.cli = c.fd.svr => c.fd.cli = NoFd
  /\ c.fd.cli = NoFd => c.fd.svr = NoFd

(* The queue of x between two calls of the send loop: NoStranded and       *)
(* StreamIntact without what only the loop restores.                       *)
Unsent(c, x) ==
  LET q == c.q[x] IN
  /\ q.pkt = NoPkt /\ Stream(q)
  /\ q.blkpkt # NoPkt => c.block[Other(x)]
  /\ c.block[Other(x)] => q.blkpkt # NoPkt \/ q.lost > 0
  /\ x = "svr" /\ q.lost > 0 => ~q.gap /\ Pending(q) = <<>> /\ c.block.cli

(* At most one packet of a response waits: the receive that brought it     *)
(* needed the client not to be blocked.                                    *)
Settled(c, x) ==
  /\ Unsent(c, x)
  /\ Pending(c.q[x]) # <<>> => Waits(c, Other(x))
  /\ x = "svr" => c.q[x].outq = <<>>

Sound(c) == Flags(c) /\ \A x \in Side : Settled(c, x)

(* A connection whose packets for Other(x) are to be sent. *)
Ready(c, x) ==
  /\ Flags(c) /\ Settled(c, Other(x)) /\ Unsent(c, x)
  /\ x = "svr" => Len(Pending(c.q[x])) <= 1

-----------------------------------------------------------------------------
(* Registrations *)

Fds == Fd \cup {NoFd}

(* The epoll sets hold what the flags say, of this connection. *)
Owns(w) ==
  \A f \in Fds :
    /\ <<f, w.id>> \in w.snd <=> \E x \in Side : w.c.fd[x] = f /\ Waits(w.c, x)
    /\ <<f, w.id>> \in w.rcv <=> \E x \in Side : w.c.fd[x] = f /\ Reads(w.c, x)

(* What is registered with its id are its sockets: closing them clears it. *)
Loose(w) ==
  \A f \in Fds : <<f, w.id>> \in w.snd \cup w.rcv => \E x \in Side : w.c.fd[x] = f

Covered(w) == Cardinality(w.snd) <= w.nb

(* A handler changes nothing of another connection, and opens only sockets *)
(* that are not in use.                                                    *)
From(w, v) ==
  /\ v \in WorldType /\ v.id = w.id /\ v.frees = w.frees
  /\ \A f \in Fds, i \in Id \ {w.id} :
       /\ <<f, i>> \in v.snd <=> <<f, i>> \in w.snd
       /\ <<f, i>> \in v.rcv <=> <<f, i>> \in w.rcv
  /\ v.c.fd.cli = w.c.fd.cli
  /\ v.c.fd.svr = w.c.fd.svr \/ (w.c.fd.svr = NoFd /\ v.c.fd.svr \in Fd \ FdsInUse)

(* The connection stays in a sound state, or can be freed. *)
Goes(w, v) ==
  /\ From(w, v) /\ Covered(v) /\ Loose(v)
  /\ v.ret = -1 \/ (Owns(v) /\ Sound(v.c))

LEMMA EventSetFinite ==
  ASSUME NEW s \in EventSets
  PROVE  IsFiniteSet(s) /\ Cardinality(s) \in Nat
<1>1. IsFiniteSet(Fds)
  <2>1. IsFiniteSet({NoFd})
    BY FS_Singleton
  <2>. QED
    BY <2>1, FdAssumption, FS_Union DEF Fds
<1>2. IsFiniteSet(Id)
  BY SizeAssumption, FS_Interval DEF Id
<1>3. IsFiniteSet(Fds \X Id)
  BY <1>1, <1>2, FS_Product
<1>4. s \subseteq Fds \X Id
  BY DEF EventSets, Fds
<1>. QED
  BY <1>3, <1>4, FS_Subset, FS_CardinalityType

LEMMA CoveredMore ==
  ASSUME NEW s \in EventSets, NEW e, NEW n \in Int, Cardinality(s) <= n
  PROVE  /\ Cardinality(s \cup {e}) <= n + 1
         /\ e \in s => Cardinality(s \ {e}) <= n - 1
         /\ \A t \in SUBSET s : Cardinality(t) <= n
<1>1. IsFiniteSet(s) /\ Cardinality(s) \in Nat
  BY EventSetFinite
<1>2. Cardinality(s \cup {e}) = Cardinality(s) \/ Cardinality(s \cup {e}) = Cardinality(s) + 1
  BY <1>1, FS_AddElement
<1>3. e \in s => Cardinality(s \ {e}) = Cardinality(s) - 1
  BY <1>1, FS_RemoveElement
<1>4. \A t \in SUBSET s : Cardinality(t) <= Cardinality(s) /\ Cardinality(t) \in Nat
  BY <1>1, FS_Subset, FS_CardinalityType
<1>. QED
  BY <1>1, <1>2, <1>3, <1>4

LEMMA FromTrans ==
  ASSUME NEW w \in WorldType, NEW u, NEW v, From(w, u), From(u, v)
  PROVE  From(w, v)
<1>1. u.c.fd.svr \in Fd => u.c.fd.svr # NoFd
  BY FdAssumption
<1>. QED
  BY <1>1 DEF From

LEMMA OwnsLoose ==
  ASSUME NEW w, Owns(w)
  PROVE  Loose(w)
BY DEF Owns, Loose

(* A new connection, counter and epoll sets. *)
LEMMA PutWorldIs ==
  ASSUME NEW w \in WorldType, NEW c \in Connection, NEW n \in Int,
         NEW s \in EventSets, NEW t \in EventSets
  PROVE  LET v == PutWorld(w, c, n, s, t) IN
         /\ v \in WorldType /\ v.id = w.id /\ v.c = c /\ v.nb = n /\ v.snd = s /\ v.rcv = t
         /\ v.ret = w.ret /\ v.close = w.close /\ v.frees = w.frees
BY DEF PutWorld, WorldType

-----------------------------------------------------------------------------
(* Moves *)

(* v is w but for the queue of x, and the flag of the other side with its  *)
(* registration.                                                           *)
Moved(w, v, x, q) ==
  /\ v \in WorldType /\ v.id = w.id /\ v.frees = w.frees /\ v.close = w.close
  /\ v.rcv = w.rcv
  /\ v.c.fd = w.c.fd /\ v.c.wait = w.c.wait
  /\ v.c.q[x] = q /\ v.c.q[Other(x)] = w.c.q[Other(x)]
  /\ v.c.block[x] = w.c.block[x]

Keeps(w, v, y) == v.c.block[y] = w.c.block[y] /\ v.snd = w.snd /\ v.nb = w.nb

Unblocks(w, v, y) ==
  w.c.block[y] /\ ~v.c.block[y] /\ v.snd = w.snd \ {Event(w, y)} /\ v.nb = w.nb - 1

Blocks(w, v, y) ==
  ~w.c.block[y] /\ v.c.block[y] /\ v.snd = w.snd \cup {Event(w, y)} /\ v.nb = w.nb + 1

Moves(w, v, y) == Keeps(w, v, y) \/ Unblocks(w, v, y) \/ Blocks(w, v, y)

LEMMA EventIs ==
  ASSUME NEW w \in WorldType, NEW y \in Side
  PROVE  /\ Event(w, y) = <<w.c.fd[y], w.id>> /\ w.c.fd[y] \in Fds /\ w.id \in Id
         /\ w.snd \in EventSets /\ w.nb \in Int
BY DEF Event, WorldType, Connection, Fds

LEMMA MovedIs ==
  ASSUME NEW w \in WorldType, NEW x \in Side, NEW v, NEW q, Moved(w, v, x, q),
         Moves(w, v, Other(x)), Owns(w), Covered(w), Flags(w.c), Flags(v.c)
  PROVE  From(w, v) /\ Owns(v) /\ Covered(v) /\ Loose(v)
<1>1. PICK y \in Side : y = Other(x) /\ x # y /\ Side = {x, y} /\ x = Other(y)
  BY SidesAre
<1>2. /\ Event(w, y) = <<w.c.fd[y], w.id>> /\ w.c.fd[y] \in Fds /\ w.id \in Id
      /\ w.snd \in EventSets /\ w.nb \in Int
  BY EventIs
<1>3. From(w, v)
  BY <1>1, <1>2 DEF From, Moved, Moves, Keeps, Unblocks, Blocks, Side
<1>4. Covered(v)
  <2>1. CASE Keeps(w, v, y)
    BY <2>1 DEF Covered, Keeps
  <2>2. CASE Unblocks(w, v, y)
    <3>1. Event(w, y) \in w.snd
      BY <1>2, <2>2 DEF Owns, Waits, Unblocks
    <3>. QED
      BY <1>2, <2>2, <3>1, CoveredMore DEF Covered, Unblocks
  <2>3. CASE Blocks(w, v, y)
    <3>1. Cardinality(w.snd \cup {Event(w, y)}) <= w.nb + 1
      BY <1>2, CoveredMore DEF Covered
    <3>. QED
      BY <2>3, <3>1 DEF Covered, Blocks
  <2>. QED
    BY <1>1, <2>1, <2>2, <2>3 DEF Moves
<1>5. /\ v.id = w.id /\ v.rcv = w.rcv /\ \A z \in Side : v.c.fd[z] = w.c.fd[z] /\ (Reads(v.c, z) <=> Reads(w.c, z))
      /\ Waits(v.c, x) <=> Waits(w.c, x)
  BY DEF Moved, Reads, Waits
<1>6. \A f \in Fds : <<f, v.id>> \in v.rcv <=> \E z \in Side : v.c.fd[z] = f /\ Reads(v.c, z)
  BY <1>5 DEF Owns
<1>7. ASSUME NEW f \in Fds
      PROVE  <<f, w.id>> \in v.snd <=> \E z \in Side : w.c.fd[z] = f /\ Waits(v.c, z)
  <2>1. <<f, w.id>> \in w.snd <=> \E z \in Side : w.c.fd[z] = f /\ Waits(w.c, z)
    BY DEF Owns
  <2>2. CASE Keeps(w, v, y)
    <3>1. Waits(v.c, y) <=> Waits(w.c, y)
      BY <2>2 DEF Keeps, Waits, Moved
    <3>. QED
      BY <1>1, <1>5, <2>1, <2>2, <3>1 DEF Keeps
  <2>3. CASE Unblocks(w, v, y)
    <3>1. Waits(w.c, y) /\ ~Waits(v.c, y)
      BY <2>3 DEF Unblocks, Waits, Moved, Flags
    <3>2. Waits(w.c, x) => w.c.fd[x] # w.c.fd[y]
      BY <1>1, <3>1 DEF Flags, Side
    <3>3. <<f, w.id>> \in v.snd <=> <<f, w.id>> \in w.snd /\ f # w.c.fd[y]
      BY <1>2, <2>3 DEF Unblocks
    <3>. QED
      BY <1>1, <1>5, <2>1, <3>1, <3>2, <3>3
  <2>4. CASE Blocks(w, v, y)
    <3>1. Waits(v.c, y)
      BY <2>4 DEF Blocks, Waits
    <3>2. Waits(w.c, y) => Waits(v.c, y)
      BY <3>1
    <3>3. <<f, w.id>> \in v.snd <=> <<f, w.id>> \in w.snd \/ f = w.c.fd[y]
      BY <1>2, <2>4 DEF Blocks
    <3>. QED
      BY <1>1, <1>5, <2>1, <3>1, <3>2, <3>3
  <2>. QED
    BY <1>1, <2>2, <2>3, <2>4 DEF Moves
<1>8. Owns(v)
  BY <1>5, <1>6, <1>7 DEF Owns
<1>. QED
  BY <1>3, <1>4, <1>8, OwnsLoose

LEMMA PutMore ==
  ASSUME NEW w \in WorldType, NEW x \in Side, NEW y \in Side, y = Other(x), NEW q \in Queue,
         NEW a \in Int, NEW b \in BOOLEAN, NEW s \in EventSets, NEW n \in Int
  PROVE  LET v == Put(w, x, q, a, y, b, s, n) IN
         /\ Moved(w, v, x, q) /\ v.ret = w.ret
         /\ v.c.block[y] = b /\ v.snd = s /\ v.nb = n
<1>0. PICK v : v = Put(w, x, q, a, y, b, s, n)
  OBVIOUS
<1>1. /\ w.c \in Connection /\ w.c.q \in [Side -> Queue] /\ w.c.block \in [Side -> BOOLEAN]
      /\ x # y
  BY SidesAre DEF WorldType, Connection
<1>. DEFINE c == [w.c EXCEPT !.q = [w.c.q EXCEPT ![x] = q], !.nalloced = a,
                             !.block = [w.c.block EXCEPT ![y] = b]]
<1>2. /\ c \in Connection /\ c.fd = w.c.fd /\ c.wait = w.c.wait
      /\ c.q[x] = q /\ c.q[y] = w.c.q[y] /\ c.block[x] = w.c.block[x] /\ c.block[y] = b
  BY <1>1 DEF Connection
<1>3. v = [w EXCEPT !.c = c, !.snd = s, !.nb = n]
  BY <1>0, <1>1 DEF Put, WorldType, Connection
<1>. HIDE DEF c
<1>4. /\ v \in WorldType /\ v.id = w.id /\ v.frees = w.frees /\ v.c = c /\ v.ret = w.ret
      /\ v.close = w.close /\ v.rcv = w.rcv /\ v.snd = s /\ v.nb = n
  BY <1>2, <1>3 DEF WorldType
<1>. QED
  BY <1>0, <1>2, <1>4 DEF Moved

LEMMA PutQueueMore ==
  ASSUME NEW w \in WorldType, NEW x \in Side, NEW q \in Queue
  PROVE  LET v == PutQueue(w, x, q) IN
         Moved(w, v, x, q) /\ Keeps(w, v, Other(x)) /\ v.ret = w.ret
<1>0. PICK v : v = PutQueue(w, x, q)
  OBVIOUS
<1>1. /\ w.c \in Connection /\ w.c.q \in [Side -> Queue] /\ Other(x) # x /\ Other(x) \in Side
  BY SidesAre DEF WorldType, Connection
<1>. DEFINE c == [w.c EXCEPT !.q = [w.c.q EXCEPT ![x] = q]]
<1>2. /\ c \in Connection /\ c.fd = w.c.fd /\ c.wait = w.c.wait
      /\ c.q[x] = q /\ c.q[Other(x)] = w.c.q[Other(x)] /\ c.block = w.c.block
  BY <1>1 DEF Connection
<1>3. v = [w EXCEPT !.c = c]
  BY <1>0, <1>1 DEF PutQueue, WorldType, Connection
<1>. HIDE DEF c
<1>4. /\ v \in WorldType /\ v.id = w.id /\ v.frees = w.frees /\ v.c = c /\ v.ret = w.ret
      /\ v.close = w.close /\ v.rcv = w.rcv /\ v.snd = w.snd /\ v.nb = w.nb
  BY <1>2, <1>3 DEF WorldType
<1>. QED
  BY <1>0, <1>2, <1>4 DEF Moved, Keeps

LEMMA FailedMore ==
  ASSUME NEW w \in WorldType
  PROVE  LET v == Failed(w) IN
         /\ v \in WorldType /\ v.id = w.id /\ v.frees = w.frees /\ v.c = w.c /\ v.ret = -1
         /\ v.snd = w.snd /\ v.rcv = w.rcv /\ v.nb = w.nb /\ v.close = w.close
BY DEF Failed, WorldType

(* A failure changes nothing the freeing of the connection relies on. *)
LEMMA FailedGoes ==
  ASSUME NEW w \in WorldType, NEW u, From(w, u), Covered(u), Loose(u)
  PROVE  Goes(w, Failed(u))
<1>1. u \in WorldType
  BY DEF From
<1>. QED
  BY <1>1, FailedMore DEF From, Covered, Loose, Goes

LEMMA SentWholeMore ==
  ASSUME NEW w \in WorldType, NEW y \in Side, NEW x, x = Other(y), w.c.q[x].pkt = NoPkt,
         NEW k \in 0..Len(Pending(w.c.q[x])), NEW v, v = SentWhole(w, y, k)
  PROVE  /\ Moved(w, v, x, Whole(w.c.q[x], k)) /\ v.ret = w.ret
         /\ IF k > 0 /\ w.c.block[y] THEN Unblocks(w, v, y) ELSE Keeps(w, v, y)
<1>1. x \in Side /\ y = Other(x) /\ w.c.q[x] \in Queue
  BY SidesAre DEF WorldType, Connection
<1>2. PICK q \in Queue : q = Whole(w.c.q[x], k)
  BY <1>1, WholeIs
<1>. DEFINE u == k > 0 /\ w.c.block[y]
            b == w.c.block[y] /\ ~u
            e == IF u THEN w.snd \ {Event(w, y)} ELSE w.snd
            n == IF u THEN w.nb - 1 ELSE w.nb
            a == w.c.nalloced - k
<1>3. b \in BOOLEAN /\ e \in EventSets /\ n \in Int /\ a \in Int
  <2>1. w.c.block \in [Side -> BOOLEAN] /\ w.snd \in EventSets /\ w.nb \in Int /\ w.c.nalloced \in Int
    BY <1>1 DEF WorldType, Connection
  <2>2. k \in Int
    OBVIOUS
  <2>. QED
    BY <2>1, <2>2 DEF EventSets
<1>4. v = Put(w, x, q, a, y, b, e, n)
  BY <1>2 DEF SentWhole, Put, Whole
<1>5. w.c.block[y] \in BOOLEAN
  BY DEF WorldType, Connection
<1>6. /\ Moved(w, v, x, q) /\ v.ret = w.ret
      /\ v.c.block[y] = b /\ v.snd = e /\ v.nb = n
  <2>. HIDE DEF b, e, n, a
  <2>. QED
    BY <1>1, <1>3, <1>4, PutMore
<1>. QED
  BY <1>2, <1>5, <1>6 DEF Unblocks, Keeps

LEMMA SendFailsMore ==
  ASSUME NEW w \in WorldType, NEW x \in Side, w.c.q[x].outq # <<>>
  PROVE  \E u, q : Moved(w, u, x, q) /\ Keeps(w, u, Other(x)) /\ SendFails(w, x) = Failed(u)
<1>1. w.c \in Connection /\ w.c.q[x] \in Queue /\ Other(x) \in Side
  BY SidesAre DEF WorldType, Connection
<1>2. PICK o \in Seq(Packet) : o = Tail(w.c.q[x].outq)
  <2>1. Tail(w.c.q[x].outq) \in Seq(Packet)
    BY <1>1 DEF Queue
  <2>. QED
    BY <2>1
<1>3. PICK q \in Queue : q = [w.c.q[x] EXCEPT !.outq = o]
  BY <1>1 DEF Queue
<1>4. PICK a \in Int : a = w.c.nalloced - 1
  BY <1>1 DEF Connection
<1>. DEFINE c == [w.c EXCEPT !.q = [w.c.q EXCEPT ![x] = q], !.nalloced = a]
<1>5. /\ c \in Connection /\ c.fd = w.c.fd /\ c.wait = w.c.wait
      /\ c.q[x] = q /\ c.q[Other(x)] = w.c.q[Other(x)] /\ c.block = w.c.block
  BY <1>1, SidesAre DEF Connection
<1>6. PICK u : u = [w EXCEPT !.c = c]
  OBVIOUS
<1>7. u = [w EXCEPT !.c.q[x].outq = Tail(@), !.c.nalloced = @ - 1]
  BY <1>1, <1>2, <1>3, <1>4, <1>6 DEF WorldType, Connection
<1>. HIDE DEF c
<1>8. Moved(w, u, x, q) /\ Keeps(w, u, Other(x))
  BY <1>5, <1>6 DEF Moved, Keeps, WorldType
<1>. QED
  BY <1>7, <1>8 DEF SendFails

LEMMA SentPartMore ==
  ASSUME NEW w \in WorldType, NEW y \in Side, NEW x, x = Other(y), NEW n \in Nat,
         w.c.q[x].pkt = NoPkt, w.c.q[x].blkpkt = NoPkt, w.c.q[x].outq # <<>>,
         NEW v \in SentPart(w, y, n)
  PROVE  \/ /\ w.c.block[y] /\ Moved(w, v, x, Lost(w.c.q[x], n)) /\ Keeps(w, v, y)
            /\ v.ret = w.ret
         \/ /\ Moved(w, v, x, Blocked(w.c.q[x], n)) /\ Blocks(w, v, y)
            /\ v.ret = w.ret
         \/ v = SendFails(w, x)
<1>1. x \in Side /\ y = Other(x) /\ w.c \in Connection
  BY SidesAre DEF WorldType
<1>2. PICK q \in Queue : q = w.c.q[x]
  BY <1>1 DEF Connection
<1>3. PICK p : p = Head(q.outq)
  OBVIOUS
<1>4. PICK t \in Queue : t = Cut(q, n)
  <2>1. q.pkt = NoPkt /\ q.blkpkt = NoPkt /\ q.outq # <<>>
    BY <1>2
  <2>2. \E u \in Queue : u = [Sent(q, Part(p, n)) EXCEPT !.outq = Tail(q.outq)]
    BY <1>3, <2>1, CutIs, ZenonT(60)
  <2>. QED
    BY <1>3, <2>2 DEF Cut
<1>5. PICK left \in Packet : left = <<p[1] + n, p[2]>>
  BY <1>2, <1>3, CutIs
<1>6. PICK cut : cut = PutQueue(w, x, t)
  OBVIOUS
<1>7. Moved(w, cut, x, t) /\ Keeps(w, cut, y) /\ cut.ret = w.ret
  BY <1>1, <1>6, PutQueueMore
<1>8. cut \in WorldType /\ cut.c.q[x] = t /\ Event(cut, y) = Event(w, y)
  BY <1>7 DEF Moved, Event
<1>9. CASE w.c.block[y]
  <2>1. v = [cut EXCEPT !.c.q[x].lost = @ + 1]
    BY <1>2, <1>3, <1>4, <1>6, <1>9, Zenon DEF SentPart, PutQueue, Part, Cut
  <2>2. PICK u \in Queue : u = Lost(q, n)
    BY <1>2, CutMore
  <2>3. v = PutQueue(cut, x, u)
    BY <1>4, <1>8, <2>1, <2>2 DEF PutQueue, Lost
  <2>4. Moved(cut, v, x, u) /\ Keeps(cut, v, y) /\ v.ret = cut.ret
    BY <1>1, <1>8, <2>3, PutQueueMore
  <2>. QED
    BY <1>2, <1>7, <1>9, <2>2, <2>4 DEF Moved, Keeps
<1>10. CASE ~w.c.block[y]
  <2>1. \/ v = [cut EXCEPT !.c.q[x].blkpkt = left, !.c.block[y] = TRUE,
                           !.snd = cut.snd \cup {Event(w, y)}, !.nb = cut.nb + 1]
        \/ v = SendFails(w, x)
    BY <1>2, <1>3, <1>4, <1>5, <1>6, <1>8, <1>10, Zenon DEF SentPart, PutQueue, Part, Cut
  <2>2. PICK e \in EventSets, z \in Int : e = cut.snd \cup {Event(w, y)} /\ z = cut.nb + 1
    <3>1. cut.snd \cup {Event(w, y)} \in EventSets /\ cut.nb + 1 \in Int
      BY <1>7, EventIs DEF Keeps, EventSets, Fds
    <3>. QED
      BY <3>1
  <2>3. CASE v = [cut EXCEPT !.c.q[x].blkpkt = left, !.c.block[y] = TRUE, !.snd = e, !.nb = z]
    <3>1. PICK u \in Queue : u = Blocked(q, n)
      BY <1>2, CutMore
    <3>2. u = [t EXCEPT !.blkpkt = left]
      BY <1>3, <1>4, <1>5, <3>1 DEF Blocked
    <3>. DEFINE c == [cut.c EXCEPT !.q = [cut.c.q EXCEPT ![x] = u],
                                   !.block = [cut.c.block EXCEPT ![y] = TRUE]]
    <3>3. /\ c \in Connection /\ c.fd = cut.c.fd /\ c.wait = cut.c.wait /\ c.q[x] = u
          /\ c.q[y] = cut.c.q[y] /\ c.block[y] = TRUE /\ c.block[x] = cut.c.block[x]
      BY <1>1, <1>8, SidesAre DEF WorldType, Connection
    <3>4. v = [cut EXCEPT !.c = c, !.snd = e, !.nb = z]
      BY <1>1, <1>8, <2>3, <3>2 DEF WorldType, Connection
    <3>. HIDE DEF c
    <3>5. Moved(cut, v, x, u) /\ v.ret = cut.ret /\ v.c.block[y] /\ v.snd = e /\ v.nb = z
      BY <1>1, <1>8, <3>3, <3>4 DEF Moved, WorldType
    <3>6. Moved(w, v, x, u)
      BY <1>7, <3>5 DEF Moved
    <3>7. Blocks(w, v, y)
      BY <1>7, <1>10, <2>2, <3>5 DEF Blocks, Keeps
    <3>. QED
      BY <1>2, <1>7, <3>1, <3>5, <3>6, <3>7
  <2>. QED
    BY <2>1, <2>2, <2>3
<1>. QED
  BY <1>9, <1>10

LEMMA FlagsMoved ==
  ASSUME NEW w \in WorldType, NEW x \in Side, NEW v, NEW q, Moved(w, v, x, q), Flags(w.c),
         NEW y, y = Other(x),
         v.c.block[y] => w.c.block[y] \/ (w.c.fd[y] # NoFd /\ (y = "svr" => ~w.c.wait))
  PROVE  Flags(v.c)
<1>1. /\ v.c.fd = w.c.fd /\ v.c.wait = w.c.wait /\ v.c.block[x] = w.c.block[x]
      /\ Side = {x, y} /\ x # y
  BY SidesAre DEF Moved
<1>2. \A z \in Side : Waits(v.c, z) => v.c.fd[z] # NoFd
  BY <1>1 DEF Flags, Waits
<1>3. v.c.wait => ~v.c.block.svr
  BY <1>1 DEF Flags, Side
<1>. QED
  BY <1>1, <1>2, <1>3 DEF Flags

LEMMA SettledMoved ==
  ASSUME NEW w \in WorldType, NEW x \in Side, NEW v, NEW q, Moved(w, v, x, q),
         Settled(w.c, Other(x))
  PROVE  Settled(v.c, Other(x))
<1>1. PICK y \in Side : y = Other(x) /\ Other(y) = x
  BY SidesAre
<1>2. v.c.q[y] = w.c.q[y] /\ v.c.block[x] = w.c.block[x] /\ v.c.wait = w.c.wait
  BY <1>1 DEF Moved
<1>3. y = "svr" => x = "cli"
  BY <1>1 DEF Other
<1>. QED
  BY <1>1, <1>2, <1>3 DEF Settled, Unsent, Waits

(* After k whole packets. *)
LEMMA WholeUnsent ==
  ASSUME NEW w \in WorldType, NEW y \in Side, NEW x \in Side, x = Other(y), Ready(w.c, x),
         Owns(w), Covered(w), NEW k \in 0..Len(Pending(w.c.q[x])),
         NEW v, v = SentWhole(w, y, k)
  PROVE  /\ v \in WorldType /\ v.ret = w.ret /\ v.c.fd = w.c.fd /\ v.c.wait = w.c.wait
         /\ From(w, v) /\ Owns(v) /\ Covered(v) /\ Loose(v)
         /\ Flags(v.c) /\ Settled(v.c, y)
         /\ v.c.q[x] = Whole(w.c.q[x], k)
         /\ v.c.q[x].pkt = NoPkt /\ v.c.q[x].blkpkt = NoPkt /\ Stream(v.c.q[x])
         /\ Len(v.c.q[x].outq) = Len(Pending(w.c.q[x])) - k
         /\ v.c.q[x].lost = w.c.q[x].lost
         /\ v.c.block[y] <=> w.c.block[y] /\ k = 0
<1>1. y = Other(x) /\ Side = {x, y} /\ x # y
  BY SidesAre
<1>2. w.c.q[x] \in Queue /\ w.c.q[x].pkt = NoPkt /\ Stream(w.c.q[x])
  BY DEF WorldType, Connection, Ready, Unsent
<1>3. PICK r : r = Whole(w.c.q[x], k)
  OBVIOUS
<1>4. /\ Moved(w, v, x, r) /\ v.ret = w.ret
      /\ IF k > 0 /\ w.c.block[y] THEN Unblocks(w, v, y) ELSE Keeps(w, v, y)
  BY <1>2, <1>3, SentWholeMore
<1>5. /\ r \in Queue /\ r.pkt = NoPkt /\ r.blkpkt = NoPkt /\ r.lost = w.c.q[x].lost
      /\ Len(r.outq) = Len(Pending(w.c.q[x])) - k /\ Stream(r)
  BY <1>2, <1>3, WholeIs
<1>6. v.c.block[y] <=> w.c.block[y] /\ k = 0
  <2>1. k \in Nat
    OBVIOUS
  <2>2. k > 0 <=> k # 0
    BY <2>1
  <2>. QED
    BY <1>4, <2>2 DEF Unblocks, Keeps
<1>7. Flags(w.c) /\ Settled(w.c, y)
  BY <1>1 DEF Ready
<1>8. Flags(v.c) /\ Settled(v.c, y)
  BY <1>1, <1>4, <1>6, <1>7, FlagsMoved, SettledMoved
<1>9. From(w, v) /\ Owns(v) /\ Covered(v) /\ Loose(v)
  BY <1>1, <1>4, <1>7, <1>8, MovedIs DEF Moves
<1>. QED
  BY <1>3, <1>4, <1>5, <1>6, <1>8, <1>9 DEF Moved

(* How the send loop can end. *)
LEMMA SendLoopCases ==
  ASSUME NEW w, NEW y \in Side, NEW x, x = Other(y), NEW l \in Nat, l = Len(Pending(w.c.q[x])),
         NEW v \in SendLoop(w, y)
  PROVE  \/ v = SentWhole(w, y, l)
         \/ \E k \in 0..(l - 1) : v = SendFails(SentWhole(w, y, k), x)
         \/ \E k \in 0..(l - 1), n \in Nat : v \in SentPart(SentWhole(w, y, k), y, n)
<1>. DEFINE ps == Pending(w.c.q[Other(y)])
            least == IF y = "svr" THEN 1 ELSE 0
<1>1. \/ v \in {SentWhole(w, y, Len(ps))}
      \/ v \in {SendFails(SentWhole(w, y, k), Other(y)) : k \in 0..(Len(ps) - 1)}
      \/ v \in UNION {SentPart(SentWhole(w, y, kn[1] - 1), y, kn[2]) :
                   kn \in {p \in (1..Len(ps)) \X (least..MaxPkt) : p[2] < Size(ps[p[1]])}}
  BY Zenon DEF SendLoop
<1>2. ps = Pending(w.c.q[x])
  OBVIOUS
<1>. HIDE DEF ps
<1>3. CASE v \in UNION {SentPart(SentWhole(w, y, kn[1] - 1), y, kn[2]) :
                   kn \in {p \in (1..Len(ps)) \X (least..MaxPkt) : p[2] < Size(ps[p[1]])}}
  <2>1. PICK kn \in (1..Len(ps)) \X (least..MaxPkt) :
          v \in SentPart(SentWhole(w, y, kn[1] - 1), y, kn[2])
    BY <1>3, Zenon
  <2>2. kn[1] \in 1..Len(ps) /\ kn[2] \in least..MaxPkt
    OBVIOUS
  <2>3. kn[2] \in Nat /\ kn[1] - 1 \in 0..(l - 1)
    BY <1>2, <2>2, SizeAssumption
  <2>. QED
    BY <2>1, <2>3
<1>. QED
  BY <1>1, <1>2, <1>3

LEMMA NoneLeft ==
  ASSUME NEW q \in Queue
  PROVE  /\ Pending(q) = <<>> <=> Len(Pending(q)) = 0
         /\ q.outq = <<>> <=> Len(q.outq) = 0
         /\ Len(Pending(q)) = 0 => q.blkpkt = NoPkt /\ q.outq = <<>>
         /\ q.blkpkt = NoPkt /\ q.outq = <<>> => Pending(q) = <<>>
<1>1. /\ Pending(q) \in Seq(Packet) /\ q.outq \in Seq(Packet)
      /\ Len(Pending(q)) = (IF q.blkpkt = NoPkt THEN 0 ELSE 1) + Len(q.outq)
      /\ Len(q.outq) \in Nat
  BY PendingIs DEF Queue
<1>2. \A s \in Seq(Packet) : s = <<>> <=> Len(s) = 0
  BY EmptySeq
<1>3. Pending(q) = <<>> <=> Len(Pending(q)) = 0
  BY <1>1, <1>2, Zenon
<1>4. q.outq = <<>> <=> Len(q.outq) = 0
  BY <1>1, <1>2, Zenon
<1>5. Len(Pending(q)) = 0 => q.blkpkt = NoPkt /\ Len(q.outq) = 0
  <2>1. CASE q.blkpkt = NoPkt
    BY <1>1, <2>1
  <2>2. CASE q.blkpkt # NoPkt
    <3>1. Len(Pending(q)) = 1 + Len(q.outq)
      BY <1>1, <2>2
    <3>2. PICK n \in Nat : n = Len(q.outq)
      BY <1>1
    <3>3. Len(Pending(q)) = 1 + n
      BY <3>1, <3>2
    <3>4. Len(Pending(q)) # 0
      BY <3>3
    <3>. QED
      BY <3>4
  <2>. QED
    BY <2>1, <2>2
<1>6. q.blkpkt = NoPkt /\ Len(q.outq) = 0 => Len(Pending(q)) = 0
  BY <1>1
<1>. QED
  BY <1>3, <1>4, <1>5, <1>6, Zenon

(* The send loop. *)
LEMMA SendLoopGoes ==
  ASSUME NEW w \in WorldType, NEW y \in Side, NEW x, x = Other(y), Ready(w.c, x),
         Owns(w), Covered(w), w.c.fd[y] # NoFd, y = "svr" => ~w.c.wait,
         NEW v \in SendLoop(w, y)
  PROVE  Goes(w, v)
<1>1. x \in Side /\ y = Other(x) /\ Side = {x, y} /\ x # y
  BY SidesAre
<1>2. PICK q \in Queue : q = w.c.q[x]
  BY <1>1 DEF WorldType, Connection
<1>3. PICK l \in Nat : l = Len(Pending(q))
  BY PendingIs
<1>4. \/ v = SentWhole(w, y, l)
      \/ \E k \in 0..(l - 1) : v = SendFails(SentWhole(w, y, k), x)
      \/ \E k \in 0..(l - 1), n \in Nat : v \in SentPart(SentWhole(w, y, k), y, n)
  BY <1>1, <1>2, <1>3, SendLoopCases
<1>0. /\ q.pkt = NoPkt /\ Stream(q) /\ Flags(w.c) /\ Unsent(w.c, x) /\ Settled(w.c, y)
      /\ x = "svr" => l <= 1
  BY <1>1, <1>2, <1>3 DEF Ready, Unsent
<1>10. l = 0 => q.blkpkt = NoPkt /\ Pending(q) = <<>>
  BY <1>3, NoneLeft
<1>12. q.lost \in Nat
  BY <1>0 DEF Stream
<1>11. ASSUME w.c.block[y], ~(q.lost > 0) PROVE l # 0
  BY <1>0, <1>1, <1>2, <1>10, <1>11 DEF Unsent
<1>13. x = "svr" /\ l # 0 => q.lost = 0
  BY <1>0, <1>2, <1>3, <1>12, EmptySeq DEF Unsent
<1>5. CASE v = SentWhole(w, y, l)
  <2>1. l \in 0..Len(Pending(w.c.q[x]))
    BY <1>2, <1>3
  <2>2. PICK t \in Queue : t = v.c.q[x] /\ t = Whole(q, l)
    BY <1>0, <1>1, <1>2, <1>5, <2>1, WholeIs, WholeUnsent
  <2>3. /\ From(w, v) /\ Owns(v) /\ Covered(v) /\ Loose(v)
        /\ Flags(v.c) /\ Settled(v.c, y)
        /\ t.pkt = NoPkt /\ t.blkpkt = NoPkt /\ Stream(t) /\ Len(t.outq) = l - l
        /\ t.lost = q.lost /\ (v.c.block[y] <=> w.c.block[y] /\ l = 0)
    <3>1. PICK j \in 0..Len(Pending(w.c.q[x])) : j = l
      BY <2>1
    <3>2. v = SentWhole(w, y, j)
      BY <1>5, <3>1
    <3>3. /\ From(w, v) /\ Owns(v) /\ Covered(v) /\ Loose(v)
          /\ Flags(v.c) /\ Settled(v.c, y)
          /\ v.c.q[x].pkt = NoPkt /\ v.c.q[x].blkpkt = NoPkt /\ Stream(v.c.q[x])
          /\ Len(v.c.q[x].outq) = Len(Pending(w.c.q[x])) - j
          /\ v.c.q[x].lost = w.c.q[x].lost
          /\ v.c.block[y] <=> w.c.block[y] /\ j = 0
      BY <1>1, <3>2, WholeUnsent, SMTT(30)
    <3>. QED
      BY <1>2, <1>3, <2>2, <3>1, <3>3
  <2>4. t.outq = <<>> /\ Pending(t) = <<>>
    <3>1. Len(t.outq) = 0
      BY <2>3
    <3>. QED
      BY <2>3, <3>1, NoneLeft
  <2>5. v.c.block[y] => t.lost > 0
    BY <1>11, <1>12, <2>3
  <2>6. x = "svr" /\ t.lost > 0 => ~t.gap /\ v.c.block.cli
    <3>. SUFFICES ASSUME x = "svr", q.lost > 0 PROVE ~t.gap /\ v.c.block.cli
      BY <2>3
    <3>1. l = 0 /\ ~q.gap /\ w.c.block.cli /\ y = "cli"
      BY <1>0, <1>1, <1>2, <1>13 DEF Unsent, Other
    <3>2. 0 \in 0..Len(Pending(q)) /\ t = Whole(q, 0)
      BY <2>1, <2>2, <3>1, <1>2
    <3>3. ~t.gap
      BY <1>0, <3>1, <3>2, WholeIs
    <3>. QED
      BY <2>3, <3>1, <3>3
  <2>7. Settled(v.c, x)
    BY <1>1, <2>2, <2>3, <2>4, <2>5, <2>6 DEF Settled, Unsent
  <2>8. Sound(v.c)
    BY <1>1, <2>3, <2>7 DEF Sound
  <2>. QED
    BY <2>3, <2>8 DEF Goes
<1>8. ASSUME NEW k \in 0..(l - 1), NEW u, u = SentWhole(w, y, k)
      PROVE  /\ u \in WorldType /\ u.ret = w.ret /\ u.c.fd = w.c.fd /\ u.c.wait = w.c.wait
             /\ From(w, u) /\ Owns(u) /\ Covered(u) /\ Flags(u.c) /\ Settled(u.c, y)
             /\ u.c.q[x] \in Queue /\ u.c.q[x] = Whole(q, k)
             /\ u.c.q[x].pkt = NoPkt /\ u.c.q[x].blkpkt = NoPkt /\ Stream(u.c.q[x])
             /\ u.c.q[x].outq # <<>> /\ Len(u.c.q[x].outq) = l - k
             /\ u.c.q[x].lost = q.lost
             /\ u.c.block[y] <=> w.c.block[y] /\ k = 0
  <2>1. k \in 0..l /\ k < l
    OBVIOUS
  <2>3. PICK j \in 0..Len(Pending(w.c.q[x])) : j = k
    BY <1>2, <1>3, <2>1
  <2>4. u = SentWhole(w, y, j)
    BY <1>8, <2>3
  <2>0. /\ u \in WorldType /\ u.ret = w.ret /\ u.c.fd = w.c.fd /\ u.c.wait = w.c.wait
        /\ From(w, u) /\ Owns(u) /\ Covered(u) /\ Flags(u.c) /\ Settled(u.c, y)
        /\ u.c.q[x] = Whole(w.c.q[x], k)
        /\ u.c.q[x].pkt = NoPkt /\ u.c.q[x].blkpkt = NoPkt /\ Stream(u.c.q[x])
        /\ Len(u.c.q[x].outq) = Len(Pending(w.c.q[x])) - k
        /\ u.c.q[x].lost = w.c.q[x].lost
        /\ u.c.block[y] <=> w.c.block[y] /\ k = 0
    <3>1. /\ u \in WorldType /\ u.ret = w.ret /\ u.c.fd = w.c.fd /\ u.c.wait = w.c.wait
          /\ From(w, u) /\ Owns(u) /\ Covered(u) /\ Flags(u.c) /\ Settled(u.c, y)
          /\ u.c.q[x] = Whole(w.c.q[x], j)
          /\ u.c.q[x].pkt = NoPkt /\ u.c.q[x].blkpkt = NoPkt /\ Stream(u.c.q[x])
          /\ Len(u.c.q[x].outq) = Len(Pending(w.c.q[x])) - j
          /\ u.c.q[x].lost = w.c.q[x].lost
          /\ u.c.block[y] <=> w.c.block[y] /\ j = 0
      BY <1>1, <2>4, WholeUnsent, SMTT(30)
    <3>. QED
      BY <2>3, <3>1
  <2>2. u.c.q[x] = Whole(q, k) /\ Len(u.c.q[x].outq) = l - k /\ u.c.q[x].lost = q.lost
    BY <1>2, <1>3, <2>0
  <2>5. u.c.q[x] \in Queue
    BY <1>1, <2>0 DEF WorldType, Connection
  <2>6. u.c.q[x].outq # <<>>
    <3>1. l - k # 0
      BY <2>1
    <3>2. Len(<<>>) = 0
      OBVIOUS
    <3>. QED
      BY <2>2, <3>1, <3>2
  <2>. QED
    BY <2>0, <2>2, <2>5, <2>6
<1>9. ASSUME NEW k \in 0..(l - 1), NEW u, u = SentWhole(w, y, k), v = SendFails(u, x)
      PROVE  Goes(w, v)
  <2>1. PICK d, r : Moved(u, d, x, r) /\ Keeps(u, d, Other(x)) /\ v = Failed(d)
    BY <1>1, <1>8, <1>9, SendFailsMore
  <2>2. u \in WorldType /\ Flags(u.c) /\ Owns(u) /\ Covered(u) /\ From(w, u)
    BY <1>8, <1>9
  <2>3. Flags(d.c)
    BY <1>1, <2>1, <2>2, FlagsMoved DEF Keeps
  <2>4. From(u, d) /\ Covered(d) /\ Loose(d)
    BY <1>1, <2>1, <2>2, <2>3, MovedIs DEF Moves
  <2>5. From(w, d)
    BY <2>2, <2>4, FromTrans
  <2>. QED
    BY <2>1, <2>4, <2>5, FailedGoes
<1>7. ASSUME NEW k \in 0..(l - 1), NEW n \in Nat, v \in SentPart(SentWhole(w, y, k), y, n)
      PROVE  Goes(w, v)
  <2>1. PICK u : u = SentWhole(w, y, k)
    OBVIOUS
  <2>2. /\ u \in WorldType /\ u.ret = w.ret /\ u.c.fd = w.c.fd /\ u.c.wait = w.c.wait
        /\ From(w, u) /\ Owns(u) /\ Covered(u) /\ Flags(u.c) /\ Settled(u.c, y)
        /\ u.c.block[y] <=> w.c.block[y] /\ k = 0
    BY <1>8, <2>1
  <2>3. PICK t \in Queue :
          /\ t = u.c.q[x] /\ t = Whole(q, k)
          /\ t.pkt = NoPkt /\ t.blkpkt = NoPkt /\ Stream(t)
          /\ t.outq # <<>> /\ Len(t.outq) = l - k /\ t.lost = q.lost
    BY <1>8, <2>1
  <2>4. x = "svr" => l - k = 1 /\ t.lost = 0
    <3>1. k \in Nat /\ k < l
      OBVIOUS
    <3>. QED
      BY <1>0, <1>13, <2>3, <3>1
  <2>5. x = "svr" => Tail(t.outq) = <<>>
    <3>1. Tail(t.outq) \in Seq(Packet) /\ Len(Tail(t.outq)) = Len(t.outq) - 1
      BY <2>3, HeadTailProperties DEF Queue
    <3>. QED
      BY <2>3, <2>4, <3>1, EmptySeq
  <2>6. ASSUME NEW r \in Queue, Moved(u, v, x, r), Moves(u, v, y), v.c.block[y],
               r.pkt = NoPkt, Stream(r), r.outq = Tail(t.outq),
               r.blkpkt # NoPkt \/ r.lost > 0,
               x = "svr" /\ r.lost > 0 => ~r.gap /\ Pending(r) = <<>>
        PROVE  Goes(w, v)
    <3>1. Flags(v.c)
      BY <1>1, <2>2, <2>6, FlagsMoved
    <3>2. From(u, v) /\ Covered(v) /\ Loose(v) /\ Owns(v)
      BY <1>1, <2>2, <2>6, <3>1, MovedIs
    <3>3. From(w, v)
      BY <2>2, <3>2, FromTrans
    <3>4. Settled(v.c, y)
      BY <1>1, <2>2, <2>6, SettledMoved
    <3>5. v.c.q[x] = r /\ Waits(v.c, y) /\ (x = "svr" => y = "cli")
      BY <1>1, <2>6 DEF Moved, Waits, Other
    <3>6. Settled(v.c, x)
      BY <1>1, <2>5, <2>6, <3>5 DEF Settled, Unsent
    <3>7. Sound(v.c)
      BY <1>1, <3>1, <3>4, <3>6 DEF Sound
    <3>. QED
      BY <3>2, <3>3, <3>7 DEF Goes
  <2>7. \/ /\ u.c.block[y] /\ Moved(u, v, x, Lost(t, n)) /\ Keeps(u, v, y)
        \/ /\ Moved(u, v, x, Blocked(t, n)) /\ Blocks(u, v, y)
        \/ v = SendFails(u, x)
    BY <1>7, <2>1, <2>2, <2>3, SentPartMore
  <2>8. CASE u.c.block[y] /\ Moved(u, v, x, Lost(t, n)) /\ Keeps(u, v, y)
    <3>1. PICK r \in Queue :
            /\ r = Lost(t, n) /\ r.pkt = NoPkt /\ r.lost = t.lost + 1 /\ Stream(r)
            /\ r.outq = Tail(t.outq) /\ Pending(r) = Tail(t.outq)
            /\ t.lost = 0 => ~r.gap
      BY <2>3, CutMore
    <3>2. r.lost > 0
      BY <1>12, <2>3, <3>1
    <3>3. v.c.block[y] /\ Moves(u, v, y)
      BY <2>8 DEF Keeps, Moves
    <3>. QED
      BY <2>4, <2>5, <2>6, <2>8, <3>1, <3>2, <3>3
  <2>9. CASE Moved(u, v, x, Blocked(t, n)) /\ Blocks(u, v, y)
    <3>1. PICK r \in Queue :
            /\ r = Blocked(t, n) /\ r.pkt = NoPkt /\ r.blkpkt # NoPkt /\ r.lost = t.lost
            /\ Stream(r) /\ r.outq = Tail(t.outq)
      BY <2>3, CutMore
    <3>2. v.c.block[y] /\ Moves(u, v, y)
      BY <2>9 DEF Blocks, Moves
    <3>3. x = "svr" => ~(r.lost > 0)
      BY <2>4, <3>1
    <3>. QED
      BY <2>6, <2>9, <3>1, <3>2, <3>3
  <2>10. CASE v = SendFails(u, x)
    BY <1>9, <2>1, <2>10
  <2>. QED
    BY <2>7, <2>8, <2>9, <2>10
<1>6. ASSUME NEW k \in 0..(l - 1), v = SendFails(SentWhole(w, y, k), x) PROVE Goes(w, v)
  BY <1>6, <1>9
<1>. QED
  BY <1>4, <1>5, <1>6, <1>7

-----------------------------------------------------------------------------
(* The server's socket *)

(* The client's socket is in use. *)
Mine(w) == w.c.fd.cli # NoFd /\ w.c.fd.cli \in FdsInUse

(* c is d but for the server's socket. *)
Apart(c, d) ==
  d \in Connection /\ d.q = c.q /\ d.block = c.block /\ d.fd.cli = c.fd.cli

LEMMA ReadyApart ==
  ASSUME NEW c, NEW d, Apart(c, d), Ready(c, "cli"), Flags(d)
  PROVE  Ready(d, "cli")
<1>1. Other("cli") = "svr" /\ Other("svr") = "cli"
  BY DEF Other
<1>2. Unsent(d, "cli") /\ Settled(d, "svr")
  BY <1>1 DEF Apart, Ready, Unsent, Settled, Waits
<1>. QED
  BY <1>1, <1>2 DEF Ready

LEMMA ReadySound ==
  ASSUME NEW c, Ready(c, "cli"), Pending(c.q.cli) = <<>> \/ c.wait
  PROVE  Sound(c)
<1>1. Other("cli") = "svr"
  BY DEF Other
<1>2. Settled(c, "cli")
  BY <1>1 DEF Ready, Settled, Waits
<1>. QED
  BY <1>1, <1>2 DEF Ready, Sound, Side

(* A socket is opened: it reads, or is being connected. *)
LEMMA OpenedIs ==
  ASSUME NEW w \in WorldType, Owns(w), Covered(w), Ready(w.c, "cli"), Mine(w),
         w.c.fd.svr = NoFd, NEW f \in Fd \ FdsInUse,
         NEW c \in Connection, Apart(w.c, c), c.fd.svr = f,
         NEW s \in EventSets, s = IF c.wait THEN w.snd \cup {<<f, w.id>>} ELSE w.snd,
         NEW t \in EventSets, t = IF c.wait THEN w.rcv ELSE w.rcv \cup {<<f, w.id>>},
         NEW n \in Int, n = IF c.wait THEN w.nb + 1 ELSE w.nb,
         NEW v, v = PutWorld(w, c, n, s, t)
  PROVE  /\ From(w, v) /\ Owns(v) /\ Covered(v) /\ Ready(v.c, "cli")
         /\ v.ret = w.ret /\ v.c.fd.svr = f /\ v.c.q = w.c.q
<1>1. /\ v \in WorldType /\ v.id = w.id /\ v.c = c /\ v.nb = n /\ v.snd = s /\ v.rcv = t
      /\ v.ret = w.ret /\ v.frees = w.frees
  BY PutWorldIs
<1>2. /\ c.q = w.c.q /\ c.block = w.c.block /\ c.fd.cli = w.c.fd.cli /\ f # NoFd
      /\ f # w.c.fd.cli /\ w.id \in Id /\ w.nb \in Int /\ w.snd \in EventSets
      /\ f \in Fds
  BY FdAssumption DEF Apart, Mine, WorldType, Fds
<1>3. ~w.c.wait /\ ~w.c.block.svr /\ Flags(w.c)
  BY DEF Ready, Flags, Waits, Side
<1>4. Flags(c)
  BY <1>2, <1>3 DEF Flags, Waits, Side, Mine
<1>5. Ready(c, "cli")
  BY <1>4, ReadyApart
<1>6. From(w, v)
  BY <1>1, <1>2 DEF From
<1>7. Covered(v)
  <2>1. CASE c.wait
    <3>1. Cardinality(w.snd \cup {<<f, w.id>>}) <= w.nb + 1
      BY <1>2, CoveredMore DEF Covered
    <3>. QED
      BY <1>1, <2>1, <3>1 DEF Covered
  <2>2. CASE ~c.wait
    BY <1>1, <2>2 DEF Covered
  <2>. QED
    BY <2>1, <2>2
<1>8. ASSUME NEW g \in Fds
      PROVE  /\ <<g, w.id>> \in s <=> \E x \in Side : c.fd[x] = g /\ Waits(c, x)
             /\ <<g, w.id>> \in t <=> \E x \in Side : c.fd[x] = g /\ Reads(c, x)
  <2>1. /\ <<g, w.id>> \in w.snd <=> w.c.fd.cli = g /\ w.c.block.cli
        /\ <<g, w.id>> \in w.rcv <=> w.c.fd.cli = g
    BY <1>2, <1>3 DEF Owns, Waits, Reads, Side, Mine
  <2>2. /\ <<g, w.id>> \in s <=> <<g, w.id>> \in w.snd \/ (c.wait /\ g = f)
        /\ <<g, w.id>> \in t <=> <<g, w.id>> \in w.rcv \/ (~c.wait /\ g = f)
    OBVIOUS
  <2>3. /\ (\E x \in Side : c.fd[x] = g /\ Waits(c, x)) <=>
             (w.c.fd.cli = g /\ w.c.block.cli) \/ (c.wait /\ g = f)
        /\ (\E x \in Side : c.fd[x] = g /\ Reads(c, x)) <=> w.c.fd.cli = g \/ (~c.wait /\ g = f)
    BY <1>2, <1>3 DEF Waits, Reads, Side, Mine
  <2>. QED
    BY <2>1, <2>2, <2>3
<1>9. Owns(v)
  <2>1. ASSUME NEW g \in Fds
        PROVE  /\ <<g, v.id>> \in v.snd <=> \E x \in Side : v.c.fd[x] = g /\ Waits(v.c, x)
               /\ <<g, v.id>> \in v.rcv <=> \E x \in Side : v.c.fd[x] = g /\ Reads(v.c, x)
    <3>1. /\ <<g, w.id>> \in s <=> \E x \in Side : c.fd[x] = g /\ Waits(c, x)
          /\ <<g, w.id>> \in t <=> \E x \in Side : c.fd[x] = g /\ Reads(c, x)
      BY <1>8
    <3>2. v.c = c /\ v.snd = s /\ v.rcv = t /\ v.id = w.id
      BY <1>1
    <3>. HIDE DEF Waits, Reads
    <3>. QED
      BY <3>1, <3>2, ZenonT(60)
  <2>. QED
    BY <2>1 DEF Owns
<1>. QED
  BY <1>1, <1>2, <1>5, <1>6, <1>7, <1>9

LEMMA GetServerGoes ==
  ASSUME NEW w \in WorldType, Owns(w), Covered(w), Ready(w.c, "cli"), Mine(w),
         NEW v \in GetServer(w)
  PROVE  \/ v = Failed(w)
         \/ /\ From(w, v) /\ Owns(v) /\ Covered(v) /\ Ready(v.c, "cli")
            /\ v.ret = w.ret /\ v.c.fd.svr # NoFd
<1>1. CASE w.c.fd.svr # NoFd
  <2>1. v = w
    BY <1>1 DEF GetServer
  <2>. QED
    BY <1>1, <2>1 DEF From
<1>2. CASE w.c.fd.svr = NoFd /\ v # Failed(w)
  <2>0. w.c \in Connection /\ w.c.fd \in [Side -> Fd \cup {NoFd}] /\ "svr" \in Side
        /\ w.snd \in EventSets /\ w.rcv \in EventSets /\ w.nb \in Int /\ w.id \in Id
    BY DEF WorldType, Connection, Side
  <2>1. PICK f \in Fd \ FdsInUse :
          \/ v = [w EXCEPT !.c.fd.svr = f, !.rcv = @ \cup {<<f, w.id>>}]
          \/ v = [w EXCEPT !.c.fd.svr = f, !.c.wait = TRUE,
                           !.snd = @ \cup {<<f, w.id>>}, !.nb = @ + 1]
    BY <1>2 DEF GetServer
  <2>2. w.snd \cup {<<f, w.id>>} \in EventSets /\ w.rcv \cup {<<f, w.id>>} \in EventSets
    BY <2>0 DEF EventSets
  <2>3. f # NoFd
    BY FdAssumption
  <2>4. CASE v = [w EXCEPT !.c.fd.svr = f, !.rcv = @ \cup {<<f, w.id>>}]
    <3>. DEFINE c == [w.c EXCEPT !.fd = [w.c.fd EXCEPT !["svr"] = f]]
    <3>1. v = PutWorld(w, c, w.nb, w.snd, w.rcv \cup {<<f, w.id>>})
      BY <2>0, <2>4 DEF PutWorld, WorldType, Connection
    <3>2. c \in Connection /\ Apart(w.c, c) /\ c.fd.svr = f /\ c.wait = w.c.wait
      BY <2>0 DEF Connection, Apart, Side
    <3>3. c.wait = FALSE
      <4>1. ~w.c.wait /\ w.c.wait \in BOOLEAN
        BY <1>2, <2>0 DEF Ready, Flags, Waits, Side, Connection
      <4>. QED
        BY <3>2, <4>1
    <3>. HIDE DEF c
    <3>5. PICK s \in EventSets, t \in EventSets, n \in Int :
            /\ v = PutWorld(w, c, n, s, t)
            /\ s = w.snd /\ t = w.rcv \cup {<<f, w.id>>} /\ n = w.nb
      BY <2>0, <2>2, <3>1
    <3>6. /\ From(w, v) /\ Owns(v) /\ Covered(v) /\ Ready(v.c, "cli")
          /\ v.ret = w.ret /\ v.c.fd.svr = f
      BY <1>2, <3>2, <3>3, <3>5, OpenedIs
    <3>. QED
      BY <2>3, <3>6
  <2>5. CASE v = [w EXCEPT !.c.fd.svr = f, !.c.wait = TRUE,
                           !.snd = @ \cup {<<f, w.id>>}, !.nb = @ + 1]
    <3>. DEFINE c == [w.c EXCEPT !.fd = [w.c.fd EXCEPT !["svr"] = f], !.wait = TRUE]
    <3>1. v = PutWorld(w, c, w.nb + 1, w.snd \cup {<<f, w.id>>}, w.rcv)
      BY <2>0, <2>5 DEF PutWorld, WorldType, Connection
    <3>2. c \in Connection /\ Apart(w.c, c) /\ c.fd.svr = f /\ c.wait = TRUE
      BY <2>0 DEF Connection, Apart, Side
    <3>. HIDE DEF c
    <3>5. PICK s \in EventSets, t \in EventSets, n \in Int :
            /\ v = PutWorld(w, c, n, s, t)
            /\ s = w.snd \cup {<<f, w.id>>} /\ t = w.rcv /\ n = w.nb + 1
      BY <2>0, <2>2, <3>1
    <3>6. /\ From(w, v) /\ Owns(v) /\ Covered(v) /\ Ready(v.c, "cli")
          /\ v.ret = w.ret /\ v.c.fd.svr = f
      BY <1>2, <3>2, <3>5, OpenedIs
    <3>. QED
      BY <2>3, <3>6
  <2>. QED
    BY <2>1, <2>4, <2>5
<1>. QED
  BY <1>1, <1>2

LEMMA SendtoServerGoes ==
  ASSUME NEW w \in WorldType, Owns(w), Covered(w), Ready(w.c, "cli"), Mine(w),
         NEW v \in SendtoServer(w)
  PROVE  Goes(w, v)
<1>1. CASE Pending(w.c.q.cli) = <<>>
  <2>1. v = w
    BY <1>1 DEF SendtoServer
  <2>2. Sound(w.c) /\ Loose(w) /\ From(w, w)
    BY <1>1, ReadySound, OwnsLoose DEF From
  <2>. QED
    BY <2>1, <2>2 DEF Goes
<1>2. CASE Pending(w.c.q.cli) # <<>>
  <2>1. PICK g \in GetServer(w) :
          v \in IF g.ret = -1 \/ g.c.wait THEN {g} ELSE SendLoop(g, "svr")
    BY <1>2, Zenon DEF SendtoServer
  <2>2. CASE g = Failed(w)
    <3>1. v = g
      BY <2>1, <2>2, FailedMore
    <3>2. From(w, w) /\ Loose(w)
      BY OwnsLoose DEF From
    <3>. QED
      BY <2>2, <3>1, <3>2, FailedGoes
  <2>3. CASE g # Failed(w)
    <3>1. /\ From(w, g) /\ Owns(g) /\ Covered(g) /\ Ready(g.c, "cli")
          /\ g.ret = w.ret /\ g.c.fd.svr # NoFd
      BY <2>3, GetServerGoes
    <3>2. g \in WorldType
      BY <3>1 DEF From
    <3>3. CASE v = g /\ (g.ret = -1 \/ g.c.wait)
      BY <3>1, <3>3, ReadySound, OwnsLoose DEF Goes
    <3>4. CASE v \in SendLoop(g, "svr") /\ ~g.c.wait
      <4>1. "cli" = Other("svr") /\ "svr" \in Side
        BY DEF Other, Side
      <4>2. Goes(g, v)
        BY <3>1, <3>2, <3>4, <4>1, SendLoopGoes
      <4>3. From(w, v)
        BY <3>1, <4>2, FromTrans DEF Goes
      <4>. QED
        BY <4>2, <4>3 DEF Goes
    <3>. QED
      BY <2>1, <3>3, <3>4
  <2>. QED
    BY <2>2, <2>3
<1>. QED
  BY <1>1, <1>2

-----------------------------------------------------------------------------
(* Receiving *)

(* _work_recvfrom_*'s packet of n bytes. *)
Received(w, x, n) ==
  [w EXCEPT !.c.q[x] = [@ EXCEPT !.pkt = <<w.c.q[x].got + 1, w.c.q[x].got + n>>,
                                !.got = w.c.q[x].got + n],
            !.c.nalloced = @ + 1]

LEMMA ReceivedMore ==
  ASSUME NEW w \in WorldType, NEW x \in Side, w.c.q[x].pkt = NoPkt, NEW n \in Nat
  PROVE  LET r == Received(w, x, n)
             p == Parse(r, x)
             g == Got(w.c.q[x], <<w.c.q[x].got + 1, w.c.q[x].got + n>>)
         IN /\ \E q : Moved(w, r, x, q) /\ Keeps(w, r, Other(x)) /\ r.ret = w.ret
            /\ Moved(w, p, x, g) /\ Keeps(w, p, Other(x)) /\ p.ret = w.ret
<1>1. w.c \in Connection /\ w.c.q \in [Side -> Queue] /\ Other(x) \in Side /\ Other(x) # x
  BY SidesAre DEF WorldType, Connection
<1>2. PICK d \in Queue : d = w.c.q[x] /\ d.pkt = NoPkt /\ d.got \in Int
  BY <1>1 DEF Queue
<1>3. PICK k \in Packet : k = <<d.got + 1, d.got + n>> /\ k # NoPkt /\ k[2] = d.got + n
  <2>1. <<d.got + 1, d.got + n>> \in Packet
    BY <1>2 DEF Packet
  <2>. QED
    BY <2>1 DEF NoPkt
<1>4. PICK m \in Int : m = d.got + n
  BY <1>2
<1>5. PICK a \in Int : a = w.c.nalloced + 1
  BY <1>1 DEF Connection
<1>6. PICK q \in Queue : q = [d EXCEPT !.pkt = k, !.got = m]
  BY DEF Queue
<1>. DEFINE c == [w.c EXCEPT !.q = [w.c.q EXCEPT ![x] = q], !.nalloced = a]
<1>7. /\ c \in Connection /\ c.fd = w.c.fd /\ c.wait = w.c.wait /\ c.block = w.c.block
      /\ c.q[x] = q /\ c.q[Other(x)] = w.c.q[Other(x)]
  BY <1>1 DEF Connection
<1>8. PICK r : r = Received(w, x, n)
  OBVIOUS
<1>9. r = [w EXCEPT !.c = c]
  BY <1>1, <1>2, <1>3, <1>4, <1>5, <1>6, <1>8 DEF Received, WorldType, Connection
<1>. HIDE DEF c
<1>10. Moved(w, r, x, q) /\ Keeps(w, r, Other(x)) /\ r.ret = w.ret
  BY <1>7, <1>9 DEF Moved, Keeps, WorldType
<1>11. r \in WorldType /\ r.c.q[x] = q
  BY <1>10 DEF Moved
<1>12. PICK o \in Seq(Packet) : o = Append(d.outq, k)
  <2>1. d.outq \in Seq(Packet)
    BY DEF Queue
  <2>2. Append(d.outq, k) \in Seq(Packet)
    BY <2>1, AppendProperties
  <2>. QED
    BY <2>2
<1>13. PICK g \in Queue : g = [q EXCEPT !.outq = o, !.pkt = NoPkt]
  BY DEF Queue
<1>14. g = Got(d, k)
  <2>1. g = [d EXCEPT !.outq = o, !.got = m]
    BY <1>2, <1>6, <1>13 DEF Queue
  <2>. QED
    BY <1>3, <1>4, <1>12, <2>1 DEF Got
<1>15. PICK p : p = Parse(r, x)
  OBVIOUS
<1>16. p = PutQueue(r, x, g)
  <2>1. q.pkt = k /\ q.outq = d.outq
    BY <1>6 DEF Queue
  <2>. QED
    BY <1>3, <1>11, <1>12, <1>13, <1>15, <2>1 DEF Parse, PutQueue
<1>17. Moved(r, p, x, g) /\ Keeps(r, p, Other(x)) /\ p.ret = r.ret
  BY <1>11, <1>16, PutQueueMore
<1>18. Moved(w, p, x, g) /\ Keeps(w, p, Other(x)) /\ p.ret = w.ret
  BY <1>10, <1>17 DEF Moved, Keeps
<1>. QED
  BY <1>2, <1>3, <1>8, <1>10, <1>14, <1>15, <1>18

(* A receive that the guard of recv_data lets through. *)
LEMMA RecvFromGoes ==
  ASSUME NEW w \in WorldType, NEW x \in Side, Owns(w), Covered(w), Sound(w.c), w.ret = 0,
         ~w.c.block[Other(x)], NEW r \in RecvFrom(w, x)
  PROVE  \/ r.ret = -1 /\ From(w, r) /\ Covered(r) /\ Loose(r)
         \/ LET p == Parse(r, x) IN
            /\ r.ret # -1 /\ From(w, p) /\ Owns(p) /\ Covered(p) /\ Ready(p.c, x)
            /\ p.ret = 0 /\ p.c.fd = w.c.fd /\ p.c.wait = w.c.wait
<1>1. PICK y \in Side : y = Other(x) /\ x = Other(y) /\ Side = {x, y} /\ x # y
  BY SidesAre
<1>2. PICK q \in Queue : q = w.c.q[x]
  BY DEF WorldType, Connection
<1>3. /\ Flags(w.c) /\ Settled(w.c, y) /\ Settled(w.c, x) /\ Unsent(w.c, x)
      /\ q.pkt = NoPkt /\ Stream(q) /\ q.blkpkt = NoPkt
  BY <1>1, <1>2 DEF Sound, Settled, Unsent
<1>4. x = "svr" => Pending(q) = <<>> /\ Len(Pending(q)) = 0 /\ ~(q.lost > 0)
  <2>1. x = "svr" => q.outq = <<>>
    BY <1>2, <1>3 DEF Settled
  <2>2. x = "svr" => y = "cli"
    BY <1>1 DEF Other
  <2>3. x = "svr" => ~(q.lost > 0)
    BY <1>1, <1>2, <1>3, <2>2 DEF Unsent
  <2>. QED
    BY <1>3, <2>1, <2>3, NoneLeft
<1>5. \/ r = Failed(w) \/ r = Failed(Received(w, x, 0)) \/ r = w \/ r = [w EXCEPT !.close = TRUE]
      \/ \E n \in 1..MaxPkt : r = Received(w, x, n)
  BY DEF RecvFrom, Received
<1>6. Ready(w.c, x)
  <2>1. x = "svr" => Len(Pending(w.c.q[x])) <= 1
    BY <1>2, <1>4
  <2>. QED
    BY <1>1, <1>3, <2>1 DEF Ready
<1>7. From(w, w) /\ Loose(w)
  BY OwnsLoose DEF From
<1>8. CASE r = Failed(w)
  BY <1>7, <1>8, FailedGoes, FailedMore DEF Goes
<1>9. CASE r = Failed(Received(w, x, 0))
  <2>1. PICK u, d : u = Received(w, x, 0) /\ Moved(w, u, x, d) /\ Keeps(w, u, y)
    <3>1. w.c.q[x].pkt = NoPkt /\ 0 \in Nat
      BY <1>2, <1>3
    <3>2. \E d : /\ Moved(w, Received(w, x, 0), x, d)
                 /\ Keeps(w, Received(w, x, 0), Other(x))
      BY <3>1, ReceivedMore
    <3>. QED
      BY <1>1, <3>2
  <2>2. Flags(u.c)
    BY <1>1, <1>3, <2>1, FlagsMoved DEF Keeps
  <2>3. From(w, u) /\ Covered(u) /\ Loose(u)
    BY <1>1, <1>3, <2>1, <2>2, MovedIs DEF Moves
  <2>4. r.ret = -1
    BY <1>9, <2>1, <2>3, FailedMore DEF From
  <2>. QED
    BY <1>9, <2>1, <2>3, <2>4, FailedGoes DEF Goes
<1>10. CASE r = w
  <2>1. Parse(r, x) = w
    BY <1>2, <1>3, <1>10 DEF Parse
  <2>. QED
    BY <1>6, <1>7, <1>10, <2>1
<1>11. CASE r = [w EXCEPT !.close = TRUE]
  <2>1. /\ r \in WorldType /\ r.id = w.id /\ r.c = w.c /\ r.snd = w.snd /\ r.rcv = w.rcv
        /\ r.nb = w.nb /\ r.ret = 0 /\ r.frees = w.frees
    BY <1>11 DEF WorldType
  <2>2. Parse(r, x) = r
    BY <1>2, <1>3, <2>1 DEF Parse
  <2>3. From(w, r) /\ Owns(r) /\ Covered(r)
    BY <1>7, <2>1 DEF From, Owns, Covered
  <2>. QED
    BY <1>6, <2>1, <2>2, <2>3
<1>12. ASSUME NEW n \in 1..MaxPkt, r = Received(w, x, n)
       PROVE  LET p == Parse(r, x) IN
              /\ r.ret # -1 /\ From(w, p) /\ Owns(p) /\ Covered(p) /\ Ready(p.c, x)
              /\ p.ret = 0 /\ p.c.fd = w.c.fd /\ p.c.wait = w.c.wait
  <2>1. n \in Nat
    BY SizeAssumption
  <2>2. PICK k \in Packet : k = <<q.got + 1, q.got + n>> /\ k[1] = q.got + 1
    <3>1. <<q.got + 1, q.got + n>> \in Packet
      BY <2>1 DEF Queue, Packet
    <3>. QED
      BY <3>1
  <2>3. PICK p, g : /\ p = Parse(r, x) /\ g = Got(q, k) /\ Moved(w, p, x, g) /\ Keeps(w, p, y)
                    /\ p.ret = 0 /\ r.ret = 0
    BY <1>1, <1>2, <1>3, <1>12, <2>1, <2>2, ReceivedMore
  <2>4. /\ g \in Queue /\ g.pkt = NoPkt /\ g.blkpkt = NoPkt /\ g.lost = q.lost /\ Stream(g)
        /\ Len(Pending(g)) = Len(Pending(q)) + 1
    BY <1>3, <2>2, <2>3, GotIs
  <2>5. Flags(p.c)
    BY <1>1, <1>3, <2>3, FlagsMoved DEF Keeps
  <2>6. From(w, p) /\ Owns(p) /\ Covered(p)
    BY <1>1, <1>3, <2>3, <2>5, MovedIs DEF Moves
  <2>7. Settled(p.c, y)
    BY <1>1, <1>3, <2>3, SettledMoved
  <2>8. ~p.c.block[y] /\ p.c.q[x] = g /\ p.c.fd = w.c.fd /\ p.c.wait = w.c.wait
    BY <1>1, <2>3 DEF Moved, Keeps
  <2>9. Unsent(p.c, x)
    BY <1>1, <1>4, <2>4, <2>8 DEF Unsent
  <2>10. x = "svr" => Len(Pending(g)) <= 1
    BY <1>4, <2>4
  <2>11. Ready(p.c, x)
    BY <1>1, <2>5, <2>7, <2>8, <2>9, <2>10 DEF Ready
  <2>. QED
    BY <2>3, <2>6, <2>8, <2>11
<1>. QED
  BY <1>5, <1>8, <1>9, <1>10, <1>11, <1>12

LEMMA SendtoGoes ==
  ASSUME NEW w \in WorldType, NEW y \in Side, Owns(w), Covered(w), Ready(w.c, Other(y)), Mine(w),
         NEW v \in Sendto(w, y)
  PROVE  Goes(w, v)
<1>1. CASE y = "svr"
  BY <1>1, SendtoServerGoes DEF Sendto, Other
<1>2. CASE y = "cli"
  <2>1. v \in SendLoop(w, "cli") /\ "cli" \in Side
    BY <1>2 DEF Sendto, Side
  <2>. QED
    BY <1>2, <2>1, SendLoopGoes DEF Mine
<1>. QED
  BY <1>1, <1>2 DEF Side

-----------------------------------------------------------------------------
(* The end of an event *)

(* The connection goes on. *)
Stays(w, v) == From(w, v) /\ Covered(v) /\ Owns(v) /\ Sound(v.c)

(* The connection is freed: its sockets leave the epoll sets. *)
Ends(w, v) ==
  /\ v.id = w.id /\ v.frees # 0
  /\ \E r : /\ From(w, r) /\ Covered(r) /\ Loose(r) /\ v.nb = r.nb
            /\ v.snd = {e \in r.snd : e[1] \notin {r.c.fd[x] : x \in Side}}
            /\ v.rcv = {e \in r.rcv : e[1] \notin {r.c.fd[x] : x \in Side}}

LEMMA FreeMore ==
  ASSUME NEW r \in WorldType
  PROVE  /\ Free(r).nb = r.nb
         /\ Free(r).snd = {e \in r.snd : e[1] \notin {r.c.fd[x] : x \in Side}}
         /\ Free(r).rcv = {e \in r.rcv : e[1] \notin {r.c.fd[x] : x \in Side}}
<1>1. PICK c, s, t, f :
        /\ s = {e \in r.snd : e[1] \notin {r.c.fd[x] : x \in Side}}
        /\ t = {e \in r.rcv : e[1] \notin {r.c.fd[x] : x \in Side}}
        /\ c = Clean(r.c) /\ f = r.frees + 1
  OBVIOUS
<1>2. Free(r) = [r EXCEPT !.snd = s, !.rcv = t, !.c = c, !.frees = f]
  BY <1>1, Zenon DEF Free
<1>3. Free(r).nb = r.nb /\ Free(r).snd = s /\ Free(r).rcv = t
  BY <1>2 DEF WorldType
<1>. QED
  BY <1>1, <1>3

LEMMA FreeEnds ==
  ASSUME NEW w \in WorldType, NEW r, From(w, r), Covered(r), Loose(r)
  PROVE  Ends(w, Free(r))
<1>1. r \in WorldType /\ r.id = w.id /\ r.frees \in Nat
  BY DEF From, WorldType
<1>2. Free(r).frees # 0 /\ Free(r).id = w.id
  BY <1>1, FreeIs
<1>. QED
  BY <1>1, <1>2, FreeMore DEF Ends

LEMMA FreeIfResult ==
  ASSUME NEW w \in WorldType, NEW s, Goes(w, s)
  PROVE  Stays(w, FreeIf(s)) \/ Ends(w, FreeIf(s))
<1>1. CASE s.ret = -1 \/ s.close
  BY <1>1, FreeEnds DEF FreeIf, Goes
<1>2. CASE ~(s.ret = -1 \/ s.close)
  BY <1>2 DEF FreeIf, Goes, Stays
<1>. QED
  BY <1>1, <1>2

(* A connection before its event, of which the sets say all. *)
Before(w) ==
  w \in WorldType /\ Owns(w) /\ Covered(w) /\ Sound(w.c) /\ Mine(w) /\ w.ret = 0 /\ w.close = FALSE

LEMMA ProcessResult ==
  ASSUME NEW w, Before(w), NEW x \in Side, ~w.c.block[Other(x)], NEW v \in Process(w, x)
  PROVE  Stays(w, v) \/ Ends(w, v)
<1>1. PICK r \in RecvFrom(w, x) :
        v \in IF r.ret = -1 THEN {Free(r)} ELSE {FreeIf(s) : s \in Sendto(Parse(r, x), Other(x))}
  BY Zenon DEF Process
<1>2. /\ w \in WorldType /\ Owns(w) /\ Covered(w) /\ Sound(w.c) /\ Mine(w) /\ w.ret = 0
  BY DEF Before
<1>3. CASE r.ret = -1
  <2>1. From(w, r) /\ Covered(r) /\ Loose(r)
    BY <1>2, <1>3, RecvFromGoes
  <2>2. v = Free(r)
    BY <1>1, <1>3
  <2>. QED
    BY <1>2, <2>1, <2>2, FreeEnds
<1>4. CASE r.ret # -1
  <2>1. PICK p : p = Parse(r, x)
    OBVIOUS
  <2>2. From(w, p) /\ Owns(p) /\ Covered(p) /\ Ready(p.c, x) /\ p.c.fd = w.c.fd
    BY <1>2, <1>4, <2>1, RecvFromGoes
  <2>3. PICK s \in Sendto(p, Other(x)) : v = FreeIf(s)
    BY <1>1, <1>4, <2>1
  <2>4. p \in WorldType /\ Mine(p) /\ Other(x) \in Side /\ Other(Other(x)) = x
    BY <1>2, <2>2, SidesAre DEF From, Mine
  <2>5. Goes(p, s)
    BY <2>2, <2>4, SendtoGoes
  <2>6. Goes(w, s)
    BY <1>2, <2>2, <2>5, FromTrans DEF Goes
  <2>. QED
    BY <1>2, <2>3, <2>6, FreeIfResult
<1>. QED
  BY <1>3, <1>4

LEMMA SoundReady ==
  ASSUME NEW c \in Connection, Sound(c), NEW x \in Side
  PROVE  Ready(c, x)
<1>1. c.q[x] \in Queue /\ Other(x) \in Side
  BY SidesAre DEF Connection
<1>2. Flags(c) /\ Settled(c, Other(x)) /\ Settled(c, x) /\ Unsent(c, x)
  BY <1>1 DEF Sound, Settled
<1>3. ASSUME x = "svr" PROVE Len(Pending(c.q[x])) <= 1
  <2>1. Len(c.q[x].outq) = 0
    BY <1>1, <1>2, <1>3, NoneLeft DEF Settled
  <2>2. Len(Pending(c.q[x])) = (IF c.q[x].blkpkt = NoPkt THEN 0 ELSE 1) + Len(c.q[x].outq)
    BY <1>1, PendingIs
  <2>. QED
    BY <2>1, <2>2
<1>. QED
  BY <1>2, <1>3 DEF Ready

(* An event of the client in the send set. *)
LEMMA ClientWritableResult ==
  ASSUME NEW w, Before(w), NEW s \in SendLoop(w, "cli")
  PROVE  Stays(w, FreeIf(s)) \/ Ends(w, FreeIf(s))
<1>1. /\ w \in WorldType /\ w.c \in Connection /\ Owns(w) /\ Covered(w) /\ Sound(w.c)
      /\ w.c.fd.cli # NoFd /\ "cli" \in Side /\ "svr" \in Side /\ Other("cli") = "svr"
  BY DEF Before, Mine, WorldType, Side, Other
<1>2. Ready(w.c, "svr")
  BY <1>1, SoundReady
<1>3. Goes(w, s)
  BY <1>1, <1>2, SendLoopGoes
<1>. QED
  BY <1>1, <1>3, FreeIfResult

(* The connect has ended: the socket leaves the send set, and, in v, may   *)
(* be read.                                                                *)
Connects(w, c, v, u) ==
  /\ Before(w) /\ w.c.wait
  /\ c \in Connection /\ Apart(w.c, c) /\ c.fd = w.c.fd /\ ~c.wait
  /\ v = PutWorld(w, c, w.nb - 1, w.snd \ {Event(w, "svr")}, w.rcv \cup {Event(w, "svr")})
  /\ u = PutWorld(w, c, w.nb - 1, w.snd \ {Event(w, "svr")}, w.rcv)

LEMMA ConnectedIs ==
  ASSUME NEW w, NEW c, NEW v, NEW u, Connects(w, c, v, u)
  PROVE  /\ From(w, v) /\ Owns(v) /\ Covered(v) /\ Ready(v.c, "cli") /\ Mine(v) /\ v.ret = 0
         /\ From(w, u) /\ Covered(u) /\ Loose(u) /\ u.close = w.close /\ u.c = c
<1>0. /\ Before(w) /\ w.c.wait /\ c \in Connection /\ Apart(w.c, c) /\ c.fd = w.c.fd /\ ~c.wait
      /\ v = PutWorld(w, c, w.nb - 1, w.snd \ {Event(w, "svr")}, w.rcv \cup {Event(w, "svr")})
      /\ u = PutWorld(w, c, w.nb - 1, w.snd \ {Event(w, "svr")}, w.rcv)
  BY DEF Connects
<1>1. /\ w \in WorldType /\ w.c \in Connection /\ Owns(w) /\ Covered(w) /\ Sound(w.c)
      /\ w.ret = 0 /\ w.close = FALSE /\ "svr" \in Side /\ "cli" \in Side
      /\ w.rcv \in EventSets /\ w.nb \in Int /\ w.snd \in EventSets
  BY <1>0 DEF Before, Side, WorldType
<1>2. Event(w, "svr") = <<w.c.fd.svr, w.id>> /\ w.c.fd.svr \in Fds /\ w.id \in Id
  BY <1>1, EventIs
<1>3. /\ c.fd = w.c.fd /\ c.q = w.c.q /\ c.block = w.c.block /\ ~c.wait
  BY <1>0 DEF Apart
<1>4. /\ Flags(w.c) /\ ~w.c.block.svr /\ w.c.fd.svr # NoFd /\ w.c.fd.cli # NoFd
      /\ w.c.fd.cli # w.c.fd.svr /\ Waits(w.c, "svr") /\ ~Reads(w.c, "svr")
  BY <1>0, <1>1 DEF Sound, Flags, Waits, Reads, Before, Mine
<1>5. PICK s \in EventSets, t \in EventSets, n \in Int :
        /\ s = w.snd \ {Event(w, "svr")} /\ t = w.rcv \cup {Event(w, "svr")} /\ n = w.nb - 1
  <2>1. Event(w, "svr") \in (Fd \cup {NoFd}) \X Id
    BY <1>2 DEF Fds
  <2>2. /\ w.snd \ {Event(w, "svr")} \in EventSets /\ w.rcv \cup {Event(w, "svr")} \in EventSets
        /\ w.nb - 1 \in Int
    BY <1>1, <2>1 DEF EventSets
  <2>. QED
    BY <2>2
<1>6. v = PutWorld(w, c, n, s, t) /\ u = PutWorld(w, c, n, s, w.rcv)
  BY <1>0, <1>5
<1>17. /\ v \in WorldType /\ v.id = w.id /\ v.c = c /\ v.nb = n /\ v.snd = s /\ v.rcv = t
       /\ v.ret = w.ret /\ v.close = w.close /\ v.frees = w.frees
  <2>1. w \in WorldType
    BY <1>1
  <2>. QED
    BY <1>0, <1>6, <2>1 DEF PutWorld, WorldType
<1>7. /\ u \in WorldType /\ u.id = w.id /\ u.c = c /\ u.nb = n /\ u.snd = s /\ u.rcv = w.rcv
      /\ u.close = w.close /\ u.frees = w.frees
  <2>1. w \in WorldType
    BY <1>1
  <2>2. PICK r \in EventSets : r = w.rcv
    BY <1>1
  <2>3. u = PutWorld(w, c, n, s, r)
    BY <1>6, <2>2
  <2>. QED
    BY <1>0, <2>1, <2>2, <2>3 DEF PutWorld, WorldType
<1>8. From(w, v) /\ From(w, u)
  <2>1. \A f \in Fds, i \in Id \ {w.id} :
          (<<f, i>> \in s <=> <<f, i>> \in w.snd) /\ (<<f, i>> \in t <=> <<f, i>> \in w.rcv)
    BY <1>2, <1>5
  <2>2. From(w, v)
    BY <1>3, <1>17, <2>1 DEF From
  <2>3. From(w, u)
    BY <1>3, <1>7, <2>1 DEF From
  <2>. QED
    BY <2>2, <2>3
<1>9. Covered(v) /\ Covered(u)
  <2>1. Event(w, "svr") \in w.snd
    BY <1>1, <1>2, <1>4 DEF Owns
  <2>2. Cardinality(w.snd \ {Event(w, "svr")}) <= w.nb - 1
    BY <1>1, <2>1, CoveredMore DEF Covered
  <2>. QED
    BY <1>5, <1>7, <1>17, <2>2 DEF Covered
<1>10. ASSUME NEW g \in Fds
       PROVE  /\ <<g, w.id>> \in s <=> \E x \in Side : c.fd[x] = g /\ Waits(c, x)
              /\ <<g, w.id>> \in t <=> \E x \in Side : c.fd[x] = g /\ Reads(c, x)
  <2>1. /\ <<g, w.id>> \in w.snd <=> (w.c.fd.cli = g /\ w.c.block.cli) \/ w.c.fd.svr = g
        /\ <<g, w.id>> \in w.rcv <=> w.c.fd.cli = g
    BY <1>1, <1>4 DEF Owns, Waits, Reads, Side
  <2>2. /\ <<g, w.id>> \in s <=> <<g, w.id>> \in w.snd /\ g # w.c.fd.svr
        /\ <<g, w.id>> \in t <=> <<g, w.id>> \in w.rcv \/ g = w.c.fd.svr
    BY <1>2, <1>5
  <2>3. /\ (\E x \in Side : c.fd[x] = g /\ Waits(c, x)) <=> w.c.fd.cli = g /\ w.c.block.cli
        /\ (\E x \in Side : c.fd[x] = g /\ Reads(c, x)) <=> w.c.fd.cli = g \/ w.c.fd.svr = g
    BY <1>3, <1>4 DEF Waits, Reads, Side
  <2>. QED
    BY <1>4, <2>1, <2>2, <2>3
<1>11. Owns(v)
  <2>1. ASSUME NEW g \in Fds
        PROVE  /\ <<g, v.id>> \in v.snd <=> \E x \in Side : v.c.fd[x] = g /\ Waits(v.c, x)
               /\ <<g, v.id>> \in v.rcv <=> \E x \in Side : v.c.fd[x] = g /\ Reads(v.c, x)
    <3>1. /\ <<g, w.id>> \in s <=> \E x \in Side : c.fd[x] = g /\ Waits(c, x)
          /\ <<g, w.id>> \in t <=> \E x \in Side : c.fd[x] = g /\ Reads(c, x)
      BY <1>10
    <3>2. v.c = c /\ v.snd = s /\ v.rcv = t /\ v.id = w.id
      BY <1>7, <1>17
    <3>. QED
      BY <3>1, <3>2, Zenon
  <2>. QED
    BY <2>1 DEF Owns
<1>12. Loose(u)
  <2>1. ASSUME NEW g \in Fds, <<g, w.id>> \in s \cup w.rcv PROVE \E x \in Side : c.fd[x] = g
    BY <1>1, <1>3, <1>5, <2>1, OwnsLoose DEF Loose
  <2>. QED
    <3>1. u.c = c /\ u.snd = s /\ u.rcv = w.rcv /\ u.id = w.id
      BY <1>7
    <3>2. \A f \in Fds : <<f, u.id>> \in u.snd \cup u.rcv => \E x \in Side : u.c.fd[x] = f
      BY <2>1, <3>1
    <3>. QED
      BY <3>2 DEF Loose
<1>13. Flags(c)
  BY <1>3, <1>4 DEF Flags, Waits
<1>15. Ready(c, "cli")
  BY <1>1, <1>13, <1>0, SoundReady, ReadyApart
<1>16. Mine(v)
  BY <1>0, <1>3, <1>7, <1>17 DEF Before, Mine
<1>. QED
  BY <1>1, <1>7, <1>17, <1>8, <1>9, <1>11, <1>12, <1>15, <1>16

(* An event of the server in the send set. *)
LEMMA ServerWritableResult ==
  ASSUME NEW w, Before(w), w.c.wait => w.c.q.cli.blkpkt = NoPkt, NEW v \in ServerWritable(w)
  PROVE  Stays(w, v) \/ Ends(w, v)
<1>1. /\ w \in WorldType /\ w.c \in Connection /\ Owns(w) /\ Covered(w) /\ Sound(w.c) /\ Mine(w)
      /\ w.ret = 0 /\ w.close = FALSE /\ "cli" \in Side /\ "svr" \in Side
  BY DEF Before, Side, WorldType
<1>2. PICK r \in IF w.c.wait THEN CheckServer(w) ELSE {w} :
      \E s \in SendtoServer(IF r.ret = -1 THEN [Free(r) EXCEPT !.ret = 0] ELSE r) : v = FreeIf(s)
  BY Zenon DEF ServerWritable
<1>3. ASSUME From(w, r), Owns(r), Covered(r), Ready(r.c, "cli"), Mine(r), r.ret = 0
      PROVE  Stays(w, v) \/ Ends(w, v)
  <2>1. PICK s \in SendtoServer(r) : v = FreeIf(s)
    BY <1>2, <1>3
  <2>2. r \in WorldType
    BY <1>3 DEF From
  <2>3. Goes(r, s)
    BY <1>3, <2>2, SendtoServerGoes
  <2>4. Goes(w, s)
    BY <1>1, <1>3, <2>3, FromTrans DEF Goes
  <2>. QED
    BY <1>1, <2>1, <2>4, FreeIfResult
<1>4. ASSUME NEW u \in WorldType, r = Failed(u), From(w, u), Covered(u), Loose(u),
             u.close = FALSE, u.c.q.cli.blkpkt = NoPkt
      PROVE  Stays(w, v) \/ Ends(w, v)
  <2>1. /\ r \in WorldType /\ r.c = u.c /\ r.ret = -1 /\ r.close = FALSE
    BY <1>4, FailedMore
  <2>2. PICK f : f = Free(r)
    OBVIOUS
  <2>3. PICK z : z = [f EXCEPT !.ret = 0]
    OBVIOUS
  <2>4. /\ f \in WorldType /\ f.close = FALSE
        /\ f.c.q.cli.outq = <<>> /\ f.c.q.cli.blkpkt = NoPkt
    BY <1>4, <2>1, <2>2, FreeIs
  <2>5. /\ z \in WorldType /\ z.close = FALSE /\ z.ret = 0 /\ z.c = f.c
        /\ z.id = f.id /\ z.frees = f.frees /\ z.nb = f.nb /\ z.snd = f.snd /\ z.rcv = f.rcv
    BY <2>3, <2>4 DEF WorldType
  <2>6. Pending(z.c.q.cli) = <<>>
    <3>1. z.c.q.cli \in Queue
      BY <2>5 DEF WorldType, Connection, Side
    <3>. QED
      BY <2>4, <2>5, <3>1, NoneLeft
  <2>7. SendtoServer(z) = {z}
    BY <2>6 DEF SendtoServer
  <2>8. v = FreeIf(z)
    BY <1>2, <2>1, <2>2, <2>3, <2>7
  <2>9. v = z
    BY <2>5, <2>8 DEF FreeIf
  <2>10. From(w, r) /\ Covered(r) /\ Loose(r)
    BY <1>1, <1>4, FailedGoes DEF Goes
  <2>11. Ends(w, f)
    BY <1>1, <2>2, <2>10, FreeEnds
  <2>12. Ends(w, z)
    BY <2>5, <2>11 DEF Ends
  <2>. QED
    BY <2>9, <2>12
<1>5. Ready(w.c, "cli") /\ From(w, w) /\ Loose(w)
  BY <1>1, SoundReady, OwnsLoose DEF From
<1>6. CASE ~w.c.wait
  <2>1. r = w
    BY <1>2, <1>6
  <2>. QED
    BY <1>1, <1>3, <1>5, <2>1
<1>7. CASE w.c.wait
  <2>1. w.c.q.cli.blkpkt = NoPkt
    BY <1>7
  <2>2. PICK c \in Connection : c = [w.c EXCEPT !.wait = FALSE] /\ c.q = w.c.q
    <3>1. /\ [w.c EXCEPT !.wait = FALSE] \in Connection
          /\ [w.c EXCEPT !.wait = FALSE].q = w.c.q
      BY <1>1 DEF Connection
    <3>. QED
      BY <3>1
  <2>3. PICK a : a = PutWorld(w, c, w.nb - 1, w.snd \ {Event(w, "svr")},
                              w.rcv \cup {Event(w, "svr")})
    OBVIOUS
  <2>4. PICK b : b = PutWorld(w, c, w.nb - 1, w.snd \ {Event(w, "svr")}, w.rcv)
    OBVIOUS
  <2>5. /\ From(w, a) /\ Owns(a) /\ Covered(a) /\ Ready(a.c, "cli") /\ Mine(a)
        /\ a.ret = 0
        /\ From(w, b) /\ Covered(b) /\ Loose(b) /\ b.close = FALSE /\ b.c = c
    <3>1. Apart(w.c, c) /\ c.fd = w.c.fd /\ ~c.wait
      BY <1>1, <2>2 DEF Connection, Apart
    <3>. QED
      <4>1. Connects(w, c, a, b)
        BY <1>7, <2>3, <2>4, <3>1 DEF Connects
      <4>2. From(w, a) /\ Owns(a) /\ Covered(a) /\ Ready(a.c, "cli") /\ Mine(a) /\ a.ret = 0
        BY <4>1, ConnectedIs
      <4>3. From(w, b) /\ Covered(b) /\ Loose(b) /\ b.c = c
        BY <4>1, ConnectedIs
      <4>4. b.close = w.close
        BY <4>1, ConnectedIs
      <4>. QED
        BY <1>1, <4>2, <4>3, <4>4
  <2>6. b \in WorldType
    BY <2>5 DEF From
  <2>7. r = Failed(w) \/ r = a \/ r = Failed(b)
    <3>. DEFINE d == [w EXCEPT !.c.wait = FALSE, !.nb = @ - 1, !.snd = @ \ {Event(w, "svr")}]
    <3>1. r = Failed(w) \/ r = [d EXCEPT !.rcv = @ \cup {Event(w, "svr")}] \/ r = Failed(d)
      <4>1. r \in CheckServer(w)
        BY <1>2, <1>7
      <4>. QED
        BY <4>1 DEF CheckServer
    <3>2. d = b
      BY <1>1, <2>2, <2>3, <2>4 DEF WorldType, PutWorld
    <3>3. d.rcv = w.rcv
      BY <1>1 DEF WorldType
    <3>4. [d EXCEPT !.rcv = @ \cup {Event(w, "svr")}] = a
      BY <1>1, <2>3, <2>4, <3>2, <3>3 DEF WorldType, PutWorld
    <3>. HIDE DEF d
    <3>. QED
      BY <3>1, <3>2, <3>4
  <2>8. CASE r = a
    BY <1>3, <2>5, <2>8
  <2>9. CASE r = Failed(w)
    BY <1>1, <1>4, <1>5, <2>1, <2>9
  <2>10. CASE r = Failed(b)
    BY <1>4, <2>1, <2>2, <2>5, <2>6, <2>10
  <2>. QED
    BY <2>7, <2>8, <2>9, <2>10
<1>. QED
  BY <1>6, <1>7

-----------------------------------------------------------------------------
(* The inductive invariant *)

(* Registered, event by event. *)
Regs ==
  \A i \in Id, f \in Fds :
    /\ <<f, i>> \in send_ep <=>
         conn[i] # NULL /\ \E x \in Side : conn[i].fd[x] = f /\ Waits(conn[i], x)
    /\ <<f, i>> \in recv_ep <=>
         conn[i] # NULL /\ \E x \in Side : conn[i].fd[x] = f /\ Reads(conn[i], x)

(* A descriptor belongs to one connection, or to one queued client. *)
Distinct ==
  /\ \A i, j \in Live, x, y \in Side :
       conn[i].fd[x] = conn[j].fd[y] /\ conn[i].fd[x] # NoFd => i = j
  /\ \A i \in Live, x \in Side, k \in DOMAIN inq : conn[i].fd[x] # inq[k]
  /\ \A i \in Live, x \in Side, k \in DOMAIN inq2 : conn[i].fd[x] # inq2[k]

Clients ==
  /\ \A k, m \in DOMAIN inq : inq[k] = inq[m] => k = m
  /\ \A k, m \in DOMAIN inq2 : inq2[k] = inq2[m] => k = m
  /\ \A k \in DOMAIN inq, m \in DOMAIN inq2 : inq[k] # inq2[m]

(* RightFd, and no event is about a socket not opened. *)
Batch == \A ev \in batch : ev[1] # NoFd /\ (ev[2] \in Live => Sides(ev) # {})

(* Only the connection being registered is without its client. *)
Unnamed ==
  \A i \in Live : conn[i].fd.cli = NoFd =>
    pc = "register" /\ \A j \in Live : conn[j].fd.cli = NoFd => j = i

Linked == (\A i \in Live : Sound(conn[i])) /\ Regs /\ NoMissedWakeup

RInv == Linked /\ Distinct /\ Clients /\ Batch /\ Unnamed

LEMMA WorldMore ==
  ASSUME Good, NEW id \in Id, conn[id] # NULL
  PROVE  LET w == World(id) IN
         /\ w \in WorldType /\ w.id = id /\ w.c = conn[id] /\ w.snd = send_ep /\ w.rcv = recv_ep
         /\ w.nb = nblocked /\ w.ret = 0 /\ w.close = FALSE /\ w.frees = 0
<1>1. World(id) \in WorldType
  BY WorldIs DEF Fresh
<1>. QED
  BY <1>1 DEF World

LEMMA InUse ==
  ASSUME NEW i \in Live, NEW x \in Side
  PROVE  conn[i].fd[x] \in FdsInUse
<1>1. i \in {j \in Id : conn[j] # NULL}
  BY DEF Live
<1>2. conn[i].fd[x] \in {conn[i].fd[z] : z \in Side}
  OBVIOUS
<1>3. conn[i].fd[x] \in UNION {{conn[k].fd[z] : z \in Side} : k \in {j \in Id : conn[j] # NULL}}
  BY <1>1, <1>2, Zenon
<1>. QED
  BY <1>3, Zenon DEF FdsInUse

(* What holds of a connection's world when its handler starts. *)
LEMMA WorldOwns ==
  ASSUME Good, Linked, NEW id \in Id, conn[id] # NULL
  PROVE  LET w == World(id) IN
         From(w, w) /\ Owns(w) /\ Loose(w) /\ Covered(w) /\ Sound(w.c)
<1>1. PICK w : w = World(id)
  OBVIOUS
<1>2. /\ w \in WorldType /\ w.id = id /\ w.c = conn[id] /\ w.snd = send_ep /\ w.rcv = recv_ep
      /\ w.nb = nblocked
  BY <1>1, WorldMore
<1>3. Owns(w)
  BY <1>2 DEF Linked, Regs, Owns
<1>4. Covered(w)
  <2>1. Cardinality(send_ep) \in Nat /\ nblocked \in Int
    BY EventSetFinite DEF Good
  <2>. QED
    BY <1>2, <2>1 DEF Linked, NoMissedWakeup, Covered
<1>5. Sound(w.c)
  BY <1>2 DEF Live, Linked
<1>. QED
  BY <1>1, <1>2, <1>3, <1>4, <1>5, OwnsLoose DEF From

LEMMA BeforeIs ==
  ASSUME Good, Linked, NEW id \in Id, conn[id] # NULL, conn[id].fd.cli # NoFd
  PROVE  Before(World(id))
<1>1. PICK w : w = World(id)
  OBVIOUS
<1>2. /\ w \in WorldType /\ w.c = conn[id] /\ w.ret = 0 /\ w.close = FALSE
      /\ Owns(w) /\ Covered(w) /\ Sound(w.c)
  BY <1>1, WorldMore, WorldOwns
<1>3. Mine(w)
  <2>1. id \in Live /\ "cli" \in Side
    BY DEF Live, Side
  <2>. QED
    BY <1>2, <2>1, InUse DEF Mine
<1>. QED
  BY <1>1, <1>2, <1>3 DEF Before

(* The other connections and their events. *)
Others(id) ==
  /\ \A i \in Id \ {id} : conn'[i] = conn[i]
  /\ \A i \in Id \ {id}, f \in Fds :
       /\ <<f, i>> \in send_ep' <=> <<f, i>> \in send_ep
       /\ <<f, i>> \in recv_ep' <=> <<f, i>> \in recv_ep

LEMMA SoundCommit ==
  ASSUME Good, Linked, NEW id \in Id, conn[id] # NULL, NEW v \in WorldType, Commit(v),
         v.id = id, v.frees = 0, Covered(v), Owns(v), Sound(v.c),
         \A f \in Fds, i \in Id \ {id} :
           /\ <<f, i>> \in v.snd <=> <<f, i>> \in send_ep
           /\ <<f, i>> \in v.rcv <=> <<f, i>> \in recv_ep
  PROVE  Linked' /\ Others(id) /\ conn'[id] = v.c /\ conn'[id] # NULL
<1>4. v.c # NULL
  BY NullAssumption DEF WorldType
<1>5. /\ conn' = [conn EXCEPT ![id] = v.c] /\ send_ep' = v.snd /\ recv_ep' = v.rcv
      /\ nblocked' = v.nb
  BY <1>4 DEF Commit
<1>6. \A i \in Id : conn'[i] = IF i = id THEN v.c ELSE conn[i]
  BY <1>5 DEF Good
<1>7. Others(id)
  BY <1>5, <1>6 DEF Others
<1>8. \A i \in Live' : Sound(conn'[i])
  BY <1>6 DEF Live, Linked
<1>9. Regs'
  <2>. SUFFICES ASSUME NEW i \in Id, NEW f \in Fds
                PROVE  /\ <<f, i>> \in send_ep' <=>
                            conn'[i] # NULL /\ \E x \in Side : conn'[i].fd[x] = f /\ Waits(conn'[i], x)
                       /\ <<f, i>> \in recv_ep' <=>
                            conn'[i] # NULL /\ \E x \in Side : conn'[i].fd[x] = f /\ Reads(conn'[i], x)
    BY DEF Regs
  <2>1. CASE i = id
    BY <1>4, <1>5, <1>6, <2>1 DEF Owns
  <2>2. CASE i # id
    BY <1>6, <1>7, <2>2 DEF Others, Linked, Regs
  <2>. QED
    BY <2>1, <2>2
<1>10. NoMissedWakeup'
  <2>1. Cardinality(v.snd) \in Nat /\ v.nb \in Int
    BY EventSetFinite DEF WorldType
  <2>. QED
    BY <1>5, <2>1 DEF Covered, NoMissedWakeup
<1>11. conn'[id] = v.c
  BY <1>6
<1>. QED
  BY <1>4, <1>7, <1>8, <1>9, <1>10, <1>11 DEF Linked

LEMMA StaysCommit ==
  ASSUME Good, Linked, NEW id \in Id, conn[id] # NULL,
         NEW v, Stays(World(id), v), Commit(v)
  PROVE  /\ Linked' /\ Others(id) /\ conn'[id] # NULL
         /\ conn'[id].fd.cli = conn[id].fd.cli
         /\ conn'[id].fd.svr = conn[id].fd.svr
              \/ (conn[id].fd.svr = NoFd /\ conn'[id].fd.svr \in Fd \ FdsInUse)
<1>1. PICK w : w = World(id)
  OBVIOUS
<1>2. /\ w.id = id /\ w.c = conn[id] /\ w.snd = send_ep /\ w.rcv = recv_ep /\ w.frees = 0
  BY <1>1, WorldMore
<1>3. From(w, v) /\ Covered(v) /\ Owns(v) /\ Sound(v.c)
  BY <1>1 DEF Stays
<1>4. /\ v \in WorldType /\ v.id = id /\ v.frees = 0
      /\ \A f \in Fds, i \in Id \ {id} :
           /\ <<f, i>> \in v.snd <=> <<f, i>> \in send_ep
           /\ <<f, i>> \in v.rcv <=> <<f, i>> \in recv_ep
      /\ v.c.fd.cli = conn[id].fd.cli
      /\ v.c.fd.svr = conn[id].fd.svr
           \/ (conn[id].fd.svr = NoFd /\ v.c.fd.svr \in Fd \ FdsInUse)
  BY <1>2, <1>3 DEF From
<1>5. Linked' /\ Others(id) /\ conn'[id] = v.c /\ conn'[id] # NULL
  BY <1>3, <1>4, SoundCommit
<1>. QED
  BY <1>4, <1>5

LEMMA EndsCommit ==
  ASSUME Good, Linked, Distinct, NEW id \in Id, conn[id] # NULL,
         NEW v, Ends(World(id), v), Commit(v)
  PROVE  Linked' /\ Others(id) /\ conn'[id] = NULL
<1>1. PICK w : w = World(id)
  OBVIOUS
<1>2. /\ w.id = id /\ w.c = conn[id] /\ w.snd = send_ep /\ w.rcv = recv_ep /\ w.frees = 0
  BY <1>1, WorldMore
<1>3. PICK r : /\ From(w, r) /\ Covered(r) /\ Loose(r) /\ v.nb = r.nb
               /\ v.snd = {e \in r.snd : e[1] \notin {r.c.fd[x] : x \in Side}}
               /\ v.rcv = {e \in r.rcv : e[1] \notin {r.c.fd[x] : x \in Side}}
  BY <1>1 DEF Ends
<1>4. v.id = id /\ v.frees # 0
  BY <1>1, <1>2 DEF Ends
<1>5. /\ conn' = [conn EXCEPT ![id] = NULL] /\ send_ep' = v.snd /\ recv_ep' = v.rcv
      /\ nblocked' = v.nb
  BY <1>4 DEF Commit
<1>6. \A i \in Id : conn'[i] = IF i = id THEN NULL ELSE conn[i]
  BY <1>5 DEF Good
<1>7. r \in WorldType /\ r.id = id /\ r.snd \in EventSets /\ r.rcv \in EventSets
  BY <1>2, <1>3 DEF From, WorldType
<1>8. ASSUME NEW i \in Id \ {id}, NEW y \in Side, conn[i] # NULL, conn[i].fd[y] # NoFd
      PROVE  conn[i].fd[y] \notin {r.c.fd[x] : x \in Side}
  <2>. SUFFICES ASSUME NEW x \in Side, r.c.fd[x] = conn[i].fd[y] PROVE FALSE
    OBVIOUS
  <2>1. i \in Live /\ id \in Live
    BY <1>8 DEF Live
  <2>2. r.c.fd[x] = conn[id].fd[x] \/ r.c.fd[x] \notin FdsInUse
    BY <1>2, <1>3 DEF From, Side
  <2>3. r.c.fd[x] \in FdsInUse
    BY <2>1, InUse
  <2>. QED
    BY <1>8, <2>1, <2>2, <2>3 DEF Distinct
<1>9. ASSUME NEW i \in Id \ {id}, NEW f \in Fds
      PROVE  /\ <<f, i>> \in send_ep' <=> <<f, i>> \in send_ep
             /\ <<f, i>> \in recv_ep' <=> <<f, i>> \in recv_ep
  <2>1. /\ <<f, i>> \in r.snd <=> <<f, i>> \in send_ep
        /\ <<f, i>> \in r.rcv <=> <<f, i>> \in recv_ep
    BY <1>2, <1>3 DEF From
  <2>2. <<f, i>> \in send_ep \cup recv_ep => f \notin {r.c.fd[x] : x \in Side}
    <3>. SUFFICES ASSUME <<f, i>> \in send_ep \cup recv_ep
                  PROVE  f \notin {r.c.fd[x] : x \in Side}
      OBVIOUS
    <3>1. PICK y \in Side : /\ conn[i] # NULL /\ conn[i].fd[y] = f
                            /\ Waits(conn[i], y) \/ Reads(conn[i], y)
      BY DEF Linked, Regs
    <3>2. Sound(conn[i])
      BY <3>1 DEF Linked, Live
    <3>3. f # NoFd
      BY <3>1, <3>2 DEF Sound, Flags, Reads
    <3>. QED
      BY <1>8, <3>1, <3>3
  <2>3. /\ <<f, i>> \in send_ep' <=> <<f, i>> \in r.snd /\ f \notin {r.c.fd[x] : x \in Side}
        /\ <<f, i>> \in recv_ep' <=> <<f, i>> \in r.rcv /\ f \notin {r.c.fd[x] : x \in Side}
    BY <1>3, <1>5
  <2>. QED
    BY <2>1, <2>2, <2>3
<1>10. ASSUME NEW f \in Fds PROVE <<f, id>> \notin send_ep' /\ <<f, id>> \notin recv_ep'
  <2>1. /\ <<f, id>> \in send_ep' => <<f, id>> \in r.snd /\ f \notin {r.c.fd[x] : x \in Side}
        /\ <<f, id>> \in recv_ep' => <<f, id>> \in r.rcv /\ f \notin {r.c.fd[x] : x \in Side}
    BY <1>3, <1>5
  <2>. QED
    BY <1>3, <1>7, <2>1 DEF Loose
<1>11. Others(id)
  BY <1>6, <1>9 DEF Others
<1>12. \A i \in Live' : Sound(conn'[i])
  BY <1>6 DEF Live, Linked
<1>13. Regs'
  <2>. SUFFICES ASSUME NEW i \in Id, NEW f \in Fds
                PROVE  /\ <<f, i>> \in send_ep' <=>
                            conn'[i] # NULL /\ \E x \in Side : conn'[i].fd[x] = f /\ Waits(conn'[i], x)
                       /\ <<f, i>> \in recv_ep' <=>
                            conn'[i] # NULL /\ \E x \in Side : conn'[i].fd[x] = f /\ Reads(conn'[i], x)
    BY DEF Regs
  <2>1. CASE i = id
    BY <1>6, <1>10, <2>1
  <2>2. CASE i # id
    BY <1>6, <1>11, <2>2 DEF Others, Linked, Regs
  <2>. QED
    BY <2>1, <2>2
<1>14. NoMissedWakeup'
  <2>1. v.snd \in SUBSET r.snd
    BY <1>3
  <2>2. v.snd \in EventSets
    BY <1>7, <2>1 DEF EventSets
  <2>3. Cardinality(v.snd) \in Nat /\ r.nb \in Int
    BY <1>7, <2>2, EventSetFinite DEF WorldType
  <2>4. Cardinality(v.snd) <= r.nb
    BY <1>3, <1>7, <2>1, <2>3, CoveredMore DEF Covered
  <2>. QED
    BY <1>3, <1>5, <2>3, <2>4 DEF NoMissedWakeup
<1>. QED
  BY <1>6, <1>11, <1>12, <1>13, <1>14 DEF Linked

LEMMA InUseQueued ==
  /\ \A k \in DOMAIN inq : inq[k] \in FdsInUse
  /\ \A k \in DOMAIN inq2 : inq2[k] \in FdsInUse
<1>1. \A k \in DOMAIN inq : inq[k] \in {inq[i] : i \in DOMAIN inq}
  OBVIOUS
<1>2. \A k \in DOMAIN inq2 : inq2[k] \in {inq2[i] : i \in DOMAIN inq2}
  OBVIOUS
<1>. QED
  BY <1>1, <1>2, Zenon DEF FdsInUse

(* What a handler of id leaves of the rest of the invariant. *)
LEMMA RestCommit ==
  ASSUME Good, Flow, RInv, NEW id \in Id, conn[id] # NULL, Others(id), pc # "register",
         \/ conn'[id] = NULL
         \/ /\ conn'[id] # NULL
            /\ conn'[id].fd.cli = conn[id].fd.cli
            /\ conn'[id].fd.svr = conn[id].fd.svr
                 \/ (conn[id].fd.svr = NoFd /\ conn'[id].fd.svr \in Fd \ FdsInUse),
         batch' \subseteq batch, inq' = inq, inq2' = inq2
  PROVE  Distinct' /\ Clients' /\ Batch' /\ Unnamed'
<1>1. ASSUME NEW i \in Live', NEW x \in Side
      PROVE  /\ i \in Live
             /\ conn'[i].fd[x] = conn[i].fd[x]
                  \/ (i = id /\ x = "svr" /\ conn[i].fd[x] = NoFd /\ conn'[i].fd[x] \in Fd \ FdsInUse)
  BY DEF Live, Others, Side
<1>2. ASSUME NEW i \in Live', NEW j \in Live', NEW x \in Side, NEW y \in Side,
             conn'[i].fd[x] = conn'[j].fd[y], conn'[i].fd[x] # NoFd
      PROVE  i = j
  <2>1. /\ i \in Live /\ j \in Live
        /\ conn[i].fd[x] \in FdsInUse /\ conn[j].fd[y] \in FdsInUse
    BY <1>1, InUse
  <2>. QED
    BY <1>1, <1>2, <2>1 DEF RInv, Distinct
<1>3. ASSUME NEW i \in Live', NEW x \in Side
      PROVE  /\ \A k \in DOMAIN inq : conn'[i].fd[x] # inq[k]
             /\ \A k \in DOMAIN inq2 : conn'[i].fd[x] # inq2[k]
  BY <1>1, InUseQueued DEF RInv, Distinct
<1>4. Distinct'
  BY <1>2, <1>3 DEF Distinct
<1>5. Clients'
  BY DEF RInv, Clients
<1>6. Batch'
  <2>. SUFFICES ASSUME NEW ev \in batch, ev[2] \in Live'
                PROVE  \E x \in Side : conn'[ev[2]].fd[x] = ev[1]
    BY DEF RInv, Batch, Sides, Live
  <2>1. ev[2] \in Live /\ ev[1] # NoFd /\ Sides(ev) # {}
    BY <1>1 DEF RInv, Batch, Side
  <2>2. PICK x \in Side : conn[ev[2]].fd[x] = ev[1]
    BY <2>1 DEF Sides
  <2>3. conn'[ev[2]].fd[x] = conn[ev[2]].fd[x]
    BY <1>1, <2>1, <2>2
  <2>. QED
    BY <2>2, <2>3
<1>7. Unnamed'
  <2>1. \A i \in Live' : conn'[i].fd.cli = conn[i].fd.cli /\ i \in Live
    BY <1>1 DEF Side
  <2>. QED
    BY <2>1 DEF RInv, Unnamed
<1>. QED
  BY <1>4, <1>5, <1>6, <1>7

LEMMA StaysOrEnds ==
  ASSUME Good, Flow, RInv, NEW id \in Id, conn[id] # NULL, pc # "register",
         NEW v, Stays(World(id), v) \/ Ends(World(id), v), Commit(v),
         batch' \subseteq batch, inq2' = inq2
  PROVE  RInv'
<1>1. inq' = inq
  BY DEF Commit
<1>2. CASE Stays(World(id), v)
  <2>1. /\ Linked' /\ Others(id) /\ conn'[id] # NULL
        /\ conn'[id].fd.cli = conn[id].fd.cli
        /\ conn'[id].fd.svr = conn[id].fd.svr
             \/ (conn[id].fd.svr = NoFd /\ conn'[id].fd.svr \in Fd \ FdsInUse)
    BY <1>2, StaysCommit DEF RInv
  <2>. QED
    BY <1>1, <2>1, RestCommit DEF RInv
<1>3. CASE Ends(World(id), v)
  <2>1. Linked' /\ Others(id) /\ conn'[id] = NULL
    BY <1>3, EndsCommit DEF RInv
  <2>. QED
    BY <1>1, <2>1, RestCommit DEF RInv
<1>. QED
  BY <1>2, <1>3

LEMMA SkipLinked ==
  ASSUME Linked, Skip
  PROVE  Linked'
BY DEF Linked, Skip, Live, Regs, NoMissedWakeup

-----------------------------------------------------------------------------
(* The actions *)

LEMMA AddConnectionMore ==
  ASSUME Good, Flow, RInv, AddConnection
  PROVE  RInv'
<1>1. PICK f \in Fd \ FdsInUse : inq' = Append(inq, f)
  BY DEF AddConnection
<1>2. inq \in Seq(Fd) /\ DOMAIN inq' = 1..(Len(inq) + 1) /\ DOMAIN inq = 1..Len(inq) /\ Len(inq) \in Nat
      /\ \A k \in DOMAIN inq' : inq'[k] = IF k = Len(inq) + 1 THEN f ELSE inq[k]
  BY <1>1 DEF Good
<1>3. \A k \in DOMAIN inq' : (k \in DOMAIN inq /\ inq'[k] = inq[k]) \/ (k = Len(inq) + 1 /\ inq'[k] = f)
  BY <1>2
<1>4. Linked'
  BY DEF RInv, Linked, AddConnection, Live, Regs, NoMissedWakeup
<1>5. conn' = conn /\ inq2' = inq2 /\ Live' = Live
  BY DEF AddConnection, Live
<1>6. Distinct'
  <2>1. \A i \in Live, x \in Side, k \in DOMAIN inq' : conn[i].fd[x] # inq'[k]
    BY <1>1, <1>3, InUse DEF RInv, Distinct
  <2>. QED
    BY <1>5, <2>1 DEF RInv, Distinct
<1>7. Clients'
  <2>1. \A k, m \in DOMAIN inq' : inq'[k] = inq'[m] => k = m
    BY <1>1, <1>3, InUseQueued DEF RInv, Clients
  <2>2. \A k \in DOMAIN inq', m \in DOMAIN inq2 : inq'[k] # inq2[m]
    BY <1>1, <1>3, InUseQueued DEF RInv, Clients
  <2>. QED
    BY <1>5, <2>1, <2>2 DEF RInv, Clients
<1>8. Batch' /\ Unnamed'
  BY <1>5 DEF RInv, Batch, Unnamed, Sides, AddConnection
<1>. QED
  BY <1>4, <1>6, <1>7, <1>8 DEF RInv

LEMMA GetConnectionsMore ==
  ASSUME Good, Flow, RInv, GetConnections
  PROVE  RInv'
<1>1. inq2' = inq /\ inq' = <<>> /\ conn' = conn /\ Live' = Live /\ DOMAIN inq' = {}
  BY DEF GetConnections, Live
<1>2. Linked'
  BY DEF RInv, Linked, GetConnections, Live, Regs, NoMissedWakeup
<1>3. Distinct' /\ Clients'
  BY <1>1 DEF RInv, Distinct, Clients
<1>4. Batch' /\ Unnamed'
  BY <1>1 DEF RInv, Batch, Unnamed, Sides, GetConnections
<1>. QED
  BY <1>2, <1>3, <1>4 DEF RInv

LEMMA OverflowMore ==
  ASSUME Good, Flow, RInv, Overflow
  PROVE  RInv'
<1>1. /\ inq2' = inq2 /\ inq' = inq /\ conn' = conn /\ Live' = Live /\ batch' = batch
      /\ send_ep' = send_ep /\ recv_ep' = recv_ep /\ nblocked' = nblocked
      /\ \A ev : Sides(ev)' = Sides(ev)
  BY DEF Overflow, Live, Sides
<1>2. Linked'
  BY <1>1 DEF RInv, Linked, Regs, NoMissedWakeup
<1>3. Distinct' /\ Clients' /\ Batch'
  BY <1>1 DEF RInv, Distinct, Clients, Batch
<1>4. Unnamed'
  BY <1>1 DEF RInv, Unnamed, Overflow
<1>. QED
  BY <1>2, <1>3, <1>4 DEF RInv

LEMMA NewSound == NewConnection \in Connection /\ Sound(NewConnection)
<1>1. NewQueue \in Queue /\ NewQueue.blkpkt = NoPkt /\ NewQueue.pkt = NoPkt /\ NewQueue.outq = <<>>
      /\ NewQueue.lost = 0 /\ NewQueue.got = 0 /\ NewQueue.sent = 0 /\ NewQueue.gap = FALSE
  BY DEF NewQueue, Queue
<1>2. Pending(NewQueue) = <<>>
  BY <1>1, NoneLeft
<1>3. /\ NewConnection \in Connection
      /\ \A x \in Side : /\ NewConnection.q[x] = NewQueue /\ NewConnection.fd[x] = NoFd
                         /\ ~NewConnection.block[x]
      /\ ~NewConnection.wait
  BY <1>1 DEF NewConnection, Connection
<1>4. Stream(NewQueue)
  BY <1>1, <1>2, SpansEmpty DEF Stream
<1>5. Flags(NewConnection)
  BY <1>3 DEF Flags, Waits, Side
<1>6. \A x \in Side : Settled(NewConnection, x)
  BY <1>1, <1>2, <1>3, <1>4, SidesAre DEF Settled, Unsent
<1>. QED
  BY <1>3, <1>5, <1>6 DEF Sound

LEMMA AllocMore ==
  ASSUME Good, Flow, RInv, Alloc
  PROVE  RInv'
<1>1. PICK id \in Id : Table!Found(id) /\ conn' = [conn EXCEPT ![id] = NewConnection]
  BY DEF Alloc
<1>2. conn[id] = NULL
  BY <1>1, NullAssumption DEF Table!Found, Table!FreeIds, Table!Id, Id
<1>3. NewConnection # NULL /\ Sound(NewConnection) /\ NewConnection \in Connection
  BY NewSound, NullAssumption
<1>4. \A i \in Id : conn'[i] = IF i = id THEN NewConnection ELSE conn[i]
  BY <1>1 DEF Good
<1>5. \A x \in Side : /\ NewConnection.fd[x] = NoFd
                      /\ ~Waits(NewConnection, x) /\ ~Reads(NewConnection, x)
  BY DEF NewConnection, Waits, Reads, Side
<1>6. Live' = Live \cup {id} /\ id \notin Live
  BY <1>2, <1>3, <1>4 DEF Live
<1>7. Linked'
  <2>1. \A i \in Live' : Sound(conn'[i])
    BY <1>3, <1>4, <1>6 DEF RInv, Linked, Live
  <2>2. Regs'
    <3>. SUFFICES ASSUME NEW i \in Id, NEW f \in Fds
                  PROVE  /\ <<f, i>> \in send_ep <=>
                              conn'[i] # NULL /\ \E x \in Side : conn'[i].fd[x] = f /\ Waits(conn'[i], x)
                         /\ <<f, i>> \in recv_ep <=>
                              conn'[i] # NULL /\ \E x \in Side : conn'[i].fd[x] = f /\ Reads(conn'[i], x)
      BY DEF Regs, Alloc
    <3>1. CASE i = id
      BY <1>2, <1>4, <1>5, <3>1 DEF RInv, Linked, Regs
    <3>2. CASE i # id
      BY <1>4, <3>2 DEF RInv, Linked, Regs
    <3>. QED
      BY <3>1, <3>2
  <2>. QED
    BY <2>1, <2>2 DEF RInv, Linked, Alloc, NoMissedWakeup
<1>8. ASSUME NEW i \in Live', NEW x \in Side
      PROVE  (i \in Live /\ conn'[i] = conn[i]) \/ (i = id /\ conn'[i].fd[x] = NoFd)
  <2>1. CASE i = id
    BY <1>4, <1>5, <2>1 DEF Live
  <2>2. CASE i # id
    BY <1>4, <1>6, <2>2 DEF Live
  <2>. QED
    BY <2>1, <2>2
<1>9. Distinct'
  <2>1. \A i, j \in Live', x, y \in Side :
          conn'[i].fd[x] = conn'[j].fd[y] /\ conn'[i].fd[x] # NoFd => i = j
    BY <1>8 DEF RInv, Distinct
  <2>2. \A k \in DOMAIN inq : inq[k] # NoFd
    BY FdAssumption DEF Good
  <2>3. \A k \in DOMAIN inq2 : inq2[k] # NoFd
    BY FdAssumption DEF Flow
  <2>. QED
    BY <1>8, <2>1, <2>2, <2>3 DEF RInv, Distinct, Alloc
<1>10. Clients' /\ Batch'
  <2>1. batch' = {}
    BY DEF Alloc, Flow
  <2>. QED
    BY <2>1 DEF RInv, Clients, Batch, Alloc
<1>11. Unnamed'
  <2>1. pc = "adding" /\ pc' = "register"
    BY DEF Alloc
  <2>2. \A i \in Live : conn[i].fd.cli # NoFd
    BY <2>1 DEF RInv, Unnamed
  <2>. QED
    BY <1>4, <1>6, <2>1, <2>2 DEF Unnamed, Live
<1>. QED
  BY <1>7, <1>9, <1>10, <1>11 DEF RInv

LEMMA NextClientMore ==
  ASSUME Flow, NextClient, inq2 # <<>>
  PROVE  \A k \in DOMAIN inq2' : k + 1 \in DOMAIN inq2 /\ k + 1 # 1 /\ k \in Nat /\ inq2'[k] = inq2[k + 1]
<1>1. inq2 \in Seq(Fd) /\ inq2' = Tail(inq2) /\ Len(inq2) \in Nat
  BY DEF Flow, NextClient
<1>2. DOMAIN inq2' = 1..(Len(inq2) - 1) /\ DOMAIN inq2 = 1..Len(inq2)
  BY <1>1
<1>3. \A k \in 1..(Len(inq2) - 1) : Tail(inq2)[k] = inq2[k + 1]
  BY <1>1
<1>. QED
  BY <1>1, <1>2, <1>3

LEMMA RefuseMore ==
  ASSUME Good, Flow, RInv, Refuse
  PROVE  RInv'
<1>1. Linked' /\ Skip /\ NextClient
  BY SkipLinked DEF RInv, Refuse
<1>2. inq' = inq /\ conn' = conn /\ batch' = batch /\ Live' = Live
  BY <1>1 DEF Skip, NextClient, Live
<1>3. \A k \in DOMAIN inq2' : k + 1 \in DOMAIN inq2 /\ k \in Nat /\ inq2'[k] = inq2[k + 1]
  BY <1>1, NextClientMore DEF Flow, Refuse
<1>4. Distinct'
  BY <1>2, <1>3 DEF RInv, Distinct
<1>5. Clients'
  BY <1>2, <1>3 DEF RInv, Clients
<1>6. Batch' /\ Unnamed'
  BY <1>2 DEF RInv, Batch, Unnamed, Sides, Refuse
<1>. QED
  BY <1>1, <1>4, <1>5, <1>6 DEF RInv

(* The connection whose client is registered gets what comes first in      *)
(* inq2, or is freed; it is the only one without its client.               *)
LEMMA RegisterMore ==
  ASSUME Good, Flow, RInv, Register
  PROVE  RInv'
<1>1. PICK id \in Id :
        /\ conn[id] # NULL /\ conn[id].fd.cli = NoFd
        /\ \/ Commit([World(id) EXCEPT !.c.fd.cli = Head(inq2),
                                     !.rcv = @ \cup {<<Head(inq2), id>>}])
           \/ Commit(Free(World(id)))
  BY DEF Register
<1>2. pc = "register" /\ NextClient /\ inq2 # <<>> /\ inq2 \in Seq(Fd) /\ batch' = {} /\ inq' = inq
  BY <1>1 DEF Register, NextClient, Flow, Commit
<1>3. \A k \in DOMAIN inq2' : k + 1 \in DOMAIN inq2 /\ k + 1 # 1 /\ inq2'[k] = inq2[k + 1]
  BY <1>2, NextClientMore
<1>4. 1 \in DOMAIN inq2 /\ Head(inq2) = inq2[1]
  BY <1>2
<1>5. PICK f \in Fd : f = inq2[1]
  BY <1>2, <1>4
<1>6. PICK w : w = World(id)
  OBVIOUS
<1>7. /\ w \in WorldType /\ w.id = id /\ w.c = conn[id] /\ w.snd = send_ep /\ w.rcv = recv_ep
      /\ w.nb = nblocked /\ w.frees = 0
  BY <1>1, <1>6, WorldMore
<1>8. From(w, w) /\ Owns(w) /\ Loose(w) /\ Covered(w) /\ Sound(w.c)
  BY <1>1, <1>6, WorldOwns DEF RInv
<1>9. \A j \in Live : conn[j].fd.cli = NoFd => j = id
  BY <1>1 DEF RInv, Unnamed, Live
<1>10. Clients' /\ Batch'
  <2>1. Clients'
    BY <1>2, <1>3 DEF RInv, Clients
  <2>. QED
    BY <1>2, <2>1 DEF Batch
<1>11. CASE Commit(Free(w))
  <2>1. Linked' /\ Others(id) /\ conn'[id] = NULL
    BY <1>1, <1>6, <1>7, <1>8, <1>11, FreeEnds, EndsCommit DEF RInv
  <2>2. \A i \in Live' : i \in Live /\ i # id /\ conn'[i] = conn[i]
    BY <2>1 DEF Others, Live
  <2>3. Distinct'
    BY <1>2, <1>3, <2>2 DEF RInv, Distinct
  <2>4. Unnamed'
    BY <1>9, <2>2 DEF Unnamed
  <2>. QED
    BY <1>10, <2>1, <2>3, <2>4 DEF RInv
<1>12. CASE Commit([w EXCEPT !.c.fd.cli = f, !.rcv = @ \cup {<<f, id>>}])
  <2>1. PICK c : c = [w.c EXCEPT !.fd = [w.c.fd EXCEPT !["cli"] = f]]
    OBVIOUS
  <2>2. w.c \in Connection
    BY <1>7 DEF WorldType
  <2>3. /\ c \in Connection /\ c.q = w.c.q /\ c.block = w.c.block /\ c.wait = w.c.wait
        /\ c.fd.cli = f /\ c.fd.svr = w.c.fd.svr
    BY <2>1, <2>2 DEF Connection, Side
  <2>4. PICK t \in EventSets : t = w.rcv \cup {<<f, id>>}
    <3>1. w.rcv \cup {<<f, id>>} \in EventSets
      BY <1>7 DEF WorldType, EventSets
    <3>. QED
      BY <3>1
  <2>5. PICK v : v = [w EXCEPT !.c.fd.cli = f, !.rcv = @ \cup {<<f, id>>}]
    OBVIOUS
  <2>6. v = PutWorld(w, c, w.nb, w.snd, t)
    BY <1>7, <2>1, <2>2, <2>4, <2>5 DEF PutWorld, WorldType, Connection
  <2>7. /\ v \in WorldType /\ v.id = id /\ v.c = c /\ v.nb = w.nb /\ v.snd = w.snd /\ v.rcv = t
        /\ v.frees = 0
    BY <1>7, <2>3, <2>4, <2>6 DEF PutWorld, WorldType
  <2>8. w.c.fd.cli = NoFd /\ w.c.fd.svr = NoFd /\ f # NoFd
        /\ \A x \in Side : ~Waits(w.c, x) /\ ~Reads(w.c, x)
    BY <1>1, <1>7, <1>8, FdAssumption DEF Sound, Flags, Reads, Side
  <2>9. Sound(c)
    <3>1. Flags(c)
      BY <2>3, <2>8 DEF Flags, Waits, Side
    <3>2. \A x \in Side : Settled(c, x)
      BY <1>8, <2>3 DEF Sound, Settled, Unsent, Waits
    <3>. QED
      BY <3>1, <3>2 DEF Sound
  <2>10. Covered(v)
    BY <1>8, <2>7 DEF Covered
  <2>11. ASSUME NEW g \in Fds
         PROVE  /\ <<g, id>> \in w.snd <=> \E x \in Side : c.fd[x] = g /\ Waits(c, x)
                /\ <<g, id>> \in t <=> \E x \in Side : c.fd[x] = g /\ Reads(c, x)
    <3>1. <<g, id>> \notin w.snd /\ <<g, id>> \notin w.rcv
      BY <1>7, <1>8, <2>8 DEF Owns
    <3>2. \A x \in Side : ~Waits(c, x)
      BY <2>3, <2>8 DEF Waits
    <3>3. (\E x \in Side : c.fd[x] = g /\ Reads(c, x)) <=> g = f
      BY <2>3, <2>8 DEF Reads, Side
    <3>4. <<g, id>> \in t <=> g = f
      BY <2>4, <3>1
    <3>. QED
      BY <3>1, <3>2, <3>3, <3>4
  <2>12. Owns(v)
    BY <2>7, <2>11, Zenon DEF Owns
  <2>13. \A g \in Fds, i \in Id \ {id} :
           /\ <<g, i>> \in v.snd <=> <<g, i>> \in send_ep
           /\ <<g, i>> \in v.rcv <=> <<g, i>> \in recv_ep
    BY <1>7, <2>4, <2>7
  <2>14. Linked' /\ Others(id) /\ conn'[id] = c /\ conn'[id] # NULL
    BY <1>1, <1>12, <2>5, <2>7, <2>9, <2>10, <2>12, <2>13, SoundCommit DEF RInv
  <2>15. ASSUME NEW i \in Live', NEW x \in Side
         PROVE  /\ i \in Live
                /\ conn'[i].fd[x] = conn[i].fd[x] \/ (i = id /\ x = "cli" /\ conn'[i].fd[x] = f)
    BY <1>1, <1>7, <2>3, <2>14 DEF Live, Others, Side
  <2>16. Distinct'
    <3>1. ASSUME NEW i \in Live', NEW j \in Live', NEW x \in Side, NEW y \in Side,
                 conn'[i].fd[x] = conn'[j].fd[y], conn'[i].fd[x] # NoFd
          PROVE  i = j
      <4>1. \A k \in Live, z \in Side : conn[k].fd[z] # f
        BY <1>4, <1>5 DEF RInv, Distinct
      <4>. QED
        BY <2>15, <3>1, <4>1 DEF RInv, Distinct
    <3>2. ASSUME NEW i \in Live', NEW x \in Side
          PROVE  /\ \A k \in DOMAIN inq : conn'[i].fd[x] # inq[k]
                 /\ \A k \in DOMAIN inq2' : conn'[i].fd[x] # inq2'[k]
      <4>1. \A k \in DOMAIN inq : f # inq[k]
        BY <1>4, <1>5 DEF RInv, Clients
      <4>2. \A k \in DOMAIN inq2' : f # inq2'[k]
        BY <1>3, <1>4, <1>5 DEF RInv, Clients
      <4>. QED
        BY <1>3, <2>15, <4>1, <4>2 DEF RInv, Distinct
    <3>. QED
      BY <1>2, <3>1, <3>2 DEF Distinct
  <2>17. Unnamed'
    <3>1. \A i \in Live' : conn'[i].fd.cli # NoFd
      BY <1>9, <2>3, <2>8, <2>14, <2>15 DEF Side, Others, Live
    <3>. QED
      BY <3>1 DEF Unnamed
  <2>. QED
    BY <1>10, <2>14, <2>16, <2>17 DEF RInv
<1>. QED
  BY <1>1, <1>4, <1>5, <1>6, <1>11, <1>12

(* A registration is about a socket of a connection. *)
LEMMA Registration ==
  ASSUME RInv, Good, NEW ev \in send_ep \cup recv_ep
  PROVE  ev[1] # NoFd /\ ev[2] \in Live /\ Sides(ev) # {}
<1>1. PICK f \in Fds, i \in Id : ev = <<f, i>>
  BY DEF Good, EventSets, Fds
<1>2. PICK x \in Side : conn[i] # NULL /\ conn[i].fd[x] = f /\ (Waits(conn[i], x) \/ Reads(conn[i], x))
  BY <1>1 DEF RInv, Linked, Regs
<1>3. Flags(conn[i])
  BY <1>2 DEF RInv, Linked, Live, Sound
<1>4. f # NoFd
  BY <1>2, <1>3 DEF Flags, Reads
<1>. QED
  BY <1>1, <1>2, <1>4 DEF Live, Sides

LEMMA WaitMore ==
  ASSUME Good, Flow, RInv, SendWait \/ SendNothing \/ RecvWait
  PROVE  RInv'
<1>1. conn' = conn /\ inq' = inq /\ inq2' = inq2 /\ Live' = Live
      /\ \A ev : Sides(ev)' = Sides(ev)
  BY DEF SendWait, SendNothing, RecvWait, Live, Sides
<1>2. Linked'
  BY DEF RInv, Linked, SendWait, SendNothing, RecvWait, Live, Regs, NoMissedWakeup
<1>3. Distinct' /\ Clients'
  BY <1>1 DEF RInv, Distinct, Clients
<1>4. Batch'
  <2>1. \A ev \in batch' : ev \in send_ep \cup recv_ep \cup batch
    BY DEF SendWait, SendNothing, RecvWait
  <2>. QED
    BY <1>1, <2>1, Registration DEF RInv, Batch
<1>5. Unnamed'
  <2>1. pc # "register"
    BY DEF SendWait, SendNothing, RecvWait
  <2>. QED
    BY <1>1, <2>1 DEF RInv, Unnamed
<1>. QED
  BY <1>2, <1>3, <1>4, <1>5 DEF RInv

LEMMA SkipMore ==
  ASSUME RInv, Skip, batch' \subseteq batch, inq2' = inq2, pc # "register"
  PROVE  RInv'
<1>1. conn' = conn /\ inq' = inq /\ Live' = Live /\ \A ev : Sides(ev)' = Sides(ev)
  BY DEF Skip, Live, Sides
<1>2. Linked'
  BY SkipLinked DEF RInv
<1>3. Distinct' /\ Clients'
  BY <1>1 DEF RInv, Distinct, Clients
<1>4. Batch' /\ Unnamed'
  BY <1>1 DEF RInv, Batch, Unnamed
<1>. QED
  BY <1>2, <1>3, <1>4 DEF RInv

LEMMA ErrorEventMore ==
  ASSUME Good, Flow, RInv, NEW ev \in Fd \X Id, ErrorEvent(ev), pc # "register",
         batch' \subseteq batch, inq2' = inq2
  PROVE  RInv'
<1>1. PICK id \in Id : id = ev[2] /\ conn[id] # NULL
  BY DEF ErrorEvent
<1>2. World(id) \in WorldType
  BY <1>1, WorldMore
<1>3. Ends(World(id), Free(World(id)))
  BY <1>1, <1>2, WorldOwns, FreeEnds DEF RInv
<1>. QED
  BY <1>1, <1>3, StaysOrEnds DEF ErrorEvent

LEMMA SendEventMore ==
  ASSUME Good, Flow, RInv, NEW ev \in Fd \X Id, SendEvent(ev)
  PROVE  RInv'
<1>1. /\ pc # "register" /\ batch' \subseteq batch /\ inq2' = inq2
  BY DEF SendEvent, Take
<1>2. PICK id \in Id : id = ev[2]
  OBVIOUS
<1>3. ASSUME conn[id] # NULL PROVE conn[id].fd.cli # NoFd /\ Before(World(id)) /\ World(id).c = conn[id]
  <2>1. conn[id].fd.cli # NoFd
    BY <1>1, <1>3 DEF RInv, Unnamed, Live
  <2>. QED
    BY <1>3, <2>1, BeforeIs, WorldMore DEF RInv
<1>4. CASE ErrorEvent(ev)
  BY <1>1, <1>4, ErrorEventMore
<1>5. CASE Sides(ev) = {} /\ Skip
  BY <1>1, <1>5, SkipMore
<1>6. ASSUME "cli" \in Sides(ev), NEW w \in SendLoop(World(id), "cli"), Commit(FreeIf(w))
      PROVE  RInv'
  <2>1. conn[id] # NULL
    BY <1>2, <1>6 DEF Sides
  <2>2. Stays(World(id), FreeIf(w)) \/ Ends(World(id), FreeIf(w))
    BY <1>3, <1>6, <2>1, ClientWritableResult
  <2>. QED
    BY <1>1, <1>6, <2>1, <2>2, StaysOrEnds
<1>7. ASSUME "svr" \in Sides(ev), NEW w \in ServerWritable(World(id)), Commit(w)
      PROVE  RInv'
  <2>1. conn[id] # NULL
    BY <1>2, <1>7 DEF Sides
  <2>2. World(id).c.wait => World(id).c.q.cli.blkpkt = NoPkt
    BY <1>3, <2>1 DEF Good, Live, Fine, Early
  <2>3. Stays(World(id), w) \/ Ends(World(id), w)
    BY <1>3, <1>7, <2>1, <2>2, ServerWritableResult
  <2>. QED
    BY <1>1, <1>7, <2>1, <2>3, StaysOrEnds
<1>. QED
  BY <1>2, <1>4, <1>5, <1>6, <1>7 DEF SendEvent

LEMMA RecvEventMore ==
  ASSUME Good, Flow, RInv, NEW ev \in Fd \X Id, RecvEvent(ev)
  PROVE  RInv'
<1>1. /\ pc # "register" /\ batch' \subseteq batch /\ inq2' = inq2
  BY DEF RecvEvent, Take
<1>2. PICK id \in Id : id = ev[2]
  OBVIOUS
<1>3. CASE ErrorEvent(ev)
  BY <1>1, <1>3, ErrorEventMore
<1>4. CASE Skip
  BY <1>1, <1>4, SkipMore
<1>5. ASSUME NEW x \in Sides(ev), ~conn[id].block[Other(x)],
             NEW w \in Process(World(id), x), Commit(w)
      PROVE  RInv'
  <2>1. conn[id] # NULL /\ x \in Side
    BY <1>2, <1>5 DEF Sides
  <2>2. conn[id].fd.cli # NoFd
    BY <1>1, <2>1 DEF RInv, Unnamed, Live
  <2>3. Before(World(id)) /\ World(id).c = conn[id]
    BY <2>1, <2>2, BeforeIs, WorldMore DEF RInv
  <2>4. Stays(World(id), w) \/ Ends(World(id), w)
    BY <1>5, <2>1, <2>3, ProcessResult
  <2>. QED
    BY <1>1, <1>5, <2>1, <2>4, StaysOrEnds
<1>. QED
  BY <1>2, <1>3, <1>4, <1>5 DEF RecvEvent

LEMMA InitMore == Init => RInv
<1>. SUFFICES ASSUME Init PROVE RInv
  OBVIOUS
<1>1. Live = {} /\ \A i \in Id : conn[i] = NULL
  BY DEF Init, Live
<1>2. send_ep = {} /\ recv_ep = {} /\ nblocked = 0 /\ batch = {}
      /\ DOMAIN inq = {} /\ DOMAIN inq2 = {}
  BY DEF Init
<1>3. Linked
  <2>1. Cardinality({}) = 0
    BY FS_EmptySet
  <2>. QED
    BY <1>1, <1>2, <2>1 DEF Linked, Regs, NoMissedWakeup
<1>. QED
  BY <1>1, <1>2, <1>3 DEF RInv, Distinct, Clients, Batch, Unnamed

LEMMA StepMore == IInv /\ RInv /\ [Next]_vars => RInv'
<1>. SUFFICES ASSUME IInv, RInv, [Next]_vars PROVE RInv'
  OBVIOUS
<1>0. Good /\ Flow
  BY DEF IInv
<1>1. CASE AddConnection
  BY <1>0, <1>1, AddConnectionMore
<1>2. CASE GetConnections
  BY <1>0, <1>2, GetConnectionsMore
<1>3. CASE Alloc
  BY <1>0, <1>3, AllocMore
<1>4. CASE Refuse
  BY <1>0, <1>4, RefuseMore
<1>5. CASE Register
  BY <1>0, <1>5, RegisterMore
<1>6. CASE SendWait \/ SendNothing \/ RecvWait
  BY <1>0, <1>6, WaitMore
<1>7. ASSUME NEW ev \in Fd \X Id, SendEvent(ev) PROVE RInv'
  BY <1>0, <1>7, SendEventMore
<1>8. ASSUME NEW ev \in Fd \X Id, RecvEvent(ev) PROVE RInv'
  BY <1>0, <1>8, RecvEventMore
<1>9. CASE UNCHANGED vars
  <2>1. conn' = conn /\ inq' = inq /\ inq2' = inq2 /\ Live' = Live /\ batch' = batch /\ pc' = pc
        /\ send_ep' = send_ep /\ recv_ep' = recv_ep /\ nblocked' = nblocked
        /\ \A ev : Sides(ev)' = Sides(ev)
    BY <1>9 DEF vars, Live, Sides
  <2>2. Linked'
    BY <2>1 DEF RInv, Linked, Regs, NoMissedWakeup
  <2>. QED
    BY <2>1, <2>2 DEF RInv, Distinct, Clients, Batch, Unnamed
<1>10. CASE Overflow
  BY <1>0, <1>10, OverflowMore
<1>. QED
  BY <1>1, <1>2, <1>3, <1>4, <1>5, <1>6, <1>7, <1>8, <1>9, <1>10 DEF Next, Loop

LEMMA RelayInvariance == Spec => [](IInv /\ RInv)
<1>1. Init => IInv /\ RInv
  BY InitIs, InitMore
<1>2. IInv /\ RInv /\ [Next]_vars => (IInv /\ RInv)'
  BY StepIs, StepMore
<1>. QED
  BY <1>1, <1>2, PTL DEF Spec

-----------------------------------------------------------------------------
(* The epoll sets of send_data and recv_data hold exactly the sockets that *)
(* the flags of the live connections name, whatever handler fails where:   *)
(* no socket is forgotten, and none of a connection that is gone stays.    *)
THEOREM RegisteredHolds == Spec => []Registered
<1>1. IInv /\ RInv => Registered
  <2>. SUFFICES ASSUME IInv, RInv PROVE Registered
    OBVIOUS
  <2>. DEFINE S == {<<conn[ix[1]].fd[ix[2]], ix[1]>> : ix \in
                     {p \in Live \X Side : conn[p[1]].block[p[2]] \/ (p[2] = "svr" /\ conn[p[1]].wait)}}
              R == {<<conn[ix[1]].fd[ix[2]], ix[1]>> : ix \in
                     {p \in Live \X Side :
                        conn[p[1]].fd[p[2]] # NoFd /\ ~(p[2] = "svr" /\ conn[p[1]].wait)}}
  <2>1. send_ep \in EventSets /\ recv_ep \in EventSets /\ Live \subseteq Id
        /\ \A i \in Live, x \in Side : conn[i].fd[x] \in Fds
    BY DEF IInv, Good, Live, Connection, Fds
  <2>2. ASSUME NEW e \in send_ep PROVE e \in S
    <3>1. PICK f \in Fds, i \in Id : e = <<f, i>>
      BY <2>1 DEF EventSets, Fds
    <3>2. PICK x \in Side : conn[i] # NULL /\ conn[i].fd[x] = f /\ Waits(conn[i], x)
      BY <2>2, <3>1 DEF RInv, Linked, Regs
    <3>3. <<i, x>> \in Live \X Side /\ (conn[i].block[x] \/ (x = "svr" /\ conn[i].wait))
      BY <3>2 DEF Live, Waits
    <3>. QED
      BY <3>1, <3>2, <3>3
  <2>3. ASSUME NEW e \in recv_ep PROVE e \in R
    <3>1. PICK f \in Fds, i \in Id : e = <<f, i>>
      BY <2>1 DEF EventSets, Fds
    <3>2. PICK x \in Side : conn[i] # NULL /\ conn[i].fd[x] = f /\ Reads(conn[i], x)
      BY <2>3, <3>1 DEF RInv, Linked, Regs
    <3>3. <<i, x>> \in Live \X Side /\ conn[i].fd[x] # NoFd /\ ~(x = "svr" /\ conn[i].wait)
      BY <3>2 DEF Live, Reads
    <3>. QED
      BY <3>1, <3>2, <3>3
  <2>4. ASSUME NEW i \in Live, NEW x \in Side, Waits(conn[i], x)
        PROVE  <<conn[i].fd[x], i>> \in send_ep
    BY <2>1, <2>4 DEF RInv, Linked, Regs, Live
  <2>5. ASSUME NEW i \in Live, NEW x \in Side, Reads(conn[i], x)
        PROVE  <<conn[i].fd[x], i>> \in recv_ep
    BY <2>1, <2>5 DEF RInv, Linked, Regs, Live
  <2>6. S \subseteq send_ep
    BY <2>4 DEF Waits
  <2>7. R \subseteq recv_ep
    BY <2>5 DEF Reads
  <2>. QED
    BY <2>2, <2>3, <2>6, <2>7 DEF Registered
<1>. QED
  BY <1>1, RelayInvariance, PTL

(* send_data never returns at once while a socket is in its epoll set:     *)
(* nblocked, which several handlers add to and take from and no free does, *)
(* is never less than what is registered.                                  *)
THEOREM NoMissedWakeupHolds == Spec => []NoMissedWakeup
<1>1. RInv => NoMissedWakeup
  BY DEF RInv, Linked
<1>. QED
  BY <1>1, RelayInvariance, PTL

(* Between two events, a queue that holds a packet has an event to come    *)
(* that will send it, and a side is blocked only for a packet that waits   *)
(* or was lost.                                                            *)
THEOREM NoStrandedHolds == Spec => []NoStranded
<1>1. RInv => NoStranded
  BY DEF RInv, Linked, Sound, Settled, Unsent, Waits, NoStranded
<1>. QED
  BY <1>1, RelayInvariance, PTL

(* Every byte received is sent or waits, once and in its order, as long as *)
(* no packet is lost; what follows a lost packet of a response is never    *)
(* sent.                                                                   *)
THEOREM StreamIntactHolds == Spec => []StreamIntact
<1>1. RInv => StreamIntact
  BY DEF RInv, Linked, Sound, Settled, Unsent, Stream, Spans, StreamIntact
<1>. QED
  BY <1>1, RelayInvariance, PTL

(* An event still to handle of a batch that epoll_wait returned earlier    *)
(* finds its own socket, or no connection: an id given again, or a         *)
(* descriptor the kernel reuses, is never taken for it.                    *)
THEOREM RightFdHolds == Spec => []RightFd
<1>1. RInv => RightFd
  BY DEF RInv, Batch, RightFd
<1>. QED
  BY <1>1, RelayInvariance, PTL

=============================================================================
