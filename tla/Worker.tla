------------------------------- MODULE Worker -------------------------------
(***************************************************************************)
(* One worker thread of http/work2.c.  The worker takes clients from its   *)
(* input queue into the connection table, and relays bytes between each    *)
(* client and the server it connects for it.  Its loop is get_connection,  *)
(* send_data, recv_data; the last two wait on an epoll set each and handle *)
(* the events of the batch epoll_wait returned, one step per event.        *)
(*                                                                         *)
(* A handler is a function from a world (the connection and the shared     *)
(* state it may change) to the set of worlds it may end in: system calls   *)
(* and pools answer nondeterministically.                                  *)
(***************************************************************************)
EXTENDS Integers, Sequences, FiniteSets

CONSTANTS
  Fd,               \* file descriptors the process may have
  NoFd, NULL,
  max,              \* entries of the connection table
  maxfds,           \* entries of the input queue
  Room,             \* clients that inq2 has room for
  MaxAccept,        \* bound: clients that come
  MaxBytes,         \* bound: bytes received from each side of a connection
  MaxPkt            \* bound: bytes of one packet (its capacity)

ASSUME FdAssumption == NoFd \notin Fd /\ IsFiniteSet(Fd)
ASSUME SizeAssumption == {max, maxfds, MaxPkt} \subseteq Nat \ {0}
ASSUME RoomAssumption == Room \in Nat
ASSUME BoundAssumption == {MaxAccept, MaxBytes} \subseteq Nat

VARIABLES
  conn,             \* sesstbl->table: the connection of each id
  nfreed, freeid,   \* sesstbl's counter of free ids, and next id to try
  send_ep, recv_ep, \* the epoll sets: registrations <<fd, id>>
  nblocked,         \* counter of the registrations in send_ep
  inq, inq2,        \* clients queued by the accept thread, and being taken
  pc,               \* where the loop is
  batch,            \* events of the last epoll_wait still to handle
  naccepted,        \* clients queued so far
  unreleased,       \* some freed connection kept a packet of the pool
  refreed           \* some connection was freed twice

vars == <<conn, nfreed, freeid, send_ep, recv_ep, nblocked, inq, inq2, pc, batch,
          naccepted, unreleased, refreed>>

Id == 0..(max - 1)

Side == {"cli", "svr"}

Other(x) == IF x = "cli" THEN "svr" ELSE "cli"

-----------------------------------------------------------------------------
(* Packets and queues *)

(* A packet holds the bytes p[1]..p[2] of its stream that are not sent.    *)
NoPkt == <<>>

Size(p) == p[2] - p[1] + 1

(* got, sent, lost and gap are history: the bytes received into the queue, *)
(* the last byte sent from it, how many packets were dropped unsent, and   *)
(* whether a byte was sent before one that precedes it.                    *)
NewQueue ==
  [pkt |-> NoPkt, outq |-> <<>>, blkpkt |-> NoPkt,
   got |-> 0, sent |-> 0, lost |-> 0, gap |-> FALSE]

(* memset 0, then connection_table_add *)
NewConnection ==
  [fd |-> [x \in Side |-> NoFd], block |-> [x \in Side |-> FALSE], wait |-> FALSE,
   q |-> [x \in Side |-> NewQueue], nalloced |-> 0]

Packet == Int \X Int

Queue ==
  [pkt : Packet \cup {NoPkt}, outq : Seq(Packet), blkpkt : Packet \cup {NoPkt},
   got : Int, sent : Int, lost : Int, gap : BOOLEAN]

(* connection_t *)
Connection ==
  [fd : [Side -> Fd \cup {NoFd}], block : [Side -> BOOLEAN], wait : BOOLEAN,
   q : [Side -> Queue], nalloced : Int]

ASSUME NullAssumption == NULL \notin Id /\ NULL \notin Connection

(* Packets in the order they are to be sent: the blocked one, then outq.   *)
Pending(q) == (IF q.blkpkt = NoPkt THEN <<>> ELSE <<q.blkpkt>>) \o q.outq

Held(q) == Len(Pending(q)) + (IF q.pkt = NoPkt THEN 0 ELSE 1)

(* The packets of ps continue the stream after byte n without a hole.      *)
Follows(ps, n) ==
  \A j \in 1..Len(ps) : ps[j][1] = 1 + (IF j = 1 THEN n ELSE ps[j - 1][2])

EndOf(ps, n) == IF ps = <<>> THEN n ELSE ps[Len(ps)][2]

(* The kernel took the packets ps of q. *)
Sent(q, ps) ==
  [q EXCEPT !.gap = @ \/ ~Follows(ps, q.sent), !.sent = EndOf(ps, q.sent)]

-----------------------------------------------------------------------------
(* Worlds *)

World(id) ==
  [id |-> id, c |-> conn[id], snd |-> send_ep, rcv |-> recv_ep, nb |-> nblocked,
   ret |-> 0, close |-> FALSE, frees |-> 0]

Event(w, x) == <<w.c.fd[x], w.id>>

Failed(w) == [w EXCEPT !.ret = -1]

FdsInUse ==
  (UNION {{conn[i].fd[x] : x \in Side} : i \in {j \in Id : conn[j] # NULL}})
    \cup {inq[i] : i \in DOMAIN inq} \cup {inq2[i] : i \in DOMAIN inq2}

(* Faulty: leaves the packets of the output queue. *)
Clean_NoOutq(c) ==
  [c EXCEPT !.nalloced = @ - Held([c.q.cli EXCEPT !.outq = <<>>])
                           - Held([c.q.svr EXCEPT !.outq = <<>>])]

(* _work_clean_connection on both queues: the packets go back to the pool. *)
(* outq becomes empty, pkt and blkpkt keep pointing to what was put back.  *)
Clean(c) ==
  [c EXCEPT !.nalloced = @ - Held(c.q.cli) - Held(c.q.svr),
            !.q.cli.outq = <<>>, !.q.svr.outq = <<>>]

(* Faulty: leaves the server's socket open. *)
Free_KeepServer(w) ==
  [w EXCEPT !.snd = {e \in @ : e[1] # w.c.fd.cli},
            !.rcv = {e \in @ : e[1] # w.c.fd.cli},
            !.c = Clean(@),
            !.frees = @ + 1]

(* _work_free_connection.  Closing a socket takes it out of both epoll     *)
(* sets; nblocked is left as it is.                                        *)
Free(w) ==
  LET fds == {w.c.fd[x] : x \in Side} IN
  [w EXCEPT !.snd = {e \in @ : e[1] \notin fds},
            !.rcv = {e \in @ : e[1] \notin fds},
            !.c = Clean(@),
            !.frees = @ + 1]

(* The caller frees the connection when the handler failed or saw the end. *)
FreeIf(w) == IF w.ret = -1 \/ w.close THEN Free(w) ELSE w

-----------------------------------------------------------------------------
(* Handlers *)

(* Faulty: with EAGAIN, does not count the packet back. *)
RecvFrom_NoCountBack(w, x) ==
  {Failed(w), [w EXCEPT !.c.nalloced = @ + 1], [w EXCEPT !.close = TRUE]}

(* _work_recvfrom_client and _work_recvfrom_server.  No packet in the pool *)
(* and a recv error fail; with EAGAIN and at the end of the stream the     *)
(* packet is put back.                                                     *)
RecvFrom(w, x) ==
  LET got == w.c.q[x].got
      Received(n) ==
        [w EXCEPT !.c.q[x] = [@ EXCEPT !.pkt = <<got + 1, got + n>>, !.got = got + n],
                  !.c.nalloced = @ + 1]
  IN {Failed(w), Failed(Received(0)), w, [w EXCEPT !.close = TRUE]}
       \cup {Received(n) : n \in {m \in 1..MaxPkt : got + m <= MaxBytes}}

(* Faulty: puts the packet before those that wait. *)
Parse_Front(w, x) ==
  IF w.c.q[x].pkt = NoPkt THEN w
  ELSE [w EXCEPT !.c.q[x].outq = <<w.c.q[x].pkt>> \o @, !.c.q[x].pkt = NoPkt]

(* _work_parse_client and _work_parse_server: the inspection of the request *)
(* is compiled out, the packet moves to the output queue.                  *)
Parse(w, x) ==
  LET q == w.c.q[x] IN
  IF q.pkt = NoPkt THEN w
  ELSE [w EXCEPT !.c.q[x] = [q EXCEPT !.outq = Append(q.outq, q.pkt), !.pkt = NoPkt]]

(* Faulty: does not count the connecting socket. *)
GetServer_NoCount(w) ==
  IF w.c.fd.svr # NoFd THEN {w}
  ELSE {Failed(w)} \cup
       {[w EXCEPT !.c.fd.svr = f, !.c.wait = TRUE, !.snd = @ \cup {<<f, w.id>>}] :
          f \in Fd \ FdsInUse}

(* _work_get_server: connects at once, begins to connect, or fails (no     *)
(* socket, connection refused, epoll_ctl fails and the socket is closed).  *)
GetServer(w) ==
  IF w.c.fd.svr # NoFd THEN {w}
  ELSE {Failed(w)}
    \cup {[w EXCEPT !.c.fd.svr = f, !.rcv = @ \cup {<<f, w.id>>}] : f \in Fd \ FdsInUse}
    \cup {[w EXCEPT !.c.fd.svr = f, !.c.wait = TRUE,
                    !.snd = @ \cup {<<f, w.id>>}, !.nb = @ + 1] : f \in Fd \ FdsInUse}

(* k whole packets are sent to y: the first of them unblocks the socket.   *)
SentWhole(w, y, k) ==
  LET x == Other(y)
      ps == Pending(w.c.q[x])
      unblock == k > 0 /\ w.c.block[y]
  IN [w EXCEPT !.c.q[x] = [Sent(@, SubSeq(ps, 1, k)) EXCEPT
                             !.blkpkt = NoPkt, !.outq = SubSeq(ps, k + 1, Len(ps))],
               !.c.nalloced = @ - k,
               !.c.block[y] = @ /\ ~unblock,
               !.snd = IF unblock THEN @ \ {Event(w, y)} ELSE @,
               !.nb = IF unblock THEN @ - 1 ELSE @]

(* The next packet leaves the queue and is put back to the pool unsent.    *)
SendFails(w, x) ==
  Failed([w EXCEPT !.c.q[x].outq = Tail(@), !.c.nalloced = @ - 1])

(* The kernel takes n bytes of the next packet and no more. *)
SentPart(w, y, n) ==
  LET x == Other(y)
      q == w.c.q[x]
      p == Head(q.outq)
      sent == Sent(q, IF n = 0 THEN <<>> ELSE <<<<p[1], p[1] + n - 1>>>>)
      cut == [w EXCEPT !.c.q[x] = [sent EXCEPT !.outq = Tail(q.outq)]]
  IN IF w.c.block[y]
     THEN {[cut EXCEPT !.c.q[x].lost = @ + 1]}     \* break without setting blkpkt
     ELSE {[cut EXCEPT !.c.q[x].blkpkt = <<p[1] + n, p[2]>>, !.c.block[y] = TRUE,
                       !.snd = @ \cup {Event(w, y)}, !.nb = @ + 1],
           SendFails(w, x)}                       \* epoll_ctl fails

(* The send loop: whole packets, then the queue is empty, or send fails,   *)
(* or it takes a part.  Nothing taken (EAGAIN) is a part to the client     *)
(* (n < 0 is the error) and an error to the server (n <= 0 is the error).  *)
SendLoop(w, y) ==
  LET x == Other(y)
      ps == Pending(w.c.q[x])
      least == IF y = "svr" THEN 1 ELSE 0
  IN {SentWhole(w, y, Len(ps))}
       \cup {SendFails(SentWhole(w, y, k), x) : k \in 0..(Len(ps) - 1)}
       \cup UNION {SentPart(SentWhole(w, y, kn[1] - 1), y, kn[2]) :
                     kn \in {p \in (1..Len(ps)) \X (least..MaxPkt) : p[2] < Size(ps[p[1]])}}

(* _work_sendto_server *)
SendtoServer(w) ==
  IF Pending(w.c.q.cli) = <<>> THEN {w}
  ELSE UNION {IF g.ret = -1 \/ g.c.wait THEN {g} ELSE SendLoop(g, "svr") : g \in GetServer(w)}

Sendto(w, y) == IF y = "svr" THEN SendtoServer(w) ELSE SendLoop(w, "cli")

(* _work_process_client (x = "cli") and _work_process_server. *)
Process(w, x) ==
  UNION {IF r.ret = -1 THEN {Free(r)}
         ELSE {FreeIf(s) : s \in Sendto(Parse(r, x), Other(x))} : r \in RecvFrom(w, x)}

(* Faulty: the connected socket stays in the send set. *)
CheckServer_KeepSend(w) ==
  LET connected == [w EXCEPT !.c.wait = FALSE, !.nb = @ - 1]
  IN {Failed(w), [connected EXCEPT !.rcv = @ \cup {Event(w, "svr")}]}

(* _work_check_server: not connected, connected, epoll_ctl fails. *)
CheckServer(w) ==
  LET connected == [w EXCEPT !.c.wait = FALSE, !.nb = @ - 1, !.snd = @ \ {Event(w, "svr")}]
  IN {Failed(w), [connected EXCEPT !.rcv = @ \cup {Event(w, "svr")}], Failed(connected)}

(* Faulty: does not send once it is connected. *)
ServerWritable_NoSend(w) ==
  {FreeIf(s) : s \in IF w.c.wait THEN CheckServer(w) ELSE SendtoServer(w)}

(* An event of the server in send_data.  When check_server fails the       *)
(* connection is freed, and sendto_server called with it all the same.     *)
ServerWritable(w) ==
  UNION {{FreeIf(s) : s \in SendtoServer(IF r.ret = -1 THEN [Free(r) EXCEPT !.ret = 0] ELSE r)} :
           r \in IF w.c.wait THEN CheckServer(w) ELSE {w}}

-----------------------------------------------------------------------------
(* Actions *)

Commit(w) ==
  /\ conn' = [conn EXCEPT ![w.id] = IF w.frees = 0 THEN w.c ELSE NULL]
  /\ nfreed' = nfreed + (IF w.frees = 0 THEN 0 ELSE 1)
  /\ send_ep' = w.snd
  /\ recv_ep' = w.rcv
  /\ nblocked' = w.nb
  /\ unreleased' = (unreleased \/ (w.frees > 0 /\ w.c.nalloced # 0))
  /\ refreed' = (refreed \/ w.frees > 1)
  /\ UNCHANGED <<freeid, inq, naccepted>>

(* Nothing is done: a client refused, or an event whose connection is gone,  *)
(* has other sockets, or is blocked on its other side.                     *)
Skip ==
  UNCHANGED <<conn, nfreed, freeid, send_ep, recv_ep, nblocked, inq, naccepted,
              unreleased, refreed>>

Table == INSTANCE ConnTable WITH
  Conn <- Id, magic <- {i \in Id : conn[i] # NULL},
  table <- [i \in Id |-> IF conn[i] = NULL THEN NULL ELSE i]

Init ==
  /\ conn = [i \in Id |-> NULL]
  /\ nfreed = max /\ freeid = 0
  /\ send_ep = {} /\ recv_ep = {} /\ nblocked = 0
  /\ inq = <<>> /\ inq2 = <<>>
  /\ pc = "get" /\ batch = {}
  /\ naccepted = 0 /\ unreleased = FALSE /\ refreed = FALSE

(* work_add_connection, called by the accept thread under the lock of inq. *)
AddConnection ==
  /\ pc # "undefined"
  /\ naccepted < MaxAccept
  /\ Len(inq) < maxfds
  /\ \E f \in Fd \ FdsInUse : inq' = Append(inq, f)
  /\ naccepted' = naccepted + 1
  /\ UNCHANGED <<conn, nfreed, freeid, send_ep, recv_ep, nblocked, inq2, pc, batch,
                 unreleased, refreed>>

(* _work_get_connection, under the lock: inq is copied and emptied. *)
GetConnections ==
  /\ pc = "get"
  /\ Len(inq) <= Room
  /\ inq2' = inq
  /\ inq' = <<>>
  /\ pc' = IF inq = <<>> THEN "send" ELSE "adding"
  /\ UNCHANGED <<conn, nfreed, freeid, send_ep, recv_ep, nblocked, batch, naccepted,
                 unreleased, refreed>>

(* _work_get_connection writes behind inq2: it is allocated as maxfds      *)
(* pointers (line 57) and filled with entries of two integers, ninq of     *)
(* them (line 475).  What the process does then is undefined.              *)
Overflow ==
  /\ pc = "get"
  /\ Len(inq) > Room
  /\ pc' = "undefined"
  /\ UNCHANGED <<conn, nfreed, freeid, send_ep, recv_ep, nblocked, inq, inq2, batch,
                 naccepted, unreleased, refreed>>

(* Faulty: the next search starts at the id just given. *)
Alloc_SameId ==
  /\ pc = "adding"
  /\ nfreed >= 1
  /\ \E id \in Id :
       /\ Table!Found(id)
       /\ conn' = [conn EXCEPT ![id] = NewConnection]
       /\ freeid' = id
  /\ nfreed' = nfreed - 1
  /\ pc' = "register"
  /\ UNCHANGED <<send_ep, recv_ep, nblocked, inq, inq2, batch, naccepted, unreleased, refreed>>

(* _work_alloc_connection: the connection gets its id, and no socket yet.  *)
Alloc ==
  /\ pc = "adding"
  /\ nfreed >= 1
  /\ \E id \in Id :
       /\ Table!Found(id)
       /\ conn' = [conn EXCEPT ![id] = NewConnection]
       /\ freeid' = id + 1
  /\ nfreed' = nfreed - 1
  /\ pc' = "register"
  /\ UNCHANGED <<send_ep, recv_ep, nblocked, inq, inq2, batch, naccepted, unreleased, refreed>>

NextClient ==
  /\ inq2' = Tail(inq2)
  /\ pc' = IF Len(inq2) = 1 THEN "send" ELSE "adding"
  /\ UNCHANGED batch

(* No connection from ssnpool or no free id: the client is closed. *)
Refuse ==
  /\ pc = "adding"
  /\ NextClient
  /\ Skip

(* The client is registered for its requests, or epoll_ctl fails: it is    *)
(* closed, and the connection freed.                                       *)
Register ==
  /\ pc = "register"
  /\ NextClient
  /\ \E id \in Id :
       /\ conn[id] # NULL
       /\ conn[id].fd.cli = NoFd
       /\ \/ Commit([World(id) EXCEPT !.c.fd.cli = Head(inq2),
                                     !.rcv = @ \cup {<<Head(inq2), id>>}])
          \/ Commit(Free(World(id)))

(* The events of one epoll_wait: any of the registered sockets, or none    *)
(* when it times out.                                                      *)
SendWait ==
  /\ pc = "send"
  /\ nblocked >= 1
  /\ batch' \in SUBSET send_ep
  /\ pc' = IF batch' = {} THEN "recv" ELSE "sending"
  /\ UNCHANGED <<conn, nfreed, freeid, send_ep, recv_ep, nblocked, inq, inq2, naccepted,
                 unreleased, refreed>>

(* _work_send_data returns at once. *)
SendNothing ==
  /\ pc = "send"
  /\ nblocked < 1
  /\ pc' = "recv"
  /\ UNCHANGED <<conn, nfreed, freeid, send_ep, recv_ep, nblocked, inq, inq2, batch,
                 naccepted, unreleased, refreed>>

RecvWait ==
  /\ pc = "recv"
  /\ batch' \in SUBSET recv_ep
  /\ pc' = IF batch' = {} THEN "get" ELSE "receiving"
  /\ UNCHANGED <<conn, nfreed, freeid, send_ep, recv_ep, nblocked, inq, inq2, naccepted,
                 unreleased, refreed>>

(* The next event of the batch. *)
Take(ev, here, next) ==
  /\ pc = here
  /\ ev \in batch
  /\ batch' = batch \ {ev}
  /\ pc' = IF batch' = {} THEN next ELSE here
  /\ UNCHANGED inq2

Sides(ev) == IF conn[ev[2]] = NULL THEN {} ELSE {x \in Side : conn[ev[2]].fd[x] = ev[1]}

(* EPOLLERR frees the connection before its socket is looked at. *)
ErrorEvent(ev) ==
  /\ conn[ev[2]] # NULL
  /\ Commit(Free(World(ev[2])))

SendEvent(ev) ==
  /\ Take(ev, "sending", "recv")
  /\ \/ ErrorEvent(ev)
     \/ /\ "cli" \in Sides(ev)
        /\ \E w \in SendLoop(World(ev[2]), "cli") : Commit(FreeIf(w))
     \/ /\ "svr" \in Sides(ev)
        /\ \E w \in ServerWritable(World(ev[2])) : Commit(w)
     \/ Sides(ev) = {} /\ Skip

RecvEvent(ev) ==
  /\ Take(ev, "receiving", "get")
  /\ \/ ErrorEvent(ev)
     \/ \E x \in Sides(ev) :
          /\ ~conn[ev[2]].block[Other(x)]
          /\ \E w \in Process(World(ev[2]), x) : Commit(w)
     \/ (\A x \in Sides(ev) : conn[ev[2]].block[Other(x)]) /\ Skip

Loop ==
  \/ GetConnections \/ Overflow \/ Alloc \/ Refuse \/ Register
  \/ SendWait \/ SendNothing \/ RecvWait
  \/ \E ev \in Fd \X Id : SendEvent(ev) \/ RecvEvent(ev)

Next == AddConnection \/ Loop

Spec == Init /\ [][Next]_vars

(* The worker runs, and a socket that stays in the send set is reported    *)
(* again and again to a worker that asks: its connect ends, in success or  *)
(* not, and its peer reads or resets.                                      *)
Fairness ==
  /\ WF_vars(Loop)
  /\ \A ev \in Fd \X Id : SF_vars(SendWait /\ ev \in batch')

FairSpec == Spec /\ Fairness

-----------------------------------------------------------------------------
Live == {i \in Id : conn[i] # NULL}

(* The shape of the state; no packet is held as current between events.    *)
TypeOK ==
  /\ conn \in [Id -> Connection \cup {NULL}]
  /\ \A i \in Live, x \in Side : conn[i].q[x].pkt = NoPkt
  /\ nfreed \in Int /\ freeid \in Nat /\ nblocked \in Int
  /\ send_ep \cup recv_ep \cup batch \subseteq (Fd \cup {NoFd}) \X Id
  /\ inq \in Seq(Fd) /\ inq2 \in Seq(Fd)
  /\ pc \in {"get", "adding", "register", "send", "sending", "recv", "receiving",
            "undefined"}
  /\ (pc \in {"sending", "receiving"}) <=> (batch # {})
  /\ (pc \in {"adding", "register"}) <=> (inq2 # <<>>)

(* The epoll sets are what the flags of the connections say: a blocked     *)
(* side or a server being connected is in the send set, a client and a     *)
(* connected server in the receive set, and nothing else is in either: no  *)
(* socket whose connection is gone.  The epoll_ctl deletions rely on it.   *)
Registered ==
  /\ send_ep = {<<conn[ix[1]].fd[ix[2]], ix[1]>> : ix \in
       {p \in Live \X Side : conn[p[1]].block[p[2]] \/ (p[2] = "svr" /\ conn[p[1]].wait)}}
  /\ recv_ep = {<<conn[ix[1]].fd[ix[2]], ix[1]>> : ix \in
       {p \in Live \X Side :
          conn[p[1]].fd[p[2]] # NoFd /\ ~(p[2] = "svr" /\ conn[p[1]].wait)}}

(* send_data asks its epoll set only when nblocked says that something is  *)
(* in it: counted too low, blocked sockets would never be looked at.  The  *)
(* count may be too high (a freed connection is not subtracted), which     *)
(* only costs a wait.                                                      *)
NoMissedWakeup == nblocked >= Cardinality(send_ep)

(* Bytes that wait for a socket have an event that will send them: the     *)
(* socket is blocked, or being connected; and a socket is blocked because  *)
(* of a packet that waits, or of one that was lost.                        *)
NoStranded ==
  \A i \in Live, x \in Side :
    LET q == conn[i].q[x]
        y == Other(x)
    IN /\ Pending(q) # <<>> => conn[i].block[y] \/ (y = "svr" /\ conn[i].wait)
       /\ q.blkpkt # NoPkt => conn[i].block[y]
       /\ conn[i].block[y] => q.blkpkt # NoPkt \/ q.lost > 0

(* nalloced counts the packets the connection has from the pool: those in  *)
(* its queues and those it lost, none of them twice.                       *)
PacketAccounting ==
  \A i \in Live :
    LET q == conn[i].q IN
    conn[i].nalloced = Held(q.cli) + Held(q.svr) + q.cli.lost + q.svr.lost

(* While no packet is lost, what was sent and what waits are the bytes     *)
(* received, in order and each once.  A lost response packet ends the      *)
(* response: nothing waits behind it that could be sent out of place.      *)
StreamIntact ==
  \A i \in Live, x \in Side :
    LET q == conn[i].q[x] IN
    /\ q.lost = 0 =>
         ~q.gap /\ Follows(Pending(q), q.sent) /\ EndOf(Pending(q), q.sent) = q.got
    /\ x = "svr" /\ q.lost > 0 => ~q.gap /\ Pending(q) = <<>>

(* An event still to handle is about a socket its connection has, or about *)
(* a connection that is gone: never about another client that came to the  *)
(* same id, nor a socket that reuses the descriptor.                       *)
RightFd == \A ev \in batch : ev[2] \in Live => Sides(ev) # {}

(* No connection is freed twice, though send_data goes on with one that    *)
(* check_server has failed and freed (line 1229).  Its queues are empty by *)
(* then, so nothing is sent or freed; but it is read, and mempool_put may  *)
(* have given its cache back to the system: a use after free, which this   *)
(* property does not exclude.                                              *)
NoDoubleFree == ~refreed

(* The worker uses the connection table as connection.c has it: each       *)
(* connection is one object with one id, deleted once.                     *)
ImplementsConnTable == Table!Spec

(* A connect in progress comes to an end: the worker learns its result,    *)
(* or the connection goes, as long as inq2 has not overflowed.             *)
WaitResolves ==
  \A i \in Id :
    (i \in Live /\ conn[i].wait) ~> (~(i \in Live /\ conn[i].wait) \/ pc = "undefined")

(* Freeing a connection releases every packet it has from the pool.        *)
ReleasesAll == ~unreleased

=============================================================================
