------------------------------ MODULE Dispatch ------------------------------
(***************************************************************************)
(* How clients reach the workers: the accept thread (http/accept.c) gives  *)
(* each client to a worker in turn, through the worker's input queue; the  *)
(* workers (http/work2.c) make a connection of it and end it; all of them  *)
(* and the clock thread (http/clock.c) update the live counters of         *)
(* g_cfg.stat.  What a worker does with a connection while it lives is in  *)
(* module Worker.                                                          *)
(*                                                                         *)
(* A step is a section under one lock, or what a thread does alone between *)
(* two of them.                                                            *)
(***************************************************************************)
EXTENDS Integers, Sequences, FiniteSets

CONSTANTS
  MaxClient,        \* bound: clients that come
  nwork,            \* workers the configuration asks for (WORK_THREAD)
  MAX_CUR_WORK,     \* worker threads that are created
  max,              \* "max concurrent session"
  Room,             \* clients that inq2 has room for
  WORD              \* the counters are unsigned, modulo WORD (2^64 in the code)

ASSUME ClientAssumption == MaxClient \in Nat
ASSUME NworkAssumption == nwork \in Nat \ {0}
ASSUME ThreadAssumption == MAX_CUR_WORK \in Nat
ASSUME MaxAssumption == max \in Nat \ {0}
ASSUME RoomAssumption == Room \in Nat
ASSUME WordAssumption == WORD \in Nat /\ WORD > max

VARIABLES
  came,             \* clients accepted so far
  acc, clifd,       \* accept thread: where it is, and the client in its hand
  index,            \* ai->index: the worker that is next
  ready,            \* workers whose priv is set
  inq, inq2,        \* per worker, its input queue, and the clients taken from it
  conns,            \* per worker, the clients that have a connection
  uncount,          \* per worker: a connection is freed and nowlive-- is to come
  closed,           \* clients closed
  nlive, nowlive,   \* g_cfg.stat
  corrupt,          \* a worker has written behind its inq2
  refused,          \* history: clients that were counted and got no connection
  given             \* history: per worker, clients put on its queue

queues == <<inq, inq2, conns>>
threads == <<came, acc, clifd, index, ready, queues, uncount, closed, nlive, nowlive,
             refused, given>>
vars == <<threads, corrupt>>

(* Clients are numbered as they are accepted. *)
Client == 1..MaxClient

NoClient == 0

Worker == 0..(nwork - 1)

maxfds == (max \div nwork) + 1

-----------------------------------------------------------------------------
Init ==
  /\ came = 0
  /\ acc = "poll" /\ clifd = NoClient
  /\ index = 0
  /\ ready = {}
  /\ inq = [w \in Worker |-> <<>>] /\ inq2 = [w \in Worker |-> <<>>]
  /\ conns = [w \in Worker |-> {}]
  /\ uncount = [w \in Worker |-> FALSE]
  /\ closed = {}
  /\ nlive = 0 /\ nowlive = 0
  /\ corrupt = FALSE
  /\ refused = 0
  /\ given = [w \in Worker |-> 0]

(* work_run: _work_init ends with the assignment of priv.  The accept       *)
(* thread may be running before.                                           *)
StartWorker(w) ==
  /\ w < MAX_CUR_WORK
  /\ w \notin ready
  /\ ready' = ready \cup {w}
  /\ UNCHANGED <<came, acc, clifd, index, queues, uncount, closed, nlive, nowlive,
                 refused, given>>

-----------------------------------------------------------------------------
(* _accept_client *)

Accept ==
  /\ acc = "poll"
  /\ came < MaxClient
  /\ came' = came + 1
  /\ acc' = "check" /\ clifd' = came + 1
  /\ UNCHANGED <<index, ready, queues, uncount, closed, nlive, nowlive, refused, given>>

CloseInHand ==
  /\ closed' = closed \cup {clifd}
  /\ acc' = "poll" /\ clifd' = NoClient
  /\ UNCHANGED <<came, index, ready, queues, uncount, nlive, nowlive, refused, given>>

(* "check concurrency is exceed or not": nlive is read without the lock. *)
Check ==
  /\ acc = "check"
  /\ \/ nlive >= max /\ CloseInHand
     \/ /\ nlive < max
        /\ acc' = "assign"
        /\ UNCHANGED <<came, clifd, index, ready, queues, uncount, closed, nlive,
                       nowlive, refused, given>>

(* work_add_connection, under the lock of the worker's queue.  When the    *)
(* worker is not ready or its queue is full, the client is closed and the  *)
(* same worker stays the next.                                             *)
Assign ==
  /\ acc = "assign"
  /\ \/ /\ index \in ready /\ Len(inq[index]) < maxfds
        /\ inq' = [inq EXCEPT ![index] = Append(@, clifd)]
        /\ given' = [given EXCEPT ![index] = @ + 1]
        /\ acc' = "count" /\ clifd' = NoClient
        /\ UNCHANGED <<came, index, ready, inq2, conns, uncount, closed, nlive,
                       nowlive, refused>>
     \/ /\ index \in ready => Len(inq[index]) >= maxfds
        /\ CloseInHand

(* Faulty: keeps the worker. *)
Count_NoRotate ==
  /\ acc = "count"
  /\ nlive' = (nlive + 1) % WORD /\ nowlive' = (nowlive + 1) % WORD
  /\ acc' = "poll"
  /\ UNCHANGED <<came, clifd, index, ready, queues, uncount, closed, refused, given>>

(* The statistics, under their lock, and the next worker. *)
Count ==
  /\ acc = "count"
  /\ nlive' = (nlive + 1) % WORD /\ nowlive' = (nowlive + 1) % WORD
  /\ index' = (index + 1) % nwork
  /\ acc' = "poll"
  /\ UNCHANGED <<came, clifd, ready, queues, uncount, closed, refused, given>>

-----------------------------------------------------------------------------
(* A worker *)

Free(w) == w \in ready /\ ~uncount[w]

(* Faulty: takes one client and empties the queue. *)
Take_One(w) ==
  /\ Free(w)
  /\ inq2[w] = <<>> /\ inq[w] # <<>> /\ Len(inq[w]) <= Room
  /\ inq2' = [inq2 EXCEPT ![w] = <<Head(inq[w])>>]
  /\ inq' = [inq EXCEPT ![w] = <<>>]
  /\ UNCHANGED <<came, acc, clifd, index, ready, conns, uncount, closed, nlive, nowlive,
                 refused, given>>

(* _work_get_connection copies and empties the queue under its lock. *)
Take(w) ==
  /\ Free(w)
  /\ inq2[w] = <<>> /\ inq[w] # <<>> /\ Len(inq[w]) <= Room
  /\ inq2' = [inq2 EXCEPT ![w] = inq[w]]
  /\ inq' = [inq EXCEPT ![w] = <<>>]
  /\ UNCHANGED <<came, acc, clifd, index, ready, conns, uncount, closed, nlive, nowlive,
                 refused, given>>

(* inq2 is allocated for maxfds pointers, not for maxfds workfd_t: a long   *)
(* queue is copied over the end of it, and what the heap's owners do from  *)
(* then on is undefined.                                                   *)
Overflow(w) ==
  /\ ~corrupt
  /\ Free(w)
  /\ inq2[w] = <<>> /\ Len(inq[w]) > Room
  /\ corrupt' = TRUE
  /\ UNCHANGED threads

NextTaken(w) ==
  /\ Free(w)
  /\ inq2[w] # <<>>
  /\ inq2' = [inq2 EXCEPT ![w] = Tail(@)]
  /\ UNCHANGED <<came, acc, clifd, index, ready, inq, nlive, nowlive, given>>

(* The client gets one of the max entries of the worker's table. *)
Serve(w) ==
  /\ NextTaken(w)
  /\ Cardinality(conns[w]) < max
  /\ conns' = [conns EXCEPT ![w] = @ \cup {Head(inq2[w])}]
  /\ UNCHANGED <<uncount, closed, refused>>

(* No connection object, or the table is full: nothing is counted. *)
Refuse(w) ==
  /\ NextTaken(w)
  /\ closed' = closed \cup {Head(inq2[w])}
  /\ refused' = refused + 1
  /\ UNCHANGED <<conns, uncount>>

(* epoll_ctl fails: the connection just made is freed. *)
ServeFails(w) ==
  /\ NextTaken(w)
  /\ closed' = closed \cup {Head(inq2[w])}
  /\ uncount' = [uncount EXCEPT ![w] = TRUE]
  /\ UNCHANGED <<conns, refused>>

(* _work_free_connection up to the statistics. *)
End(w, c) ==
  /\ Free(w)
  /\ inq2[w] = <<>>
  /\ c \in conns[w]
  /\ conns' = [conns EXCEPT ![w] = @ \ {c}]
  /\ closed' = closed \cup {c}
  /\ uncount' = [uncount EXCEPT ![w] = TRUE]
  /\ UNCHANGED <<came, acc, clifd, index, ready, inq, inq2, nlive, nowlive, refused, given>>

(* Its last lines, under the statistics' lock. *)
Uncount(w) ==
  /\ uncount[w]
  /\ nowlive' = (nowlive - 1) % WORD
  /\ uncount' = [uncount EXCEPT ![w] = FALSE]
  /\ UNCHANGED <<came, acc, clifd, index, ready, queues, closed, nlive, refused, given>>

WorkerStep(w) ==
  \/ StartWorker(w) \/ Take(w) \/ Serve(w) \/ Refuse(w) \/ ServeFails(w) \/ Uncount(w)

-----------------------------------------------------------------------------
(* Faulty: resets both counters. *)
UpdateTraffic_Both ==
  /\ nlive' = 0 /\ nowlive' = 0
  /\ UNCHANGED <<came, acc, clifd, index, ready, queues, uncount, closed, refused, given>>

(* _update_traffic of the clock thread, every 300 s, under the lock. *)
UpdateTraffic ==
  /\ nlive' = 0
  /\ UNCHANGED <<came, acc, clifd, index, ready, queues, uncount, closed, nowlive,
                 refused, given>>

AcceptStep == Check \/ Assign \/ Count

ThreadStep ==
  \/ Accept \/ AcceptStep
  \/ \E w \in Worker : WorkerStep(w) \/ \E c \in Client : End(w, c)
  \/ UpdateTraffic

(* A step of the threads while the heap is sound. *)
Sound(A) == ~corrupt /\ A /\ UNCHANGED corrupt

Next == Sound(ThreadStep) \/ \E w \in Worker : Overflow(w)

Spec == Init /\ [][Next]_vars

(* The threads run: accept goes on with the client in its hand, a worker   *)
(* with its start, its queue and the connection it is freeing.  No client  *)
(* has to come, nor to leave.                                              *)
FairSpec ==
  /\ Spec
  /\ WF_vars(Sound(AcceptStep))
  /\ \A w \in Worker : WF_vars(Sound(WorkerStep(w)) \/ Overflow(w))

-----------------------------------------------------------------------------
Elements(s) == {s[i] : i \in DOMAIN s}

(* Queues and tables stay within their sizes (work_add_connection tests    *)
(* ninq, connection_table_add tests nfreed), the counters in their words.  *)
StateOK ==
  /\ came \in 0..MaxClient
  /\ acc \in {"poll", "check", "assign", "count"}
  /\ clifd \in Client \cup {NoClient}
  /\ clifd # NoClient <=> acc \in {"check", "assign"}
  /\ index \in Worker /\ ready \subseteq Worker
  /\ inq \in [Worker -> Seq(Client)] /\ inq2 \in [Worker -> Seq(Client)]
  /\ conns \in [Worker -> SUBSET Client]
  /\ \A w \in Worker : Len(inq[w]) <= maxfds /\ Len(inq2[w]) <= maxfds /\ Cardinality(conns[w]) <= max
  /\ uncount \in [Worker -> BOOLEAN]
  /\ closed \subseteq Client
  /\ nlive \in 0..(WORD - 1) /\ nowlive \in 0..(WORD - 1)
  /\ refused \in Nat /\ given \in [Worker -> Nat]

TypeOK == StateOK /\ corrupt \in BOOLEAN

(* The places a client may be, with its position in the queues. *)
Positions(queue, c) ==
  {p \in Worker \X (1..maxfds) : p[2] \in DOMAIN queue[p[1]] /\ queue[p[1]][p[2]] = c}

Places(c) ==
  {<<"hand">> : x \in {c} \cap {clifd}}
    \cup {<<"inq", p>> : p \in Positions(inq, c)}
    \cup {<<"inq2", p>> : p \in Positions(inq2, c)}
    \cup {<<"conns", w>> : w \in {v \in Worker : c \in conns[v]}}
    \cup {<<"closed">> : x \in {c} \cap closed}

(* Between the accept thread and the workers no client is lost, nor served *)
(* by two workers, nor twice by one, nor served after its socket is closed. *)
OnePlace == \A c \in 1..came : Cardinality(Places(c)) = 1

(* The sessions: clients handed over that no worker is done with. *)
Sessions ==
  UNION {Elements(inq[w]) \cup Elements(inq2[w]) \cup conns[w] : w \in Worker}

(* nowlive, updated after the fact by the accept thread and the workers,   *)
(* is the number of sessions, but for a client handed over and not counted *)
(* yet (one less: 2^64 - 1 when that client is already gone), a connection *)
(* freed and not counted off yet, and the clients refused by a worker,     *)
(* that are never counted off.                                             *)
LiveAccounting ==
  nowlive =
    (Cardinality(Sessions) + refused + Cardinality({w \in Worker : uncount[w]})
       - (IF acc = "count" THEN 1 ELSE 0)) % WORD

(* The workers take turns, whoever was refused on the way: no worker got   *)
(* two clients more than another.                                          *)
Balanced == \A v, w \in Worker : given[v] <= given[w] + 1

(* A client that was accepted is not forgotten: it gets its connection or  *)
(* is closed, unless a worker writes behind its inq2 before.               *)
Settles ==
  \A c \in Client :
    (c <= came) ~> (corrupt \/ c \in closed \cup UNION {conns[w] : w \in Worker})

=============================================================================
