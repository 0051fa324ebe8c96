----------------------------- MODULE Lifecycle ------------------------------
(***************************************************************************)
(* How the process starts and stops (http/main2.c, http/proxy2.c,          *)
(* http/thread_fun.c): the main thread reads the configuration, makes the  *)
(* pools, starts the workers, the accept and the clock thread, waits for   *)
(* SIGINT, joins all but the clock and frees the pools.  Of the threads,   *)
(* their start and end (http/work2.c, http/accept.c, http/clock.c), the    *)
(* locks for the statistics and the log database, and the accept thread's  *)
(* hold on a worker's queue.                                               *)
(***************************************************************************)
EXTENDS Config, FiniteSets

CONSTANTS
  Files,            \* configuration files
  MAX_CUR_WORK      \* worker threads that are created

ASSUME ThreadAssumption == MAX_CUR_WORK \in Nat \ {0}

VARIABLES
  main,             \* where the main thread is
  file, cfg,        \* the configuration file, and g_cfg as read from it
  pools,            \* the packet and connection pools
  created,          \* threads that thread_create was called for, in order
  signal, stop,     \* a SIGINT is under way to the main thread; g_cfg.stop
  at,               \* per thread, where it is
  priv,             \* per worker, its work_t: "null", "set", "freed"
  held,             \* the worker whose work_t the accept thread has read
  stat, log         \* who holds the lock of the statistics, of the log

processVars == <<main, file, cfg, pools, created, signal, stop, at, priv, held, stat, log>>

Work == 0..(MAX_CUR_WORK - 1)
ACCEPT == MAX_CUR_WORK
CLOCK == MAX_CUR_WORK + 1
Thread == 0..CLOCK
None == -1

nwork == cfg.value["WORK_THREAD"]

ProcessInit ==
  /\ main = "load"
  /\ file \in Files /\ cfg = load_cfg(<<>>)
  /\ pools = "none"
  /\ created = 0
  /\ signal = FALSE /\ stop = FALSE
  /\ at = [t \in Thread |-> "none"]
  /\ priv = [w \in Work |-> "null"]
  /\ held = None
  /\ stat = None /\ log = None

(* The process is gone when the main thread has returned, or anyone        *)
(* crashed; after the accept thread has used what a worker freed, anything *)
(* may happen.                                                             *)
Ended == main \in {"exited", "crashed", "undefined"}

Crash ==
  /\ main' = "crashed"
  /\ UNCHANGED <<file, cfg, pools, created, signal, stop, at, priv, held, stat, log>>

-----------------------------------------------------------------------------
(* The main thread *)

(* main: load_cfg's result is not looked at. *)
LoadCfg ==
  LET read == load_cfg(file)
  IN  /\ main = "load"
      /\ cfg' = read
      /\ main' = IF read.ret = "crash" THEN "crashed" ELSE "init"
      /\ UNCHANGED <<file, pools, created, signal, stop, at, priv, held, stat, log>>

(* _proxy_init; where it fails, _proxy_free takes back what there is. *)
ProxyInit ==
  /\ main = "init"
  /\ \/ main' = "create" /\ pools' = "live"
     \/ main' = "exited" /\ pools' = "freed"
  /\ UNCHANGED <<file, cfg, created, signal, stop, at, priv, held, stat, log>>

(* thread_create, of the workers, the accept thread and the clock thread;  *)
(* only the last one's failure is looked at, and ends the process without  *)
(* waiting for the others.                                                 *)
Create ==
  /\ main = "create"
  /\ created' = created + 1
  /\ \/ /\ at' = [at EXCEPT ![created] = "init"]
        /\ main' = IF created = CLOCK THEN "loop" ELSE "create"
     \/ /\ main' = IF created = CLOCK THEN "exited" ELSE "create"
        /\ UNCHANGED at
  /\ UNCHANGED <<file, cfg, pools, signal, stop, priv, held, stat, log>>

(* _sig_int; a SIGINT that another thread gets is sent on to the main one. *)
SigInt ==
  /\ signal
  /\ signal' = FALSE /\ stop' = TRUE
  /\ UNCHANGED <<main, file, cfg, pools, created, at, priv, held, stat, log>>

(* _proxy_loop sleeps for 5 seconds at most. *)
ProxyLoop ==
  /\ main = "loop" /\ stop
  /\ main' = "join"
  /\ UNCHANGED <<file, cfg, pools, created, signal, stop, at, priv, held, stat, log>>

(* Faulty: waits for as many workers as are configured. *)
Joined_Configured(t) == (t \in Work /\ t >= nwork) \/ at[t] \in {"none", "ended"}

(* thread_join returns at once for a thread that was not created. *)
Joined(t) == at[t] \in {"none", "ended"}

(* The joins, _proxy_free and the return from main. *)
JoinAndFree ==
  /\ main = "join"
  /\ \A t \in Work \cup {ACCEPT} : Joined(t)
  /\ pools' = "freed"
  /\ main' = "exited"
  /\ UNCHANGED <<file, cfg, created, signal, stop, at, priv, held, stat, log>>

MainStep == LoadCfg \/ ProxyInit \/ Create \/ ProxyLoop \/ JoinAndFree

-----------------------------------------------------------------------------
Go(t, place) == at' = [at EXCEPT ![t] = place]

(* Faulty: a thread that cannot start ends without telling anyone. *)
GiveUp_Silent(t) == Go(t, "ended") /\ UNCHANGED signal

(* A thread that cannot start sends SIGINT to the main thread. *)
GiveUp(t) == Go(t, "ended") /\ signal' = TRUE

(* A lock taken, and what it is held for, over. *)
TakeStat(t, from, to) == at[t] = from /\ stat = None /\ stat' = t /\ Go(t, to)
GiveStat(t, from, to) == at[t] = from /\ stat' = None /\ Go(t, to)
TakeLog(t, from, to) == at[t] = from /\ log = None /\ log' = t /\ Go(t, to)
GiveLog(t, from, to) == at[t] = from /\ log' = None /\ Go(t, to)

(* _work_init divides by nwork, unless its first allocation failed. *)
WorkInit(w) ==
  /\ at[w] = "init"
  /\ \/ nwork = 0 /\ Crash
     \/ /\ \/ /\ nwork # 0 /\ Go(w, "loop")
              /\ priv' = [priv EXCEPT ![w] = "set"]
              /\ UNCHANGED signal
           \/ GiveUp(w) /\ UNCHANGED priv
        /\ UNCHANGED <<main, file, cfg, pools, created, stop, held, stat, log>>

(* A turn of _work_loop: connections come and go, and are counted under    *)
(* the statistics' lock; an attack is logged under the log's (where the    *)
(* call of the rule check is compiled in).                                 *)
WorkTurn(w) ==
  /\ \/ at[w] = "loop" /\ ~stop /\ Go(w, "turn") /\ UNCHANGED <<stat, log>>
     \/ at[w] = "turn" /\ Go(w, "loop") /\ UNCHANGED <<stat, log>>
     \/ (TakeStat(w, "turn", "stat") \/ GiveStat(w, "stat", "loop")) /\ UNCHANGED log
     \/ (TakeLog(w, "turn", "log") \/ GiveLog(w, "log", "loop")) /\ UNCHANGED stat
  /\ UNCHANGED <<main, file, cfg, pools, created, signal, stop, priv, held>>

(* _work_free: priv is cleared, and what it pointed to is freed. *)
WorkEnd(w) ==
  /\ at[w] = "loop" /\ stop
  /\ Go(w, "ended")
  /\ priv' = [priv EXCEPT ![w] = "freed"]
  /\ UNCHANGED <<main, file, cfg, pools, created, signal, stop, held, stat, log>>

WorkStep(w) == WorkInit(w) \/ WorkTurn(w) \/ WorkEnd(w)

-----------------------------------------------------------------------------
(* _accept_init needs an address to listen at: one with a family.  When the *)
(* line was refused after its family was read, that is 0.0.0.0, port 0.    *)
AcceptInit ==
  /\ at[ACCEPT] = "init"
  /\ \/ cfg.value["LISTEN_IP"] # 0 /\ Go(ACCEPT, "loop") /\ UNCHANGED signal
     \/ GiveUp(ACCEPT)
  /\ UNCHANGED <<main, file, cfg, pools, created, stop, priv, held, stat, log>>

(* _accept_loop: poll returns after 100 ms at most.  Of a client, work_add *)
(* _connection reads the worker's priv, without a lock.                    *)
Poll ==
  /\ at[ACCEPT] = "loop" /\ ~stop
  /\ \/ Go(ACCEPT, "loop") /\ UNCHANGED held
     \/ \E w \in Work : w < nwork /\ priv[w] = "set" /\ held' = w /\ Go(ACCEPT, "add")
  /\ UNCHANGED <<main, file, cfg, pools, created, signal, stop, priv, stat, log>>

(* The rest of work_add_connection writes to what priv pointed to. *)
AddConnection ==
  /\ at[ACCEPT] = "add"
  /\ held' = None
  /\ IF priv[held] = "freed" THEN main' = "undefined" /\ UNCHANGED at
     ELSE Go(ACCEPT, "count") /\ UNCHANGED main
  /\ UNCHANGED <<file, cfg, pools, created, signal, stop, priv, stat, log>>

Count ==
  /\ TakeStat(ACCEPT, "count", "stat") \/ GiveStat(ACCEPT, "stat", "loop")
  /\ UNCHANGED <<main, file, cfg, pools, created, signal, stop, priv, held, log>>

AcceptEnd ==
  /\ at[ACCEPT] = "loop" /\ stop
  /\ Go(ACCEPT, "ended")
  /\ UNCHANGED <<main, file, cfg, pools, created, signal, stop, priv, held, stat, log>>

AcceptStep == AcceptInit \/ Poll \/ AddConnection \/ Count \/ AcceptEnd

(* clock_run: every 300 s the statistics are logged, with both locks held. *)
ClockStep ==
  /\ \/ at[CLOCK] = "init" /\ Go(CLOCK, "loop") /\ UNCHANGED <<stat, log>>
     \/ at[CLOCK] = "loop" /\ ~stop /\ Go(CLOCK, "sleep") /\ UNCHANGED <<stat, log>>
     \/ TakeStat(CLOCK, "sleep", "stat") /\ UNCHANGED log
     \/ TakeLog(CLOCK, "stat", "log") /\ UNCHANGED stat
     \/ GiveLog(CLOCK, "log", "reset") /\ UNCHANGED stat
     \/ GiveStat(CLOCK, "reset", "loop") /\ UNCHANGED log
     \/ at[CLOCK] = "loop" /\ stop /\ Go(CLOCK, "ended") /\ UNCHANGED <<stat, log>>
  /\ UNCHANGED <<main, file, cfg, pools, created, signal, stop, priv, held>>

-----------------------------------------------------------------------------
(* Someone stops the process once it has told where to send a signal. *)
Interrupt ==
  /\ created > 0 /\ ~signal /\ ~stop
  /\ signal' = TRUE
  /\ UNCHANGED <<main, file, cfg, pools, created, stop, at, priv, held, stat, log>>

ProcessNext ==
  /\ ~Ended
  /\ \/ MainStep \/ SigInt \/ AcceptStep \/ ClockStep \/ Interrupt
     \/ \E w \in Work : WorkStep(w)

Live(A) == ~Ended /\ A

(* Every thread is scheduled, signals arrive, sleep and poll return.       *)
(* Nobody has to interrupt the process.                                    *)
ProcessSpec ==
  /\ ProcessInit /\ [][ProcessNext]_processVars
  /\ WF_processVars(Live(MainStep)) /\ WF_processVars(Live(SigInt))
  /\ WF_processVars(Live(AcceptStep)) /\ WF_processVars(Live(ClockStep))
  /\ \A w \in Work : WF_processVars(Live(WorkStep(w)))

-----------------------------------------------------------------------------
Place ==
  {"none", "init", "loop", "turn", "stat", "log", "add", "count", "sleep", "reset", "ended"}

ThreadsOK ==
  /\ main \in {"load", "init", "create", "loop", "join", "exited", "crashed", "undefined"}
  /\ pools \in {"none", "live", "freed"}
  /\ created \in 0..(CLOCK + 1)
  /\ signal \in BOOLEAN /\ stop \in BOOLEAN
  /\ at \in [Thread -> Place]
  /\ priv \in [Work -> {"null", "set", "freed"}]
  /\ held \in Work \cup {None}
  /\ {stat, log} \subseteq Thread \cup {None}

Uses(t) == at[t] \notin {"none", "ended"}

(* _proxy_free comes last: no worker and not the accept thread is left     *)
(* when the pools go, however many were configured, and a worker's queue   *)
(* goes only when the process stops.                                       *)
FreedLast ==
  /\ pools = "freed" => \A t \in Work \cup {ACCEPT} : ~Uses(t)
  /\ (main = "undefined" \/ \E w \in Work : priv[w] = "freed") => stop

(* SIGINT ends the process, whoever holds a lock or waits for one; and a   *)
(* process whose accept thread has no address family to listen with ends   *)
(* by itself.                                                              *)
(* (Afterwards the accept thread may be using a queue that is gone: then   *)
(* nothing is promised.)                                                   *)
Stops ==
  (signal \/ stop \/ (main = "loop" /\ at[ACCEPT] # "none" /\ cfg.value["LISTEN_IP"] = 0)) ~> Ended

=============================================================================
