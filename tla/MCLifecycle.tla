---------------------------- MODULE MCLifecycle -----------------------------
(* Two workers, and files that are complete, ask for one worker, have no   *)
(* address, name no number of workers, break off early at an address that  *)
(* is refused (whose family is known, or not), or crash.                   *)
EXTENDS Lifecycle

Good(n) ==
  <<Line({"LISTEN_IP"}, 1), Line({"REAL_IP"}, 1), Line({"DB_NAME"}, 1), Line({"WORK_THREAD"}, n)>>

Refused(key, value) == [Line({key}, value) EXCEPT !.bad = TRUE]

MCFiles ==
  {Good(2), Good(1), Tail(Good(2)), SubSeq(Good(2), 1, 3),
   <<Line({"LISTEN_IP"}, 1), Refused("REAL_IP", 0), Line({"WORK_THREAD"}, 2)>>,
   <<Line({"DB_NAME", "WORK_THREAD"}, 1), Line({"WORK_THREAD"}, 2), Line({"LISTEN_IP"}, 0)>>,
   <<Refused("LISTEN_IP", 1), Line({"WORK_THREAD"}, 2)>>,
   <<Refused("LISTEN_IP", 0), Line({"WORK_THREAD"}, 2)>>,
   <<[Line({"DB_IP"}, 1) EXCEPT !.newline = FALSE]>>}

=============================================================================
