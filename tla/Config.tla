------------------------------- MODULE Config -------------------------------
(* http/load_cfg.c: what of waf.cfg reaches g_cfg.  A line is known by the *)
(* keys it mentions, whether it is a comment, its second field, whether    *)
(* there is such a field, and whether the line ends before the buffer of   *)
(* fgets does.  A number is what the field reads as.  Of an address there  *)
(* is whether ip_port_from_str refuses it, and what it puts into g_cfg: 0  *)
(* when it leaves the family as it is.  The family is written before the   *)
(* address is looked at, so one that is refused may still leave a family   *)
(* (ip_addr.c:279-285), and one with a blank is taken and leaves none      *)
(* (ip_addr.c:274).                                                        *)
EXTENDS Integers, SequencesExt

(* The readers, in the order in which load_cfg calls them. *)
Keys == <<"LISTEN_IP", "REAL_IP", "DB_PASSWD", "DB_USER", "DB_NAME", "DB_IP", "WAF_ID", "WORK_THREAD">>

Address == {"LISTEN_IP", "REAL_IP"}
Database == {"DB_PASSWD", "DB_USER", "DB_NAME", "DB_IP"}

Line(mentions, value) ==
  [mentions |-> mentions, value |-> value, bad |-> FALSE, comment |-> FALSE, field |-> TRUE,
   newline |-> TRUE]

(* One of the _get_ functions: the first line that mentions its key counts *)
(* if it is no comment, wherever in the line the key stands.  Without a    *)
(* field or, of a database's name, a line end, a null pointer is used.     *)
Reader(cfg, file, key) ==
  LET lines == SelectSeq(file, LAMBDA l : ~l.comment /\ key \in l.mentions)
      line == Head(lines)
  IN  IF cfg.ret # "ok" \/ lines = <<>> THEN cfg
      ELSE IF key \in Address /\ ~line.field THEN [cfg EXCEPT !.ret = "error"]
      ELSE IF key \in Address /\ line.bad THEN
             [cfg EXCEPT !.ret = "error", !.value[key] = line.value]
      ELSE IF ~line.field \/ (key \in Database /\ ~line.newline) THEN [cfg EXCEPT !.ret = "crash"]
      ELSE [cfg EXCEPT !.value[key] = line.value]

(* load_cfg stops at the first error; what it has read stays, and what it  *)
(* has not is 0.                                                           *)
load_cfg(file) ==
  FoldLeft(LAMBDA cfg, key : Reader(cfg, file, key),
           [ret |-> "ok", value |-> [k \in Address \cup Database \cup {"WAF_ID", "WORK_THREAD"} |-> 0]],
           Keys)

=============================================================================
