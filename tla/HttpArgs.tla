------------------------------ MODULE HttpArgs ------------------------------
(* http/http_arg.c: the arguments of a URL or of a body, which may come in *)
(* pieces.                                                                 *)
EXTENDS Http

CONSTANTS BEHIND    \* the byte behind the text that is given

(* http_get_empty_arg: the next slot becomes arg->cur, NULL when all are   *)
(* taken.                                                                  *)
http_get_empty_arg(h) ==
  IF Len(h.arg) >= MAX_ARGS THEN [h EXCEPT !.arg_cur = NULL]
  ELSE [h EXCEPT !.arg = Append(@, http_arg_t), !.arg_cur = Len(h.arg) + 1]

(* A decoded text takes the place of the text only when it is shorter. *)
Shortened(text, flags) ==
  LET IfShorter(decoded) ==
        IF decoded # <<>> /\ Len(decoded) < Len(text) THEN decoded ELSE text
  IN  IfShorter(IF text = <<>> THEN <<>> ELSE http_decode_string(text, flags))

http_decode_arg(item) ==
  IF item.decode_flag = {} THEN item
  ELSE [f \in DOMAIN item |->
          IF f \in {"name", "value"} THEN Shortened(item[f], item.decode_flag) ELSE item[f]]

(* http_append_arg on arg->cur.  A form may call it when there is none,    *)
(* and reads the flag of that.                                             *)
http_append_arg(h, data) ==
  IF data = <<>> THEN h
  ELSE IF h.arg_cur = NULL THEN [h EXCEPT !.crashed = TRUE]
  ELSE LET item == h.arg[h.arg_cur]
           field == IF item.arg_flag = 0 THEN "name" ELSE "value"
       IN  [h EXCEPT !.arg[h.arg_cur] =
                       http_decode_arg([item EXCEPT ![field] = http_append_str(@, data)])]

SetCur(h, field, value) == [h EXCEPT !.arg[h.arg_cur][field] = value]

(* The rest of a name or a value, and the NUL behind it. *)
Finish(h, rest, flag) == SetCur(Read(http_append_arg, h, <<rest, <<NUL>>>>), flag, 1)

(* One piece of text under way: the record, where the run of characters    *)
(* not yet appended begins (tmp_data, NULL for none) and how long it is,   *)
(* and whether no slot was left.                                           *)
Run(p, data) ==
  IF p.tmp_data = NULL THEN <<>>
  ELSE [i \in 1..p.tmp_len |-> LET j == p.tmp_data + i - 1 IN IF j <= Len(data) THEN data[j] ELSE BEHIND]

(* A character of a name or a value, with what it says about decoding. *)
TakeChar(p, i, c, in_url) ==
  LET flags == IF c \in {PERCENT, PLUS} THEN {URL} ELSE IF c = BACKSLASH THEN {ESCAPE} ELSE {}
  IN  [p EXCEPT !.tmp_data = IF @ = NULL THEN i ELSE @,
                !.tmp_len = @ + 1,
                !.h.arg[p.h.arg_cur].decode_flag = @ \cup flags,
                !.h.url_arg_len = IF in_url THEN @ + 1 ELSE @]

(* "&": the argument is complete, and the next one takes a slot. *)
NextArg(p, data, in_url) ==
  LET Begun(h) == [h |-> h, tmp_data |-> NULL, tmp_len |-> 0, full |-> h.arg_cur = NULL]
  IN  Begun(http_get_empty_arg(
              [SetCur(http_append_arg(p.h, Run(p, data)), "complete_flag", 1)
               EXCEPT !.url_arg_cnt = IF in_url THEN @ + 1 ELSE @]))

(* Faulty: every "=" ends the name. *)
EndName_Every(p, data) ==
  [p EXCEPT !.h = Finish(@, Run(p, data), "arg_flag"), !.tmp_data = NULL, !.tmp_len = 0]

(* "=": the first one ends the name; the others are part of the value,     *)
(* though one at the start of a piece has no tmp_data to count from.       *)
EndName(p, data) ==
  IF p.h.arg[p.h.arg_cur].arg_flag = 1 THEN [p EXCEPT !.tmp_len = @ + 1]
  ELSE [p EXCEPT !.h = Finish(@, Run(p, data), "arg_flag"), !.tmp_data = NULL, !.tmp_len = 0]

ArgChar(p, i, data, in_url) ==
  LET c == data[i]
  IN  IF p.full THEN p
      ELSE IF c = AMP THEN NextArg(p, data, in_url)
      ELSE IF c = EQUALS THEN EndName(p, data)
      ELSE TakeChar(p, i, c, in_url)

(* At the end of a URL, and of a body as far as the parser knows, the last *)
(* argument is complete.                                                   *)
EndArgs(p, data, in_url) ==
  IF p.full THEN p.h
  ELSE IF ~in_url /\ p.h.st # "NONE" THEN http_append_arg(p.h, Run(p, data))
  ELSE [Finish(p.h, Run(p, data), "complete_flag")
        EXCEPT !.url_arg_cnt = IF in_url THEN @ + 1 ELSE @]

_http_parse_args(h, data, in_url) ==
  LET open == IF h.arg_cur = NULL THEN http_get_empty_arg(h) ELSE h
  IN  IF open.arg_cur = NULL THEN h
      ELSE EndArgs(Read(LAMBDA p, i : ArgChar(p, i, data, in_url),
                        [h |-> open, tmp_data |-> NULL, tmp_len |-> 0, full |-> FALSE],
                        [i \in DOMAIN data |-> i]),
                   data, in_url)

=============================================================================
