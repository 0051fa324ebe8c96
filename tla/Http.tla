-------------------------------- MODULE Http --------------------------------
(* http_t, what the parser knows of a request (http/http.h), and the       *)
(* helpers of http/http_basic.c that write it.  The fields of its parts    *)
(* local, logic, http_int, str, arg and file are fields of one record.     *)
EXTENDS Decode

CONSTANTS
  MAX_STR,          \* bytes in a string that grows (4096 in http_append_str)
  CACHE,            \* bytes in cache_buf (512)
  MAX_ARGS,         \* arguments of a request (32)
  MAX_FILES,        \* files of a request (8)
  HTTP_FILE_MAX_LEN \* bytes kept of a file (550)

ASSUME SizeAssumption ==
  {MAX_STR, CACHE, MAX_ARGS, MAX_FILES, HTTP_FILE_MAX_LEN} \subseteq Nat \ {0}

NULL == 0

(* The strings of http_str_t that a request has. *)
Str == {"raw_url", "url", "url_and_arg", "host", "agent", "auth", "auth_user", "auth_pass",
        "reference", "location", "content_type", "boundary", "cookie"}

(* A slot of http_arg_ctrl_t and of http_file_ctrl_t. *)
http_arg_t == [name |-> <<>>, value |-> <<>>, complete_flag |-> 0, arg_flag |-> 0, decode_flag |-> {}]
http_file_t == [name |-> <<>>, value |-> <<>>, complete_flag |-> 0, raw_file_len |-> 0]

(* A connection's http_t before its first byte. *)
http_t ==
  [state |-> 0, st |-> "INIT", method |-> NULL, content_type |-> "NONE", is_chunked |-> FALSE,
   str |-> [s \in Str |-> <<>>],
   header_len |-> 0, content_len |-> 0, max_header_line_len |-> 0, body_len |-> 0,
   url_arg_len |-> 0, url_arg_cnt |-> 0, header_line_num |-> 0, header_cookie_num |-> 0,
   header_range_num |-> 0,
   arg |-> <<>>, arg_cur |-> NULL, file |-> <<>>, file_cur |-> NULL,
   un_recv_chunked_len |-> 0, chunk_flag |-> "NONE", cache_buf |-> <<>>,
   form_status |-> "BEGIN", form_flag |-> "ARG",
   myform_label_num |-> 0, myform_label_state |-> "NONE", null_file |-> FALSE,
   form_header_state |-> 0, boundary_cnt |-> 0, tmp_flag |-> {}, crashed |-> FALSE]

(* Faulty: the strings of the request before stay. *)
http_init_KeepStr(h) ==
  [h EXCEPT !.form_status = "BEGIN", !.form_flag = "ARG",
            !.header_len = 0, !.content_len = 0, !.max_header_line_len = 0, !.body_len = 0,
            !.url_arg_len = 0, !.url_arg_cnt = 0, !.header_line_num = 0,
            !.header_cookie_num = 0, !.header_range_num = 0,
            !.arg = <<>>, !.arg_cur = NULL]

(* http_init, at the start of every head: the strings, the numbers and the *)
(* arguments go; the files, logic_t and most of local_t stay.              *)
http_init(h) ==
  [h EXCEPT !.form_status = "BEGIN", !.form_flag = "ARG", !.str = http_t.str,
            !.header_len = 0, !.content_len = 0, !.max_header_line_len = 0, !.body_len = 0,
            !.url_arg_len = 0, !.url_arg_cnt = 0, !.header_line_num = 0,
            !.header_cookie_num = 0, !.header_range_num = 0,
            !.arg = <<>>, !.arg_cur = NULL]

(* What http_set_str stores of a text: it is decoded once, when its line   *)
(* needs it.  The NUL behind it is left out: the code writes it at the     *)
(* length before decoding (http_basic.c:122), so that a text which became  *)
(* shorter has none, and a byte beyond what was allocated may be written.  *)
Stored(data, flags) ==
  LET OrRaw(decoded) == IF decoded = <<>> THEN data ELSE decoded
  IN  OrRaw(IF flags = {} THEN <<>> ELSE http_decode_string(data, flags))

http_set_str(h, s, data) ==
  IF data = <<>> THEN h ELSE [h EXCEPT !.str[s] = Stored(data, h.tmp_flag)]

(* http_append_str: what no longer fits is dropped; a first piece is not   *)
(* measured (http_set_str_no_null).                                        *)
http_append_str(str, data) ==
  IF str = <<>> \/ Len(str) + Len(data) < MAX_STR THEN str \o data ELSE str

http_set_state(h, state) == [h EXCEPT !.st = state]

=============================================================================
