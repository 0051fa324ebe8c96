------------------------------ MODULE HttpBody ------------------------------
(* http/http_body.c: a piece of a body, which may be chunked. *)
EXTENDS HttpForm

(* http_read_line, of one character: whether it ends a line. *)
http_read_line(h, c) ==
  LET line == Append(h.cache_buf, c)
      ends == strlstr(line, CRLF) # 0
  IN  IF Len(line) > CACHE THEN [h |-> h, ends |-> FALSE]
      ELSE [h |-> [h EXCEPT !.cache_buf = IF ends THEN <<>> ELSE line], ends |-> ends]

(* strtol of a line, base 16: blanks, a sign and "0x" may come first. *)
ChunkSize(line) ==
  LET char(i) == IF i <= Len(line) THEN line[i] ELSE NUL
      sign == RunEnd(line, 1, isspace)
      begin == IF char(sign) \in {PLUS, DASH} THEN sign + 1 ELSE sign
      prefix == char(begin) = 48 /\ char(begin + 1) \in {88, 120} /\ isxdigit(char(begin + 2))
      digits == IF prefix THEN begin + 2 ELSE begin
      size == ToNumber(SubSeq(line, digits, RunEnd(line, digits, isxdigit) - 1), 16)
  IN  IF char(sign) = DASH THEN -size ELSE size

(* Faulty: the line break behind a chunk is not counted. *)
BeginChunk_NoBreak(h, size) ==
  IF size = 0 THEN [h EXCEPT !.un_recv_chunked_len = 2, !.chunk_flag = "FIN"]
  ELSE [h EXCEPT !.un_recv_chunked_len = size]

(* A chunk of a size, or the last one, and the line break behind it; the   *)
(* flag of a last one stays.  A size below zero is kept as it is.          *)
BeginChunk(h, size) ==
  IF size = 0 THEN [h EXCEPT !.un_recv_chunked_len = 2, !.chunk_flag = "FIN"]
  ELSE [h EXCEPT !.un_recv_chunked_len = IF size < 0 THEN size ELSE size + 2]

(* recv_chunk on one character: it passes over what is still to be         *)
(* received, which the code does in one step, and stops at the end of the  *)
(* last chunk and at a size below zero; all else is part of a size.        *)
ChunkChar(p, c) ==
  LET left == p.h.un_recv_chunked_len - 1
      over == left = 0
      fin == p.h.chunk_flag = "FIN"
      line == http_read_line(p.h, c)
      size == ChunkSize(p.h.cache_buf)
  IN  IF p.stop THEN p
      ELSE IF p.h.un_recv_chunked_len > 0
      THEN [h |-> [p.h EXCEPT !.un_recv_chunked_len = left,
                              !.chunk_flag = IF over /\ ~fin THEN "SIZE" ELSE @],
            stop |-> over /\ fin]
      ELSE IF line.ends THEN [h |-> BeginChunk(line.h, size), stop |-> size < 0]
      ELSE [p EXCEPT !.h = line.h]

recv_chunk(h, data) ==
  LET AtEnd(r) == IF r.chunk_flag = "FIN" /\ r.un_recv_chunked_len = 0
                  THEN http_set_state(r, "NONE") ELSE r
  IN  AtEnd(Read(ChunkChar, [h |-> h, stop |-> FALSE], data).h)

(* http_parse_body_args: the arguments are looked for in what was          *)
(* received, the framing of chunks included.                               *)
http_parse_body_args(h, data) ==
  IF h.content_type = "MULTIFORM" THEN http_parse_form(h, data)
  ELSE IF h.content_type = "AMF" THEN h
  ELSE _http_parse_args(h, data, FALSE)

(* http_parse_body.  Nothing sets un_recv_content_len to the length of a   *)
(* body: it only falls, and any piece of a body that is not chunked is     *)
(* taken for its end.                                                      *)
http_parse_body(h, data) ==
  IF data = <<>> THEN h
  ELSE LET counted == [h EXCEPT !.body_len = @ + Len(data)]
       IN  http_parse_body_args(
             IF h.is_chunked THEN recv_chunk(counted, data) ELSE http_set_state(counted, "NONE"),
             data)

=============================================================================
