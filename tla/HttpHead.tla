------------------------------ MODULE HttpHead ------------------------------
(* http/http.c, http/http_header.c, http/http_table.c: where a head ends,  *)
(* its request line, and the headers the program keeps.                    *)
EXTENDS HttpBody, Base64

CONSTANTS MAX_TYPE    \* bytes from which on what follows a content type is not read (4096)

ASSUME TypeAssumption == MAX_TYPE \in Nat

-----------------------------------------------------------------------------
(* s_http_parse: the end of a head, which may come in pieces *)

jump_buf == CRLF \o CRLF

(* Faulty: a character that does not fit is not tried as a new beginning. *)
JumpNext_NoRestart(lstate, c) == IF lstate < 4 /\ c = jump_buf[lstate + 1] THEN lstate + 1 ELSE 0

(* After a match the next character is compared with the NUL behind        *)
(* jump_buf, which no text has.                                            *)
JumpNext(lstate, c) ==
  IF lstate < 4 /\ c = jump_buf[lstate + 1] THEN lstate + 1
  ELSE IF c = jump_buf[1] THEN 1 ELSE 0

(* The state after data, and how much of data was read. *)
s_http_parse(state, data) ==
  LET Step(p, c) ==
        IF p.n > 0 /\ p.state = 4 THEN p ELSE [state |-> JumpNext(p.state, c), n |-> p.n + 1]
  IN  Read(Step, [state |-> state, n |-> 0], data)

-----------------------------------------------------------------------------
(* The request line *)

(* http_methods: the methods with the same first two letters share a row,  *)
(* and a row's first value stands for all of them.                         *)
http_methods ==
  {<<CONNECT, COPY>>, <<DELETE>>, <<HEAD>>, <<GET>>, <<LOCK>>, <<MKCOL>>, <<MOVE>>, <<OPTIONS>>,
   <<POST>>, <<PUT>>, <<PROPFIND, PROPPATCH>>, <<TRACE>>, <<UNLOCK>>}

MethodValue(word) ==
  LET row == {r \in http_methods : \E i \in DOMAIN r : r[i] = word}
      webdav == {LOCK, MKCOL, MOVE, PROPFIND, UNLOCK}
      first == (CHOOSE r \in row : TRUE)[1]
  IN  IF row = {} THEN METHOD_NA ELSE IF first \in webdav THEN WEBDAV ELSE first

UrlArgs(h, args) == [_http_parse_args(h, args, TRUE) EXCEPT !.arg_cur = NULL]

(* http_myparse_method, of what follows the method: the URL ends before    *)
(* the version, whatever that is; the question mark is looked for in all   *)
(* of it, and the path before one in the version goes as far.              *)
http_myparse_method(h, data) ==
  LET line == SubSeq(data, 1, Len(data) - 2)
      begin == RunEnd(line, 1, LAMBDA c : isspace(c) \/ c = COLON)
      text == strlstrip(line)
      tmp == strlstr(data, <<QUESTION>>)
      raw == IF text = <<>> THEN h ELSE [h EXCEPT !.str.raw_url = text]
      whole == http_set_str(raw, "url_and_arg", text)
  IN  IF tmp = 0 THEN http_set_str(whole, "url", text)
      ELSE UrlArgs(http_set_str(whole, "url", SubSeq(data, begin, tmp - 1)),
                   SubSeq(data, tmp + 1, begin + Len(text) - 1))

(* parse_method; a line without a blank is no request line. *)
parse_method(h, line) ==
  LET blank == strlstr(line, <<SP>>)
      method == strlstrip(SubSeq(line, 1, blank - 1))
  IN  IF blank = 0 THEN h
      ELSE http_myparse_method(
             [h EXCEPT !.method = IF Len(method) = 1 THEN MethodValue(method[1]) ELSE METHOD_NA],
             From(line, blank + 1))

-----------------------------------------------------------------------------
(* Headers *)

(* http_get_content_type, of the types the parser of a body tells apart    *)
(* and two others of its table.                                            *)
http_get_content_type(h, text) ==
  LET known == (MULTIFORM :> "MULTIFORM") @@ (FORMENC :> "FORMENC") @@ (AMF :> "AMF")
               @@ (HTML_TYPE :> "HTML") @@ (OTHER_TYPE :> "OTHER")
      ends == Len(text) = 1 \/ (Len(text) > 1 /\ text[2] \in {SEMI, CR, NUL, SP})
  IN  [h EXCEPT !.content_type = IF ends /\ text[1] \in DOMAIN known THEN known[text[1]] ELSE "NA"]

(* get_post_boundary: boundary_cnt grows with every boundary there is. *)
get_post_boundary(h, text) ==
  [http_set_str(h, "boundary", text)
     EXCEPT !.boundary_cnt = @ + RunEnd(text, 1, LAMBDA c : c = DASH) - 1 + 2]

(* parse_table_parsing *)
parse_table_parsing(h, text) ==
  LET kept == From(text, RunEnd(text, 1, LAMBDA c : c \in {SP, TAB}))
  IN  IF kept = <<>> THEN h
      ELSE IF kept[1] = BOUNDARY_IS THEN get_post_boundary(h, Tail(kept))
      ELSE IF kept[1] = TYPE_IS THEN http_get_content_type(h, Tail(kept))
      ELSE h

(* The pieces of a text between semicolons. *)
Split(text) ==
  LET Cut(r, c) == IF c = SEMI THEN Append(r, <<>>) ELSE Append(Front(r), Append(Last(r), c))
  IN  Read(Cut, <<<<>>>>, text)

(* http_parse_content_type: what follows a type that is not known, and     *)
(* what is too long, is not looked at.                                     *)
http_parse_content_type(h, value) ==
  LET type == Head(Split(value))
      typed == http_get_content_type(h, type)
      ignored == typed.content_type = "NA" \/ Len(value) - (Len(type) + 1) >= MAX_TYPE
  IN  Read(parse_table_parsing, typed, IF ignored THEN <<>> ELSE Tail(Split(value)))

(* parse_coo and parse_ra: one more than the separators behind the first   *)
(* character.                                                              *)
Counted(value, separator) == 1 + Cardinality({i \in 2..Len(value) : value[i] = separator})

(* parse_conl: a length of up to 23 digits, kept but not used. *)
parse_conl(h, value) ==
  IF Len(value) > 23 THEN h
  ELSE [h EXCEPT !.content_len = ToNumber(SubSeq(value, 1, RunEnd(value, 1, isdigit) - 1), 10)]

(* parse_au: of "Basic", the user and the password that the base64 text    *)
(* stands for.  It is decoded in its place: when it turns out to be none,  *)
(* its beginning has been written over.                                    *)
Decoded64(h) ==
  LET bytes == b64_decode(h.str.auth)
      written == b64_written(h.str.auth)
  IN  [h EXCEPT !.str.auth = IF bytes \in {INVALID, <<>>} THEN written \o From(@, Len(written) + 1)
                             ELSE bytes]

UserAndPassword(h) ==
  LET text == strlstrip(h.str.auth)
      colon == strlstr(text, <<COLON>>)
  IN  IF colon = 0 THEN h
      ELSE http_set_str(http_set_str(h, "auth_user", SubSeq(text, 1, colon - 1)),
                        "auth_pass", From(text, colon + 1))

parse_au(h, value) ==
  IF value = <<>> THEN h
  ELSE IF value[1] \in {DIGEST, NEGOTIATE, NTLM} THEN http_set_str(h, "auth", value)
  ELSE IF value[1] # BASIC \/ strlstrip(Tail(value)) = <<>> THEN h
  ELSE UserAndPassword(Decoded64(http_set_str(h, "auth", strlstrip(Tail(value)))))

(* The headers whose value is kept as it is. *)
http_header_str ==
  (USER_AGENT :> "agent") @@ (HOST :> "host") @@ (LOCATION :> "location")
  @@ (REFERER :> "reference") @@ (CONTENT_TYPE :> "content_type")

(* http_match_header_table and the handlers; the other headers of the      *)
(* table and those outside leave nothing.  "Connection" does only in a     *)
(* response.                                                               *)
http_match_header_table(h, name, value) ==
  CASE name = <<TRANSFER_ENCODING>> -> [h EXCEPT !.is_chunked = TRUE]
    [] name = <<COOKIE>> -> [h EXCEPT !.str.cookie = http_append_str(@, value),
                                      !.header_cookie_num = Counted(value, SEMI)]
    [] name = <<RANGE>> -> [h EXCEPT !.header_range_num = Counted(value, 44)]
    [] name = <<CONTENT_TYPE>> ->
         http_parse_content_type(http_set_str(h, http_header_str[CONTENT_TYPE], value), value)
    [] name = <<CONTENT_LENGTH>> -> parse_conl(h, value)
    [] name = <<AUTHORIZATION>> -> parse_au(h, value)
    [] Len(name) = 1 /\ name[1] \in DOMAIN http_header_str \ {CONTENT_TYPE} ->
         http_set_str(h, http_header_str[name[1]], value)
    [] OTHER -> h

(* http_parse_line.  split is where the last colon that began a value was  *)
(* seen, in this line or in one before it; then it has no name.            *)
http_parse_line(h, line, split, seen, num) ==
  LET counted == [h EXCEPT !.max_header_line_len = IF Len(line) > @ THEN Len(line) ELSE @]
  IN  IF num = 0 THEN parse_method(h, line)
      ELSE IF ~seen THEN h
      ELSE IF split < 1 THEN counted
      ELSE http_match_header_table(counted, strlstrip(SubSeq(line, 1, split - 1)),
                                   strlstrip(From(line, split)))

-----------------------------------------------------------------------------
(* http_parse_head *)

(* http_init_header_state, by what comes: CR, LF or another character.     *)
(* (A line's end is at once CHAR0 again; three more rows are not reached.) *)
http_header_state ==
  [CHAR0 |-> [cr |-> "CHAR0", lf |-> "CHAR0", other |-> "CHAR1"],
   CHAR1 |-> [cr |-> "R1", lf |-> "CHARN", other |-> "CHARN"],
   CHARN |-> [cr |-> "R1", lf |-> "CHARN", other |-> "CHARN"],
   R1 |-> [cr |-> "R1", lf |-> "N1", other |-> "CHAR1"]]

(* The flag a character of a line sets. *)
FlagOf(c) ==
  CASE c = PERCENT -> {URL} [] c = AMP -> {HTML} [] c = BACKSLASH -> {ESCAPE} [] OTHER -> {}

(* One character: the state, where the line begins and its first colon is, *)
(* its flags and its number.                                               *)
HeadChar(l, i, data) ==
  LET c == data[i]
      kind == IF c = CR THEN "cr" ELSE IF c = LF THEN "lf" ELSE "other"
      st == http_header_state[l.st][kind]
      colon == c = COLON /\ ~l.tmp_flag
      flag == l.flag \cup FlagOf(c)
      split == IF colon THEN i ELSE l.split
      line == SubSeq(data, l.begin, i - 2)
  IN  IF st = "N1"
      THEN [st |-> "CHAR0", begin |-> l.begin, split |-> split, tmp_flag |-> FALSE, flag |-> {},
            num |-> l.num + 1,
            h |-> [http_parse_line([l.h EXCEPT !.tmp_flag = flag], line, split - l.begin + 1,
                                   split # NULL, l.num)
                   EXCEPT !.header_line_num = @ + 1]]
      ELSE [l EXCEPT !.st = st, !.begin = IF st = "CHAR1" THEN i ELSE @, !.split = split,
                     !.tmp_flag = @ \/ colon, !.flag = flag]

http_parse_head(h, data) ==
  LET line0 == [st |-> "CHAR0", begin |-> NULL, split |-> NULL, tmp_flag |-> FALSE,
                flag |-> {}, num |-> 0, h |-> [http_init(h) EXCEPT !.header_len = Len(data)]]
  IN  http_set_state(Read(LAMBDA l, i : HeadChar(l, i, data), line0, [i \in DOMAIN data |-> i]).h,
                     "HEAD")

=============================================================================
