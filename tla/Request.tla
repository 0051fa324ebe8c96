------------------------------ MODULE Request -------------------------------
(* A connection's requests, handed to the parser in packets of any length  *)
(* (do_http_parse_test in http/detect_module.c), and what the parser       *)
(* promises about them.                                                    *)
EXTENDS HttpHead

CONSTANTS
  Messages,         \* sequences of requests, as records
  MaxPackets        \* bound: packets the requests are cut into, the last takes the rest

VARIABLES
  msg,              \* the requests
  layout,           \* history: their text, and what is where in it
  cuts,             \* history: where in their text packets ended, 0 first
  heads,            \* history: how often a head was parsed
  h                 \* the connection's http_t

vars == <<msg, layout, cuts, heads, h>>

-----------------------------------------------------------------------------
(* The text of a request *)

ArgText(args) ==
  FoldLeft(LAMBDA t, a : (IF t = <<>> THEN t ELSE Append(t, AMP)) \o a.name \o <<EQUALS>> \o a.value,
           <<>>, args)

HexDigit(n) == IF n < 10 THEN 48 + n ELSE 87 + n

ChunkPart(c) == <<HexDigit(Len(c))>> \o CRLF \o c \o CRLF

ChunkText(chunks) ==
  FlattenSeq([i \in DOMAIN chunks |-> ChunkPart(chunks[i])])
  \o <<48>> \o CRLF \o CRLF

(* A part is an argument, or a file when it has a name for one. *)
PartText(r, part) ==
  <<DASH, DASH>> \o r.boundary \o CRLF
  \o <<NAME_IS>> \o part.name \o <<QUOTE>>
  \o FlattenSeq([i \in DOMAIN part.file |-> <<SEMI, FILE_WORD, NAME_IS>> \o part.file[i] \o <<QUOTE>>])
  \o CRLF \o CRLF \o part.content \o CRLF

BodyText(r) ==
  CASE r.kind = "none" -> <<>>
    [] r.kind = "args" -> ArgText(r.args)
    [] r.kind = "chunked" -> ChunkText(r.chunks)
    [] r.kind = "form" -> FlattenSeq([i \in DOMAIN r.parts |-> PartText(r, r.parts[i])])
                          \o <<DASH, DASH>> \o r.boundary \o <<DASH, DASH>> \o CRLF

(* The headers of a request, those included that announce its body. *)
Fields(r) ==
  r.fields
  \o (IF r.user = <<>> THEN <<>>
      ELSE <<[name |-> AUTHORIZATION,
              value |-> <<BASIC, SP>> \o b64_encode(r.user \o <<COLON>> \o r.password)]>>)
  \o (CASE r.kind = "none" -> <<>>
        [] r.kind = "args" -> <<[name |-> CONTENT_TYPE, value |-> <<FORMENC>>]>>
        [] r.kind = "chunked" -> <<[name |-> TRANSFER_ENCODING, value |-> <<CHUNKED>>]>>
        [] r.kind = "form" -> <<[name |-> CONTENT_TYPE,
                                 value |-> <<MULTIFORM, SEMI, SP, BOUNDARY_IS>> \o r.boundary]>>)

UrlText(r) == r.path \o (IF r.query = <<>> THEN <<>> ELSE <<QUESTION>> \o ArgText(r.query))

RequestLine(r) == <<r.method, SP>> \o UrlText(r) \o <<SP, HTTP_1_1>>

FieldLine(f) == <<f.name, COLON, SP>> \o f.value

HeadText(r) ==
  RequestLine(r) \o CRLF
  \o FlattenSeq([i \in DOMAIN Fields(r) |-> FieldLine(Fields(r)[i]) \o CRLF])
  \o CRLF

RequestText(r) == HeadText(r) \o BodyText(r)

Text(m) == FlattenSeq([k \in DOMAIN m |-> RequestText(m[k])])

(* The text of requests, and where each begins, its head ends, it ends. *)
Layout(m) ==
  LET Before(k) == Len(Text(SubSeq(m, 1, k - 1)))
  IN  [text |-> Text(m),
       start |-> [k \in DOMAIN m |-> Before(k)],
       head |-> [k \in DOMAIN m |-> Before(k) + Len(HeadText(m[k]))],
       end |-> [k \in DOMAIN m |-> Before(k + 1)]]

(* The messages are given by their parts; what is sent is a text of codes. *)
ASSUME MessagesAssumption == \A m \in Messages : Text(m) \in Seq(Nat)

-----------------------------------------------------------------------------
Sent == Last(cuts)

Init ==
  /\ msg \in Messages
  /\ layout = Layout(msg)
  /\ cuts = <<0>>
  /\ heads = 0
  /\ h = http_t

(* What follows the scan of a packet: a head, and the body behind it. *)
HeadAndBody(scanned, buf, n) ==
  IF scanned.state < 4 THEN scanned
  ELSE http_parse_body(http_parse_head(scanned, SubSeq(buf, 1, n)), From(buf, n + 1))

(* do_http_parse_test: whatever comes when a head has just ended is a      *)
(* body, and is searched for a head nevertheless; what comes later is only *)
(* searched.  A head is parsed as far as it is in the packet it ends in.   *)
do_http_parse_test(buf) ==
  LET scan == s_http_parse(h.state, buf)
  IN  HeadAndBody([IF h.state = 4 THEN http_parse_body(h, buf) ELSE h EXCEPT !.state = scan.state],
                  buf, scan.n)

Packet(n) ==
  /\ Len(cuts) <= MaxPackets
  /\ ~h.crashed
  /\ h' = do_http_parse_test(SubSeq(layout.text, Sent + 1, Sent + n))
  /\ heads' = IF h'.state = 4 THEN heads + 1 ELSE heads
  /\ cuts' = Append(cuts, Sent + n)
  /\ UNCHANGED <<msg, layout>>

Next ==
  LET left == Len(layout.text) - Sent
  IN  \E n \in 1..left : (Len(cuts) < MaxPackets \/ n = left) /\ Packet(n)

Spec == Init /\ [][Next]_vars

-----------------------------------------------------------------------------
(* Where things are in the text of the requests *)

Start(k) == layout.start[k]
HeadEnds(k) == layout.head[k]
End(k) == layout.end[k]

Cut == {cuts[i] : i \in DOMAIN cuts}

(* Request k's head came in one packet, which it began. *)
HeadWhole(k) ==
  /\ Start(k) \in Cut /\ Sent >= HeadEnds(k)
  /\ Cut \cap ((Start(k) + 1)..(HeadEnds(k) - 1)) = {}

(* The last packet is the one that request k's head came in. *)
JustHead(k) == HeadWhole(k) /\ cuts[Len(cuts) - 1] = Start(k)

(* s_http_parse: the end of the first head is found in whatever packets it *)
(* comes, wherever a beginning of it came before, and no byte behind it is *)
(* taken for the head.                                                     *)
HeadEnd ==
  LET seen == SubSeq(layout.text, 1, Sent)
      ends == strlstr(seen, jump_buf)
      begun == {k \in 0..3 : k <= Sent /\ From(seen, Sent - k + 1) = SubSeq(jump_buf, 1, k)}
  IN  /\ (heads = 0) = (ends = 0)
      /\ heads = 0 => h.state = Max(begun)
      /\ heads = 1 => h.header_len = ends + 3 - Max({c \in Cut : c < ends + 3})

-----------------------------------------------------------------------------
(* The flags a line gives its strings, an argument its name and value *)
LineFlags(line) == UNION {FlagOf(line[i]) : i \in DOMAIN line}

ArgFlags(a) ==
  {f \in {URL} : \E c \in {PERCENT, PLUS} : Contains(a.name \o a.value, c)}
  \cup {f \in {ESCAPE} : Contains(a.name \o a.value, BACKSLASH)}

Named(r, name) == SelectSeq(Fields(r), LAMBDA f : f.name = name)

(* The value of the last header of a name, as it is stored. *)
FieldValue(r, name) ==
  LET found == Named(r, name)
  IN  IF found = <<>> THEN <<>> ELSE Stored(strlstrip(Last(found).value), LineFlags(FieldLine(Last(found))))

KindOfMethod(method) ==
  IF method \in {COPY, LOCK, MKCOL, MOVE, PROPFIND, PROPPATCH, UNLOCK} THEN WEBDAV
  ELSE IF method \in {CONNECT, DELETE, HEAD, GET, OPTIONS, POST, PUT, TRACE} THEN method
  ELSE METHOD_NA

(* http_parse_head: a head that came in one packet is known as it was      *)
(* sent, whatever came before it on the connection; nothing of an earlier  *)
(* request is left.  (COPY shares a row with CONNECT and is taken for it;  *)
(* a user and a password lose the blanks and colons around both.)          *)
HeadParsed ==
  \A k \in DOMAIN msg : JustHead(k) =>
    LET r == msg[k]
        line == LineFlags(RequestLine(r))
    IN  /\ r.method # COPY => h.method = KindOfMethod(r.method)
        /\ h.str.raw_url = UrlText(r)
        /\ h.str.url_and_arg = Stored(UrlText(r), line)
        /\ h.str.url = Stored(r.path, line)
        /\ h.str.host = FieldValue(r, HOST)
        /\ h.str.agent = FieldValue(r, USER_AGENT)
        /\ h.str.content_type = FieldValue(r, CONTENT_TYPE)
        /\ h.str.cookie = FlattenSeq([i \in DOMAIN Named(r, COOKIE) |-> Named(r, COOKIE)[i].value])
        /\ strlstrip(r.user \o <<COLON>> \o r.password) = r.user \o <<COLON>> \o r.password
             => h.str.auth_user = r.user /\ h.str.auth_pass = r.password
        /\ h.str.boundary = (IF r.kind = "form" THEN r.boundary ELSE <<>>)
        /\ r.kind = "chunked" => h.is_chunked
        /\ h.url_arg_cnt = Min({Len(r.query), MAX_ARGS})
        /\ h.header_line_num = 1 + Len(Fields(r))
        /\ h.header_len = Len(HeadText(r))
        /\ h.max_header_line_len = Max({0} \cup {Len(FieldLine(Fields(r)[i])) : i \in DOMAIN Fields(r)})

WithoutNul(s) == SelectSeq(s, LAMBDA c : c # NUL)

(* Where the packet ends that request k's head ended in, and the one       *)
(* behind it.                                                              *)
HeadPacket(k) == Min({c \in Cut : c >= HeadEnds(k)})

NextPacket(k) == Min({c \in Cut : c > HeadPacket(k)} \cup {Sent})

(* The argument of request k's body that the packet with its head ended    *)
(* in, and where it begins.                                                *)
CutArg(k) ==
  LET before == {j \in (HeadEnds(k) + 1)..HeadPacket(k) : layout.text[j] = AMP}
  IN  [index |-> Cardinality(before) + 1, begin |-> Max(before \cup {HeadEnds(k)})]

(* What _http_parse_args does not put together again: an argument that is  *)
(* encoded, and a value that goes on with "=", which is read one character *)
(* too far.                                                                *)
CutBadly(k) ==
  LET c == HeadPacket(k)
  IN  /\ HeadEnds(k) < c /\ c < End(k)
      /\ \/ ArgFlags(msg[k].args[CutArg(k).index]) # {}
         \/ /\ layout.text[c + 1] = EQUALS
            /\ Contains(SubSeq(layout.text, CutArg(k).begin + 1, c), EQUALS)

(* _http_parse_args: the arguments of a URL, then those of a body that     *)
(* came with the head, in the packet behind it, or in both, as many as     *)
(* there are slots, each decoded when that makes it shorter.  A value that *)
(* begins with "=" is excepted, too: it is read one character too far.     *)
RequestArgs ==
  \A k \in DOMAIN msg :
    LET r == msg[k]
        sent == IF Sent = End(k) /\ r.kind = "args" THEN r.query \o r.args ELSE r.query
        kept == Min({Len(sent), MAX_ARGS})
    IN  /\ HeadWhole(k)
        /\ r.kind \in {"none", "args"}
        /\ Sent = HeadEnds(k) \/ (Sent = End(k) /\ NextPacket(k) = End(k) /\ ~CutBadly(k))
        /\ \A i \in DOMAIN sent : sent[i].value = <<>> \/ sent[i].value[1] # EQUALS
        =>
        /\ Len(h.arg) = kept
        /\ \A i \in 1..kept :
             /\ WithoutNul(h.arg[i].name) = sent[i].name
             /\ WithoutNul(h.arg[i].value) = Shortened(sent[i].value, ArgFlags(sent[i]))
             /\ h.arg[i].complete_flag = 1

(* recv_chunk: a chunked body ends with its last chunk, and the sizes of   *)
(* chunks are not found in their content, whether the body came with its   *)
(* head, in the packet right behind, or in both; of what comes later the   *)
(* body's parser sees nothing.  Two things are excepted.                   *)
(* - do_http_parse_test looks for the end of a head in the packet behind a *)
(*   head, too, and a body's last chunk looks like one: when it lies in    *)
(*   that packet, the request is forgotten, and what has been read of its  *)
(*   body is taken for a head.                                             *)
(* - http_init leaves the state of the last body: after a chunked one, the *)
(*   next ends with its first chunk.  (After a form, it may end with the   *)
(*   size of the first.)                                                   *)
ChunkEnd ==
  \A k \in {i \in DOMAIN msg : msg[i].kind = "chunked" /\ HeadWhole(i)} :
    LET given == NextPacket(k) - HeadEnds(k)
        later == SubSeq(layout.text, HeadPacket(k) + 1, Sent)
        jump == strlstr(later, jump_buf)
        chunkedBefore == k > 1 /\ msg[k - 1].kind = "chunked" /\ HeadWhole(k - 1)
                         /\ HeadPacket(k - 1) = End(k - 1)
    IN  /\ jump = 0 /\ (\A j \in 1..(k - 1) : msg[j].kind \in {"none", "args"}) =>
             ((h.st = "NONE") <=> given >= Len(BodyText(msg[k])))
        /\ jump # 0 /\ Sent <= End(k) =>
             h.str.url = <<>> /\ (jump + 3 = Len(later) => h.st = "HEAD")
        /\ jump = 0 /\ chunkedBefore /\ given >= Len(ChunkPart(Head(msg[k].chunks))) => h.st = "NONE"

(* http_parse_form: in one packet with its head, every part of a form is   *)
(* an argument or a file with what it contained, as long as no content     *)
(* looks like the beginning of a boundary.  The last argument loses a      *)
(* label's length at its end; the last slot for a file stays empty.        *)
FormParts ==
  LET r == msg[1]
      IsFile(p) == p.file \notin {<<>>, <<<<>>>>}
      args == SelectSeq(r.parts, LAMBDA p : ~IsFile(p))
      files == SelectSeq(r.parts, IsFile)
      q == Len(r.query)
      dashes == [i \in 1..h.boundary_cnt |-> DASH]
  IN  /\ r.kind = "form" /\ cuts = <<0, End(1)>>
      /\ \A i \in DOMAIN r.parts : strlstr(r.parts[i].content, dashes) = 0
      /\ q + Len(args) <= MAX_ARGS
      =>
      /\ Len(h.arg) = q + Len(args)
      /\ \A i \in DOMAIN args :
           /\ WithoutNul(h.arg[q + i].name) = args[i].name
           /\ i < Len(args) => h.arg[q + i].value = args[i].content
           /\ IsPrefix(h.arg[q + i].value, args[i].content)
      /\ Len(h.file) = Min({Len(files), MAX_FILES})
      /\ \A i \in DOMAIN files : i < MAX_FILES =>
           /\ h.file[i].name = files[i].file[1]
           /\ h.file[i].raw_file_len = Len(files[i].content)
           /\ Len(files[i].content) + Len(r.boundary) + 3 <= HTTP_FILE_MAX_LEN =>
                h.file[i].value = files[i].content
           /\ h.file[i].complete_flag = 1

=============================================================================
