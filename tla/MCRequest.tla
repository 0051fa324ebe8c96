----------------------------- MODULE MCRequest ------------------------------
(* Requests with one thing each that is hard to parse, alone and in pairs  *)
(* on one connection, in every way to cut them into packets.               *)
EXTENDS Request

A == <<97>>
B == <<98>>
X == <<120>>

MCBehind == 999

arg(name, value) == [name |-> name, value |-> value]

field(name, value) == [name |-> name, value |-> value]

part(name, file, content) == [name |-> name, file |-> file, content |-> content]

Plain ==
  [method |-> GET, path |-> <<SLASH, 97>>, query |-> <<>>, fields |-> <<>>, user |-> <<>>,
   password |-> <<>>, kind |-> "none"]

(* /%61&?a=b=&b=%2541 with its path decoded and "=" in a value *)
Encoded ==
  [Plain EXCEPT !.path = <<SLASH, PERCENT, 54, 49, AMP>>,
                !.query = <<arg(A, B \o <<EQUALS>>), arg(B, <<PERCENT, 50, 53, 52, 49>>)>>,
                !.fields = <<field(HOST, A), field(USER_AGENT, <<97, COLON, 98>>)>>]

(* A lone CR before the end of the head, an unknown method, a user *)
Returns == [Plain EXCEPT !.method = 2000, !.fields = <<field(HOST, <<97, CR>>)>>]

Known == [Plain EXCEPT !.method = PROPPATCH, !.user = A, !.password = <<98, COLON, 98>>,
                       !.fields = <<field(COOKIE, A \o <<SEMI>> \o B), field(COOKIE, A)>>]

(* More arguments than slots, some in the body *)
Many ==
  [method |-> POST, path |-> <<SLASH>>, query |-> <<arg(A, B), arg(B, <<PLUS, 97, BACKSLASH, 98>>)>>,
   fields |-> <<>>, user |-> <<>>, password |-> <<>>, kind |-> "args",
   args |-> <<arg(A, <<PERCENT, 52, 49>>), arg(B, A), arg(X, A)>>]

(* More arguments than slots in a body, none of them encoded *)
Full == [Many EXCEPT !.args = <<arg(A, B), arg(B, A), arg(X, B), arg(A, X)>>]

Few == [Many EXCEPT !.query = <<>>, !.args = <<arg(A, B \o <<EQUALS>> \o A), arg(B, <<>>)>>]

(* Chunks that contain what a size or the last chunk looks like *)
Chunked ==
  [method |-> POST, path |-> <<SLASH>>, query |-> <<>>, fields |-> <<>>, user |-> <<>>,
   password |-> <<>>, kind |-> "chunked",
   chunks |-> <<<<48, CR, LF>>, A, <<CR, LF, 48, CR, LF, CR, LF, 97, 98, 97, 98>>>>]

(* Chunks whose only line breaks are those around them *)
Short == [Chunked EXCEPT !.chunks = <<A \o B, A>>]

(* A boundary that begins with a dash, contents with dashes and line ends *)
Form ==
  [method |-> POST, path |-> <<SLASH>>, query |-> <<arg(A, B)>>, fields |-> <<>>, user |-> <<>>,
   password |-> <<>>, kind |-> "form", boundary |-> <<DASH, 120, 121>>,
   parts |-> <<part(A, <<>>, <<97, DASH, DASH, 98, DASH, 120, 121, CR, LF, DASH, DASH>>),
               part(B, <<X>>, <<98, CR, LF>>),
               part(X, <<>>, <<97, 98, 97, 98, 97, 98, 97, 98, 97, 98>>)>>]

Files ==
  [Form EXCEPT !.query = <<>>,
               !.parts = <<part(A, <<A>>, <<>>), part(A, <<B>>, <<97, 97, 97, 97, 97, 97, 97, 97>>),
                           part(B, <<<<>>>>, <<97>>), part(X, <<X>>, <<98, DASH, 98, DASH, 98, DASH, 120, 121>>),
                           part(X, <<A>>, B)>>]

MCMessages ==
  {<<Encoded>>, <<Returns>>, <<Known, Returns>>, <<Encoded, Few>>, <<Many>>, <<Full>>, <<Few, Plain>>,
   <<Chunked>>, <<Short, Plain>>, <<Few, Chunked>>, <<Many, Short>>, <<Chunked, Short>>, <<Short, Few>>,
   <<Form>>, <<Files>>}

=============================================================================
