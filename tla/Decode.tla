------------------------------- MODULE Decode -------------------------------
(* http/http_decode.c: what a request's text may be encoded in, and        *)
(* http_decode_string, which decodes in rounds.                            *)
(*                                                                         *)
(* The code decodes %XY from the last character to the first, into a       *)
(* buffer that it turns round at the end; here that buffer is read from    *)
(* its front, so that out is always the decoded rest of the text.          *)
EXTENDS Chars

CONSTANTS MAX_OUT   \* bytes in the buffer for a decoded text (8192)

ASSUME OutAssumption == MAX_OUT \in Nat \ {0}

ONLY_ONE_DECODE == 0
CIC_DECODE == 1

(* The bits of a decode flag. *)
URL == "url"
HTML == "html"
ESCAPE == "escape"

-----------------------------------------------------------------------------
(* %XY and its relatives *)

(* _http_character_to_digit: "| 0x20" makes digits of 16 to 25, too. *)
character_to_digit(b) ==
  IF b \in (48..57) \cup (16..25) THEN b % 16
  ELSE IF b \in (65..70) \cup (97..102) THEN (b % 32) + 9 ELSE -1

(* _http_percent_xx_decode_backward, of what follows "%", "%x" or "%u00":  *)
(* <<>> when it is left alone.                                             *)
percent_xx_decode(rest) ==
  LET d1 == character_to_digit(rest[1])
      d2 == character_to_digit(rest[2])
  IN  IF Len(rest) > 1 /\ d1 >= 0 /\ d2 >= 0 /\ ~(d1 = 0 /\ d2 = 0)
      THEN <<16 * d1 + d2>> \o From(rest, 3)
      ELSE <<>>

(* _http_percent_FFxx_decode_backward, of what follows "%uff": nobody asks *)
(* whether these are digits.                                               *)
percent_FFxx_decode(rest) ==
  IF Len(rest) > 1
  THEN <<(16 * (character_to_digit(rest[1]) + 2) + character_to_digit(rest[2])) % 256>>
         \o From(rest, 3)
  ELSE <<>>

Starts(s, folded) == Len(s) >= Len(folded) /\ ConvertCaseEx(SubSeq(s, 1, Len(folded))) = folded

(* In capitals: "%25", "%X25", "%U0025". *)
Percents == {<<37, 50, 53>>, <<37, 88, 50, 53>>, <<37, 85, 48, 48, 50, 53>>}

(* _http_percent_combine, until there is nothing to combine. *)
percent_combine(out) ==
  LET Once(s) == IF \E p \in Percents : Starts(s, p)
                 THEN <<PERCENT>> \o From(s, Len(CHOOSE p \in Percents : Starts(s, p)) + 1)
                 ELSE s
      Times[n \in 0..Len(out)] == IF n = 0 THEN out ELSE Once(Times[n - 1])
  IN  Times[Len(out)]

(* _http_string_decode_type_backward, on a "%" and what follows it.        *)
(* tmp_len counts the characters since the "%" behind it, -1 when they do  *)
(* not matter.                                                             *)
string_decode_type(out, tmp_len) ==
  LET n == Len(out)
      Enough(k) == tmp_len >= k \/ tmp_len = -1
      OrAsIs(s) == IF s = <<>> THEN out ELSE s
  IN  CASE n <= 2 -> out
        [] Starts(out, <<37, 88>>) /\ Enough(3)
             -> IF n <= 3 THEN out ELSE OrAsIs(percent_xx_decode(From(out, 3)))
        [] Starts(out, <<37, 85, 48, 48>>) /\ Enough(5)
             -> IF n <= 5 THEN out ELSE OrAsIs(percent_xx_decode(From(out, 5)))
        [] Starts(out, <<37, 85, 70, 70>>) /\ Enough(5)
             -> IF n <= 5 THEN out ELSE OrAsIs(percent_FFxx_decode(From(out, 5)))
        [] OTHER
             -> IF Enough(2) THEN OrAsIs(percent_xx_decode(From(out, 2))) ELSE out

(* _http_string_decode_backward *)
string_decode_backward(out, tmp_len) ==
  string_decode_type(IF tmp_len = -1 THEN percent_combine(out) ELSE out, tmp_len)

(* _http_string_decode *)
DecodeChar(c, r) ==
  LET matters == r.tmp_len # -1
  IN  CASE c = PERCENT -> [out |-> string_decode_backward(<<c>> \o r.out, r.tmp_len),
                           tmp_len |-> IF matters THEN 0 ELSE -1]
        [] c = PLUS -> [r EXCEPT !.out = <<SP>> \o @]
        [] OTHER -> [out |-> <<c>> \o r.out, tmp_len |-> IF matters THEN r.tmp_len + 1 ELSE -1]

string_decode(s, decode_flag) ==
  FoldRight(DecodeChar, s,
            [out |-> <<>>, tmp_len |-> IF decode_flag = ONLY_ONE_DECODE THEN 0 ELSE -1]).out

-----------------------------------------------------------------------------
(* Entities and escapes: each from left to right, a piece at a time *)

Raw(s, i, n) == [out |-> SubSeq(s, i, i + n - 1), next |-> i + n]

Pieces(s, Piece(_, _)) ==
  LET Rest[i \in 1..(Len(s) + 1)] ==
        IF i > Len(s) THEN <<>> ELSE LET p == Piece(s, i) IN p.out \o Rest[p.next]
  IN  Rest[1]

(* Behind an entity that ends before j: a semicolon goes with it. *)
AfterEntity(s, j) == IF j <= Len(s) /\ s[j] = SEMI THEN j + 1 ELSE j

(* A number whose digits are in k..(j - 1); strtol skips a second "0x" of   *)
(* its own accord.                                                         *)
NumberPiece(s, i, hex, k, j) ==
  LET prefix == /\ hex /\ SubSeq(s, k, j - 1) = <<48>>
                /\ j + 1 <= Len(s) /\ s[j] \in {88, 120} /\ isxdigit(s[j + 1])
      digits == IF prefix THEN SubSeq(s, j + 1, RunEnd(s, j + 1, isxdigit) - 1)
                          ELSE SubSeq(s, k, j - 1)
  IN  IF j = k THEN Raw(s, i, k - i)
      ELSE [out |-> <<ToNumber(digits, IF hex THEN 16 ELSE 10) % 256>>, next |-> AfterEntity(s, j)]

NumericEntity(s, i) ==
  IF i + 2 <= Len(s) /\ s[i + 2] \in {88, 120}
  THEN NumberPiece(s, i, TRUE, i + 3, RunEnd(s, i + 3, isxdigit))
  ELSE NumberPiece(s, i, FALSE, i + 2, RunEnd(s, i + 2, isdigit))

(* In capitals: "QUOT", "AMP", "LT", "GT", "NBSP". *)
Entities ==
  {[name |-> <<81, 85, 79, 84>>, is |-> QUOTE], [name |-> <<65, 77, 80>>, is |-> AMP],
   [name |-> <<76, 84>>, is |-> LESS], [name |-> <<71, 84>>, is |-> GREATER],
   [name |-> <<78, 66, 83, 80>>, is |-> SP]}

NamedEntity(s, i) ==
  LET j == RunEnd(s, i + 1, isalnum)
      named == {e \in Entities : Starts(SubSeq(s, i + 1, j - 1), e.name)}
  IN  IF named = {} THEN Raw(s, i, j - i)
      ELSE [out |-> <<(CHOOSE e \in named : TRUE).is>>, next |-> AfterEntity(s, j)]

(* One turn of _http_html_entities_decode_inplace. *)
EntityPiece(s, i) ==
  CASE s[i] # AMP \/ i = Len(s) -> Raw(s, i, 1)
    [] s[i] = AMP /\ i < Len(s) /\ s[i + 1] = HASH -> NumericEntity(s, i)
    [] OTHER -> NamedEntity(s, i)

html_entities_decode(s) == Pieces(s, EntityPiece)

(* a b f n r t v \ ? ' " *)
Escapes ==
  {<<97, 7>>, <<98, 8>>, <<102, 12>>, <<110, LF>>, <<114, CR>>, <<116, TAB>>, <<118, 11>>,
   <<92, 92>>, <<63, 63>>, <<39, 39>>, <<34, 34>>}

isodigit(b) == b \in 48..55

(* One turn of _http_escape_decode_inplace, x2c included. *)
EscapePiece(s, i) ==
  LET c == s[i + 1]
      simple == {e \in Escapes : e[1] = c}
      last == Min({RunEnd(s, i + 1, isodigit) - 1, i + 3})     \* of an octal number
  IN  CASE s[i] # BACKSLASH \/ i = Len(s) -> Raw(s, i, 1)
        [] s[i] = BACKSLASH /\ i < Len(s) /\ simple # {}
             -> [out |-> <<(CHOOSE e \in simple : TRUE)[2]>>, next |-> i + 2]
        [] s[i] = BACKSLASH /\ i < Len(s) /\ simple = {} /\ c \in {88, 120}
             -> IF i + 3 <= Len(s) /\ isxdigit(s[i + 2]) /\ isxdigit(s[i + 3])
                THEN [out |-> <<ToNumber(SubSeq(s, i + 2, i + 3), 16)>>, next |-> i + 4]
                ELSE Raw(s, i, 2)
        [] s[i] = BACKSLASH /\ i < Len(s) /\ isodigit(c)
             -> [out |-> <<ToNumber(SubSeq(s, i + 1, last), 8) % 256>>, next |-> last + 1]
        [] OTHER -> Raw(s, i, 2)

escape_decode(s) == Pieces(s, EscapePiece)

-----------------------------------------------------------------------------
(* All of them, again and again, a limited number of times *)

ROUNDS == 16

When(condition, decode(_), s) == IF condition THEN decode(s) ELSE s

(* One round of http_decode_string; long: the text that came in has more   *)
(* than two characters.                                                    *)
Round(s, flags, long) ==
  When(URL \in flags /\ long, LAMBDA t : string_decode(t, ONLY_ONE_DECODE),
       When(ESCAPE \in flags, escape_decode,
            When(HTML \in flags, html_entities_decode, s)))

(* A text longer than the buffer is left alone; one that fills it loses    *)
(* its last character to the NUL.                                          *)
InBuffer(text, decoded) ==
  IF Len(text) > MAX_OUT THEN <<>> ELSE strlcpy2(MAX_OUT, decoded)

(* Faulty: one round, whatever it uncovers. *)
http_decode_string_Once(text, flags) == InBuffer(text, Round(text, flags, Len(text) > 2))

(* One more round on s, unless the last one, on last, shortened nothing;   *)
(* with URL there always is one.                                           *)
Again(p, flags, long) ==
  IF URL \in flags \/ Len(p.s) # Len(p.last)
  THEN [last |-> p.s, s |-> Round(p.s, flags, long)] ELSE p

http_decode_string(text, flags) ==
  InBuffer(text, Read(LAMBDA p, n : Again(p, flags, Len(text) > 2), [last |-> <<>>, s |-> text],
                      [n \in 1..ROUNDS |-> n]).s)

-----------------------------------------------------------------------------
(* Paths *)

IsSlash(c) == c \in {SLASH, BACKSLASH}

(* out without its last segment, if that leaves at least k characters: up  *)
(* to the slash before it, or with the slash.                              *)
LastSlash(out, k) ==
  LET at == {i \in (k + 1)..(Len(out) - 1) : out[i] = SLASH}
  IN  IF at = {} THEN 0 ELSE Max(at)

PathFault(p) == [p EXCEPT !.out = <<>>, !.ret = -1]

(* Faulty: ".." at the root stays there. *)
PathUp_AtRoot(p, n, keep) ==
  LET at == LastSlash(p.out, 1 - keep)
      out == IF at = 0 THEN <<SLASH>> ELSE SubSeq(p.out, 1, at - 1 + keep)
  IN  [p EXCEPT !.is = @ + n, !.seen = keep = 1, !.out = out]

(* "..", which is n characters with what follows it; the slash before the  *)
(* segment it takes back is kept when another one follows it.              *)
PathUp(p, n, keep) ==
  LET at == LastSlash(p.out, 1 - keep)
  IN  IF Len(p.out) <= 1 \/ at = 0 THEN PathFault(p)
      ELSE [p EXCEPT !.is = @ + n, !.seen = keep = 1, !.out = SubSeq(@, 1, at - 1 + keep)]

(* One turn of http_decode_path; the string ends in a NUL. *)
PathTurn(s, p) ==
  LET c(k) == IF p.is + k <= Len(s) THEN s[p.is + k] ELSE NUL
      next == RunEnd(s, p.is, LAMBDA b : ~IsSlash(b))
  IN  CASE p.ret # 1 -> p
        [] p.ret = 1 /\ c(0) = NUL -> [p EXCEPT !.ret = 0]
        [] p.ret = 1 /\ IsSlash(c(0)) ->
             [p EXCEPT !.is = @ + 1, !.seen = TRUE, !.out = IF p.seen THEN @ ELSE Append(@, SLASH)]
        [] p.ret = 1 /\ c(0) = DOT /\ IsSlash(c(1)) -> [p EXCEPT !.is = @ + 2, !.seen = TRUE]
        [] p.ret = 1 /\ c(0) = DOT /\ c(1) = NUL ->
             [p EXCEPT !.is = @ + 1, !.seen = FALSE, !.out = IF Len(@) > 1 THEN Front(@) ELSE @]
        [] p.ret = 1 /\ c(0) = DOT /\ c(1) = DOT /\ c(2) = NUL -> PathUp(p, 2, 0)
        [] p.ret = 1 /\ c(0) = DOT /\ c(1) = DOT /\ IsSlash(c(2)) -> PathUp(p, 3, 1)
        [] OTHER -> [p EXCEPT !.is = next, !.seen = FALSE, !.out = @ \o SubSeq(s, p.is, next - 1)]

(* Its answer and what it makes of the string. *)
http_decode_path(s) ==
  LET Turns[n \in 0..(Len(s) + 1)] ==
        IF n = 0 THEN [is |-> 1, out |-> <<>>, seen |-> FALSE, ret |-> 1]
        ELSE PathTurn(s, Turns[n - 1])
      end == Turns[Len(s) + 1]
  IN  [ret |-> end.ret, path |-> end.out]

=============================================================================
