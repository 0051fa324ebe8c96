------------------------------- MODULE Chars -------------------------------
(* Characters of a request and what http/http_basic.c asks of them.  A     *)
(* character is its code.  Where a module is not about the inside of a     *)
(* word, the word is one element of the text, with a code beyond the bytes *)
(* (module Words): one more character to code that looks for separators.   *)
EXTENDS Integers, SequencesExt, Bytes

Byte == 0..255

NUL == 0
TAB == 9
LF == 10
CR == 13
SP == 32
QUOTE == 34
HASH == 35
PERCENT == 37
AMP == 38
PLUS == 43
DASH == 45
DOT == 46
SLASH == 47
COLON == 58
SEMI == 59
LESS == 60
EQUALS == 61
GREATER == 62
QUESTION == 63
BACKSLASH == 92

CRLF == <<CR, LF>>

(* The character classes of ctype.h in the C locale. *)
isspace(b) == b \in (9..13) \cup {SP}
isdigit(b) == b \in 48..57
isxdigit(b) == b \in (48..57) \cup (65..70) \cup (97..102)
isalnum(b) == b \in (48..57) \cup (65..90) \cup (97..122)

(* The value of a hexadecimal digit, as strtol takes it. *)
xdigit(b) == IF isdigit(b) THEN b - 48 ELSE (b % 32) + 9

(* The first place from i on that is not in a class, behind the end if all are. *)
RunEnd(s, i, Class(_)) ==
  LET out == {j \in i..Len(s) : ~Class(s[j])}
  IN  IF out = {} THEN Len(s) + 1 ELSE Min(out)

(* What a loop over the characters of s makes of base: FoldLeft, in time   *)
(* that grows with the length of s only.  (A set of one has TLC finish     *)
(* each turn before the next, so that its stack does not grow with s.)     *)
Read(Op(_, _), base, s) ==
  LET after[i \in 0..Len(s)] ==
        IF i = 0 THEN {base} ELSE {Op(r, s[i]) : r \in after[i - 1]}
  IN  CHOOSE r \in after[Len(s)] : TRUE

(* strtol on digits, kept as one byte or as it is. *)
ToNumber(digits, base) == Read(LAMBDA n, d : n * base + xdigit(d), 0, digits)

From(s, i) == SubSeq(s, i, Len(s))

(* strlstr; 0 when there is none.  (The code also compares once when the   *)
(* text is shorter than the pattern.)                                      *)
strlstr(s, pattern) ==
  LET at == {i \in 1..(Len(s) - Len(pattern) + 1) :
               SubSeq(s, i, i + Len(pattern) - 1) = pattern}
  IN  IF at = {} THEN 0 ELSE Min(at)

(* strlstrip: blanks and colons off both ends. *)
strlstrip(s) ==
  LET kept == {i \in DOMAIN s : ~isspace(s[i]) /\ s[i] # COLON}
  IN  IF kept = {} THEN <<>>
      ELSE SubSeq(s, Min(kept), Max(kept))

(* strlcpy2 into a buffer of dlen bytes. *)
strlcpy2(dlen, s) == SubSeq(s, 1, IF dlen - 1 < Len(s) THEN dlen - 1 ELSE Len(s))

=============================================================================
