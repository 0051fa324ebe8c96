------------------------------- MODULE Base64 -------------------------------
(* http/base64.c, for buffers that are long enough and texts of the 128    *)
(* characters that Base64Values has entries for.                           *)
EXTENDS Chars

Pad64 == EQUALS

(* Base64: the character of a number below 64. *)
Base64(n) ==
  CASE n < 26 -> 65 + n
    [] n \in 26..51 -> 97 + (n - 26)
    [] n \in 52..61 -> 48 + (n - 52)
    [] n = 62 -> PLUS
    [] OTHER -> SLASH

Characters == {Base64(n) : n \in 0..63}

(* Base64Values, of the characters that have a value. *)
Base64Values(b) == CHOOSE n \in 0..63 : Base64(n) = b

(* A group of one to three bytes, as four characters. *)
b64_group(in) ==
  LET Or0(i) == IF i <= Len(in) THEN in[i] ELSE 0
      out == <<Or0(1) \div 4, (Or0(1) % 4) * 16 + Or0(2) \div 16,
               (Or0(2) % 16) * 4 + Or0(3) \div 64, Or0(3) % 64>>
  IN  [i \in 1..4 |-> IF i <= Len(in) + 1 THEN Base64(out[i]) ELSE Pad64]

b64_encode(src) ==
  LET Groups == (Len(src) + 2) \div 3
      Upto[n \in 0..Groups] ==
        IF n = 0 THEN <<>>
        ELSE Upto[n - 1] \o b64_group(SubSeq(src, 3 * n - 2, Min({3 * n, Len(src)})))
  IN  Upto[Groups]

(* What b64_decode returns -1 for. *)
INVALID == <<-1>>

(* The bytes that the characters make, with the bits that slop over in the *)
(* last one: byte i of the target is 8 of the 6 * Len(chars) bits.         *)
Bits(chars) ==
  LET n == (6 * Len(chars) + 7) \div 8
      Sextet(i) == IF i <= Len(chars) THEN Base64Values(chars[i]) ELSE 0
      Octet(i) == LET q == (i - 1) \div 3
                  IN  CASE i % 3 = 1 -> 4 * Sextet(4 * q + 1) + Sextet(4 * q + 2) \div 16
                        [] i % 3 = 2 -> 16 * (Sextet(4 * q + 2) % 16) + Sextet(4 * q + 3) \div 4
                        [] OTHER -> 64 * (Sextet(4 * q + 3) % 4) + Sextet(4 * q + 4)
  IN  [i \in 1..n |-> Octet(i)]

(* Faulty: bits that slopped over are not looked at. *)
b64_trailer_AnyBits(state, tail, extra) ==
  IF tail = <<>> THEN state = 0
  ELSE state \in {2, 3} /\ Len(tail) = 4 - state /\ ToSet(tail) = {Pad64}

(* What may follow the characters, blanks left out: nothing, when they end *)
(* on a byte's boundary, or the pads the state asks for.                   *)
b64_trailer(state, tail, extra) ==
  IF tail = <<>> THEN state = 0
  ELSE /\ state \in {2, 3}
       /\ Len(tail) = 4 - state /\ ToSet(tail) = {Pad64}
       /\ extra = 0

SkipBlank(t, b) == IF isspace(b) THEN t ELSE Append(t, b)

NoBlanks(s) == Read(SkipBlank, <<>>, s)

(* What has been written when b64_decode stops: of the characters before a *)
(* pad, or before one that is none of base64.                              *)
b64_written(src) ==
  LET text == NoBlanks(src)
  IN  Bits(SubSeq(text, 1, RunEnd(text, 1, LAMBDA b : b \in Characters) - 1))

(* b64_decode; src ends before its NUL. *)
b64_decode(src) ==
  LET text == NoBlanks(src)
      pad == RunEnd(text, 1, LAMBDA b : b # Pad64)
      chars == SubSeq(text, 1, pad - 1)
      state == Len(chars) % 4
      all == Bits(chars)
      n == (6 * Len(chars)) \div 8
  IN  IF /\ ToSet(chars) \subseteq Characters
         /\ b64_trailer(state, From(text, pad), IF n < Len(all) THEN all[n + 1] ELSE 0)
      THEN SubSeq(all, 1, n)
      ELSE INVALID

=============================================================================
