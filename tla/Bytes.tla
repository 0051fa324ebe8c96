------------------------------- MODULE Bytes -------------------------------
(* What http/acsmx.c and http/pat.c ask of single bytes.                   *)
EXTENDS Integers, Sequences

(* toupper, in the C locale *)
xlatcase(b) == IF b \in 97..122 THEN b - 32 ELSE b

ConvertCaseEx(s) == [i \in DOMAIN s |-> xlatcase(s[i])]

(* _boundary_char_check: digits, letters, "_" and "-" are inside a word.   *)
(* Bytes from 128 on are negative as char, and bound a word.               *)
boundary_char_check(b) == b \notin (48..57) \cup (97..122) \cup (65..90) \cup {95, 45}

=============================================================================
