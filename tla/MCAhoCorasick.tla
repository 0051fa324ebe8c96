--------------------------- MODULE MCAhoCorasick ---------------------------
(* Keywords of up to three letters, some of them matched by case.          *)
EXTENDS AhoCorasick

a == 97
A == 65
b == 98

Folded == UNION {[1..n -> {a, b}] : n \in 1..3}

MCKeyword ==
  {[txt |-> s, nocase |-> TRUE] : s \in Folded}
    \cup {[txt |-> s, nocase |-> FALSE] : s \in {<<A>>, <<a, A>>, <<b, a>>}}

MCByte == {a, A, b}

=============================================================================
