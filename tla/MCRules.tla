------------------------------ MODULE MCRules ------------------------------
(* Four keywords, one per kind of border, and rules on each of them.       *)
EXTENDS Rules

a == 97
B == 66
b == 98
sp == 32

MCText == UNION {[1..n -> {a, B, sp}] : n \in 0..3}

Containing(s) == {t \in MCText : \E i \in 0..Len(t) : IsPrefix(s, SubSeq(t, i + 1, Len(t)))}

MCKeyword ==
  {[txt |-> <<a>>, id |-> 1, flag |-> 1],
   [txt |-> <<b>>, id |-> 2, flag |-> 2],
   [txt |-> <<a, b>>, id |-> 3, flag |-> 3],
   [txt |-> <<a>>, id |-> 4, flag |-> 0]}

All == {"URL", "ARG", "AGENT", "COOKIE"}

ToRule(id, key, target, compiles, matches) ==
  [id |-> id, key |-> key, target |-> target, compiles |-> compiles, matches |-> matches]

MCRule ==
  {ToRule(1, 1, All, TRUE, Containing(<<a, a>>)),
   ToRule(2, 1, {"ARG"}, TRUE, Containing(<<a>>)),
   ToRule(3, 1, All, TRUE, Containing(<<a, B>>)),
   ToRule(4, 2, All, TRUE, MCText),
   ToRule(5, 3, {"URL"}, TRUE, MCText),
   ToRule(6, 3, All, TRUE, MCText),
   ToRule(7, 4, All, TRUE, Containing(<<B>>)),
   ToRule(8, 2, All, FALSE, {})}

=============================================================================
