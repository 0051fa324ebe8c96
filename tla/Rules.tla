------------------------------- MODULE Rules -------------------------------
(***************************************************************************)
(* The rule check: load_rule (http/load_rule.c) makes chains of the rows   *)
(* of SecRule, one chain per keyword id; rule_check (http/pat.c) searches  *)
(* each part of a request for keywords and tries the rules of those it     *)
(* finds.  A step loads one row or checks one part.                        *)
(*                                                                         *)
(* The search is what AhoCorasick promises of it: every occurrence, by its *)
(* end.  What pcre makes of a rule's regular expression is a field of it.  *)
(***************************************************************************)
EXTENDS Integers, SequencesExt, Bytes

CONSTANTS
  Keyword,          \* rows of key_word: [txt, id, flag]
  Rule,             \* rows of SecRule: [id, key, target, compiles, matches]
  Text,             \* what a part of a request may contain
  HitMax,           \* size of the hit list, 20 in the code
  MaxRules,         \* bound: rows of SecRule
  NoRule, NoPart

Target == {"URL", "ARG", "AGENT", "COOKIE"}

CHECK_NONE == 0
CHECK_LEFT == 1
CHECK_RIGHT == 2
CHECK_BOTH == 3

(* The tables of rules and of keywords hold 1000 entries each.  Nothing in *)
(* the code checks it: that the database keeps to it is assumed here.      *)
RULE_SIZE == 1000
KEY_SIZE == 1000

ASSUME HitAssumption == HitMax \in Nat /\ MaxRules \in Nat
ASSUME KeywordAssumption ==
  /\ IsFiniteSet(Keyword) /\ Cardinality(Keyword) <= KEY_SIZE
  /\ \A k \in Keyword : /\ k.txt \in Seq(Nat) \ {<<>>} /\ k.id \in 0..(RULE_SIZE - 1)
                        /\ k.flag \in CHECK_NONE..CHECK_BOTH
ASSUME TextAssumption == Text \subseteq Seq(Nat)
ASSUME RuleAssumption ==
  NoRule \notin Rule /\ \A r \in Rule : r.key \in 0..(RULE_SIZE - 1) /\ r.target \subseteq Target

VARIABLES
  node,             \* the chain of each keyword id
  rows,             \* the rows loaded so far
  pc,               \* loading, or the part that comes next, or the decision
  part,             \* the last part checked: its kind and its text
  verdict           \* the rule that refused it, written to the log

vars == <<node, rows, pc, part, verdict>>

Key == {r.key : r \in Rule} \cup {k.id : k \in Keyword}

-----------------------------------------------------------------------------
(* Loading *)

Init ==
  /\ node = [k \in Key |-> <<>>]
  /\ rows = <<>>
  /\ pc = "load"
  /\ part = NoPart /\ verdict = NoRule

(* Faulty: a rule after the second one of a key drops those behind it. *)
Insert_Drop(chain, r) == IF chain = <<>> THEN <<r>> ELSE <<Head(chain), r>>

(* The first rule of a key is its head, later ones come right after it. *)
Insert(chain, r) == IF chain = <<>> THEN <<r>> ELSE <<Head(chain), r>> \o Tail(chain)

(* load_rule, one row.  When pcre refuses the expression, load_rule and    *)
(* the process give up.                                                    *)
LoadRule(r) ==
  /\ pc = "load"
  /\ Len(rows) < MaxRules
  /\ r \notin ToSet(rows)
  /\ IF r.compiles
     THEN /\ node' = [node EXCEPT ![r.key] = Insert(@, r)]
          /\ rows' = Append(rows, r)
          /\ UNCHANGED pc
     ELSE pc' = "exit" /\ UNCHANGED <<node, rows>>
  /\ UNCHANGED <<part, verdict>>

LoadEnd ==
  /\ pc = "load"
  /\ pc' = "url"
  /\ UNCHANGED <<node, rows, part, verdict>>

-----------------------------------------------------------------------------
(* Keywords in a text *)

(* _boundary_check; index counts from 0, text from 1. *)
boundary_check(k, text, index, flag) ==
  IF flag = CHECK_LEFT
  THEN index = 0 \/ boundary_char_check(text[index])
  ELSE index + Len(k.txt) = Len(text) \/ boundary_char_check(text[index + Len(k.txt) + 1])

(* Faulty: one side is enough. *)
word_boundary_check_Either(k, text, index) ==
  \/ k.flag = CHECK_NONE
  \/ \E flag \in {CHECK_LEFT, CHECK_RIGHT} :
       k.flag \in {flag, CHECK_BOTH} /\ boundary_check(k, text, index, flag)

word_boundary_check(k, text, index) ==
  \/ k.flag = CHECK_NONE
  \/ /\ k.flag \in {CHECK_LEFT, CHECK_RIGHT}
     /\ boundary_check(k, text, index, k.flag)
  \/ /\ k.flag = CHECK_BOTH
     /\ boundary_check(k, text, index, CHECK_LEFT)
     /\ boundary_check(k, text, index, CHECK_RIGHT)

(* acsmSearch, with every pattern's nocase set: keyword and index. *)
Found(text) ==
  {h \in Keyword \X (0..Len(text)) :
     /\ h[2] + Len(h[1].txt) <= Len(text)
     /\ ConvertCaseEx(SubSeq(text, h[2] + 1, h[2] + Len(h[1].txt))) = ConvertCaseEx(h[1].txt)}

Hits(text) == {h \in Found(text) : word_boundary_check(h[1], text, h[2])}

End(h) == h[2] + Len(h[1].txt)

(* The orders in which Match may be called: the list of one state's        *)
(* matches is in no particular order.                                      *)
Calls(text) ==
  {s \in SetToSeqs(Hits(text)) : \A i, j \in DOMAIN s : i < j => End(s[i]) <= End(s[j])}

(* match_hook: the hits after the first HitMax are dropped. *)
match_hook(index, h) == IF Len(index) >= HitMax THEN index ELSE Append(index, h[1].id)

search_multi_pattern(calls) ==
  LET index[i \in 0..Len(calls)] ==
        IF i = 0 THEN <<>> ELSE match_hook(index[i - 1], calls[i])
  IN index[Len(calls)]

-----------------------------------------------------------------------------
(* Checking *)

(* Rule p[2] of the chain of hit p[1]. *)
RuleAt(index, p) == node[index[p[1]]][p[2]]

Tried(index) ==
  {p \in (DOMAIN index) \X (1..MaxRules) : p[2] \in DOMAIN node[index[p[1]]]}

(* The rules tried that match.  All four checks ask for the argument       *)
(* target (GET_ARG_TARGET).                                                *)
Matching(index, text) ==
  {p \in Tried(index) :
     "ARG" \in RuleAt(index, p).target /\ text \in RuleAt(index, p).matches}

(* Rules are tried hit by hit, chain by chain. *)
First(S) ==
  CHOOSE p \in S : \A q \in S : p[1] < q[1] \/ (p[1] = q[1] /\ p[2] <= q[2])

Refusing(index, S) == IF S = {} THEN NoRule ELSE RuleAt(index, First(S))

(* Faulty: tries only the first rule of a keyword. *)
Decide_Head(index, text) ==
  Refusing(index, {p \in Matching(index, text) : p[2] = 1})

(* The first rule that matches refuses the part. *)
Decide(index, text) == Refusing(index, Matching(index, text))

(* rule_check_url, rule_check_arg (one argument), rule_check_header_agent, *)
(* rule_check_header_cookie: refused, or next comes the part after it.     *)
CheckPart(target, here, next) ==
  /\ pc = here
  /\ \E text \in Text : \E calls \in Calls(text) :
       /\ part' = <<target, text>>
       /\ verdict' = Decide(search_multi_pattern(calls), text)
  /\ pc' = IF verdict' = NoRule THEN next ELSE "refused"
  /\ UNCHANGED <<node, rows>>

ArgsEnd ==
  /\ pc = "arg"
  /\ pc' = "agent"
  /\ UNCHANGED <<node, rows, part, verdict>>

(* rule_check *)
Check ==
  \/ CheckPart("URL", "url", "arg")
  \/ CheckPart("ARG", "arg", "arg")
  \/ ArgsEnd
  \/ CheckPart("AGENT", "agent", "cookie")
  \/ CheckPart("COOKIE", "cookie", "passed")

NextRequest ==
  /\ pc \in {"passed", "refused"}
  /\ pc' = "url" /\ part' = NoPart /\ verdict' = NoRule
  /\ UNCHANGED <<node, rows>>

Next ==
  \/ \E r \in Rule : LoadRule(r)
  \/ LoadEnd
  \/ Check
  \/ NextRequest

Spec == Init /\ [][Next]_vars

-----------------------------------------------------------------------------
(* Chains hold rules of their own keyword; a rule is named exactly when a  *)
(* request is refused.                                                     *)
TypeOK ==
  /\ \A k \in Key : \A r \in ToSet(node[k]) : r \in Rule /\ r.key = k
  /\ pc \in {"load", "exit", "url", "arg", "agent", "cookie", "passed", "refused"}
  /\ part = NoPart \/ part \in Target \X Text
  /\ verdict \in Rule \cup {NoRule}
  /\ verdict # NoRule <=> pc = "refused"

(* load_rule loses no row and links none twice, in whatever order the      *)
(* database returns them.                                                  *)
ChainsComplete ==
  \A r \in Rule :
    Cardinality({p \in Key \X (1..MaxRules) :
                   p[2] \in DOMAIN node[p[1]] /\ node[p[1]][p[2]] = r})
      = IF r \in ToSet(rows) THEN 1 ELSE 0

(* Where a keyword stands in a text as a word: what border_check is for.   *)
Words(k, text) ==
  {p \in Prefixes(text) \X Suffixes(text) :
     LET u == p[1]
         v == p[2]
         w == SubSeq(text, Len(u) + 1, Len(text) - Len(v))
     IN
     /\ ConvertCaseEx(w) = ConvertCaseEx(k.txt)
     /\ k.flag \in {CHECK_LEFT, CHECK_BOTH} => u = <<>> \/ boundary_char_check(u[Len(u)])
     /\ k.flag \in {CHECK_RIGHT, CHECK_BOTH} => v = <<>> \/ boundary_char_check(v[1])}

(* The loaded rules for arguments whose keyword is in the text and whose   *)
(* expression matches it.                                                  *)
Applicable(text) ==
  {r \in ToSet(rows) :
     /\ "ARG" \in r.target /\ text \in r.matches
     /\ \E k \in Keyword : k.id = r.key /\ Words(k, text) # {}}

(* A part is refused only for a rule that applies to it.                   *)
RefusedForCause == verdict # NoRule => verdict \in Applicable(part[2])

(* A part to which some rule applies is refused, as long as the hit list   *)
(* holds every hit ("index limit 20").                                     *)
NoneMissed ==
  part # NoPart /\ verdict = NoRule =>
    LET text == part[2] IN
    \/ Applicable(text) = {}
    \/ Cardinality(UNION {{k} \X Words(k, text) : k \in Keyword}) > HitMax

=============================================================================
