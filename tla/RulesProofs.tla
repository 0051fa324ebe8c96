---------------------------- MODULE RulesProofs ----------------------------
(* Proofs about module Rules, for any keywords, any rows of SecRule in any *)
(* order and any number of them.                                           *)
EXTENDS Rules, FiniteSetTheorems, SequenceTheorems, WellFoundedInduction, TLAPS

(* The chains and the rows have the types of load_rule. *)
Types ==
  /\ node \in [Key -> Seq(Rule)] /\ rows \in Seq(Rule)
  /\ Len(rows) <= MaxRules
  /\ \A k \in Key : Len(node[k]) <= Len(rows)

(* A chain holds rules of its own keyword, each once; a row is in the      *)
(* chain of its key from when it was loaded on.                            *)
Own == \A k \in Key : \A i \in DOMAIN node[k] : node[k][i].key = k
Once == \A k \in Key : \A i, j \in DOMAIN node[k] : node[k][i] = node[k][j] => i = j
Loaded == \A r \in Rule : r \in ToSet(rows) <=> \E i \in DOMAIN node[r.key] : node[r.key][i] = r

IInv == Types /\ Own /\ Once /\ Loaded

-----------------------------------------------------------------------------
(* Where Insert puts a rule. *)
Place(chain) == IF chain = <<>> THEN 1 ELSE 2

(* Insert puts the rule in its place and moves those behind it by one.     *)
LEMMA InsertIs ==
  ASSUME NEW chain \in Seq(Rule), NEW r \in Rule
  PROVE  /\ Insert(chain, r) \in Seq(Rule)
         /\ Len(Insert(chain, r)) = Len(chain) + 1
         /\ Place(chain) \in 1..(Len(chain) + 1)
         /\ \A i \in 1..(Len(chain) + 1) :
              Insert(chain, r)[i] =
                IF i = Place(chain) THEN r
                ELSE IF i < Place(chain) THEN chain[i] ELSE chain[i - 1]
<1>0. PICK c, p : c = Insert(chain, r) /\ p = Place(chain)
  OBVIOUS
<1>. SUFFICES /\ c \in Seq(Rule) /\ Len(c) = Len(chain) + 1
              /\ p \in 1..Len(c)
              /\ \A i \in 1..Len(c) :
                   c[i] = IF i = p THEN r ELSE IF i < p THEN chain[i] ELSE chain[i - 1]
  BY <1>0
<1>1. CASE chain = <<>>
  <2>1. c = <<r>> /\ p = 1
    BY <1>0, <1>1 DEF Insert, Place
  <2>2. Len(chain) = 0
    BY <1>1
  <2>3. c \in Seq(Rule) /\ Len(c) = 1 /\ c[1] = r
    BY <2>1
  <2>. QED
    BY <2>1, <2>2, <2>3
<1>2. CASE chain # <<>>
  <2>. DEFINE h == <<Head(chain), r>>
              t == Tail(chain)
  <2>1. c = h \o t /\ p = 2
    BY <1>0, <1>2 DEF Insert, Place
  <2>2. Len(chain) \in Nat /\ Len(chain) >= 1
    BY <1>2
  <2>3. Head(chain) \in Rule /\ Head(chain) = chain[1]
    BY <1>2
  <2>4. h \in Seq(Rule) /\ Len(h) = 2 /\ h[1] = chain[1] /\ h[2] = r
    BY <2>3
  <2>5. t \in Seq(Rule) /\ Len(t) = Len(chain) - 1 /\ \A i \in 1..Len(t) : t[i] = chain[i + 1]
    BY <1>2
  <2>. HIDE DEF h, t
  <2>6. /\ c \in Seq(Rule) /\ Len(c) = Len(chain) + 1
        /\ \A i \in 1..Len(c) : c[i] = IF i <= 2 THEN h[i] ELSE t[i - 2]
    <3>1. /\ h \o t \in Seq(Rule)
          /\ Len(h \o t) = Len(h) + Len(t)
          /\ \A i \in 1..(Len(h) + Len(t)) :
               (h \o t)[i] = IF i <= Len(h) THEN h[i] ELSE t[i - Len(h)]
      BY <2>4, <2>5, ConcatProperties, Zenon
    <3>2. Len(h) + Len(t) = Len(chain) + 1
      BY <2>2, <2>4, <2>5
    <3>. QED
      BY <3>1, <3>2, <2>1, <2>4
  <2>7. ASSUME NEW i \in 1..Len(c)
        PROVE  c[i] = IF i = p THEN r ELSE IF i < p THEN chain[i] ELSE chain[i - 1]
    <3>1. CASE i \in 1..2
      <4>1. c[i] = h[i]
        BY <2>6, <3>1
      <4>. QED
        BY <4>1, <3>1, <2>1, <2>4
    <3>2. CASE i > 2
      <4>1. i - 2 \in 1..Len(t) /\ i \in Nat
        BY <2>2, <2>5, <2>6, <2>7, <3>2
      <4>2. c[i] = t[i - 2]
        BY <2>6, <4>1, <3>2
      <4>3. t[i - 2] = chain[(i - 2) + 1]
        BY <2>5, <4>1
      <4>4. (i - 2) + 1 = i - 1
        BY <4>1
      <4>. QED
        BY <4>2, <4>3, <4>4, <3>2, <2>1
    <3>. QED
      BY <3>1, <3>2, <2>6, <2>2
  <2>8. p \in 1..Len(c)
    BY <2>1, <2>2, <2>6
  <2>. QED
    BY <2>6, <2>7, <2>8
<1>. QED
  BY <1>1, <1>2

(* Before the first row all chains are empty. *)
LEMMA InitInv == Init => IInv
<1>. SUFFICES ASSUME Init PROVE IInv
  OBVIOUS
<1>1. Types
  BY HitAssumption DEF Init, Types
<1>2. \A r \in Rule : r.key \in Key
  BY DEF Key
<1>3. Own /\ Once /\ Loaded
  BY <1>2 DEF Init, Own, Once, Loaded, ToSet
<1>. QED
  BY <1>1, <1>3 DEF IInv

(* load_rule links a new row into the chain of its key, and leaves all     *)
(* others where they are.                                                  *)
LEMMA LoadInv == ASSUME IInv, NEW r \in Rule, LoadRule(r) PROVE IInv'
<1>. USE DEF IInv
<1>1. CASE r.compiles
  <2>. DEFINE K == r.key
  <2>0. PICK c, p : c = Insert(node[K], r) /\ p = Place(node[K])
    OBVIOUS
  <2>1. K \in Key
    BY DEF Key
  <2>2. /\ node' = [node EXCEPT ![K] = c]
        /\ rows' = Append(rows, r)
        /\ Len(rows) < MaxRules /\ r \notin ToSet(rows)
    BY <1>1, <2>0 DEF LoadRule
  <2>3. node[K] \in Seq(Rule) /\ Len(node[K]) \in Nat /\ Len(rows) \in Nat
    BY <2>1 DEF Types
  <2>4. /\ c \in Seq(Rule) /\ Len(c) = Len(node[K]) + 1
        /\ p \in 1..Len(c)
        /\ \A i \in 1..Len(c) :
             c[i] = IF i = p THEN r ELSE IF i < p THEN node[K][i] ELSE node[K][i - 1]
    <3>1. /\ Insert(node[K], r) \in Seq(Rule)
          /\ Len(Insert(node[K], r)) = Len(node[K]) + 1
          /\ Place(node[K]) \in 1..(Len(node[K]) + 1)
          /\ \A i \in 1..(Len(node[K]) + 1) :
               Insert(node[K], r)[i] =
                 IF i = Place(node[K]) THEN r
                 ELSE IF i < Place(node[K]) THEN node[K][i] ELSE node[K][i - 1]
      BY <2>3, InsertIs, Zenon
    <3>. QED
      BY <3>1, <2>0
  <2>5. node'[K] = c /\ \A k \in Key : k # K => node'[k] = node[k]
    BY <2>1, <2>2 DEF Types
  <2>6. DOMAIN c = 1..Len(c) /\ DOMAIN node[K] = 1..Len(node[K])
    BY <2>3, <2>4
  <2>7. \A i \in DOMAIN node[K] : node[K][i] # r
    BY <2>2 DEF Loaded
  <2>8. Types'
    <3>1. node' \in [Key -> Seq(Rule)]
      BY <2>1, <2>2, <2>4 DEF Types
    <3>2. rows' \in Seq(Rule) /\ Len(rows') = Len(rows) + 1
      BY <2>2 DEF Types
    <3>3. Len(rows') <= MaxRules
      BY <3>2, <2>2, <2>3, HitAssumption
    <3>4. ASSUME NEW k \in Key PROVE Len(node'[k]) <= Len(rows')
      <4>1. Len(node[k]) \in Nat /\ Len(node[k]) <= Len(rows)
        BY DEF Types
      <4>. QED
        BY <4>1, <3>2, <2>1, <2>3, <2>4, <2>5, SMTT(30) DEF Types
    <3>. QED
      BY <3>1, <3>2, <3>3, <3>4 DEF Types
  (* An element of the new chain is r or was in the old one.               *)
  <2>9. ASSUME NEW i \in DOMAIN c, i # p
        PROVE  \E j \in DOMAIN node[K] : /\ c[i] = node[K][j]
                                         /\ j = IF i < p THEN i ELSE i - 1
    <3>. DEFINE j == IF i < p THEN i ELSE i - 1
    <3>1. j \in DOMAIN node[K]
      BY <2>3, <2>4, <2>6, <2>9
    <3>2. c[i] = node[K][j]
      BY <2>4, <2>6, <2>9
    <3>. QED
      BY <3>1, <3>2
  <2>10. Own'
    <3>1. ASSUME NEW i \in DOMAIN c PROVE c[i].key = K
      <4>1. CASE i = p
        BY <4>1, <2>4, <2>6
      <4>2. CASE i # p
        BY <4>2, <2>9, <2>1 DEF Own
      <4>. QED
        BY <4>1, <4>2
    <3>. QED
      BY <3>1, <2>5 DEF Own
  <2>11. Once'
    <3>1. ASSUME NEW i \in DOMAIN c, NEW j \in DOMAIN c, c[i] = c[j] PROVE i = j
      <4>1. c[p] = r
        BY <2>4
      <4>2. CASE i = p \/ j = p
        BY <4>1, <4>2, <3>1, <2>9, <2>7
      <4>3. CASE i # p /\ j # p
        <5>1. PICK u \in DOMAIN node[K] : c[i] = node[K][u] /\ u = IF i < p THEN i ELSE i - 1
          BY <4>3, <2>9
        <5>2. PICK v \in DOMAIN node[K] : c[j] = node[K][v] /\ v = IF j < p THEN j ELSE j - 1
          BY <4>3, <2>9
        <5>3. u = v
          BY <5>1, <5>2, <3>1, <2>1 DEF Once
        <5>. QED
          BY <5>1, <5>2, <5>3, <4>3, <2>4, <2>6
      <4>. QED
        BY <4>2, <4>3
    <3>. QED
      BY <3>1, <2>5 DEF Once
  <2>12. Loaded'
    <3>1. ToSet(rows') = ToSet(rows) \cup {r}
      BY <2>2, SMTT(30) DEF ToSet, Types
    <3>2. ASSUME NEW x \in Rule
          PROVE  x \in ToSet(rows') <=> \E i \in DOMAIN node'[x.key] : node'[x.key][i] = x
      <4>1. x.key \in Key
        BY DEF Key
      <4>2. CASE x = r
        BY <4>2, <3>1, <2>4, <2>5, <2>6
      <4>3. CASE x # r /\ x.key # K
        BY <4>1, <4>3, <3>1, <2>5 DEF Loaded
      <4>4. CASE x # r /\ x.key = K
        <5>1. x \in ToSet(rows') <=> \E i \in DOMAIN node[K] : node[K][i] = x
          BY <4>4, <3>1 DEF Loaded
        <5>2. ASSUME NEW i \in DOMAIN c, c[i] = x PROVE \E j \in DOMAIN node[K] : node[K][j] = x
          <6>1. i # p
            BY <5>2, <4>4, <2>4
          <6>. QED
            BY <6>1, <5>2, <2>9
        <5>3. ASSUME NEW j \in DOMAIN node[K], node[K][j] = x PROVE \E i \in DOMAIN c : c[i] = x
          <6>. DEFINE i == IF j < p THEN j ELSE j + 1
          <6>1. i \in DOMAIN c /\ i # p
            BY <2>3, <2>4, <2>6
          <6>2. c[i] = IF i < p THEN node[K][i] ELSE node[K][i - 1]
            BY <6>1, <2>4, <2>6
          <6>3. c[i] = node[K][j]
            BY <6>2, <2>3, <2>4, <2>6
          <6>. QED
            BY <6>1, <6>3, <5>3
        <5>. QED
          BY <5>1, <5>2, <5>3, <4>4, <2>5
      <4>. QED
        BY <4>2, <4>3, <4>4
    <3>. QED
      BY <3>2 DEF Loaded
  <2>. QED
    BY <2>8, <2>10, <2>11, <2>12
<1>2. CASE ~ r.compiles
  <2>1. UNCHANGED <<node, rows>>
    BY <1>2 DEF LoadRule
  <2>. QED
    BY <2>1 DEF Types, Own, Once, Loaded
<1>. QED
  BY <1>1, <1>2

THEOREM InvHolds == Spec => []IInv
<1>1. IInv /\ [Next]_vars => IInv'
  <2>. SUFFICES ASSUME IInv, [Next]_vars PROVE IInv'
    OBVIOUS
  <2>1. ASSUME NEW r \in Rule, LoadRule(r) PROVE IInv'
    BY <2>1, LoadInv
  <2>2. CASE UNCHANGED <<node, rows>>
    BY <2>2 DEF IInv, Types, Own, Once, Loaded
  <2>3. CASE LoadEnd \/ Check \/ NextRequest \/ UNCHANGED vars
    <3>1. UNCHANGED <<node, rows>>
      BY <2>3 DEF LoadEnd, Check, CheckPart, ArgsEnd, NextRequest, vars
    <3>. QED
      BY <3>1, <2>2
  <2>. QED
    BY <2>1, <2>3 DEF Next
<1>. QED
  BY <1>1, InitInv, PTL DEF Spec

(* Every row load_rule has read is in exactly one place of one chain, with *)
(* any rows in any order, and no other rule is.                            *)
THEOREM ChainsCompleteHolds == Spec => []ChainsComplete
<1>1. IInv => ChainsComplete
  <2>. SUFFICES ASSUME IInv, NEW r \in Rule
                PROVE  Cardinality({p \in Key \X (1..MaxRules) :
                                      p[2] \in DOMAIN node[p[1]] /\ node[p[1]][p[2]] = r})
                         = IF r \in ToSet(rows) THEN 1 ELSE 0
    BY DEF ChainsComplete
  <2>. DEFINE S == {p \in Key \X (1..MaxRules) :
                      p[2] \in DOMAIN node[p[1]] /\ node[p[1]][p[2]] = r}
  <2>1. r.key \in Key
    BY DEF Key
  <2>2. \A p \in S : p[1] = r.key
    BY DEF IInv, Own
  <2>3. CASE r \in ToSet(rows)
    <3>1. PICK i \in DOMAIN node[r.key] : node[r.key][i] = r
      BY <2>3 DEF IInv, Loaded
    <3>2. i \in 1..MaxRules
      <4>1. /\ node[r.key] \in Seq(Rule) /\ Len(node[r.key]) <= Len(rows)
            /\ Len(rows) <= MaxRules /\ Len(rows) \in Nat
        BY <2>1 DEF IInv, Types
      <4>2. i \in 1..Len(node[r.key]) /\ Len(node[r.key]) \in Nat
        BY <3>1, <4>1
      <4>. QED
        BY <4>1, <4>2, HitAssumption
    <3>3. <<r.key, i>> \in S
      BY <2>1, <3>1, <3>2
    <3>4. ASSUME NEW p \in S PROVE p = <<r.key, i>>
      <4>1. p[2] \in DOMAIN node[r.key] /\ node[r.key][p[2]] = r
        BY <2>2
      <4>2. p[2] = i
        BY <4>1, <3>1, <2>1 DEF IInv, Once
      <4>. QED
        BY <4>2, <2>2
    <3>5. S = {<<r.key, i>>}
      BY <3>3, <3>4
    <3>. QED
      BY <3>5, <2>3, FS_Singleton
  <2>4. CASE r \notin ToSet(rows)
    <3>1. S = {}
      BY <2>2, <2>4 DEF IInv, Loaded
    <3>. QED
      BY <3>1, <2>4, FS_EmptySet
  <2>. QED
    BY <2>3, <2>4
<1>. QED
  BY <1>1, InvHolds, PTL

-----------------------------------------------------------------------------
(* Where keywords stand *)

LEMMA SetInduction ==
  ASSUME NEW S \in SUBSET Nat, 0 \in S, \A n \in S : n + 1 \in S
  PROVE  S = Nat
<1>. SUFFICES ASSUME Nat \ S # {} PROVE FALSE
  OBVIOUS
<1>1. PICK x \in Nat \ S : \A y \in Nat \ S : ~ (<<y, x>> \in OpToRel(<, Nat))
  BY NatLessThanWellFounded, WFMin
<1>2. x # 0 /\ x - 1 \in Nat /\ x - 1 < x /\ (x - 1) + 1 = x
  OBVIOUS
<1>3. <<x - 1, x>> \in OpToRel(<, Nat)
  BY <1>2 DEF OpToRel
<1>4. x - 1 \in S
  BY <1>1, <1>2, <1>3
<1>. QED
  BY <1>2, <1>4

LEMMA LeastIs ==
  ASSUME NEW S \in SUBSET Nat, S # {}
  PROVE  \E m \in S : \A n \in S : m <= n
<1>1. PICK x \in S : \A y \in S : ~ (<<y, x>> \in OpToRel(<, Nat))
  BY NatLessThanWellFounded, WFMin
<1>2. ASSUME NEW y \in S PROVE x <= y
  <2>. SUFFICES ASSUME y < x PROVE FALSE
    OBVIOUS
  <2>1. <<y, x>> \in OpToRel(<, Nat)
    BY DEF OpToRel
  <2>. QED
    BY <1>1, <2>1
<1>. QED
  BY <1>2

(* What is before and behind a keyword that starts at index i. *)
Around(k, text, i) ==
  <<SubSeq(text, 1, i), SubSeq(text, i + Len(k.txt) + 1, Len(text))>>

LEMMA KeywordIs ==
  ASSUME NEW k \in Keyword
  PROVE  /\ k.txt \in Seq(Nat) /\ k.txt # <<>> /\ Len(k.txt) \in Nat /\ Len(k.txt) >= 1
         /\ k.id \in Nat /\ k.flag \in 0..3
<1>1. k.txt \in Seq(Nat) /\ k.txt # <<>> /\ k.id \in Nat /\ k.flag \in 0..3
  BY KeywordAssumption DEF CHECK_NONE, CHECK_BOTH
<1>2. Len(k.txt) \in Nat /\ Len(k.txt) # 0
  BY <1>1, EmptySeq, LenProperties
<1>. QED
  BY <1>1, <1>2

(* The parts of a text around an interval of it. *)
LEMMA PartsIs ==
  ASSUME NEW text \in Seq(Nat), NEW i \in 0..Len(text), NEW n \in Nat, i + n <= Len(text)
  PROVE  /\ Len(SubSeq(text, 1, i)) = i
         /\ i # 0 => SubSeq(text, 1, i)[i] = text[i]
         /\ Len(SubSeq(text, i + n + 1, Len(text))) = Len(text) - (i + n)
         /\ i + n # Len(text) => SubSeq(text, i + n + 1, Len(text))[1] = text[i + n + 1]
         /\ SubSeq(text, 1, i) = <<>> <=> i = 0
         /\ SubSeq(text, i + n + 1, Len(text)) = <<>> <=> i + n = Len(text)
         /\ SubSeq(text, 1, i) \in Prefixes(text)
         /\ SubSeq(text, i + n + 1, Len(text)) \in Suffixes(text)
<1>1. Len(text) \in Nat /\ \A j \in 1..Len(text) : text[j] \in Nat
  BY LenProperties, ElementOfSeq
<1>2. i \in Nat /\ i \in Int /\ 1 \in Int /\ i + n + 1 \in Int /\ Len(text) \in Int
  BY <1>1
<1>. DEFINE u == SubSeq(text, 1, i)
            v == SubSeq(text, i + n + 1, Len(text))
<1>3. \A j \in 1..i : text[j] \in Nat
  BY <1>1, <1>2
<1>4. /\ u \in Seq(Nat)
      /\ Len(u) = IF 1 <= i THEN i - 1 + 1 ELSE 0
      /\ \A j \in 1..(i - 1 + 1) : u[j] = text[1 + j - 1]
  BY <1>2, <1>3, SubSeqProperties
<1>5. \A j \in (i + n + 1)..Len(text) : text[j] \in Nat
  BY <1>1, <1>2
<1>6. /\ v \in Seq(Nat)
      /\ Len(v) = IF i + n + 1 <= Len(text) THEN Len(text) - (i + n + 1) + 1 ELSE 0
      /\ \A j \in 1..(Len(text) - (i + n + 1) + 1) : v[j] = text[(i + n + 1) + j - 1]
  BY <1>2, <1>5, SubSeqProperties
<1>. HIDE DEF u, v
<1>7. Len(u) = i /\ (i # 0 => u[i] = text[i])
  BY <1>2, <1>4
<1>8. Len(v) = Len(text) - (i + n) /\ (i + n # Len(text) => v[1] = text[i + n + 1])
  <2>1. Len(v) = Len(text) - (i + n)
    BY <1>1, <1>2, <1>6
  <2>2. ASSUME i + n # Len(text) PROVE v[1] = text[i + n + 1]
    <3>1. 1 \in 1..(Len(text) - (i + n + 1) + 1) /\ (i + n + 1) + 1 - 1 = i + n + 1
      BY <1>1, <1>2, <2>2
    <3>. QED
      BY <3>1, <1>6
  <2>. QED
    BY <2>1, <2>2
<1>9. (u = <<>> <=> i = 0) /\ (v = <<>> <=> i + n = Len(text))
  <2>1. (u = <<>> <=> Len(u) = 0) /\ (v = <<>> <=> Len(v) = 0)
    BY <1>4, <1>6, EmptySeq
  <2>. QED
    BY <2>1, <1>1, <1>2, <1>7, <1>8
<1>10. u \in Prefixes(text)
  BY DEF Prefixes, u
<1>11. v \in Suffixes(text)
  <2>1. CASE i + n = Len(text)
    BY <2>1, <1>9 DEF Suffixes
  <2>2. CASE i + n # Len(text)
    <3>1. i + n + 1 \in 1..Len(text)
      BY <2>2, <1>1, <1>2
    <3>. QED
      BY <3>1 DEF Suffixes, v
  <2>. QED
    BY <2>1, <2>2
<1>. QED
  BY <1>7, <1>8, <1>9, <1>10, <1>11 DEF u, v

(* A prefix is what is before an index, a suffix what is behind one. *)
LEMMA SplitIs ==
  ASSUME NEW text \in Seq(Nat), NEW u \in Prefixes(text), NEW v \in Suffixes(text)
  PROVE  /\ Len(u) \in 0..Len(text) /\ Len(v) \in 0..Len(text)
         /\ u = SubSeq(text, 1, Len(u))
         /\ v = SubSeq(text, Len(text) - Len(v) + 1, Len(text))
<1>0. Len(text) \in Nat /\ \A j \in 1..Len(text) : text[j] \in Nat
  BY LenProperties, ElementOfSeq
<1>1. PICK i \in 0..Len(text) : u = SubSeq(text, 1, i)
  BY DEF Prefixes
<1>2. Len(u) = i
  <2>1. 0 \in Nat /\ i + 0 <= Len(text)
    BY <1>0
  <2>. QED
    BY <2>1, <1>1, PartsIs
<1>3. CASE v = <<>>
  <2>1. Len(v) = 0
    BY <1>3
  <2>2. SubSeq(text, Len(text) - 0 + 1, Len(text)) = <<>>
    BY <1>0, SubSeqEmpty
  <2>. QED
    BY <1>0, <1>1, <1>2, <1>3, <2>1, <2>2
<1>4. CASE v # <<>>
  <2>1. PICK l \in 1..Len(text) : v = SubSeq(text, l, Len(text))
    BY <1>4 DEF Suffixes
  <2>2. l - 1 \in 0..Len(text) /\ 0 \in Nat /\ (l - 1) + 0 <= Len(text) /\ (l - 1) + 0 + 1 = l
    BY <1>0
  <2>3. Len(SubSeq(text, (l - 1) + 0 + 1, Len(text))) = Len(text) - ((l - 1) + 0)
    BY <2>2, PartsIs
  <2>4. Len(v) = Len(text) - (l - 1)
    BY <1>0, <2>1, <2>2, <2>3
  <2>5. Len(text) - Len(v) + 1 = l /\ Len(v) \in 0..Len(text)
    BY <1>0, <2>4
  <2>. QED
    BY <1>1, <1>2, <2>1, <2>5
<1>. QED
  BY <1>3, <1>4

(* word_boundary_check asks for the border on each side that the flag      *)
(* names, and nothing else.                                                *)
LEMMA BorderIs ==
  ASSUME NEW k \in Keyword, NEW text, NEW i
  PROVE  word_boundary_check(k, text, i) <=>
           /\ k.flag \in {CHECK_LEFT, CHECK_BOTH} => i = 0 \/ boundary_char_check(text[i])
           /\ k.flag \in {CHECK_RIGHT, CHECK_BOTH} =>
                i + Len(k.txt) = Len(text) \/ boundary_char_check(text[i + Len(k.txt) + 1])
<1>. DEFINE L == i = 0 \/ boundary_char_check(text[i])
            R == i + Len(k.txt) = Len(text) \/ boundary_char_check(text[i + Len(k.txt) + 1])
<1>1. boundary_check(k, text, i, 1) <=> L
  BY DEF boundary_check, CHECK_LEFT
<1>2. boundary_check(k, text, i, 2) <=> R
  BY DEF boundary_check, CHECK_LEFT
<1>. HIDE DEF L, R
<1>3. k.flag = 0 \/ k.flag = 1 \/ k.flag = 2 \/ k.flag = 3
  BY KeywordIs
<1>4. word_boundary_check(k, text, i) <=>
        /\ k.flag \in {CHECK_LEFT, CHECK_BOTH} => L
        /\ k.flag \in {CHECK_RIGHT, CHECK_BOTH} => R
  BY <1>1, <1>2, <1>3
     DEF word_boundary_check, CHECK_NONE, CHECK_LEFT, CHECK_RIGHT, CHECK_BOTH
<1>. QED
  BY <1>4 DEF L, R

(* The hits of a keyword are the places where it stands as a word.         *)
LEMMA HitsAreWords ==
  ASSUME NEW k \in Keyword, NEW text \in Seq(Nat)
  PROVE  /\ \A i : <<k, i>> \in Hits(text) =>
              /\ i \in 0..Len(text) /\ i + Len(k.txt) <= Len(text)
              /\ Around(k, text, i) \in Words(k, text)
         /\ \A p \in Words(k, text) :
              <<k, Len(p[1])>> \in Hits(text) /\ p = Around(k, text, Len(p[1]))
<1>. DEFINE n == Len(k.txt)
<1>0. Len(text) \in Nat /\ n \in Nat /\ n >= 1 /\ DOMAIN k.txt = 1..n /\ k.txt \in Seq(Nat)
  BY KeywordIs, LenProperties
<1>. HIDE DEF n
<1>1. ASSUME NEW i, <<k, i>> \in Hits(text)
      PROVE  /\ i \in 0..Len(text) /\ i + n <= Len(text)
             /\ Around(k, text, i) \in Words(k, text)
  <2>. DEFINE u == SubSeq(text, 1, i)
              v == SubSeq(text, i + n + 1, Len(text))
  <2>1. /\ i \in 0..Len(text) /\ i + n <= Len(text)
        /\ ConvertCaseEx(SubSeq(text, i + 1, i + n)) = ConvertCaseEx(k.txt)
        /\ word_boundary_check(k, text, i)
    BY <1>1 DEF Hits, Found, n
  <2>2. /\ Len(u) = i /\ (i # 0 => u[i] = text[i])
        /\ Len(v) = Len(text) - (i + n)
        /\ i + n # Len(text) => v[1] = text[i + n + 1]
        /\ u = <<>> <=> i = 0
        /\ v = <<>> <=> i + n = Len(text)
        /\ u \in Prefixes(text) /\ v \in Suffixes(text)
    <3>. HIDE DEF u, v
    <3>1. /\ Len(u) = i
          /\ i # 0 => u[i] = text[i]
          /\ Len(v) = Len(text) - (i + n)
          /\ i + n # Len(text) => v[1] = text[i + n + 1]
          /\ u = <<>> <=> i = 0
          /\ v = <<>> <=> i + n = Len(text)
          /\ u \in Prefixes(text)
          /\ v \in Suffixes(text)
      BY <2>1, <1>0, PartsIs, Zenon DEF u, v
    <3>. QED
      BY <3>1
  <2>3. Len(text) - Len(v) = i + n
    <3>. HIDE DEF u, v
    <3>. QED
      BY <2>1, <2>2, <1>0
  <2>4. /\ k.flag \in {CHECK_LEFT, CHECK_BOTH} => i = 0 \/ boundary_char_check(text[i])
        /\ k.flag \in {CHECK_RIGHT, CHECK_BOTH} =>
             i + n = Len(text) \/ boundary_char_check(text[i + n + 1])
    BY <2>1, BorderIs DEF n
  <2>. HIDE DEF u, v
  <2>5. /\ k.flag \in {CHECK_LEFT, CHECK_BOTH} => u = <<>> \/ boundary_char_check(u[Len(u)])
        /\ k.flag \in {CHECK_RIGHT, CHECK_BOTH} => v = <<>> \/ boundary_char_check(v[1])
    BY <2>2, <2>4
  <2>6. ConvertCaseEx(SubSeq(text, Len(u) + 1, Len(text) - Len(v))) = ConvertCaseEx(k.txt)
    BY <2>1, <2>2, <2>3
  <2>7. <<u, v>> \in Words(k, text)
    BY <2>2, <2>5, <2>6 DEF Words
  <2>. QED
    BY <2>1, <2>7 DEF Around, u, v, n
<1>2. ASSUME NEW p \in Words(k, text)
      PROVE  <<k, Len(p[1])>> \in Hits(text) /\ p = Around(k, text, Len(p[1]))
  <2>. DEFINE u == p[1]
              v == p[2]
              w == SubSeq(text, Len(u) + 1, Len(text) - Len(v))
              i == Len(u)
  <2>1. /\ u \in Prefixes(text) /\ v \in Suffixes(text) /\ p = <<u, v>>
        /\ ConvertCaseEx(w) = ConvertCaseEx(k.txt)
        /\ k.flag \in {CHECK_LEFT, CHECK_BOTH} => u = <<>> \/ boundary_char_check(u[Len(u)])
        /\ k.flag \in {CHECK_RIGHT, CHECK_BOTH} => v = <<>> \/ boundary_char_check(v[1])
    BY <1>2 DEF Words
  <2>2. /\ i \in 0..Len(text) /\ Len(v) \in 0..Len(text)
        /\ u = SubSeq(text, 1, i)
        /\ v = SubSeq(text, Len(text) - Len(v) + 1, Len(text))
    BY <2>1, SplitIs
  <2>3. DOMAIN w = 1..n
    <3>1. DOMAIN w = DOMAIN ConvertCaseEx(w) /\ DOMAIN k.txt = DOMAIN ConvertCaseEx(k.txt)
      BY DEF ConvertCaseEx
    <3>. QED
      BY <3>1, <2>1, <1>0
  <2>4. /\ w \in Seq(Nat)
        /\ Len(w) = IF i + 1 <= Len(text) - Len(v) THEN Len(text) - Len(v) - (i + 1) + 1 ELSE 0
    <3>1. i + 1 \in Int /\ Len(text) - Len(v) \in Int
      BY <2>2, <1>0
    <3>2. \A j \in (i + 1)..(Len(text) - Len(v)) : text[j] \in Nat
      <4>1. \A j \in (i + 1)..(Len(text) - Len(v)) : j \in 1..Len(text)
        BY <2>2, <1>0
      <4>. QED
        BY <4>1, ElementOfSeq
    <3>. QED
      BY <3>1, <3>2, SubSeqProperties
  <2>. HIDE DEF u, v, w, i
  <2>5. Len(w) = n
    <3>1. DOMAIN w = 1..Len(w) /\ Len(w) \in Nat
      BY <2>4, LenProperties
    <3>2. n \in 1..Len(w)
      BY <3>1, <2>3, <1>0
    <3>3. Len(w) \in 1..n
      BY <3>1, <3>2, <2>3, <1>0
    <3>. QED
      <4>1. n <= Len(w) /\ Len(w) <= n
        BY <3>1, <3>2, <3>3, <1>0
      <4>2. Len(w) \in Nat /\ n \in Nat
        BY <3>1, <1>0
      <4>. QED
        BY <4>1, <4>2
  <2>6. Len(text) - Len(v) = i + n /\ i + n <= Len(text)
    BY <2>2, <2>4, <2>5, <1>0
  <2>7. /\ v = SubSeq(text, i + n + 1, Len(text)) /\ p = Around(k, text, i)
    BY <2>1, <2>2, <2>6 DEF Around, n
  <2>8. /\ i # 0 => u[i] = text[i]
        /\ i + n # Len(text) => v[1] = text[i + n + 1]
        /\ u = <<>> <=> i = 0
        /\ v = <<>> <=> i + n = Len(text)
    BY <2>2, <2>6, <2>7, <1>0, PartsIs, ZenonT(60)
  <2>9. /\ k.flag \in {CHECK_LEFT, CHECK_BOTH} => i = 0 \/ boundary_char_check(text[i])
        /\ k.flag \in {CHECK_RIGHT, CHECK_BOTH} =>
             i + n = Len(text) \/ boundary_char_check(text[i + n + 1])
    BY <2>1, <2>8 DEF i
  <2>10. word_boundary_check(k, text, i)
    BY <2>9, BorderIs DEF n
  <2>11. ConvertCaseEx(SubSeq(text, i + 1, i + n)) = ConvertCaseEx(k.txt)
    BY <2>1, <2>6 DEF w, i
  <2>12. <<k, i>> \in Found(text)
    BY <2>2, <2>6, <2>11 DEF Found, n
  <2>13. <<k, i>> \in Hits(text)
    BY <2>10, <2>12 DEF Hits
  <2>. QED
    BY <2>7, <2>13 DEF u, i
<1>. QED
  BY <1>1, <1>2 DEF n

LEMMA HitsFinite ==
  ASSUME NEW text \in Seq(Nat)
  PROVE  IsFiniteSet(Hits(text)) /\ Cardinality(Hits(text)) \in Nat
<1>1. IsFiniteSet(0..Len(text))
  BY LenProperties, FS_Interval
<1>2. IsFiniteSet(Keyword \X (0..Len(text)))
  BY <1>1, KeywordAssumption, FS_Product
<1>3. Hits(text) \in SUBSET (Keyword \X (0..Len(text)))
  BY DEF Hits, Found
<1>. QED
  BY <1>2, <1>3, FS_Subset, FS_CardinalityType

(* As many hits as words.                                                  *)
LEMMA HitsCounted ==
  ASSUME NEW text \in Seq(Nat)
  PROVE  Cardinality(Hits(text)) = Cardinality(UNION {{k} \X Words(k, text) : k \in Keyword})
<1>. DEFINE H == Hits(text)
            W == UNION {{k} \X Words(k, text) : k \in Keyword}
            f == [h \in H |-> <<h[1], Around(h[1], text, h[2])>>]
<1>1. ASSUME NEW h \in H
      PROVE  /\ h[1] \in Keyword /\ h = <<h[1], h[2]>>
             /\ h[2] \in 0..Len(text) /\ h[2] + Len(h[1].txt) <= Len(text)
             /\ Around(h[1], text, h[2]) \in Words(h[1], text)
  <2>1. h[1] \in Keyword /\ h = <<h[1], h[2]>>
    BY DEF Hits, Found
  <2>. QED
    BY <2>1, HitsAreWords
<1>2. f \in [H -> W]
  <2>1. ASSUME NEW h \in H PROVE f[h] \in W
    <3>1. f[h] \in {h[1]} \X Words(h[1], text)
      BY <1>1
    <3>. QED
      BY <3>1, <1>1
  <2>. QED
    BY <2>1
<1>3. ASSUME NEW g \in H, NEW h \in H, f[g] = f[h] PROVE g = h
  <2>1. g[1] = h[1] /\ Around(g[1], text, g[2]) = Around(h[1], text, h[2])
    BY <1>3
  <2>2. SubSeq(text, 1, g[2]) = SubSeq(text, 1, h[2])
    BY <2>1 DEF Around
  <2>3. 0 \in Nat /\ g[2] + 0 <= Len(text) /\ h[2] + 0 <= Len(text)
    BY <1>1, LenProperties
  <2>4. Len(SubSeq(text, 1, g[2])) = g[2] /\ Len(SubSeq(text, 1, h[2])) = h[2]
    BY <2>3, <1>1, PartsIs
  <2>. QED
    BY <2>1, <2>2, <2>4, <1>1
<1>4. ASSUME NEW w \in W PROVE \E h \in H : f[h] = w
  <2>1. PICK k \in Keyword : w \in {k} \X Words(k, text)
    OBVIOUS
  <2>2. w = <<k, w[2]>> /\ w[2] \in Words(k, text)
    BY <2>1
  <2>3. <<k, Len(w[2][1])>> \in H /\ w[2] = Around(k, text, Len(w[2][1]))
    BY <2>2, HitsAreWords
  <2>4. f[<<k, Len(w[2][1])>>] = <<k, w[2]>>
    BY <2>3
  <2>. QED
    BY <2>2, <2>3, <2>4
<1>. HIDE DEF H, W, f
<1>5. f \in Bijection(H, W)
  BY <1>2, <1>3, <1>4 DEF Bijection, Injection, Surjection, IsInjective
<1>6. IsFiniteSet(H)
  BY HitsFinite DEF H
<1>. QED
  BY <1>5, <1>6, FS_Bijection DEF H, W, ExistsBijection

-----------------------------------------------------------------------------
(* The hit list *)

Kept(i) == IF i <= HitMax THEN i ELSE HitMax

Recorded(calls, f) ==
  f = [i \in 0..Len(calls) |-> IF i = 0 THEN <<>> ELSE match_hook(f[i - 1], calls[i])]

(* The hit list has the ids of the first HitMax calls of match_hook.       *)
LEMMA SearchIs ==
  ASSUME NEW calls \in Seq(Keyword \X Nat)
  PROVE  LET index == search_multi_pattern(calls) IN
         /\ index \in Seq(Nat) /\ Len(index) = Kept(Len(calls))
         /\ \A j \in 1..Len(index) : j \in 1..Len(calls) /\ index[j] = calls[j][1].id
<1>. DEFINE k == Len(calls)
<1>1. k \in Nat /\ HitMax \in Nat
  BY LenProperties, HitAssumption
<1>2. ASSUME NEW j \in 1..k PROVE calls[j][1] \in Keyword /\ calls[j][1].id \in Nat
  <2>1. calls[j] \in Keyword \X Nat
    BY ElementOfSeq
  <2>2. calls[j][1] \in Keyword
    BY <2>1
  <2>. QED
    BY <2>2, KeywordIs
<1>. HIDE DEF k
<1>3. ASSUME NEW i \in 0..k PROVE Kept(i) \in Nat /\ Kept(i) \in 0..i /\ Kept(i) <= HitMax
  BY <1>1 DEF Kept
<1>4. \E f : Recorded(calls, f)
  <2>. DEFINE Ids(n) == [j \in 1..n |-> calls[j][1].id]
  <2>1. ASSUME NEW i \in 0..k
        PROVE  /\ Ids(Kept(i)) \in Seq(Nat) /\ Len(Ids(Kept(i))) = Kept(i)
               /\ \A j \in 1..Kept(i) : Ids(Kept(i))[j] = calls[j][1].id
    <3>1. \A j \in 1..Kept(i) : calls[j][1].id \in Nat
      BY <1>1, <1>2, <1>3
    <3>2. Ids(Kept(i)) \in [1..Kept(i) -> Nat]
      BY <3>1
    <3>. QED
      BY <3>2, <1>3
  <2>2. PICK g : g = [i \in 0..k |-> Ids(Kept(i))]
    OBVIOUS
  <2>. HIDE DEF Ids
  <2>3. Ids(0) = <<>>
    BY DEF Ids
  <2>4. ASSUME NEW i \in 1..k PROVE Ids(Kept(i)) = match_hook(Ids(Kept(i - 1)), calls[i])
    <3>1. i \in 0..k /\ i - 1 \in 0..k /\ i \in Nat
      BY <1>1
    <3>2. CASE i - 1 >= HitMax
      <4>1. Kept(i) = HitMax /\ Kept(i - 1) = HitMax
        BY <1>1, <3>1, <3>2 DEF Kept
      <4>. QED
        BY <4>1, <3>1, <2>1, <1>1 DEF match_hook
    <3>3. CASE ~ (i - 1 >= HitMax)
      <4>1. Kept(i) = i /\ Kept(i - 1) = i - 1
        BY <1>1, <3>1, <3>3 DEF Kept
      <4>. DEFINE s == Ids(i - 1)
                  t == Ids(i)
                  e == calls[i][1].id
      <4>2. s \in Seq(Nat) /\ Len(s) = i - 1 /\ \A j \in 1..(i - 1) : s[j] = calls[j][1].id
        BY <4>1, <3>1, <2>1
      <4>3. t \in Seq(Nat) /\ Len(t) = i /\ \A j \in 1..i : t[j] = calls[j][1].id
        BY <4>1, <3>1, <2>1
      <4>4. e \in Nat
        BY <1>2
      <4>. HIDE DEF s, t, e
      <4>5. /\ Append(s, e) \in Seq(Nat) /\ Len(Append(s, e)) = Len(s) + 1
            /\ \A j \in 1..Len(s) : Append(s, e)[j] = s[j]
            /\ Append(s, e)[Len(s) + 1] = e
        BY <4>2, <4>4, AppendProperties
      <4>6. ASSUME NEW j \in 1..Len(t) PROVE t[j] = Append(s, e)[j]
        <5>1. CASE j = i
          BY <5>1, <4>2, <4>3, <4>5, <3>1 DEF e
        <5>2. CASE j # i
          <6>1. j \in 1..(i - 1) /\ j \in 1..Len(s) /\ j \in 1..i
            BY <5>2, <4>2, <4>3, <3>1
          <6>. QED
            BY <6>1, <4>2, <4>3, <4>5
        <5>. QED
          BY <5>1, <5>2
      <4>7. Len(t) = Len(Append(s, e))
        BY <4>2, <4>3, <4>5, <3>1
      <4>8. t = Append(s, e)
        BY <4>3, <4>5, <4>6, <4>7, SeqEqual
      <4>9. ~ (Len(s) >= HitMax)
        BY <4>2, <3>3
      <4>10. match_hook(s, calls[i]) = Append(s, e)
        BY <4>9 DEF match_hook, e
      <4>. QED
        BY <4>1, <4>8, <4>10 DEF s, t
    <3>. QED
      BY <3>2, <3>3
  <2>5. Kept(0) = 0 /\ 0 \in 0..k
    BY <1>1 DEF Kept
  <2>6. ASSUME NEW i \in 0..k
        PROVE  g[i] = IF i = 0 THEN <<>> ELSE match_hook(g[i - 1], calls[i])
    <3>1. CASE i = 0
      BY <3>1, <2>2, <2>3, <2>5
    <3>2. CASE i # 0
      <4>1. i \in 1..k /\ i - 1 \in 0..k
        BY <3>2, <1>1
      <4>2. g[i] = Ids(Kept(i)) /\ g[i - 1] = Ids(Kept(i - 1))
        BY <4>1, <2>2
      <4>. QED
        BY <4>1, <4>2, <3>2, <2>4
    <3>. QED
      BY <3>1, <3>2
  <2>7. g = [i \in 0..k |-> IF i = 0 THEN <<>> ELSE match_hook(g[i - 1], calls[i])]
    BY <2>2, <2>6
  <2>. QED
    BY <2>7 DEF Recorded, k
<1>5. PICK f : Recorded(calls, f) /\ search_multi_pattern(calls) = f[k]
  <2>1. search_multi_pattern(calls) = (CHOOSE f : Recorded(calls, f))[k]
    BY DEF search_multi_pattern, Recorded, k
  <2>. QED
    BY <1>4, <2>1
<1>6. f = [i \in 0..k |-> IF i = 0 THEN <<>> ELSE match_hook(f[i - 1], calls[i])]
  BY <1>5 DEF Recorded, k
<1>. DEFINE P(i) == /\ f[i] \in Seq(Nat) /\ Len(f[i]) = Kept(i)
                    /\ \A j \in 1..Kept(i) : f[i][j] = calls[j][1].id
            S == {i \in Nat : i <= k => P(i)}
<1>7. 0 \in S
  <2>1. f[0] = <<>> /\ Kept(0) = 0
    BY <1>1, <1>6 DEF Kept
  <2>2. <<>> \in Seq(Nat) /\ Len(<<>>) = 0 /\ 1..0 = {}
    BY EmptySeq
  <2>. QED
    BY <2>1, <2>2
<1>8. ASSUME NEW i \in S PROVE i + 1 \in S
  <2>. SUFFICES ASSUME i + 1 <= k PROVE P(i + 1)
    OBVIOUS
  <2>1. P(i) /\ i \in Nat /\ i + 1 \in 1..k /\ i \in 0..k
    BY <1>8, <1>1
  <2>2. f[i + 1] = match_hook(f[i], calls[i + 1])
    BY <1>6, <2>1, <1>1
  <2>3. CASE i >= HitMax
    <3>1. Kept(i + 1) = HitMax /\ Kept(i) = HitMax
      BY <2>1, <2>3, <1>1 DEF Kept
    <3>2. f[i + 1] = f[i]
      BY <3>1, <2>1, <2>2, <1>1 DEF match_hook
    <3>. QED
      BY <3>1, <3>2, <2>1
  <2>4. CASE ~ (i >= HitMax)
    <3>. DEFINE s == f[i]
                e == calls[i + 1][1].id
    <3>1. Kept(i + 1) = i + 1 /\ Kept(i) = i
      BY <2>1, <2>4, <1>1 DEF Kept
    <3>2. s \in Seq(Nat) /\ Len(s) = i /\ \A j \in 1..i : s[j] = calls[j][1].id
      BY <3>1, <2>1
    <3>3. e \in Nat
      BY <2>1, <1>2
    <3>4. f[i + 1] = Append(s, e)
      BY <3>2, <2>2, <2>4 DEF match_hook
    <3>. HIDE DEF s, e
    <3>5. /\ Append(s, e) \in Seq(Nat) /\ Len(Append(s, e)) = Len(s) + 1
          /\ \A j \in 1..Len(s) : Append(s, e)[j] = s[j]
          /\ Append(s, e)[Len(s) + 1] = e
      BY <3>2, <3>3, AppendProperties
    <3>6. ASSUME NEW j \in 1..(i + 1) PROVE f[i + 1][j] = calls[j][1].id
      <4>1. CASE j = i + 1
        BY <4>1, <3>2, <3>4, <3>5 DEF e
      <4>2. CASE j # i + 1
        <5>1. j \in 1..i
          BY <4>2, <2>1
        <5>. QED
          BY <5>1, <3>2, <3>4, <3>5
      <4>. QED
        BY <4>1, <4>2
    <3>7. Len(f[i + 1]) = i + 1
      BY <3>2, <3>4, <3>5
    <3>. QED
      BY <3>1, <3>4, <3>5, <3>6, <3>7
  <2>. QED
    BY <2>3, <2>4
<1>9. S = Nat
  <2>. HIDE DEF S
  <2>1. S \in SUBSET Nat
    BY DEF S
  <2>. QED
    BY <1>7, <1>8, <2>1, SetInduction
<1>10. P(k) /\ Kept(k) \in 0..k
  <2>1. k \in 0..k
    BY <1>1
  <2>2. Kept(k) \in 0..k
    BY <2>1, <1>3
  <2>3. k \in S
    BY <1>9, <1>1
  <2>. QED
    BY <2>2, <2>3, <1>1
<1>11. \A j \in 1..Kept(k) : j \in 1..k
  BY <1>10, <1>1
<1>. HIDE DEF S
<1>. QED
  BY <1>5, <1>10, <1>11 DEF k

-----------------------------------------------------------------------------
(* The rule that refuses *)

LEMMA FirstIs ==
  ASSUME NEW S \in SUBSET (Nat \X Nat), S # {}
  PROVE  First(S) \in S
<1>. DEFINE A == {p[1] : p \in S}
<1>1. PICK a \in A : \A b \in A : a <= b
  <2>1. A \in SUBSET Nat /\ A # {}
    OBVIOUS
  <2>. HIDE DEF A
  <2>. QED
    BY <2>1, LeastIs
<1>. DEFINE B == {n \in Nat : <<a, n>> \in S}
<1>2. B # {}
  <2>1. PICK p \in S : p[1] = a
    BY <1>1
  <2>2. p = <<a, p[2]>> /\ p[2] \in Nat
    BY <2>1
  <2>. QED
    BY <2>2
<1>3. PICK m \in B : \A n \in B : m <= n
  <2>1. B \in SUBSET Nat
    OBVIOUS
  <2>. HIDE DEF B
  <2>. QED
    BY <2>1, <1>2, LeastIs
<1>4. ASSUME NEW q \in S PROVE a < q[1] \/ (a = q[1] /\ m <= q[2])
  <2>1. q = <<q[1], q[2]>> /\ q[1] \in Nat /\ q[2] \in Nat /\ a \in Nat
    BY <1>1
  <2>2. a <= q[1]
    BY <1>1
  <2>3. CASE a = q[1]
    <3>1. q[2] \in B
      BY <2>1, <2>3
    <3>. QED
      BY <3>1, <2>3, <1>3
  <2>. QED
    BY <2>1, <2>2, <2>3
<1>5. <<a, m>> \in S /\ <<a, m>>[1] = a /\ <<a, m>>[2] = m
  BY <1>3
<1>6. \E p \in S : \A q \in S : p[1] < q[1] \/ (p[1] = q[1] /\ p[2] <= q[2])
  BY <1>4, <1>5
<1>. QED
  BY <1>6 DEF First

(* A refused part was matched by a rule of the chain of one of its hits;   *)
(* when no such rule matches, none refuses.                                *)
LEMMA DecideIs ==
  ASSUME IInv, NEW text \in Text, NEW calls \in Calls(text)
  PROVE  LET index == search_multi_pattern(calls) IN
         /\ index \in Seq(Nat) /\ Len(index) = Kept(Cardinality(Hits(text)))
         /\ \A j \in 1..Len(index) :
              \E h \in Hits(text) : h = calls[j] /\ index[j] = h[1].id /\ index[j] \in Key
         /\ \A h \in Hits(text) : \E j \in 1..Cardinality(Hits(text)) : calls[j] = h
         /\ \A j \in 1..Len(index) : index[j] = calls[j][1].id
         /\ \A p \in Tried(index) :
              /\ p[1] \in 1..Len(index) /\ RuleAt(index, p) \in Rule
              /\ RuleAt(index, p) \in ToSet(rows)
              /\ RuleAt(index, p).key = index[p[1]]
         /\ IF Matching(index, text) = {} THEN Decide(index, text) = NoRule
            ELSE \E p \in Matching(index, text) : Decide(index, text) = RuleAt(index, p)
<1>. DEFINE H == Hits(text)
            N == Cardinality(H)
            index == search_multi_pattern(calls)
<1>0. text \in Seq(Nat)
  BY TextAssumption
<1>1. N \in Nat /\ IsFiniteSet(H)
  BY <1>0, HitsFinite
<1>2. calls \in [1..N -> H] /\ \A i, j \in 1..N : i # j => calls[i] # calls[j]
  BY DEF Calls, SetToSeqs
<1>3. H \subseteq Keyword \X Nat
  <2>1. \A h \in H : h \in Keyword \X (0..Len(text))
    BY DEF Hits, Found
  <2>2. Len(text) \in Nat
    BY <1>0, LenProperties
  <2>. QED
    BY <2>1, <2>2
<1>. HIDE DEF H, N
<1>4. calls \in Seq(Keyword \X Nat) /\ Len(calls) = N
  <2>1. calls \in [1..N -> Keyword \X Nat]
    BY <1>2, <1>3
  <2>. QED
    BY <2>1, <1>1
<1>5. /\ index \in Seq(Nat) /\ Len(index) = Kept(N)
      /\ \A j \in 1..Len(index) : j \in 1..N /\ index[j] = calls[j][1].id
  BY <1>4, SearchIs
<1>. HIDE DEF index
<1>6. ASSUME NEW j \in 1..Len(index)
      PROVE  \E h \in H : h = calls[j] /\ index[j] = h[1].id /\ index[j] \in Key
  <2>1. j \in 1..N /\ calls[j] \in H /\ index[j] = calls[j][1].id
    BY <1>2, <1>5
  <2>2. calls[j][1] \in Keyword
    BY <2>1, <1>3
  <2>. QED
    BY <2>1, <2>2 DEF Key
<1>7. ASSUME NEW h \in H PROVE \E j \in 1..N : calls[j] = h
  <2>1. calls \in Injection(1..N, H)
    BY <1>2 DEF Injection, IsInjective
  <2>2. Cardinality(1..N) = N
    BY <1>1, FS_Interval
  <2>3. calls \in Surjection(1..N, H)
    BY <2>1, <2>2, <1>1, FS_Injection DEF N
  <2>. QED
    BY <2>3 DEF Surjection
<1>8. ASSUME NEW p \in Tried(index)
      PROVE  /\ p[1] \in 1..Len(index) /\ RuleAt(index, p) \in Rule
             /\ RuleAt(index, p) \in ToSet(rows)
             /\ RuleAt(index, p).key = index[p[1]]
  <2>1. p[1] \in DOMAIN index /\ p[2] \in DOMAIN node[index[p[1]]]
    BY DEF Tried
  <2>2. p[1] \in 1..Len(index)
    BY <2>1, <1>5, LenProperties
  <2>3. index[p[1]] \in Key
    BY <2>2, <1>6
  <2>4. node[index[p[1]]] \in Seq(Rule)
    BY <2>3 DEF IInv, Types
  <2>5. RuleAt(index, p) \in Rule
    BY <2>1, <2>4, LenProperties, ElementOfSeq DEF RuleAt
  <2>6. RuleAt(index, p).key = index[p[1]]
    BY <2>1, <2>3 DEF IInv, Own, RuleAt
  <2>7. RuleAt(index, p) \in ToSet(rows)
    BY <2>1, <2>5, <2>6 DEF IInv, Loaded, RuleAt
  <2>. QED
    BY <2>2, <2>5, <2>6, <2>7
<1>9. IF Matching(index, text) = {} THEN Decide(index, text) = NoRule
      ELSE \E p \in Matching(index, text) : Decide(index, text) = RuleAt(index, p)
  <2>1. ASSUME NEW p \in Matching(index, text) PROVE p \in Nat \X Nat
    <3>1. p \in (DOMAIN index) \X (1..MaxRules)
      BY DEF Matching, Tried
    <3>2. DOMAIN index = 1..Len(index) /\ Len(index) \in Nat
      BY <1>5, LenProperties
    <3>. QED
      BY <3>1, <3>2, HitAssumption
  <2>2. CASE Matching(index, text) # {}
    <3>1. First(Matching(index, text)) \in Matching(index, text)
      BY <2>1, <2>2, FirstIs
    <3>. QED
      BY <3>1, <2>2 DEF Decide, Refusing
  <2>3. CASE Matching(index, text) = {}
    BY <2>3 DEF Decide, Refusing
  <2>. QED
    BY <2>2, <2>3
<1>. QED
  BY <1>5, <1>6, <1>7, <1>8, <1>9 DEF index, H, N

(* Before the first part nothing is refused; a part once checked was       *)
(* decided rightly by the rules there are, to which none are added then.   *)
Decided ==
  /\ IInv /\ TypeOK /\ RefusedForCause /\ NoneMissed
  /\ pc = "load" => part = NoPart /\ verdict = NoRule

LEMMA ChainsTyped ==
  ASSUME NEW n \in [Key -> Seq(Rule)], \A k \in Key : \A i \in DOMAIN n[k] : n[k][i].key = k
  PROVE  \A k \in Key : \A r \in ToSet(n[k]) : r \in Rule /\ r.key = k
<1>. SUFFICES ASSUME NEW k \in Key, NEW r \in ToSet(n[k])
              PROVE  r \in Rule /\ r.key = k
  OBVIOUS
<1>1. PICK i \in DOMAIN n[k] : r = n[k][i]
  BY DEF ToSet
<1>2. n[k][i] \in Rule
  BY LenProperties, ElementOfSeq
<1>. QED
  BY <1>1, <1>2

(* A part is checked.                                                      *)
LEMMA CheckDecides ==
  ASSUME Decided, NEW target \in Target, NEW here, NEW next,
         CheckPart(target, here, next),
         next \in {"arg", "cookie", "passed"}
  PROVE  Decided'
<1>0. PICK text \in Text : \E calls \in Calls(text) :
        /\ part' = <<target, text>>
        /\ verdict' = Decide(search_multi_pattern(calls), text)
  BY DEF CheckPart
<1>1. PICK calls \in Calls(text) :
        /\ part' = <<target, text>>
        /\ verdict' = Decide(search_multi_pattern(calls), text)
  BY <1>0
<1>. DEFINE index == search_multi_pattern(calls)
            H == Hits(text)
<1>2. UNCHANGED <<node, rows>> /\ pc' = IF verdict' = NoRule THEN next ELSE "refused"
  BY DEF CheckPart
<1>3. IInv /\ IInv'
  BY <1>2 DEF Decided, IInv, Types, Own, Once, Loaded
<1>4. text \in Seq(Nat)
  BY TextAssumption
<1>5. /\ index \in Seq(Nat) /\ Len(index) = Kept(Cardinality(H))
      /\ \A j \in 1..Len(index) :
           \E h \in H : h = calls[j] /\ index[j] = h[1].id /\ index[j] \in Key
      /\ \A h \in H : \E j \in 1..Cardinality(H) : calls[j] = h
      /\ \A j \in 1..Len(index) : index[j] = calls[j][1].id
      /\ \A p \in Tried(index) :
           /\ p[1] \in 1..Len(index) /\ RuleAt(index, p) \in Rule
           /\ RuleAt(index, p) \in ToSet(rows)
           /\ RuleAt(index, p).key = index[p[1]]
      /\ IF Matching(index, text) = {} THEN verdict' = NoRule
         ELSE \E p \in Matching(index, text) : verdict' = RuleAt(index, p)
  BY <1>1, <1>3, DecideIs
<1>6. part'[2] = text /\ Applicable(text)' = Applicable(text)
  BY <1>1, <1>2 DEF Applicable
<1>7. ASSUME verdict' # NoRule PROVE verdict' \in Applicable(text) /\ verdict' \in Rule
  <2>1. PICK p \in Matching(index, text) : verdict' = RuleAt(index, p)
    BY <1>5, <1>7
  <2>2. p \in Tried(index) /\ "ARG" \in verdict'.target /\ text \in verdict'.matches
    BY <2>1 DEF Matching
  <2>3. PICK h \in H : index[p[1]] = h[1].id
    BY <2>2, <1>5
  <2>4. /\ verdict' \in Rule /\ verdict' \in ToSet(rows) /\ verdict'.key = h[1].id
    BY <2>1, <2>2, <2>3, <1>5
  <2>5. h[1] \in Keyword /\ h = <<h[1], h[2]>>
    BY DEF Hits, Found
  <2>6. Words(h[1], text) # {}
    BY <2>5, <1>4, HitsAreWords
  <2>. QED
    BY <2>2, <2>4, <2>5, <2>6 DEF Applicable
<1>8. TypeOK'
  <2>0. \A k \in Key : \A r \in ToSet(node'[k]) : r \in Rule /\ r.key = k
    BY <1>3, ChainsTyped DEF IInv, Types, Own
  <2>1. part' \in Target \X Text
    BY <1>1
  <2>2. verdict' \in Rule \cup {NoRule}
    BY <1>7
  <2>3. (verdict' # NoRule <=> pc' = "refused") /\ pc' \in {"arg", "cookie", "passed", "refused"}
    BY <1>2
  <2>. QED
    BY <2>0, <2>1, <2>2, <2>3 DEF TypeOK
<1>9. RefusedForCause'
  BY <1>6, <1>7 DEF RefusedForCause
<1>10. NoneMissed'
  <2>. DEFINE W == UNION {{k} \X Words(k, text) : k \in Keyword}
  <2>1. ASSUME verdict' = NoRule, NEW r \in Applicable(text), ~ (Cardinality(W) > HitMax)
        PROVE  FALSE
    <3>. DEFINE N == Cardinality(H)
    <3>1. /\ r \in ToSet(rows) /\ "ARG" \in r.target /\ text \in r.matches
      BY DEF Applicable
    <3>2. PICK k \in Keyword : k.id = r.key /\ Words(k, text) # {}
      BY DEF Applicable
    <3>3. PICK w \in Words(k, text) : <<k, Len(w[1])>> \in H
      BY <3>2, <1>4, HitsAreWords
    <3>4. N \in Nat /\ N = Cardinality(W)
      BY <1>4, HitsFinite, HitsCounted
    <3>. HIDE DEF W, N, H, index
    <3>5. Kept(N) = N
      BY <3>4, <2>1, HitAssumption DEF Kept
    <3>6. PICK j \in 1..N : calls[j] = <<k, Len(w[1])>>
      BY <3>3, <1>5 DEF N
    <3>7. j \in DOMAIN index /\ index[j] = r.key
      <4>1. Len(index) = N /\ DOMAIN index = 1..Len(index)
        BY <1>5, <3>5, LenProperties DEF N
      <4>2. j \in 1..Len(index)
        BY <4>1
      <4>3. index[j] = calls[j][1].id
        BY <4>2, <1>5
      <4>. QED
        BY <4>1, <4>2, <4>3, <3>6, <3>2
    <3>8. r \in Rule /\ r.key \in Key
      <4>1. rows \in Seq(Rule)
        BY <1>3 DEF IInv, Types
      <4>2. PICK i \in DOMAIN rows : r = rows[i]
        BY <3>1 DEF ToSet
      <4>3. r \in Rule
        BY <4>1, <4>2, LenProperties, ElementOfSeq
      <4>. QED
        BY <4>3 DEF Key
    <3>9. PICK m \in DOMAIN node[r.key] : node[r.key][m] = r
      BY <3>1, <3>8, <1>3 DEF IInv, Loaded
    <3>10. m \in 1..MaxRules
      <4>1. /\ node[r.key] \in Seq(Rule) /\ rows \in Seq(Rule)
            /\ Len(node[r.key]) <= Len(rows) /\ Len(rows) <= MaxRules
        BY <3>8, <1>3 DEF IInv, Types
      <4>2. DOMAIN node[r.key] = 1..Len(node[r.key]) /\ Len(node[r.key]) \in Nat /\ Len(rows) \in Nat
        BY <4>1, LenProperties
      <4>. QED
        BY <4>1, <4>2, HitAssumption
    <3>11. <<j, m>> \in Matching(index, text)
      BY <3>1, <3>7, <3>9, <3>10 DEF Matching, Tried, RuleAt
    <3>12. PICK p \in Matching(index, text) : verdict' = RuleAt(index, p)
      BY <3>11, <1>5
    <3>13. verdict' \in Rule
      BY <3>12, <1>5 DEF Matching
    <3>. QED
      BY <3>13, <2>1, RuleAssumption
  <2>. HIDE DEF W
  <2>2. verdict' = NoRule => Applicable(text) = {} \/ Cardinality(W) > HitMax
    BY <2>1
  <2>. QED
    BY <2>2, <1>6 DEF NoneMissed, W
<1>11. pc' # "load"
  BY <1>2
<1>. QED
  BY <1>3, <1>8, <1>9, <1>10, <1>11 DEF Decided

LEMMA DecidedHolds == Spec => []Decided
<1>1. Init => Decided
  <2>. SUFFICES ASSUME Init PROVE Decided
    OBVIOUS
  <2>1. IInv
    BY InitInv
  <2>2. pc = "load" /\ part = NoPart /\ verdict = NoRule
    BY DEF Init
  <2>3. \A k \in Key : \A r \in ToSet(node[k]) : r \in Rule /\ r.key = k
    BY <2>1, ChainsTyped DEF IInv, Types, Own
  <2>. QED
    BY <2>1, <2>2, <2>3 DEF Decided, TypeOK, RefusedForCause, NoneMissed
<1>2. Decided /\ [Next]_vars => Decided'
  <2>. SUFFICES ASSUME Decided, [Next]_vars PROVE Decided'
    OBVIOUS
  <2>1. ASSUME NEW r \in Rule, LoadRule(r) PROVE Decided'
    <3>1. /\ pc = "load" /\ pc' \in {"load", "exit"}
          /\ UNCHANGED <<part, verdict>>
      BY <2>1 DEF LoadRule
    <3>2. part' = NoPart /\ verdict' = NoRule
      BY <3>1 DEF Decided
    <3>3. IInv'
      BY <2>1, LoadInv DEF Decided
    <3>4. \A k \in Key : \A x \in ToSet(node'[k]) : x \in Rule /\ x.key = k
      BY <3>3, ChainsTyped DEF IInv, Types, Own
    <3>5. TypeOK'
      BY <3>1, <3>2, <3>4 DEF TypeOK
    <3>. QED
      BY <3>1, <3>2, <3>3, <3>5 DEF Decided, RefusedForCause, NoneMissed
  <2>2. CASE CheckPart("URL", "url", "arg")
    BY <2>2, CheckDecides DEF Target
  <2>3. CASE CheckPart("ARG", "arg", "arg")
    BY <2>3, CheckDecides DEF Target
  <2>4. CASE CheckPart("AGENT", "agent", "cookie")
    BY <2>4, CheckDecides DEF Target
  <2>5. CASE CheckPart("COOKIE", "cookie", "passed")
    BY <2>5, CheckDecides DEF Target
  <2>6. CASE LoadEnd \/ ArgsEnd \/ NextRequest \/ UNCHANGED vars
    <3>1. UNCHANGED <<node, rows>>
      BY <2>6 DEF LoadEnd, ArgsEnd, NextRequest, vars
    <3>2. IInv'
      BY <3>1 DEF Decided, IInv, Types, Own, Once, Loaded
    <3>3. CASE NextRequest
      BY <3>1, <3>2, <3>3 DEF NextRequest, Decided, TypeOK, RefusedForCause, NoneMissed
    <3>4. CASE LoadEnd \/ ArgsEnd \/ UNCHANGED vars
      <4>1. UNCHANGED <<node, rows, part, verdict>>
        BY <3>4 DEF LoadEnd, ArgsEnd, vars
      <4>2. RefusedForCause' /\ NoneMissed'
        BY <4>1 DEF Decided, RefusedForCause, NoneMissed, Applicable
      <4>3. \/ pc = "load" /\ pc' = "url"
            \/ pc = "arg" /\ pc' = "agent"
            \/ pc' = pc
        BY <3>4 DEF LoadEnd, ArgsEnd, vars
      <4>4. TypeOK'
        BY <4>1, <4>3 DEF Decided, TypeOK
      <4>. QED
        BY <4>1, <4>2, <4>3, <4>4, <3>2 DEF Decided
    <3>. QED
      BY <2>6, <3>3, <3>4
  <2>. QED
    BY <2>1, <2>2, <2>3, <2>4, <2>5, <2>6 DEF Next, Check
<1>. QED
  BY <1>1, <1>2, PTL DEF Spec

(* The chains, the place in the check and the verdict have their types; a  *)
(* rule is named exactly when a request is refused.                        *)
THEOREM TypeCorrect == Spec => []TypeOK
<1>1. Decided => TypeOK
  BY DEF Decided
<1>. QED
  BY <1>1, DecidedHolds, PTL

(* A part is refused only for a loaded rule that applies to it: one for    *)
(* arguments whose expression matches and whose keyword stands in the text *)
(* as border_check asks.                                                   *)
THEOREM RefusedForCauseHolds == Spec => []RefusedForCause
<1>1. Decided => RefusedForCause
  BY DEF Decided
<1>. QED
  BY <1>1, DecidedHolds, PTL

(* A part to which a loaded rule applies is refused, unless more keywords  *)
(* stand in it than the hit list of match_hook has room for.               *)
THEOREM NoneMissedHolds == Spec => []NoneMissed
<1>1. Decided => NoneMissed
  BY DEF Decided
<1>. QED
  BY <1>1, DecidedHolds, PTL

=============================================================================
