------------------------ MODULE AhoCorasickProofs ------------------------
(* The keyword search of acsmx.c finds every occurrence of every pattern   *)
(* and nothing else, for any patterns and any text.                        *)
EXTENDS AhoCorasick, SequenceTheorems, WellFoundedInduction, TLAPS

Word == Seq(Letter)

LEMMA SetInduction ==
  ASSUME NEW S \in SUBSET Nat, 0 \in S, \A m \in S : m + 1 \in S
  PROVE  S = Nat
<1>. SUFFICES ASSUME Nat \ S # {} PROVE FALSE
  OBVIOUS
<1>1. PICK x \in Nat \ S : \A y \in Nat \ S : ~ (<<y, x>> \in OpToRel(<, Nat))
  BY NatLessThanWellFounded, WFMin
<1>2. x # 0 /\ x - 1 \in Nat /\ x - 1 < x /\ (x - 1) + 1 = x
  OBVIOUS
<1>3. <<x - 1, x>> \in OpToRel(<, Nat)
  BY <1>2 DEF OpToRel
<1>4. x - 1 \in S
  BY <1>1, <1>2, <1>3
<1>. QED
  BY <1>2, <1>4

LEMMA LeastIs ==
  ASSUME NEW S \in SUBSET Nat, S # {}
  PROVE  \E m \in S : \A k \in S : m <= k
<1>1. PICK x \in S : \A y \in S : ~ (<<y, x>> \in OpToRel(<, Nat))
  BY NatLessThanWellFounded, WFMin
<1>2. ASSUME NEW y \in S PROVE x <= y
  <2>. SUFFICES ASSUME y < x PROVE FALSE
    OBVIOUS
  <2>1. <<y, x>> \in OpToRel(<, Nat)
    BY DEF OpToRel
  <2>. QED
    BY <1>1, <2>1
<1>. QED
  BY <1>2

(* A loop of k turns, whose turn i makes G[i, x] of x, has a course.       *)
Runs(f, X, x, k, G) ==
  f \in [0..k -> X] /\ f[0] = x /\ \A i \in 1..k : f[i] = G[<<i, f[i - 1]>>]

LEMMA LoopRuns ==
  ASSUME NEW X, NEW x \in X, NEW k \in Nat, NEW G \in [(1..k) \X X -> X]
  PROVE  \E f : Runs(f, X, x, k, G)
<1>. DEFINE R(m) == \E f \in [0..m -> X] : f[0] = x /\ \A i \in 1..m : f[i] = G[<<i, f[i - 1]>>]
            S == {m \in Nat : m <= k => R(m)}
<1>1. 0 \in S
  <2>1. [i \in 0..0 |-> x] \in [0..0 -> X]
    OBVIOUS
  <2>2. [i \in 0..0 |-> x][0] = x /\ 1..0 = {}
    OBVIOUS
  <2>3. R(0)
    BY <2>1, <2>2
  <2>. QED
    BY <2>3
<1>2. ASSUME NEW m \in S PROVE m + 1 \in S
  <2>. SUFFICES ASSUME m + 1 <= k PROVE R(m + 1)
    OBVIOUS
  <2>1. m \in Nat /\ m <= k /\ m + 1 \in 1..k
    OBVIOUS
  <2>2. PICK f \in [0..m -> X] : f[0] = x /\ \A i \in 1..m : f[i] = G[<<i, f[i - 1]>>]
    BY <1>2, <2>1
  <2>3. PICK y \in X : y = G[<<m + 1, f[m]>>]
    <3>1. <<m + 1, f[m]>> \in (1..k) \X X
      BY <2>1, <2>2
    <3>. QED
      BY <3>1
  <2>4. PICK g : g = [i \in 0..(m + 1) |-> IF i = m + 1 THEN y ELSE f[i]]
    OBVIOUS
  <2>5. g \in [0..(m + 1) -> X]
    <3>1. \A i \in 0..(m + 1) : i # m + 1 => f[i] \in X
      BY <2>1, <2>2
    <3>. QED
      BY <2>3, <2>4, <3>1
  <2>6. g[0] = x
    BY <2>1, <2>2, <2>4
  <2>7. ASSUME NEW i \in 1..(m + 1) PROVE g[i] = G[<<i, g[i - 1]>>]
    <3>1. CASE i = m + 1
      <4>1. i - 1 = m /\ m \in 0..(m + 1) /\ m # m + 1
        BY <2>1, <3>1
      <4>2. g[i] = y /\ g[i - 1] = f[m]
        BY <2>1, <2>4, <3>1, <4>1
      <4>. QED
        BY <2>3, <3>1, <4>2
    <3>2. CASE i # m + 1
      <4>1. i \in 1..m /\ i - 1 \in 0..(m + 1) /\ i - 1 # m + 1 /\ i \in 0..(m + 1)
        BY <2>1, <3>2
      <4>2. g[i] = f[i] /\ g[i - 1] = f[i - 1]
        BY <2>4, <3>2, <4>1
      <4>. QED
        BY <2>2, <4>1, <4>2
    <3>. QED
      BY <3>1, <3>2
  <2>. QED
    BY <2>5, <2>6, <2>7
<1>3. S = Nat
  <2>. HIDE DEF S
  <2>1. S \in SUBSET Nat
    BY DEF S
  <2>. QED
    BY <1>1, <1>2, <2>1, SetInduction
<1>. QED
  BY <1>3 DEF Runs

-----------------------------------------------------------------------------
(* Sequences *)

LEMMA SeqIs ==
  ASSUME NEW X, NEW s \in Seq(X)
  PROVE  /\ Len(s) \in Nat /\ DOMAIN s = 1..Len(s)
         /\ \A i \in 1..Len(s) : s[i] \in X
         /\ ToSet(s) = {s[i] : i \in 1..Len(s)} /\ ToSet(s) \subseteq X
         /\ s = <<>> <=> Len(s) = 0
<1>1. Len(s) \in Nat /\ DOMAIN s = 1..Len(s)
  BY LenProperties
<1>2. \A i \in 1..Len(s) : s[i] \in X
  BY ElementOfSeq
<1>3. s = <<>> <=> Len(s) = 0
  BY EmptySeq
<1>. QED
  BY <1>1, <1>2, <1>3 DEF ToSet

LEMMA AppendIs ==
  ASSUME NEW X, NEW s \in Seq(X), NEW e \in X
  PROVE  /\ Append(s, e) \in Seq(X) /\ Len(Append(s, e)) = Len(s) + 1
         /\ \A i \in 1..Len(s) : Append(s, e)[i] = s[i]
         /\ Append(s, e)[Len(s) + 1] = e
         /\ ToSet(Append(s, e)) = ToSet(s) \cup {e}
<1>1. /\ Append(s, e) \in Seq(X) /\ Len(Append(s, e)) = Len(s) + 1
      /\ \A i \in 1..Len(s) : Append(s, e)[i] = s[i]
      /\ Append(s, e)[Len(s) + 1] = e
  BY AppendProperties
<1>2. Len(s) \in Nat /\ 1..(Len(s) + 1) = (1..Len(s)) \cup {Len(s) + 1}
  BY LenProperties
<1>3. ToSet(s) = {s[i] : i \in 1..Len(s)}
  BY SeqIs
<1>4. ToSet(Append(s, e)) = {Append(s, e)[i] : i \in 1..(Len(s) + 1)}
  BY <1>1, SeqIs
<1>5. {Append(s, e)[i] : i \in 1..(Len(s) + 1)} = {s[i] : i \in 1..Len(s)} \cup {e}
  BY <1>1, <1>2
<1>. QED
  BY <1>1, <1>3, <1>4, <1>5

(* No element twice. *)
Once(s) == \A i, j \in DOMAIN s : s[i] = s[j] => i = j

LEMMA ConcatIs ==
  ASSUME NEW X, NEW s \in Seq(X), NEW t \in Seq(X)
  PROVE  /\ s \o t \in Seq(X) /\ Len(s \o t) = Len(s) + Len(t)
         /\ \A i \in 1..Len(s) : (s \o t)[i] = s[i]
         /\ \A i \in 1..Len(t) : (s \o t)[Len(s) + i] = t[i]
         /\ \A i \in 1..(Len(s) + Len(t)) :
              i \in 1..Len(s) \/ \E j \in 1..Len(t) : i = Len(s) + j
         /\ ToSet(s \o t) = ToSet(s) \cup ToSet(t)
         /\ Once(s) /\ Once(t) /\ ToSet(s) \cap ToSet(t) = {} => Once(s \o t)
<1>1. /\ s \o t \in Seq(X)
      /\ Len(s \o t) = Len(s) + Len(t)
      /\ \A i \in 1 .. Len(s) + Len(t) :
           (s \o t)[i] = IF i <= Len(s) THEN s[i] ELSE t[i - Len(s)]
  BY ConcatProperties
<1>2. Len(s) \in Nat /\ Len(t) \in Nat
  BY LenProperties
<1>. DEFINE c == s \o t
<1>. HIDE DEF c
<1>3. \A i \in 1..Len(s) : c[i] = s[i]
  BY <1>1, <1>2 DEF c
<1>4. ASSUME NEW i \in 1..Len(t) PROVE c[Len(s) + i] = t[i]
  <2>1. Len(s) + i \in 1..(Len(s) + Len(t)) /\ ~ (Len(s) + i <= Len(s)) /\ (Len(s) + i) - Len(s) = i
    BY <1>2
  <2>2. c[Len(s) + i] = t[(Len(s) + i) - Len(s)]
    BY <1>1, <2>1 DEF c
  <2>. QED
    BY <2>1, <2>2
<1>5. ASSUME NEW i \in 1..(Len(s) + Len(t))
      PROVE  i \in 1..Len(s) \/ \E j \in 1..Len(t) : i = Len(s) + j
  <2>1. CASE i > Len(s)
    <3>1. i - Len(s) \in 1..Len(t) /\ i = Len(s) + (i - Len(s))
      BY <1>2, <2>1
    <3>. QED
      BY <3>1
  <2>. QED
    BY <1>2, <2>1
<1>6. /\ ToSet(s) = {s[i] : i \in 1..Len(s)} /\ ToSet(t) = {t[i] : i \in 1..Len(t)}
      /\ ToSet(c) = {c[i] : i \in 1..(Len(s) + Len(t))}
  BY <1>1, SeqIs DEF c
<1>7. ToSet(c) = ToSet(s) \cup ToSet(t)
  <2>1. ASSUME NEW i \in 1..Len(s) PROVE s[i] \in ToSet(c)
    BY <1>2, <1>3, <1>6
  <2>2. ASSUME NEW i \in 1..Len(t) PROVE t[i] \in ToSet(c)
    <3>1. Len(s) + i \in 1..(Len(s) + Len(t))
      BY <1>2
    <3>. QED
      BY <3>1, <1>4, <1>6
  <2>3. ASSUME NEW i \in 1..(Len(s) + Len(t)) PROVE c[i] \in ToSet(s) \cup ToSet(t)
    BY <1>3, <1>4, <1>5, <1>6
  <2>. QED
    BY <2>1, <2>2, <2>3, <1>6
<1>8. ASSUME Once(s), Once(t), ToSet(s) \cap ToSet(t) = {} PROVE Once(c)
  <2>1. DOMAIN s = 1..Len(s) /\ DOMAIN t = 1..Len(t) /\ DOMAIN c = 1..(Len(s) + Len(t))
    BY <1>1, LenProperties DEF c
  <2>. SUFFICES ASSUME NEW i \in 1..(Len(s) + Len(t)), NEW j \in 1..(Len(s) + Len(t)), c[i] = c[j]
                PROVE  i = j
    BY <2>1 DEF Once
  <2>2. CASE i \in 1..Len(s) /\ j \in 1..Len(s)
    BY <2>1, <2>2, <1>3, <1>8 DEF Once
  <2>3. CASE i \notin 1..Len(s) /\ j \notin 1..Len(s)
    <3>1. PICK u \in 1..Len(t) : i = Len(s) + u
      BY <2>3, <1>5
    <3>2. PICK v \in 1..Len(t) : j = Len(s) + v
      BY <2>3, <1>5
    <3>3. t[u] = t[v]
      BY <3>1, <3>2, <1>4
    <3>. QED
      BY <3>1, <3>2, <3>3, <2>1, <1>8 DEF Once
  <2>4. ASSUME NEW k \in 1..Len(s), NEW m \in 1..(Len(s) + Len(t)), m \notin 1..Len(s), c[k] = c[m]
        PROVE  FALSE
    <3>1. PICK u \in 1..Len(t) : m = Len(s) + u
      BY <2>4, <1>5
    <3>2. s[k] = t[u]
      BY <3>1, <2>4, <1>3, <1>4
    <3>. QED
      BY <3>2, <1>6, <1>8
  <2>. QED
    BY <2>2, <2>3, <2>4
<1>. QED
  BY <1>1, <1>3, <1>4, <1>5, <1>7, <1>8 DEF c

(* A sequence without its first element. *)
LEMMA TailIs ==
  ASSUME NEW X, NEW s \in Seq(X), s # <<>>
  PROVE  /\ Head(s) = s[1] /\ Head(s) \in X /\ 1 \in DOMAIN s
         /\ Tail(s) \in Seq(X) /\ Len(Tail(s)) = Len(s) - 1
         /\ \A i \in 1..(Len(s) - 1) : Tail(s)[i] = s[i + 1]
         /\ ToSet(s) = {Head(s)} \cup ToSet(Tail(s))
         /\ Once(s) => Once(Tail(s)) /\ Head(s) \notin ToSet(Tail(s))
<1>1. /\ Head(s) \in X /\ Tail(s) \in Seq(X) /\ Len(Tail(s)) = Len(s) - 1
      /\ \A i \in 1..Len(Tail(s)) : Tail(s)[i] = s[i + 1]
  BY HeadTailProperties
<1>2. Len(s) \in Nat /\ Len(s) >= 1 /\ DOMAIN s = 1..Len(s) /\ 1 \in 1..Len(s)
  BY SeqIs
<1>3. Head(s) = s[1]
  OBVIOUS
<1>4. DOMAIN Tail(s) = 1..(Len(s) - 1)
  BY <1>1, SeqIs
<1>5. ToSet(s) = {s[i] : i \in 1..Len(s)} /\ ToSet(Tail(s)) = {s[i + 1] : i \in 1..(Len(s) - 1)}
  <2>1. ToSet(Tail(s)) = {Tail(s)[i] : i \in 1..Len(Tail(s))}
    BY <1>1, SeqIs
  <2>2. ToSet(s) = {s[i] : i \in 1..Len(s)}
    BY SeqIs
  <2>. QED
    BY <1>1, <2>1, <2>2
<1>6. ToSet(s) = {s[1]} \cup ToSet(Tail(s))
  <2>1. ASSUME NEW i \in 1..Len(s), i # 1 PROVE s[i] \in ToSet(Tail(s))
    <3>1. i - 1 \in 1..(Len(s) - 1) /\ (i - 1) + 1 = i
      BY <1>2, <2>1
    <3>. QED
      BY <3>1, <1>5
  <2>2. ASSUME NEW i \in 1..(Len(s) - 1) PROVE s[i + 1] \in ToSet(s)
    BY <1>2, <1>5
  <2>. QED
    BY <2>1, <2>2, <1>2, <1>5
<1>7. ASSUME Once(s) PROVE Once(Tail(s)) /\ s[1] \notin ToSet(Tail(s))
  <2>1. \A i \in 1..(Len(s) - 1) : i + 1 \in 1..Len(s) /\ i + 1 # 1
    BY <1>2
  <2>2. ASSUME NEW i \in 1..(Len(s) - 1), NEW j \in 1..(Len(s) - 1), Tail(s)[i] = Tail(s)[j]
        PROVE  i = j
    <3>1. s[i + 1] = s[j + 1]
      BY <2>2, <1>1
    <3>2. i + 1 = j + 1
      BY <3>1, <2>1, <1>2, <1>7 DEF Once
    <3>. QED
      BY <3>2
  <2>3. ASSUME NEW i \in 1..(Len(s) - 1) PROVE s[i + 1] # s[1]
    BY <2>1, <1>2, <1>7 DEF Once
  <2>. QED
    BY <2>2, <2>3, <1>4, <1>5 DEF Once
<1>. QED
  BY <1>1, <1>2, <1>3, <1>6, <1>7

LEMMA ReverseIs ==
  ASSUME NEW X, NEW s \in Seq(X)
  PROVE  Reverse(s) \in Seq(X) /\ ToSet(Reverse(s)) = ToSet(s) /\ (Once(s) => Once(Reverse(s)))
<1>1. Len(s) \in Nat /\ DOMAIN s = 1..Len(s) /\ \A i \in 1..Len(s) : s[i] \in X
  BY SeqIs
<1>2. \A i \in 1..Len(s) : (Len(s) - i) + 1 \in 1..Len(s)
  BY <1>1
<1>3. Reverse(s) = [i \in 1..Len(s) |-> s[(Len(s) - i) + 1]]
  BY DEF Reverse
<1>4. Reverse(s) \in [1..Len(s) -> X]
  BY <1>1, <1>2, <1>3
<1>5. Reverse(s) \in Seq(X) /\ Len(Reverse(s)) = Len(s) /\ DOMAIN Reverse(s) = 1..Len(s)
  BY <1>1, <1>4
<1>6. ToSet(Reverse(s)) = ToSet(s)
  <2>1. ASSUME NEW i \in 1..Len(s) PROVE \E j \in 1..Len(s) : s[(Len(s) - j) + 1] = s[i]
    <3>1. (Len(s) - i) + 1 \in 1..Len(s) /\ (Len(s) - ((Len(s) - i) + 1)) + 1 = i
      BY <1>1, <1>2
    <3>. QED
      BY <3>1
  <2>2. ToSet(Reverse(s)) = {s[(Len(s) - i) + 1] : i \in 1..Len(s)}
    BY <1>3 DEF ToSet
  <2>3. ToSet(s) = {s[i] : i \in 1..Len(s)}
    BY <1>1 DEF ToSet
  <2>. QED
    BY <2>1, <2>2, <2>3, <1>2
<1>7. ASSUME Once(s) PROVE Once(Reverse(s))
  <2>1. ASSUME NEW i \in 1..Len(s), NEW j \in 1..Len(s), Reverse(s)[i] = Reverse(s)[j]
        PROVE  i = j
    <3>1. s[(Len(s) - i) + 1] = s[(Len(s) - j) + 1]
      BY <2>1, <1>3
    <3>2. (Len(s) - i) + 1 = (Len(s) - j) + 1
      BY <3>1, <1>1, <1>2, <1>7 DEF Once
    <3>. QED
      BY <3>2, <1>1
  <2>. QED
    BY <2>1, <1>5 DEF Once
<1>. QED
  BY <1>5, <1>6, <1>7

-----------------------------------------------------------------------------
(* The loops of the model *)

(* What is chosen of a sequence. *)
LEMMA ChosenIs ==
  ASSUME NEW X, NEW s \in Seq(X), NEW S
  PROVE  /\ Chosen(s, S) \in Seq(X)
         /\ ToSet(Chosen(s, S)) = ToSet(s) \cap S
         /\ (\A i, j \in DOMAIN s : s[i] = s[j] /\ s[i] \in S => i = j) => Once(Chosen(s, S))
<1>. DEFINE k == Len(s)
            Course(f) == f = [i \in 0..k |->
                  IF i = 0 THEN <<>>
                  ELSE IF s[i] \in S THEN Append(f[i - 1], s[i]) ELSE f[i - 1]]
<1>1. k \in Nat /\ DOMAIN s = 1..k /\ \A i \in 1..k : s[i] \in X
  BY SeqIs
<1>. HIDE DEF k
<1>2. \E f : Course(f)
  <2>. DEFINE G == [p \in (1..k) \X Seq(X) |->
                      IF s[p[1]] \in S THEN Append(p[2], s[p[1]]) ELSE p[2]]
  <2>1. G \in [(1..k) \X Seq(X) -> Seq(X)]
    <3>1. ASSUME NEW p \in (1..k) \X Seq(X)
          PROVE  (IF s[p[1]] \in S THEN Append(p[2], s[p[1]]) ELSE p[2]) \in Seq(X)
      <4>1. p[1] \in 1..k /\ p[2] \in Seq(X)
        OBVIOUS
      <4>2. s[p[1]] \in X
        BY <4>1, <1>1
      <4>3. Append(p[2], s[p[1]]) \in Seq(X)
        BY <4>1, <4>2, AppendProperties
      <4>. QED
        BY <4>1, <4>3
    <3>. QED
      BY <3>1
  <2>2. <<>> \in Seq(X)
    BY EmptySeq
  <2>3. \A i \in 1..k, y \in Seq(X) :
          G[<<i, y>>] = IF s[i] \in S THEN Append(y, s[i]) ELSE y
    OBVIOUS
  <2>. HIDE DEF G
  <2>. DEFINE Z == Seq(X)
              z == <<>>
  <2>4. PICK f \in [0..k -> Z] : f[0] = z /\ \A i \in 1..k : f[i] = G[<<i, f[i - 1]>>]
    <3>1. z \in Z /\ G \in [(1..k) \X Z -> Z] /\ k \in Nat
      BY <1>1, <2>1, <2>2
    <3>. HIDE DEF Z, z
    <3>2. \E f : Runs(f, Z, z, k, G)
      BY <3>1, LoopRuns
    <3>. QED
      BY <3>2 DEF Runs
  <2>5. ASSUME NEW i \in 0..k, i # 0
        PROVE  f[i] = IF s[i] \in S THEN Append(f[i - 1], s[i]) ELSE f[i - 1]
    <3>1. i \in 1..k /\ i - 1 \in 0..k
      BY <2>5, <1>1
    <3>2. f[i - 1] \in Seq(X)
      BY <3>1, <2>4
    <3>. QED
      BY <3>1, <3>2, <2>3, <2>4
  <2>6. f = [i \in 0..k |->
               IF i = 0 THEN <<>>
               ELSE IF s[i] \in S THEN Append(f[i - 1], s[i]) ELSE f[i - 1]]
    BY <2>4, <2>5
  <2>. QED
    BY <2>6
<1>3. PICK f : Course(f) /\ Chosen(s, S) = f[k]
  <2>1. Chosen(s, S) = (CHOOSE f : Course(f))[k]
    BY DEF Chosen, k
  <2>. QED
    BY <1>2, <2>1
<1>4. f[0] = <<>>
  BY <1>1, <1>3
<1>5. ASSUME NEW i \in Nat, i + 1 <= k
      PROVE  f[i + 1] = IF s[i + 1] \in S THEN Append(f[i], s[i + 1]) ELSE f[i]
  <2>1. i + 1 \in 0..k /\ i + 1 # 0 /\ (i + 1) - 1 = i
    BY <1>1, <1>5
  <2>. QED
    BY <1>3, <2>1
<1>. DEFINE One == \A i, j \in 1..k : s[i] = s[j] /\ s[i] \in S => i = j
            P(i) == /\ f[i] \in Seq(X)
                    /\ ToSet(f[i]) = {s[j] : j \in 1..i} \cap S
                    /\ One => Once(f[i])
            D == {i \in Nat : i <= k => P(i)}
<1>6. 0 \in D
  <2>1. <<>> \in Seq(X) /\ ToSet(<<>>) = {} /\ Once(<<>>) /\ 1..0 = {}
    BY EmptySeq DEF ToSet, Once
  <2>2. {s[j] : j \in 1..0} = {}
    BY <2>1
  <2>3. P(0)
    BY <1>4, <2>1, <2>2
  <2>. QED
    BY <2>3
<1>7. ASSUME NEW i \in D PROVE i + 1 \in D
  <2>. SUFFICES ASSUME i + 1 <= k PROVE P(i + 1)
    OBVIOUS
  <2>1. P(i) /\ i \in Nat /\ i + 1 \in 1..k
    BY <1>7, <1>1
  <2>2. {s[j] : j \in 1..(i + 1)} = {s[j] : j \in 1..i} \cup {s[i + 1]}
    <3>1. 1..(i + 1) = (1..i) \cup {i + 1}
      BY <2>1
    <3>. QED
      BY <3>1
  <2>3. CASE s[i + 1] \notin S
    <3>1. f[i + 1] = f[i]
      BY <2>1, <2>3, <1>5
    <3>. QED
      BY <3>1, <2>1, <2>2, <2>3
  <2>4. CASE s[i + 1] \in S
    <3>. DEFINE u == f[i]
                e == s[i + 1]
    <3>1. f[i + 1] = Append(u, e)
      BY <2>1, <2>4, <1>5
    <3>2. u \in Seq(X) /\ e \in X
      BY <2>1, <1>1
    <3>. HIDE DEF u, e
    <3>3. /\ Append(u, e) \in Seq(X) /\ Len(Append(u, e)) = Len(u) + 1
          /\ \A j \in 1..Len(u) : Append(u, e)[j] = u[j]
          /\ Append(u, e)[Len(u) + 1] = e
          /\ ToSet(Append(u, e)) = ToSet(u) \cup {e}
      BY <3>2, AppendIs
    <3>4. ToSet(f[i + 1]) = {s[j] : j \in 1..(i + 1)} \cap S
      BY <3>1, <3>3, <2>1, <2>2, <2>4 DEF u, e
    <3>5. ASSUME One PROVE Once(Append(u, e))
      <4>1. Once(u)
        BY <3>5, <2>1 DEF u
      <4>2. e \notin ToSet(u)
        <5>1. \A j \in 1..i : s[j] # e
          BY <3>5, <2>1, <2>4, <1>1 DEF e
        <5>. QED
          BY <5>1, <2>1 DEF u
      <4>3. Len(u) \in Nat /\ DOMAIN u = 1..Len(u) /\ \A j \in 1..Len(u) : u[j] \in ToSet(u)
        BY <3>2, SeqIs
      <4>4. DOMAIN Append(u, e) = 1..(Len(u) + 1)
        BY <3>3, SeqIs
      <4>5. ASSUME NEW a \in 1..(Len(u) + 1), NEW b \in 1..(Len(u) + 1),
                   Append(u, e)[a] = Append(u, e)[b]
            PROVE  a = b
        <5>1. CASE a = Len(u) + 1 \/ b = Len(u) + 1
          BY <5>1, <4>2, <4>3, <4>5, <3>3
        <5>2. CASE a # Len(u) + 1 /\ b # Len(u) + 1
          <6>1. a \in 1..Len(u) /\ b \in 1..Len(u)
            BY <5>2, <4>3
          <6>2. u[a] = u[b]
            BY <6>1, <4>5, <3>3
          <6>. QED
            BY <6>1, <6>2, <4>1, <4>3 DEF Once
        <5>. QED
          BY <5>1, <5>2
      <4>. QED
        BY <4>4, <4>5 DEF Once
    <3>. QED
      BY <3>1, <3>3, <3>4, <3>5
  <2>. QED
    BY <2>3, <2>4
<1>8. D = Nat
  <2>. HIDE DEF D
  <2>1. D \in SUBSET Nat
    BY DEF D
  <2>. QED
    BY <1>6, <1>7, <2>1, SetInduction
<1>9. P(k)
  <2>1. k \in D
    BY <1>1, <1>8
  <2>. QED
    BY <2>1, <1>1
<1>10. ToSet(s) = {s[i] : i \in 1..k}
  BY <1>1 DEF ToSet
<1>. HIDE DEF D
<1>. QED
  BY <1>1, <1>3, <1>9, <1>10
-----------------------------------------------------------------------------
(* Suffixes *)

(* A word without its first i letters. *)
Drop(w, i) == SubSeq(w, i + 1, Len(w))

Ends(q, w) == \E i \in 0..Len(w) : q = Drop(w, i)

LEMMA DropIs ==
  ASSUME NEW X, NEW w \in Seq(X), NEW i \in 0..Len(w)
  PROVE  /\ Drop(w, i) \in Seq(X) /\ Len(Drop(w, i)) = Len(w) - i
         /\ \A j \in 1..(Len(w) - i) : Drop(w, i)[j] = w[i + j]
<1>1. Len(w) \in Nat /\ \A j \in 1..Len(w) : w[j] \in X
  BY SeqIs
<1>2. i + 1 \in Int /\ Len(w) \in Int /\ \A j \in (i + 1)..Len(w) : w[j] \in X
  BY <1>1
<1>3. /\ Drop(w, i) \in Seq(X)
      /\ Len(Drop(w, i)) = IF i + 1 <= Len(w) THEN Len(w) - (i + 1) + 1 ELSE 0
      /\ \A j \in 1..(Len(w) - (i + 1) + 1) : Drop(w, i)[j] = w[(i + 1) + j - 1]
  BY <1>2, SubSeqProperties DEF Drop
<1>4. Len(Drop(w, i)) = Len(w) - i /\ Len(w) - (i + 1) + 1 = Len(w) - i
  BY <1>1, <1>3
<1>5. ASSUME NEW j \in 1..(Len(w) - i) PROVE Drop(w, i)[j] = w[i + j]
  <2>1. (i + 1) + j - 1 = i + j
    BY <1>1
  <2>. QED
    BY <2>1, <1>3, <1>4
<1>. QED
  BY <1>3, <1>4, <1>5

LEMMA DropEnds ==
  ASSUME NEW X, NEW w \in Seq(X)
  PROVE  Drop(w, 0) = w /\ Drop(w, Len(w)) = <<>>
<1>1. Len(w) \in Nat /\ 0 \in 0..Len(w) /\ Len(w) \in 0..Len(w)
  BY SeqIs
<1>2. Drop(w, 0) \in Seq(X) /\ Len(Drop(w, 0)) = Len(w) /\ \A j \in 1..Len(w) : Drop(w, 0)[j] = w[j]
  <2>1. /\ Drop(w, 0) \in Seq(X) /\ Len(Drop(w, 0)) = Len(w) - 0
        /\ \A j \in 1..(Len(w) - 0) : Drop(w, 0)[j] = w[0 + j]
    BY <1>1, DropIs
  <2>. QED
    BY <2>1, <1>1
<1>3. Drop(w, Len(w)) \in Seq(X) /\ Len(Drop(w, Len(w))) = 0
  <2>1. Drop(w, Len(w)) \in Seq(X) /\ Len(Drop(w, Len(w))) = Len(w) - Len(w)
    BY <1>1, DropIs
  <2>. QED
    BY <2>1, <1>1
<1>4. Drop(w, 0) = w
  BY <1>2, SeqEqual
<1>. QED
  BY <1>3, <1>4, SeqIs

LEMMA DropTail ==
  ASSUME NEW X, NEW w \in Seq(X), w # <<>>, NEW i \in 0..(Len(w) - 1)
  PROVE  i \in 0..Len(Tail(w)) /\ i + 1 \in 0..Len(w) /\ Drop(w, i + 1) = Drop(Tail(w), i)
<1>1. /\ Tail(w) \in Seq(X) /\ Len(Tail(w)) = Len(w) - 1 /\ Len(w) \in Nat
      /\ \A j \in 1..(Len(w) - 1) : Tail(w)[j] = w[j + 1]
  BY TailIs, SeqIs
<1>2. i \in 0..Len(Tail(w)) /\ i + 1 \in 0..Len(w)
  BY <1>1
<1>3. /\ Drop(w, i + 1) \in Seq(X) /\ Len(Drop(w, i + 1)) = Len(w) - (i + 1)
      /\ \A j \in 1..(Len(w) - (i + 1)) : Drop(w, i + 1)[j] = w[(i + 1) + j]
  BY <1>2, DropIs
<1>4. /\ Drop(Tail(w), i) \in Seq(X) /\ Len(Drop(Tail(w), i)) = Len(w) - 1 - i
      /\ \A j \in 1..(Len(w) - 1 - i) : Drop(Tail(w), i)[j] = Tail(w)[i + j]
  <2>. DEFINE u == Tail(w)
  <2>1. u \in Seq(X) /\ i \in 0..Len(u) /\ Len(u) = Len(w) - 1
    BY <1>1, <1>2
  <2>. HIDE DEF u
  <2>2. /\ Drop(u, i) \in Seq(X) /\ Len(Drop(u, i)) = Len(u) - i
        /\ \A j \in 1..(Len(u) - i) : Drop(u, i)[j] = u[i + j]
    BY <2>1, DropIs
  <2>. QED
    BY <2>1, <2>2 DEF u
<1>5. ASSUME NEW j \in 1..(Len(w) - (i + 1)) PROVE Drop(w, i + 1)[j] = Drop(Tail(w), i)[j]
  <2>1. j \in 1..(Len(w) - 1 - i) /\ i + j \in 1..(Len(w) - 1) /\ (i + 1) + j = (i + j) + 1
    BY <1>1
  <2>. QED
    BY <2>1, <1>1, <1>3, <1>4
<1>6. Len(Drop(w, i + 1)) = Len(Drop(Tail(w), i))
  BY <1>1, <1>3, <1>4
<1>7. Drop(w, i + 1) = Drop(Tail(w), i)
  BY <1>3, <1>4, <1>5, <1>6, SeqEqual
<1>. QED
  BY <1>2, <1>7

LEMMA TailAppend ==
  ASSUME NEW X, NEW w \in Seq(X), w # <<>>, NEW b \in X
  PROVE  Tail(Append(w, b)) = Append(Tail(w), b)
<1>1. /\ Tail(w) \in Seq(X) /\ Len(Tail(w)) = Len(w) - 1 /\ Len(w) \in Nat /\ Len(w) >= 1
      /\ \A j \in 1..(Len(w) - 1) : Tail(w)[j] = w[j + 1]
  BY TailIs, SeqIs
<1>2. /\ Append(w, b) \in Seq(X) /\ Len(Append(w, b)) = Len(w) + 1
      /\ \A j \in 1..Len(w) : Append(w, b)[j] = w[j]
      /\ Append(w, b)[Len(w) + 1] = b
  BY AppendIs
<1>3. Append(w, b) # <<>>
  BY <1>1, <1>2, SeqIs
<1>4. /\ Tail(Append(w, b)) \in Seq(X) /\ Len(Tail(Append(w, b))) = Len(w)
      /\ \A j \in 1..Len(w) : Tail(Append(w, b))[j] = Append(w, b)[j + 1]
  <2>. DEFINE u == Append(w, b)
  <2>. HIDE DEF u
  <2>1. u \in Seq(X) /\ u # <<>> /\ Len(u) = Len(w) + 1
    BY <1>2, <1>3 DEF u
  <2>2. /\ Tail(u) \in Seq(X) /\ Len(Tail(u)) = Len(u) - 1
        /\ \A j \in 1..(Len(u) - 1) : Tail(u)[j] = u[j + 1]
    BY <2>1, TailIs
  <2>3. Len(u) - 1 = Len(w)
    BY <2>1, <1>1
  <2>4. /\ Tail(u) \in Seq(X) /\ Len(Tail(u)) = Len(w)
        /\ \A j \in 1..Len(w) : Tail(u)[j] = u[j + 1]
    BY <2>2, <2>3
  <2>. QED
    BY <2>4 DEF u
<1>5. /\ Append(Tail(w), b) \in Seq(X) /\ Len(Append(Tail(w), b)) = Len(w)
      /\ \A j \in 1..(Len(w) - 1) : Append(Tail(w), b)[j] = Tail(w)[j]
      /\ Append(Tail(w), b)[Len(w)] = b
  <2>. DEFINE u == Tail(w)
  <2>. HIDE DEF u
  <2>1. u \in Seq(X) /\ Len(u) = Len(w) - 1
    BY <1>1 DEF u
  <2>2. /\ Append(u, b) \in Seq(X) /\ Len(Append(u, b)) = Len(u) + 1
        /\ \A j \in 1..Len(u) : Append(u, b)[j] = u[j]
        /\ Append(u, b)[Len(u) + 1] = b
    BY <2>1, AppendIs
  <2>3. Len(u) + 1 = Len(w)
    BY <2>1, <1>1
  <2>. QED
    BY <2>1, <2>2, <2>3 DEF u
<1>6. ASSUME NEW j \in 1..Len(w) PROVE Tail(Append(w, b))[j] = Append(Tail(w), b)[j]
  <2>1. CASE j = Len(w)
    BY <2>1, <1>2, <1>4, <1>5
  <2>2. CASE j # Len(w)
    <3>0. Len(w) \in Nat
      BY <1>1
    <3>1. j \in 1..(Len(w) - 1) /\ j \in 1..Len(w)
      BY <2>2, <3>0
    <3>. QED
      BY <3>1, <1>1, <1>2, <1>4, <1>5
  <2>. QED
    BY <2>1, <2>2
<1>. QED
  BY <1>4, <1>5, <1>6, SeqEqual

(* What a word ends in: itself, or what the rest ends in. *)
LEMMA EndsIs ==
  ASSUME NEW X, NEW w \in Seq(X), NEW q
  PROVE  /\ Ends(w, w) /\ Ends(<<>>, w)
         /\ w = <<>> => (Ends(q, w) <=> q = <<>>)
         /\ w # <<>> => (Ends(q, w) <=> (q = w \/ Ends(q, Tail(w))))
         /\ Ends(q, w) => q \in Seq(X) /\ Len(q) <= Len(w) /\ q = Drop(w, Len(w) - Len(q))
<1>1. Len(w) \in Nat /\ 0 \in 0..Len(w) /\ Len(w) \in 0..Len(w)
  BY SeqIs
<1>2. Drop(w, 0) = w /\ Drop(w, Len(w)) = <<>>
  BY DropEnds
<1>3. Ends(w, w) /\ Ends(<<>>, w)
  BY <1>1, <1>2 DEF Ends
<1>4. ASSUME w = <<>> PROVE Ends(q, w) <=> q = <<>>
  <2>1. Len(w) = 0 /\ 0..0 = {0}
    BY <1>4, SeqIs
  <2>. QED
    BY <2>1, <1>2, <1>4 DEF Ends
<1>5. ASSUME w # <<>> PROVE Ends(q, w) <=> (q = w \/ Ends(q, Tail(w)))
  <2>0. Len(Tail(w)) = Len(w) - 1 /\ Len(w) >= 1
    BY <1>1, <1>5, TailIs, SeqIs
  <2>1. ASSUME Ends(q, w), q # w PROVE Ends(q, Tail(w))
    <3>1. PICK i \in 0..Len(w) : q = Drop(w, i)
      BY <2>1 DEF Ends
    <3>2. i # 0
      BY <3>1, <2>1, <1>2
    <3>3. i - 1 \in 0..(Len(w) - 1) /\ (i - 1) + 1 = i
      BY <3>2, <1>1
    <3>4. \A k \in 0..(Len(w) - 1) : k \in 0..Len(Tail(w)) /\ Drop(w, k + 1) = Drop(Tail(w), k)
      BY <1>5, DropTail
    <3>. QED
      BY <3>1, <3>3, <3>4 DEF Ends
  <2>2. ASSUME Ends(q, Tail(w)) PROVE Ends(q, w)
    <3>1. PICK i \in 0..Len(Tail(w)) : q = Drop(Tail(w), i)
      BY <2>2 DEF Ends
    <3>2. i \in 0..(Len(w) - 1)
      BY <2>0
    <3>3. i + 1 \in 0..Len(w) /\ Drop(w, i + 1) = Drop(Tail(w), i)
      BY <3>2, <1>5, DropTail
    <3>. QED
      BY <3>1, <3>3 DEF Ends
  <2>. QED
    BY <2>1, <2>2, <1>3
<1>6. ASSUME Ends(q, w) PROVE q \in Seq(X) /\ Len(q) <= Len(w) /\ q = Drop(w, Len(w) - Len(q))
  <2>1. PICK i \in 0..Len(w) : q = Drop(w, i)
    BY <1>6 DEF Ends
  <2>2. Drop(w, i) \in Seq(X) /\ Len(Drop(w, i)) = Len(w) - i
    BY DropIs
  <2>3. Len(q) = Len(w) - i /\ Len(w) - Len(q) = i /\ Len(q) <= Len(w)
    BY <2>1, <2>2, <1>1
  <2>. QED
    BY <2>1, <2>2, <2>3
<1>. QED
  BY <1>3, <1>4, <1>5, <1>6

(* The longest suffix of a word in a set. *)
Best(St, w) ==
  Drop(w, CHOOSE i \in 0..Len(w) :
            Drop(w, i) \in St /\ \A j \in 0..Len(w) : Drop(w, j) \in St => i <= j)

LEMMA BestIs ==
  ASSUME NEW St \in SUBSET Word, <<>> \in St, NEW w \in Word
  PROVE  /\ Best(St, w) \in St /\ Best(St, w) \in Word /\ Ends(Best(St, w), w)
         /\ Len(Best(St, w)) <= Len(w)
         /\ w \in St => Best(St, w) = w
         /\ w \notin St => w # <<>> /\ Tail(w) \in Word /\ Best(St, w) = Best(St, Tail(w))
<1>. DEFINE L(i, v) == /\ i \in 0..Len(v) /\ Drop(v, i) \in St
                       /\ \A j \in 0..Len(v) : Drop(v, j) \in St => i <= j
<1>1. ASSUME NEW v \in Word
      PROVE  \E i : L(i, v) /\ Best(St, v) = Drop(v, i)
  <2>1. Len(v) \in Nat /\ Len(v) \in 0..Len(v) /\ Drop(v, Len(v)) \in St
    BY SeqIs, DropEnds DEF Word
  <2>. DEFINE D == {i \in 0..Len(v) : Drop(v, i) \in St}
  <2>2. D \in SUBSET Nat /\ D # {}
    BY <2>1
  <2>3. PICK i \in D : \A j \in D : i <= j
    <3>. HIDE DEF D
    <3>. QED
      BY <2>2, LeastIs
  <2>4. \E k \in 0..Len(v) :
          Drop(v, k) \in St /\ \A j \in 0..Len(v) : Drop(v, j) \in St => k <= j
    BY <2>3
  <2>. QED
    BY <2>4 DEF Best
<1>2. ASSUME NEW v \in Word, NEW i, NEW j, L(i, v), L(j, v) PROVE i = j
  BY <1>2, SeqIs DEF Word
<1>3. PICK i : L(i, w) /\ Best(St, w) = Drop(w, i)
  BY <1>1
<1>4. /\ Drop(w, i) \in Word /\ Len(Drop(w, i)) <= Len(w) /\ Ends(Drop(w, i), w)
      /\ Len(w) \in Nat
  <2>1. Len(w) \in Nat
    BY SeqIs DEF Word
  <2>2. Drop(w, i) \in Word /\ Len(Drop(w, i)) = Len(w) - i
    BY <1>3, DropIs DEF Word
  <2>3. Ends(Drop(w, i), w)
    BY <1>3 DEF Ends
  <2>. QED
    BY <2>1, <2>2, <2>3, <1>3
<1>5. Drop(w, 0) = w /\ 0 \in 0..Len(w)
  BY <1>4, DropEnds DEF Word
<1>6. ASSUME w \in St PROVE Best(St, w) = w
  <2>1. i = 0
    BY <1>3, <1>4, <1>5, <1>6
  <2>. QED
    BY <2>1, <1>3, <1>5
<1>7. ASSUME w \notin St
      PROVE  w # <<>> /\ Tail(w) \in Word /\ Best(St, w) = Best(St, Tail(w))
  <2>1. w # <<>>
    BY <1>7
  <2>2. Tail(w) \in Word /\ Len(Tail(w)) = Len(w) - 1
    BY <2>1, TailIs DEF Word
  <2>3. i # 0
    BY <1>3, <1>5, <1>7
  <2>4. \A k \in 0..(Len(w) - 1) :
          k \in 0..Len(Tail(w)) /\ k + 1 \in 0..Len(w) /\ Drop(w, k + 1) = Drop(Tail(w), k)
    BY <2>1, DropTail DEF Word
  <2>. DEFINE k == i - 1
  <2>5. k \in 0..(Len(w) - 1) /\ k + 1 = i /\ k \in Int
    BY <2>3, <1>3, <1>4
  <2>. HIDE DEF k
  <2>6. L(k, Tail(w))
    <3>1. ASSUME NEW j \in 0..Len(Tail(w)), Drop(Tail(w), j) \in St PROVE k <= j
      <4>1. j \in 0..(Len(w) - 1) /\ j + 1 \in 0..Len(w)
        <5>1. PICK l \in Nat : l = Len(w)
          BY <1>4
        <5>2. j \in 0..(l - 1)
          BY <5>1, <2>2
        <5>. QED
          BY <5>1, <5>2
      <4>2. i <= j + 1
        BY <3>1, <4>1, <2>4, <1>3
      <4>. QED
        BY <4>1, <4>2, <2>5
    <3>. QED
      BY <3>1, <2>4, <2>5, <1>3
  <2>7. PICK m : L(m, Tail(w)) /\ Best(St, Tail(w)) = Drop(Tail(w), m)
    BY <1>1, <2>2
  <2>8. m = k
    BY <1>2, <2>2, <2>6, <2>7
  <2>9. Drop(w, i) = Drop(Tail(w), k)
    BY <2>4, <2>5
  <2>. QED
    BY <2>1, <2>2, <2>7, <2>8, <2>9, <1>3
<1>. QED
  BY <1>3, <1>4, <1>6, <1>7

(* Prefixes of its words are in the set. *)
Closed(St) == \A w \in Word, b \in Letter : Append(w, b) \in St => w \in St

(* One letter more: the longest suffix is found from the one before. *)
LEMMA BestAppend ==
  ASSUME NEW St \in SUBSET Word, <<>> \in St, Closed(St), NEW w \in Word, NEW b \in Letter
  PROVE  Best(St, Append(w, b)) = Best(St, Append(Best(St, w), b))
<1>. DEFINE S == {n \in Nat : \A v \in Word :
                    Len(v) = n => Best(St, Append(v, b)) = Best(St, Append(Best(St, v), b))}
<1>1. ASSUME NEW v \in Word, v \notin St
      PROVE  /\ v # <<>> /\ Tail(v) \in Word /\ Len(Tail(v)) = Len(v) - 1
             /\ Best(St, v) = Best(St, Tail(v))
             /\ Best(St, Append(v, b)) = Best(St, Append(Tail(v), b))
  <2>1. v # <<>> /\ Tail(v) \in Word /\ Best(St, v) = Best(St, Tail(v))
    BY <1>1, BestIs
  <2>2. Append(v, b) \in Word /\ Append(v, b) \notin St
    BY <1>1, AppendIs DEF Closed, Word
  <2>3. Best(St, Append(v, b)) = Best(St, Tail(Append(v, b)))
    BY <2>2, BestIs
  <2>4. Tail(Append(v, b)) = Append(Tail(v), b) /\ Len(Tail(v)) = Len(v) - 1
    BY <2>1, TailAppend, TailIs DEF Word
  <2>. QED
    BY <2>1, <2>3, <2>4
<1>2. 0 \in S
  <2>1. ASSUME NEW v \in Word, Len(v) = 0
        PROVE  Best(St, v) = v
    BY <2>1, BestIs, SeqIs DEF Word
  <2>. QED
    BY <2>1
<1>3. ASSUME NEW n \in S PROVE n + 1 \in S
  <2>. SUFFICES ASSUME NEW v \in Word, Len(v) = n + 1
                PROVE  Best(St, Append(v, b)) = Best(St, Append(Best(St, v), b))
    OBVIOUS
  <2>1. CASE v \in St
    BY <2>1, BestIs
  <2>2. CASE v \notin St
    <3>1. Len(Tail(v)) = n
      BY <2>2, <1>1
    <3>2. Best(St, Append(Tail(v), b)) = Best(St, Append(Best(St, Tail(v)), b))
      BY <3>1, <2>2, <1>1, <1>3
    <3>. QED
      BY <3>2, <2>2, <1>1
  <2>. QED
    BY <2>1, <2>2
<1>4. S = Nat
  <2>. HIDE DEF S
  <2>1. S \in SUBSET Nat
    BY DEF S
  <2>. QED
    BY <1>2, <1>3, <2>1, SetInduction
<1>5. Len(w) \in S
  BY <1>4, SeqIs DEF Word
<1>. QED
  BY <1>5

(* The same members of the set end a word and its longest suffix. *)
LEMMA EndsBest ==
  ASSUME NEW St \in SUBSET Word, <<>> \in St, NEW w \in Word, NEW q \in St
  PROVE  Ends(q, w) <=> Ends(q, Best(St, w))
<1>. DEFINE S == {n \in Nat : \A v \in Word : Len(v) = n => (Ends(q, v) <=> Ends(q, Best(St, v)))}
<1>1. 0 \in S
  <2>1. ASSUME NEW v \in Word, Len(v) = 0
        PROVE  Best(St, v) = v
    BY <2>1, BestIs, SeqIs DEF Word
  <2>. QED
    BY <2>1
<1>2. ASSUME NEW n \in S PROVE n + 1 \in S
  <2>. SUFFICES ASSUME NEW v \in Word, Len(v) = n + 1
                PROVE  Ends(q, v) <=> Ends(q, Best(St, v))
    OBVIOUS
  <2>1. CASE v \in St
    BY <2>1, BestIs
  <2>2. CASE v \notin St
    <3>1. v # <<>> /\ Tail(v) \in Word /\ Best(St, v) = Best(St, Tail(v))
      BY <2>2, BestIs
    <3>2. Len(Tail(v)) = n
      BY <3>1, TailIs DEF Word
    <3>3. Ends(q, v) <=> (q = v \/ Ends(q, Tail(v)))
      BY <3>1, EndsIs DEF Word
    <3>4. q # v
      BY <2>2
    <3>. QED
      BY <3>1, <3>2, <3>3, <3>4, <1>2
  <2>. QED
    BY <2>1, <2>2
<1>3. S = Nat
  <2>. HIDE DEF S
  <2>1. S \in SUBSET Nat
    BY DEF S
  <2>. QED
    BY <1>1, <1>2, <2>1, SetInduction
<1>4. Len(w) \in S
  BY <1>3, SeqIs DEF Word
<1>. QED
  BY <1>4

(* What a failure is for: the longest proper suffix in the set. *)
LEMMA BestLongest ==
  ASSUME NEW St \in SUBSET Word, <<>> \in St, NEW w \in Word, w # <<>>
  PROVE  Longest((Suffixes(w) \ {w}) \cap St) = Best(St, Tail(w))
<1>1. Tail(w) \in Word /\ Len(w) \in Nat /\ Len(w) >= 1 /\ Len(Tail(w)) = Len(w) - 1
  BY TailIs, SeqIs DEF Word
<1>2. ASSUME NEW q PROVE q \in Suffixes(w) \ {w} <=> Ends(q, Tail(w))
  <2>1. Ends(q, w) <=> (q = w \/ Ends(q, Tail(w)))
    BY EndsIs DEF Word
  <2>2. q \in Suffixes(w) <=> Ends(q, w)
    <3>1. Drop(w, Len(w)) = <<>>
      BY DropEnds DEF Word
    <3>2. ASSUME q \in Suffixes(w) PROVE Ends(q, w)
      <4>1. CASE q = <<>>
        BY <4>1, EndsIs DEF Word
      <4>2. CASE \E l \in 1..Len(w) : q = SubSeq(w, l, Len(w))
        <5>1. PICK l \in 1..Len(w) : q = SubSeq(w, l, Len(w))
          BY <4>2
        <5>2. l - 1 \in 0..Len(w) /\ (l - 1) + 1 = l
          BY <1>1
        <5>3. q = Drop(w, l - 1)
          BY <5>1, <5>2 DEF Drop
        <5>. QED
          BY <5>2, <5>3 DEF Ends
      <4>. QED
        BY <3>2, <4>1, <4>2 DEF Suffixes
    <3>3. ASSUME Ends(q, w) PROVE q \in Suffixes(w)
      <4>1. PICK i \in 0..Len(w) : q = Drop(w, i)
        BY <3>3 DEF Ends
      <4>2. CASE i = Len(w)
        BY <4>1, <4>2, <3>1 DEF Suffixes
      <4>3. CASE i # Len(w)
        <5>0. Len(w) \in Nat
          BY <1>1
        <5>1. i + 1 \in 1..Len(w)
          BY <4>3, <5>0
        <5>. QED
          BY <5>1, <4>1 DEF Drop, Suffixes
      <4>. QED
        BY <4>2, <4>3
    <3>. QED
      BY <3>2, <3>3
  <2>3. ~ Ends(w, Tail(w))
    <3>. SUFFICES ASSUME Ends(w, Tail(w)) PROVE FALSE
      OBVIOUS
    <3>1. Len(w) <= Len(Tail(w))
      BY <1>1, EndsIs DEF Word
    <3>. QED
      BY <3>1, <1>1
  <2>. QED
    BY <2>1, <2>2, <2>3
<1>. DEFINE g == Best(St, Tail(w))
            A == (Suffixes(w) \ {w}) \cap St
<1>3. g \in St /\ g \in Word /\ Ends(g, Tail(w)) /\ Len(g) \in Nat
  BY <1>1, BestIs, SeqIs DEF Word
<1>. HIDE DEF g
<1>4. g \in A
  BY <1>2, <1>3
<1>5. ASSUME NEW t \in A
      PROVE  Ends(t, g) /\ Len(t) <= Len(g) /\ (Len(t) = Len(g) => t = g) /\ Len(t) \in Nat
  <2>1. t \in St /\ t \in Word /\ Ends(t, Tail(w))
    BY <1>2
  <2>2. Ends(t, g)
    BY <2>1, <1>1, EndsBest DEF g
  <2>3. Len(t) <= Len(g) /\ t = Drop(g, Len(g) - Len(t))
    BY <2>2, <1>3, EndsIs DEF Word
  <2>4. Len(t) \in Nat
    BY <2>1, SeqIs DEF Word
  <2>5. Drop(g, 0) = g
    BY <1>3, DropEnds DEF Word
  <2>6. ASSUME Len(t) = Len(g) PROVE t = g
    <3>1. Len(g) - Len(t) = 0
      BY <2>6, <1>3
    <3>. QED
      BY <3>1, <2>3, <2>5
  <2>. QED
    BY <2>2, <2>3, <2>4, <2>6
<1>. HIDE DEF A
<1>6. \E s \in A : \A t \in A : Len(t) <= Len(s)
  BY <1>4, <1>5
<1>7. Longest(A) \in A /\ \A t \in A : Len(t) <= Len(Longest(A))
  BY <1>6 DEF Longest
<1>8. Len(Longest(A)) = Len(g)
  <2>1. Len(Longest(A)) <= Len(g) /\ Len(g) <= Len(Longest(A)) /\ Len(Longest(A)) \in Nat
    BY <1>4, <1>5, <1>7
  <2>. QED
    BY <2>1, <1>3
<1>9. Longest(A) = g
  BY <1>5, <1>7, <1>8
<1>. QED
  BY <1>9 DEF A, g

-----------------------------------------------------------------------------
(* Prefixes *)

LEMMA AppendOnce ==
  ASSUME NEW X, NEW u \in Seq(X), NEW v \in Seq(X), NEW b \in X, NEW c \in X,
         Append(u, b) = Append(v, c)
  PROVE  u = v /\ b = c
<1>1. /\ Len(Append(u, b)) = Len(u) + 1
      /\ \A i \in 1..Len(u) : Append(u, b)[i] = u[i]
      /\ Append(u, b)[Len(u) + 1] = b
  BY AppendIs
<1>2. /\ Len(Append(v, c)) = Len(v) + 1
      /\ \A i \in 1..Len(v) : Append(v, c)[i] = v[i]
      /\ Append(v, c)[Len(v) + 1] = c
  BY AppendIs
<1>3. Len(u) \in Nat /\ Len(v) \in Nat
  BY SeqIs
<1>4. Len(u) = Len(v)
  BY <1>1, <1>2, <1>3
<1>5. \A i \in 1..Len(u) : u[i] = v[i]
  BY <1>1, <1>2, <1>4
<1>6. u = v
  BY <1>4, <1>5, SeqEqual
<1>. QED
  BY <1>1, <1>2, <1>4, <1>6

(* The first l letters. *)
Take(w, l) == SubSeq(w, 1, l)

LEMMA TakeIs ==
  ASSUME NEW X, NEW w \in Seq(X), NEW l \in 0..Len(w)
  PROVE  /\ Take(w, l) \in Seq(X) /\ Len(Take(w, l)) = l
         /\ \A i \in 1..l : Take(w, l)[i] = w[i]
<1>1. Len(w) \in Nat /\ \A i \in 1..Len(w) : w[i] \in X
  BY SeqIs
<1>2. l \in Int /\ 1 \in Int /\ \A i \in 1..l : w[i] \in X
  BY <1>1
<1>3. /\ Take(w, l) \in Seq(X)
      /\ Len(Take(w, l)) = IF 1 <= l THEN l - 1 + 1 ELSE 0
      /\ \A i \in 1..(l - 1 + 1) : Take(w, l)[i] = w[1 + i - 1]
  BY <1>2, SubSeqProperties DEF Take
<1>4. l \in Nat
  BY <1>1
<1>5. ASSUME NEW i \in 1..l PROVE Take(w, l)[i] = w[i]
  <2>1. i \in 1..(l - 1 + 1) /\ 1 + i - 1 = i
    BY <1>4
  <2>. QED
    BY <2>1, <1>3
<1>. QED
  BY <1>3, <1>4, <1>5

LEMMA TakeEnds ==
  ASSUME NEW X, NEW w \in Seq(X)
  PROVE  /\ Take(w, 0) = <<>> /\ Take(w, Len(w)) = w
         /\ \A l \in 0..(Len(w) - 1) :
              l + 1 \in 1..Len(w) /\ Take(w, l + 1) = Append(Take(w, l), w[l + 1])
<1>1. Len(w) \in Nat /\ 0 \in 0..Len(w) /\ Len(w) \in 0..Len(w) /\ \A i \in 1..Len(w) : w[i] \in X
  BY SeqIs
<1>2. Take(w, 0) = <<>>
  <2>1. Take(w, 0) \in Seq(X) /\ Len(Take(w, 0)) = 0
    BY <1>1, TakeIs
  <2>. QED
    BY <2>1, SeqIs
<1>3. Take(w, Len(w)) = w
  BY SubSeqFull DEF Take
<1>4. ASSUME NEW l \in 0..(Len(w) - 1)
      PROVE  l + 1 \in 1..Len(w) /\ Take(w, l + 1) = Append(Take(w, l), w[l + 1])
  <2>0. Len(w) \in Nat
    BY <1>1
  <2>1. l + 1 \in 1..Len(w) /\ l \in 0..Len(w) /\ l + 1 \in 0..Len(w) /\ l \in Nat
    BY <2>0
  <2>. DEFINE b == w[l + 1]
              u == Take(w, l)
  <2>2. b \in X
    BY <2>1, <1>1
  <2>3. u \in Seq(X) /\ Len(u) = l /\ \A i \in 1..l : u[i] = w[i]
    BY <2>1, TakeIs
  <2>. HIDE DEF u
  <2>4. /\ Append(u, b) \in Seq(X) /\ Len(Append(u, b)) = Len(u) + 1
        /\ \A i \in 1..Len(u) : Append(u, b)[i] = u[i]
        /\ Append(u, b)[Len(u) + 1] = b
    BY <2>2, <2>3, AppendIs
  <2>5. /\ Take(w, l + 1) \in Seq(X) /\ Len(Take(w, l + 1)) = l + 1
        /\ \A i \in 1..(l + 1) : Take(w, l + 1)[i] = w[i]
    BY <2>1, TakeIs
  <2>6. ASSUME NEW i \in 1..(l + 1) PROVE Take(w, l + 1)[i] = Append(u, b)[i]
    <3>1. CASE i = l + 1
      BY <3>1, <2>3, <2>4, <2>5
    <3>2. CASE i # l + 1
      <4>1. i \in 1..l
        BY <3>2, <2>1
      <4>. QED
        BY <4>1, <2>3, <2>4, <2>5
    <3>. QED
      BY <3>1, <3>2
  <2>7. Take(w, l + 1) = Append(u, b)
    <3>1. Len(Take(w, l + 1)) = Len(Append(u, b))
      BY <2>3, <2>4, <2>5
    <3>. QED
      BY <3>1, <2>4, <2>5, <2>6, SeqEqual
  <2>. QED
    BY <2>1, <2>7 DEF u
<1>. QED
  BY <1>2, <1>3, <1>4

LEMMA PrefixesInside ==
  ASSUME NEW St \in SUBSET Word, Closed(St), NEW w \in St
  PROVE  Prefixes(w) \subseteq St
<1>1. w \in Word /\ Len(w) \in Nat
  BY SeqIs DEF Word
<1>. DEFINE D == {n \in Nat : n <= Len(w) => Take(w, Len(w) - n) \in St}
<1>2. 0 \in D
  <2>1. Take(w, Len(w)) = w /\ Len(w) - 0 = Len(w)
    BY <1>1, TakeEnds DEF Word
  <2>. QED
    BY <2>1
<1>3. ASSUME NEW n \in D PROVE n + 1 \in D
  <2>. SUFFICES ASSUME n + 1 <= Len(w) PROVE Take(w, Len(w) - (n + 1)) \in St
    OBVIOUS
  <2>. DEFINE l == Len(w) - (n + 1)
  <2>1. l \in 0..(Len(w) - 1) /\ l + 1 = Len(w) - n /\ n <= Len(w) /\ l \in 0..Len(w)
    BY <1>1
  <2>2. Take(w, l + 1) \in St
    BY <2>1
  <2>. HIDE DEF l
  <2>3. Take(w, l + 1) = Append(Take(w, l), w[l + 1]) /\ l + 1 \in 1..Len(w)
    BY <2>1, <1>1, TakeEnds DEF Word
  <2>4. Take(w, l) \in Word /\ w[l + 1] \in Letter
    BY <2>1, <2>3, <1>1, TakeIs, SeqIs DEF Word
  <2>5. Take(w, l) \in St
    BY <2>2, <2>3, <2>4 DEF Closed
  <2>. QED
    BY <2>5 DEF l
<1>4. D = Nat
  <2>. HIDE DEF D
  <2>1. D \in SUBSET Nat
    BY DEF D
  <2>. QED
    BY <1>2, <1>3, <2>1, SetInduction
<1>5. ASSUME NEW l \in 0..Len(w) PROVE Take(w, l) \in St
  <2>. DEFINE n == Len(w) - l
  <2>1. n \in Nat /\ n <= Len(w) /\ Len(w) - n = l
    BY <1>1
  <2>2. n \in D
    BY <2>1, <1>4
  <2>. HIDE DEF n
  <2>. QED
    BY <2>1, <2>2
<1>. QED
  BY <1>5 DEF Prefixes, Take

-----------------------------------------------------------------------------
(* The table *)

LEMMA LetterIs ==
  /\ Letter \subseteq 0..(ALPHABET_SIZE - 1) /\ ALPHABET_SIZE \in Nat
  /\ \A b \in Byte : xlatcase(b) \in Letter
<1>1. ASSUME NEW b \in Byte PROVE xlatcase(b) \in 0..(ALPHABET_SIZE - 1)
  BY ByteAssumption DEF xlatcase
<1>. QED
  BY <1>1, ByteAssumption DEF Letter

Pattern == [iid : Nat, patrn : Word \ {<<>>}, casepatrn : Seq(Byte), nocase : BOOLEAN]

LEMMA OffsetIs ==
  ASSUME acsmPatterns \in Seq(Pattern)
  PROVE  /\ Offset[0] = 0
         /\ \A i \in 0..Len(acsmPatterns) : Offset[i] \in 0..Offset[Len(acsmPatterns)]
         /\ \A i \in 1..Len(acsmPatterns) :
              Offset[i] = Offset[i - 1] + Len(acsmPatterns[i].patrn)
         /\ acsmMaxStates \in Nat \ {0}
<1>. DEFINE k == Len(acsmPatterns)
            len(i) == Len(acsmPatterns[i].patrn)
            Sum(f) == f = [i \in 0..k |-> IF i = 0 THEN 0 ELSE f[i - 1] + len(i)]
<1>1. k \in Nat /\ \A i \in 1..k : len(i) \in Nat
  <2>1. k \in Nat /\ \A i \in 1..k : acsmPatterns[i] \in Pattern
    BY SeqIs
  <2>2. ASSUME NEW p \in Pattern PROVE Len(p.patrn) \in Nat
    BY SeqIs DEF Pattern, Word
  <2>. QED
    BY <2>1, <2>2
<1>2. \E f : Sum(f)
  <2>. DEFINE G == [p \in (1..k) \X Nat |-> p[2] + len(p[1])]
              z == 0
  <2>1. G \in [(1..k) \X Nat -> Nat] /\ z \in Nat
    BY <1>1
  <2>2. \A i \in 1..k, n \in Nat : G[<<i, n>>] = n + len(i)
    OBVIOUS
  <2>. HIDE DEF G, k, len, z
  <2>3. PICK f : Runs(f, Nat, z, k, G)
    BY <1>1, <2>1, LoopRuns
  <2>4. f \in [0..k -> Nat] /\ f[0] = z /\ \A i \in 1..k : f[i] = G[<<i, f[i - 1]>>]
    BY <2>3 DEF Runs
  <2>5. ASSUME NEW i \in 0..k, i # 0 PROVE f[i] = f[i - 1] + len(i)
    <3>1. i \in 1..k /\ i - 1 \in 0..k
      BY <2>5, <1>1
    <3>. QED
      BY <3>1, <2>2, <2>4
  <2>6. f = [i \in 0..k |-> IF i = 0 THEN 0 ELSE f[i - 1] + len(i)]
    BY <2>4, <2>5 DEF z
  <2>. QED
    BY <2>6
<1>3. Offset = CHOOSE f : Sum(f)
  BY DEF Offset
<1>4. Sum(Offset)
  BY <1>2, <1>3
<1>. HIDE DEF k, len
<1>5. Offset[0] = 0 /\ \A i \in 1..k : Offset[i] = Offset[i - 1] + len(i)
  BY <1>1, <1>4
<1>. DEFINE D == {i \in Nat : i <= k => Offset[i] \in Nat /\ \A j \in 0..i : Offset[j] \in 0..Offset[i]}
<1>6. 0 \in D
  BY <1>5
<1>7. ASSUME NEW i \in D PROVE i + 1 \in D
  <2>. SUFFICES ASSUME i + 1 <= k
                PROVE  Offset[i + 1] \in Nat /\ \A j \in 0..(i + 1) : Offset[j] \in 0..Offset[i + 1]
    OBVIOUS
  <2>1. i + 1 \in 1..k /\ (i + 1) - 1 = i /\ i <= k /\ i \in Nat
    BY <1>1
  <2>2. Offset[i + 1] = Offset[i] + len(i + 1) /\ len(i + 1) \in Nat
    BY <2>1, <1>1, <1>5
  <2>3. Offset[i] \in Nat /\ \A j \in 0..i : Offset[j] \in 0..Offset[i]
    BY <2>1
  <2>4. Offset[i + 1] \in Nat /\ Offset[i] <= Offset[i + 1]
    BY <2>2, <2>3
  <2>5. \A j \in 0..(i + 1) : j \in 0..i \/ j = i + 1
    BY <2>1
  <2>. QED
    BY <2>3, <2>4, <2>5
<1>8. D = Nat
  <2>. HIDE DEF D
  <2>1. D \in SUBSET Nat
    BY DEF D
  <2>. QED
    BY <1>6, <1>7, <2>1, SetInduction
<1>9. Offset[k] \in Nat /\ \A j \in 0..k : Offset[j] \in 0..Offset[k]
  BY <1>1, <1>8
<1>. QED
  BY <1>5, <1>9 DEF k, len, acsmMaxStates

(* The transitions of a state, each once if no two lead to the same. *)
LEMMA KidsIs ==
  ASSUME NEW next, NEW s, NEW none \in Int, \A b \in Letter : next[s][b] \in Int
  PROVE  /\ Kids(next, s, none) \in Seq(Int)
         /\ ToSet(Kids(next, s, none)) = {next[s][b] : b \in Letter} \ {none}
         /\ (\A b, c \in Letter : next[s][b] = next[s][c] /\ next[s][b] # none => b = c)
              => Once(Kids(next, s, none))
<1>. DEFINE col == [i \in 1..ALPHABET_SIZE |-> IF i - 1 \in Letter THEN next[s][i - 1] ELSE none]
            S == Int \ {none}
<1>1. ALPHABET_SIZE \in Nat /\ \A b \in Letter : b + 1 \in 1..ALPHABET_SIZE /\ (b + 1) - 1 = b
  BY LetterIs
<1>2. DOMAIN col = 1..ALPHABET_SIZE /\ col \in [1..ALPHABET_SIZE -> Int]
  OBVIOUS
<1>3. col \in Seq(Int) /\ Len(col) = ALPHABET_SIZE
  <2>. HIDE DEF col
  <2>. QED
    BY <1>1, <1>2
<1>4. \A i \in 1..ALPHABET_SIZE : col[i] = IF i - 1 \in Letter THEN next[s][i - 1] ELSE none
  OBVIOUS
<1>5. Kids(next, s, none) = Chosen(col, S)
  BY DEF Kids
<1>. HIDE DEF col, S
<1>6. /\ Chosen(col, S) \in Seq(Int)
      /\ ToSet(Chosen(col, S)) = ToSet(col) \cap S
      /\ (\A i, j \in DOMAIN col : col[i] = col[j] /\ col[i] \in S => i = j) => Once(Chosen(col, S))
  BY <1>3, ChosenIs
<1>7. ToSet(col) \cap S = {next[s][b] : b \in Letter} \ {none}
  <2>1. ToSet(col) = {col[i] : i \in 1..ALPHABET_SIZE}
    BY <1>2 DEF ToSet
  <2>2. ASSUME NEW b \in Letter PROVE next[s][b] \in ToSet(col)
    <3>1. col[b + 1] = next[s][b]
      BY <1>1, <1>4
    <3>. QED
      BY <3>1, <2>1, <1>1
  <2>3. ASSUME NEW i \in 1..ALPHABET_SIZE, col[i] # none
        PROVE  col[i] \in {next[s][b] : b \in Letter}
    BY <2>3, <1>4
  <2>. QED
    BY <2>1, <2>2, <2>3 DEF S
<1>8. ASSUME \A b, c \in Letter : next[s][b] = next[s][c] /\ next[s][b] # none => b = c,
             NEW i \in DOMAIN col, NEW j \in DOMAIN col, col[i] = col[j], col[i] \in S
      PROVE  i = j
  <2>1. i \in 1..ALPHABET_SIZE /\ j \in 1..ALPHABET_SIZE /\ col[i] # none
    BY <1>2, <1>8 DEF S
  <2>2. i - 1 \in Letter /\ j - 1 \in Letter /\ next[s][i - 1] = next[s][j - 1] /\ next[s][i - 1] # none
    BY <2>1, <1>4, <1>8
  <2>3. i - 1 = j - 1
    BY <2>2, <1>8
  <2>. QED
    BY <2>1, <2>3
<1>. QED
  BY <1>5, <1>6, <1>7, <1>8

-----------------------------------------------------------------------------
(* The tree: str is the word of each state, and the words grow letter by   *)
(* letter from the empty one.                                              *)

Shape(str, num) ==
  /\ num \in Nat
  /\ str \in [0..num -> Word]
  /\ str[0] = <<>>
  /\ \A s, t \in 0..num : str[s] = str[t] => s = t
  /\ \A s \in 1..num : \E r \in 0..num, b \in Letter : str[s] = Append(str[r], b)

Named(str, num) == {str[s] : s \in 0..num}

LEMMA NamedIs ==
  ASSUME NEW str, NEW num, Shape(str, num)
  PROVE  /\ Named(str, num) \in SUBSET Word /\ <<>> \in Named(str, num)
         /\ Closed(Named(str, num))
         /\ \A s \in 0..num : str[s] \in Named(str, num) /\ str[s] \in Word
<1>1. Named(str, num) \in SUBSET Word /\ <<>> \in Named(str, num)
  BY DEF Named, Shape
<1>2. ASSUME NEW w \in Word, NEW b \in Letter, Append(w, b) \in Named(str, num)
      PROVE  w \in Named(str, num)
  <2>1. PICK s \in 0..num : str[s] = Append(w, b)
    BY <1>2 DEF Named
  <2>2. Append(w, b) # <<>>
    <3>1. Len(Append(w, b)) = Len(w) + 1 /\ Append(w, b) \in Word /\ Len(w) \in Nat
      BY AppendIs, SeqIs DEF Word
    <3>. QED
      BY <3>1, SeqIs DEF Word
  <2>3. s \in 1..num
    BY <2>1, <2>2 DEF Shape
  <2>4. PICK r \in 0..num, c \in Letter : str[s] = Append(str[r], c)
    BY <2>3 DEF Shape
  <2>5. str[r] \in Word /\ str[r] \in Named(str, num)
    BY DEF Shape, Named
  <2>6. w = str[r]
    BY <2>1, <2>4, <2>5, AppendOnce DEF Word
  <2>. QED
    BY <2>5, <2>6
<1>. QED
  BY <1>1, <1>2 DEF Closed, Shape, Named

(* The states after s. *)
After(str, num, s) == {t \in 1..num : \E b \in Letter : str[t] = Append(str[s], b)}

LEMMA AfterIs ==
  ASSUME NEW str, NEW num, Shape(str, num), NEW r \in 0..num, NEW s \in 0..num, NEW b \in Letter,
         str[s] = Append(str[r], b)
  PROVE  /\ s \in After(str, num, r) /\ s # 0 /\ s # r
         /\ str[s] # <<>> /\ str[r] \in Word /\ Len(str[s]) = Len(str[r]) + 1
         /\ \A t \in 0..num, c \in Letter : str[s] = Append(str[t], c) => t = r /\ c = b
         /\ \A t \in 0..num : s \in After(str, num, t) => t = r
<1>1. str[r] \in Word /\ str[s] \in Word /\ num \in Nat
  BY DEF Shape
<1>2. Len(str[s]) = Len(str[r]) + 1 /\ Len(str[r]) \in Nat
  BY <1>1, AppendIs, SeqIs DEF Word
<1>3. str[s] # <<>>
  BY <1>1, <1>2, SeqIs DEF Word
<1>4. s # 0 /\ s # r
  BY <1>2, <1>3 DEF Shape
<1>5. ASSUME NEW t \in 0..num, NEW c \in Letter, str[s] = Append(str[t], c)
      PROVE  t = r /\ c = b
  <2>1. str[t] \in Word
    BY DEF Shape
  <2>2. Append(str[t], c) = Append(str[r], b)
    BY <1>5
  <2>3. str[t] = str[r] /\ c = b
    <3>. DEFINE u == str[t]
                v == str[r]
    <3>1. u \in Seq(Letter) /\ v \in Seq(Letter) /\ Append(u, c) = Append(v, b)
      BY <2>1, <2>2, <1>1 DEF Word
    <3>. HIDE DEF u, v
    <3>2. u = v /\ c = b
      BY <3>1, AppendOnce
    <3>. QED
      BY <3>2 DEF u, v
  <2>. QED
    BY <2>3 DEF Shape
<1>6. s \in 1..num
  BY <1>1, <1>4
<1>. QED
  BY <1>1, <1>2, <1>3, <1>4, <1>5, <1>6 DEF After

(* A transition of the tree, or of the finished automaton. *)
Edge(str, num, row, s) ==
  \A b \in Letter :
    \/ row[b] = ACSM_FAIL_STATE /\ Append(str[s], b) \notin Named(str, num)
    \/ row[b] \in 1..num /\ str[row[b]] = Append(str[s], b)

Full(str, num, row, s) ==
  \A b \in Letter :
    row[b] \in 0..num /\ str[row[b]] = Best(Named(str, num), Append(str[s], b))

(* The transitions of state 0, and of any other, that Kids takes. *)
LEMMA KidsAfter ==
  ASSUME NEW str, NEW num, Shape(str, num), NEW next, NEW s \in 0..num,
         NEW none \in {0, ACSM_FAIL_STATE},
         \A b \in Letter :
           \/ next[s][b] = none /\ Append(str[s], b) \notin Named(str, num)
           \/ next[s][b] \in 1..num /\ str[next[s][b]] = Append(str[s], b)
  PROVE  /\ Kids(next, s, none) \in Seq(1..num)
         /\ ToSet(Kids(next, s, none)) = After(str, num, s)
         /\ Once(Kids(next, s, none))
<1>1. none \in Int /\ none \notin 1..num /\ 1..num \subseteq Int /\ num \in Nat
  BY DEF Shape, ACSM_FAIL_STATE
<1>2. \A b \in Letter : next[s][b] \in Int
  BY <1>1
<1>3. /\ Kids(next, s, none) \in Seq(Int)
      /\ ToSet(Kids(next, s, none)) = {next[s][b] : b \in Letter} \ {none}
      /\ (\A b, c \in Letter : next[s][b] = next[s][c] /\ next[s][b] # none => b = c)
           => Once(Kids(next, s, none))
  BY <1>1, <1>2, KidsIs
<1>4. \A t \in 0..num : str[t] \in Word /\ str[t] \in Named(str, num)
  BY DEF Shape, Named
<1>5. ASSUME NEW b \in Letter, NEW c \in Letter, next[s][b] = next[s][c], next[s][b] # none
      PROVE  b = c
  <2>1. str[next[s][b]] = Append(str[s], b) /\ str[next[s][c]] = Append(str[s], c)
    BY <1>5
  <2>2. Append(str[s], b) = Append(str[s], c)
    BY <2>1, <1>5
  <2>. QED
    BY <2>2, <1>4, AppendOnce DEF Word
<1>6. ASSUME NEW t \in After(str, num, s) PROVE t \in {next[s][b] : b \in Letter} \ {none}
  <2>1. PICK b \in Letter : str[t] = Append(str[s], b)
    BY DEF After
  <2>2. t \in 1..num /\ t \in 0..num
    BY <1>1 DEF After
  <2>3. Append(str[s], b) \in Named(str, num)
    BY <2>1, <2>2, <1>4
  <2>4. next[s][b] \in 1..num /\ str[next[s][b]] = str[t]
    BY <2>1, <2>3
  <2>5. next[s][b] \in 0..num
    BY <2>4, <1>1
  <2>6. next[s][b] = t
    BY <2>2, <2>4, <2>5 DEF Shape
  <2>. QED
    BY <2>2, <2>6, <1>1
<1>7. ToSet(Kids(next, s, none)) = After(str, num, s)
  <2>1. ASSUME NEW b \in Letter, next[s][b] # none
        PROVE  next[s][b] \in 1..num /\ str[next[s][b]] = Append(str[s], b)
    BY <2>1
  <2>2. ASSUME NEW t \in {next[s][b] : b \in Letter} \ {none} PROVE t \in After(str, num, s)
    <3>1. PICK b \in Letter : t = next[s][b] /\ next[s][b] # none
      OBVIOUS
    <3>. QED
      BY <3>1, <2>1 DEF After
  <2>3. After(str, num, s) = {next[s][b] : b \in Letter} \ {none}
    BY <2>2, <1>6
  <2>. QED
    BY <2>3, <1>3
<1>8. Kids(next, s, none) \in Seq(1..num)
  <2>. DEFINE k == Kids(next, s, none)
  <2>. HIDE DEF k
  <2>1. k \in Seq(Int) /\ ToSet(k) \subseteq 1..num
    BY <1>3, <1>7 DEF k, After
  <2>2. Len(k) \in Nat /\ k \in [1..Len(k) -> Int] /\ \A i \in 1..Len(k) : k[i] \in ToSet(k)
    BY <2>1, LenProperties DEF ToSet
  <2>3. k \in [1..Len(k) -> 1..num]
    BY <2>1, <2>2
  <2>4. k \in Seq(1..num)
    <3>1. PICK n \in Nat : n = Len(k)
      BY <2>2
    <3>2. k \in [1..n -> 1..num]
      BY <2>3, <3>1
    <3>. DEFINE X == 1..num
    <3>3. k \in [1..n -> X]
      BY <3>2
    <3>. HIDE DEF k, X
    <3>4. k \in Seq(X)
      BY <3>1, <3>3
    <3>. QED
      BY <3>4 DEF X
  <2>. QED
    BY <2>4 DEF k
<1>. QED
  BY <1>3, <1>5, <1>7, <1>8

-----------------------------------------------------------------------------
(* The breadth first visit: R are the states that have been in the queue.  *)

Reached(str, num, R, q) ==
  /\ R \subseteq 1..num /\ q \in Seq(1..num) /\ Once(q) /\ ToSet(q) \subseteq R
  /\ \A s \in 1..num, r \in 0..num :
       s \in After(str, num, r) => (s \in R <=> (r = 0 \/ (r \in R /\ r \notin ToSet(q))))
  /\ \A i, j \in DOMAIN q :
       i <= j => /\ Len(str[q[i]]) <= Len(str[q[j]])
                 /\ Len(str[q[j]]) <= Len(str[q[i]]) + 1

LEMMA ReachedFirst ==
  ASSUME NEW str, NEW num, Shape(str, num), NEW q \in Seq(1..num), Once(q),
         ToSet(q) = After(str, num, 0)
  PROVE  Reached(str, num, After(str, num, 0), q)
<1>. DEFINE R == After(str, num, 0)
<1>1. R \subseteq 1..num /\ 0 \in 0..num /\ num \in Nat
  BY DEF After, Shape
<1>2. ASSUME NEW s \in 1..num, NEW r \in 0..num, s \in After(str, num, r)
      PROVE  s \in R <=> (r = 0 \/ (r \in R /\ r \notin ToSet(q)))
  <2>1. PICK b \in Letter : str[s] = Append(str[r], b)
    BY <1>2 DEF After
  <2>2. s \in 0..num
    BY <1>1
  <2>3. s \in R => 0 = r
    BY <1>1, <2>1, <2>2, AfterIs
  <2>. QED
    BY <1>2, <2>3
<1>3. ASSUME NEW i \in DOMAIN q PROVE Len(str[q[i]]) = 1
  <2>1. q[i] \in R
    BY DEF ToSet
  <2>2. PICK b \in Letter : str[q[i]] = Append(str[0], b)
    BY <2>1 DEF After
  <2>3. q[i] \in 0..num
    BY <2>1, <1>1
  <2>4. Len(str[q[i]]) = Len(str[0]) + 1
    BY <1>1, <2>2, <2>3, AfterIs
  <2>5. Len(str[0]) = 0
    BY SeqIs DEF Shape, Word
  <2>. QED
    BY <2>4, <2>5
<1>. QED
  BY <1>1, <1>2, <1>3 DEF Reached

LEMMA ReachedNext ==
  ASSUME NEW str, NEW num, Shape(str, num), NEW R, NEW q, Reached(str, num, R, q), q # <<>>,
         NEW k \in Seq(1..num), Once(k), ToSet(k) = After(str, num, Head(q))
  PROVE  /\ Reached(str, num, R \cup ToSet(k), Tail(q) \o k)
         /\ ToSet(k) \cap R = {} /\ Head(q) \in R /\ Head(q) \in 1..num
         /\ ToSet(Tail(q) \o k) = (ToSet(q) \ {Head(q)}) \cup ToSet(k)
<1>. DEFINE r == Head(q)
            t == Tail(q)
            c == t \o k
<1>1. q \in Seq(1..num) /\ Once(q) /\ ToSet(q) \subseteq R /\ R \subseteq 1..num /\ num \in Nat
  BY DEF Reached, Shape
<1>2. /\ r = q[1] /\ r \in 1..num /\ t \in Seq(1..num) /\ Len(t) = Len(q) - 1
      /\ \A i \in 1..(Len(q) - 1) : t[i] = q[i + 1]
      /\ ToSet(q) = {r} \cup ToSet(t) /\ Once(t) /\ r \notin ToSet(t)
      /\ 1 \in DOMAIN q
  BY <1>1, TailIs
<1>. HIDE DEF r, t
<1>3. r \in R /\ r \in ToSet(q) /\ r \in 0..num
  BY <1>1, <1>2
<1>4. ASSUME NEW s \in ToSet(k) PROVE s \notin R /\ s \in 1..num /\ s \in After(str, num, r)
  <2>1. s \in After(str, num, r) /\ s \in 1..num
    BY DEF After, r
  <2>2. r # 0
    BY <1>2
  <2>. QED
    BY <2>1, <2>2, <1>3 DEF Reached
<1>5. ToSet(t) \cap ToSet(k) = {}
  BY <1>1, <1>2, <1>4
<1>6. /\ c \in Seq(1..num) /\ Len(c) = Len(t) + Len(k)
      /\ \A i \in 1..Len(t) : c[i] = t[i]
      /\ \A i \in 1..Len(k) : c[Len(t) + i] = k[i]
      /\ \A i \in 1..(Len(t) + Len(k)) :
           i \in 1..Len(t) \/ \E j \in 1..Len(k) : i = Len(t) + j
      /\ ToSet(c) = ToSet(t) \cup ToSet(k)
      /\ Once(c)
  <2>. DEFINE X == 1..num
  <2>1. t \in Seq(X) /\ k \in Seq(X)
    BY <1>2
  <2>. HIDE DEF X
  <2>2. /\ c \in Seq(X) /\ Len(c) = Len(t) + Len(k)
        /\ \A i \in 1..Len(t) : c[i] = t[i]
        /\ \A i \in 1..Len(k) : c[Len(t) + i] = k[i]
        /\ \A i \in 1..(Len(t) + Len(k)) :
             i \in 1..Len(t) \/ \E j \in 1..Len(k) : i = Len(t) + j
        /\ ToSet(c) = ToSet(t) \cup ToSet(k)
        /\ (Once(t) /\ Once(k) /\ ToSet(t) \cap ToSet(k) = {}) => Once(c)
    BY <2>1, ConcatIs
  <2>. QED
    BY <2>2, <1>2, <1>5 DEF X
<1>. HIDE DEF c
<1>7. ToSet(c) = (ToSet(q) \ {r}) \cup ToSet(k)
  BY <1>2, <1>6
<1>8. ASSUME NEW s \in 1..num, NEW p \in 0..num, s \in After(str, num, p)
      PROVE  s \in R \cup ToSet(k)
               <=> (p = 0 \/ (p \in R \cup ToSet(k) /\ p \notin ToSet(c)))
  <2>1. s \in R <=> (p = 0 \/ (p \in R /\ p \notin ToSet(q)))
    BY <1>8 DEF Reached
  <2>2. s \in ToSet(k) <=> p = r
    <3>1. PICK b \in Letter : str[s] = Append(str[p], b)
      BY <1>8 DEF After
    <3>2. s \in 0..num
      BY <1>1
    <3>3. \A u \in 0..num : s \in After(str, num, u) => u = p
      BY <3>1, <3>2, AfterIs
    <3>4. s \in ToSet(k) <=> s \in After(str, num, r)
      BY DEF r
    <3>. QED
      BY <3>3, <3>4, <1>3, <1>8
  <2>3. 0 \notin 1..num
    OBVIOUS
  <2>. QED
    BY <2>1, <2>2, <1>2, <1>3, <1>4, <1>7
<1>9. \A s \in 0..num : Len(str[s]) \in Nat
  BY SeqIs DEF Shape, Word
<1>10. ASSUME NEW i \in DOMAIN q
       PROVE  Len(str[r]) <= Len(str[q[i]]) /\ Len(str[q[i]]) <= Len(str[r]) + 1
  <2>1. 1 <= i
    BY <1>1, SeqIs
  <2>. QED
    BY <2>1, <1>2 DEF Reached
<1>11. ASSUME NEW i \in 1..Len(k) PROVE Len(str[k[i]]) = Len(str[r]) + 1
  <2>1. k[i] \in ToSet(k)
    BY SeqIs
  <2>2. k[i] \in 0..num /\ k[i] \in After(str, num, r)
    BY <2>1, <1>1, <1>4
  <2>3. PICK b \in Letter : str[k[i]] = Append(str[r], b)
    BY <2>2 DEF After
  <2>. QED
    BY <2>2, <2>3, <1>3, AfterIs
<1>12. ASSUME NEW i \in DOMAIN c, NEW j \in DOMAIN c, i <= j
       PROVE  /\ Len(str[c[i]]) <= Len(str[c[j]])
              /\ Len(str[c[j]]) <= Len(str[c[i]]) + 1
  <2>0. Len(t) \in Nat /\ Len(k) \in Nat /\ Len(q) \in Nat /\ DOMAIN q = 1..Len(q)
    BY <1>1, <1>2, SeqIs
  <2>1. i \in 1..(Len(t) + Len(k)) /\ j \in 1..(Len(t) + Len(k))
    BY <1>6, SeqIs
  <2>2. ASSUME NEW m \in 1..Len(t) PROVE m + 1 \in DOMAIN q /\ c[m] = q[m + 1]
    <3>1. m \in 1..(Len(q) - 1)
      BY <1>2
    <3>2. m + 1 \in DOMAIN q
      BY <3>1, <2>0
    <3>. QED
      BY <3>1, <3>2, <1>2, <1>6
  <2>3. \A m \in 1..Len(k) : Len(str[c[Len(t) + m]]) = Len(str[r]) + 1
    BY <1>6, <1>11
  <2>4. CASE i \in 1..Len(t) /\ j \in 1..Len(t)
    <3>1. i + 1 <= j + 1 /\ i + 1 \in DOMAIN q /\ j + 1 \in DOMAIN q
      BY <1>12, <2>2, <2>4
    <3>2. /\ Len(str[q[i + 1]]) <= Len(str[q[j + 1]])
          /\ Len(str[q[j + 1]]) <= Len(str[q[i + 1]]) + 1
      BY <3>1 DEF Reached
    <3>. QED
      BY <3>2, <2>2, <2>4
  <2>5. CASE i \in 1..Len(t) /\ j \notin 1..Len(t)
    <3>1. PICK m \in 1..Len(k) : j = Len(t) + m
      BY <2>1, <2>5, <1>6
    <3>2. Len(str[c[j]]) = Len(str[r]) + 1
      BY <3>1, <2>3
    <3>3. i + 1 \in DOMAIN q /\ c[i] = q[i + 1]
      BY <2>2, <2>5
    <3>4. Len(str[r]) <= Len(str[c[i]]) /\ Len(str[c[i]]) <= Len(str[r]) + 1
      BY <3>3, <1>10
    <3>5. q[i + 1] \in 0..num
      BY <3>3, <1>1, SeqIs, <2>0
    <3>6. Len(str[r]) \in Nat /\ Len(str[c[i]]) \in Nat
      BY <3>3, <3>5, <1>3, <1>9
    <3>. QED
      BY <3>2, <3>4, <3>6
  <2>6. CASE i \notin 1..Len(t)
    <3>1. j \notin 1..Len(t)
      BY <2>0, <2>1, <2>6, <1>12
    <3>2. PICK m \in 1..Len(k) : j = Len(t) + m
      BY <3>1, <2>1, <1>6
    <3>3. PICK n \in 1..Len(k) : i = Len(t) + n
      BY <2>1, <2>6, <1>6
    <3>4. Len(str[c[i]]) = Len(str[r]) + 1 /\ Len(str[c[j]]) = Len(str[r]) + 1
      BY <3>2, <3>3, <2>3
    <3>5. Len(str[r]) \in Nat
      BY <1>3, <1>9
    <3>. QED
      BY <3>4, <3>5
  <2>. QED
    BY <2>4, <2>5, <2>6
<1>13. Reached(str, num, R \cup ToSet(k), c)
  <2>1. R \cup ToSet(k) \subseteq 1..num /\ ToSet(c) \subseteq R \cup ToSet(k)
    BY <1>1, <1>4, <1>7
  <2>. QED
    BY <2>1, <1>6, <1>8, <1>12 DEF Reached
<1>. QED
  BY <1>2, <1>3, <1>4, <1>7, <1>13 DEF r, t, c

(* What is not longer than the first in the queue has been in it, and what *)
(* is shorter has left it; once the queue is empty all have.               *)
LEMMA ReachedAll ==
  ASSUME NEW str, NEW num, Shape(str, num), NEW R, NEW q, Reached(str, num, R, q),
         NEW s \in 1..num
  PROVE  /\ q = <<>> => s \in R
         /\ q # <<>> /\ Len(str[s]) <= Len(str[Head(q)]) => s \in R
         /\ q # <<>> /\ Len(str[s]) < Len(str[Head(q)]) => s \notin ToSet(q)
<1>. DEFINE Short(t) == q = <<>> \/ Len(str[t]) <= Len(str[Head(q)])
<1>1. /\ q \in Seq(1..num) /\ num \in Nat
      /\ \A t \in 0..num : str[t] \in Word /\ Len(str[t]) \in Nat
  BY SeqIs DEF Reached, Shape, Word
<1>2. ASSUME q # <<>>, NEW t \in ToSet(q) PROVE Len(str[Head(q)]) <= Len(str[t])
  <2>1. PICK i \in DOMAIN q : t = q[i]
    BY DEF ToSet
  <2>2. 1 \in DOMAIN q /\ Head(q) = q[1] /\ 1 <= i
    BY <1>1, <1>2, TailIs, SeqIs
  <2>. QED
    BY <2>1, <2>2 DEF Reached
<1>3. ASSUME q # <<>> PROVE Head(q) \in 0..num
  BY <1>1, <1>3, TailIs
<1>. DEFINE D == {n \in Nat : \A t \in 1..num : Len(str[t]) = n /\ Short(t) => t \in R}
<1>4. 0 \in D
  <2>. SUFFICES ASSUME NEW t \in 1..num, Len(str[t]) = 0 PROVE FALSE
    OBVIOUS
  <2>1. t \in 0..num /\ 0 \in 0..num /\ t # 0
    BY <1>1
  <2>2. str[t] = <<>>
    BY <2>1, <1>1, SeqIs DEF Word
  <2>. QED
    BY <2>1, <2>2 DEF Shape
<1>5. ASSUME NEW n \in D PROVE n + 1 \in D
  <2>. SUFFICES ASSUME NEW t \in 1..num, Len(str[t]) = n + 1, Short(t) PROVE t \in R
    OBVIOUS
  <2>1. PICK r \in 0..num, b \in Letter : str[t] = Append(str[r], b)
    BY DEF Shape
  <2>2. t \in 0..num
    BY <1>1
  <2>3. t \in After(str, num, r) /\ Len(str[t]) = Len(str[r]) + 1
    BY <2>1, <2>2, AfterIs
  <2>4. Len(str[r]) = n
    BY <2>3, <1>1
  <2>5. r \notin ToSet(q)
    <3>. SUFFICES ASSUME r \in ToSet(q) PROVE FALSE
      OBVIOUS
    <3>1. q # <<>>
      BY DEF ToSet
    <3>2. Len(str[Head(q)]) <= Len(str[r]) /\ Len(str[t]) <= Len(str[Head(q)])
      BY <3>1, <1>2
    <3>3. Len(str[Head(q)]) \in Nat
      BY <3>1, <1>1, <1>3
    <3>. QED
      BY <2>4, <3>2, <3>3
  <2>6. CASE r = 0
    BY <2>3, <2>6 DEF Reached
  <2>7. CASE r # 0
    <3>1. r \in 1..num
      BY <2>7, <1>1
    <3>2. Short(r)
      <4>. SUFFICES ASSUME q # <<>> PROVE Len(str[r]) <= Len(str[Head(q)])
        OBVIOUS
      <4>1. Len(str[Head(q)]) \in Nat
        BY <1>1, <1>3
      <4>2. Len(str[t]) <= Len(str[Head(q)])
        OBVIOUS
      <4>. QED
        BY <4>1, <4>2, <2>4
    <3>3. r \in R
      BY <3>1, <3>2, <2>4
    <3>. QED
      BY <3>3, <2>3, <2>5 DEF Reached
  <2>. QED
    BY <2>6, <2>7
<1>6. D = Nat
  <2>. HIDE DEF D
  <2>1. D \in SUBSET Nat
    BY DEF D
  <2>. QED
    BY <1>4, <1>5, <2>1, SetInduction
<1>7. s \in 0..num
  BY <1>1
<1>8. Len(str[s]) \in D
  BY <1>1, <1>6, <1>7
<1>9. Short(s) => s \in R
  BY <1>8
<1>10. ASSUME q # <<>>, Len(str[s]) < Len(str[Head(q)]) PROVE s \notin ToSet(q)
  <2>. SUFFICES ASSUME s \in ToSet(q) PROVE FALSE
    OBVIOUS
  <2>1. Len(str[Head(q)]) <= Len(str[s])
    BY <1>2, <1>10
  <2>2. Len(str[Head(q)]) \in Nat /\ Len(str[s]) \in Nat
    BY <1>1, <1>3, <1>7, <1>10
  <2>. QED
    BY <2>1, <2>2, <1>10
<1>. QED
  BY <1>9, <1>10

-----------------------------------------------------------------------------
(* The invariant, pass by pass *)

Listed ==
  /\ acsmPatterns \in Seq(Pattern)
  /\ \A i \in 1..Len(acsmPatterns) :
       /\ acsmPatterns[i].iid = Len(acsmPatterns) - i
       /\ acsmPatterns[i].patrn = ConvertCaseEx(acsmPatterns[i].casepatrn)

Tables ==
  /\ acsmNumStates \in State
  /\ NextState \in [State -> [Letter -> ACSM_FAIL_STATE..acsmNumStates]]
  /\ FailState \in [State -> 0..acsmNumStates]
  /\ MatchList \in [State -> Seq(Patterns)]

Adding ==
  /\ acsmNumStates = 0 /\ plist = 1 /\ pos = 0 /\ queue = <<>> /\ state = 0
  /\ T = <<>> /\ found = <<>>

Stemmed(str) == \A s \in 1..acsmNumStates : \E p \in Patterns : str[s] \in Prefixes(p.patrn)

(* The list of state s are the patterns of a set that end its word, or     *)
(* are its word.                                                           *)
Lists(list, S) == Once(list) /\ ToSet(list) = S

Added == {acsmPatterns[i] : i \in 1..(plist - 1)}

Own(S, w) == {p \in S : p.patrn = w}

Ending(S, w) == {p \in S : Ends(p.patrn, w)}

Growing(str) ==
  /\ Shape(str, acsmNumStates) /\ Tables /\ Stemmed(str)
  /\ queue = <<>> /\ T = <<>> /\ found = <<>>
  /\ FailState = [s \in State |-> 0]
  /\ \A s \in 0..acsmNumStates : Edge(str, acsmNumStates, NextState[s], s)
  /\ \A s \in State \ (0..acsmNumStates) :
       MatchList[s] = <<>> /\ \A b \in Letter : NextState[s][b] = ACSM_FAIL_STATE
  /\ plist \in 1..(Len(acsmPatterns) + 1) /\ pos \in Nat /\ state \in 0..acsmNumStates
  /\ \A p \in Added : p.patrn \in Named(str, acsmNumStates)
  /\ \A s \in 0..acsmNumStates : Lists(MatchList[s], Own(Added, str[s]))
  /\ acsmNumStates <= Offset[plist - 1] + pos
  /\ plist <= Len(acsmPatterns) =>
       /\ pos <= Len(acsmPatterns[plist].patrn)
       /\ str[state] = Take(acsmPatterns[plist].patrn, pos)
  /\ plist > Len(acsmPatterns) => pos = 0 /\ state = 0

(* The tree is whole, and word s of it has its failure state and matches.  *)
Built(str) ==
  /\ Shape(str, acsmNumStates) /\ Tables /\ Stemmed(str)
  /\ \A p \in Patterns : p.patrn \in Named(str, acsmNumStates)
  /\ Full(str, acsmNumStates, NextState[0], 0)
  /\ Lists(MatchList[0], {})

Fails(str, s) == str[FailState[s]] = Best(Named(str, acsmNumStates), Tail(str[s]))

Failing(str, R) ==
  /\ Built(str) /\ Reached(str, acsmNumStates, R, queue)
  /\ state = 0 /\ T = <<>> /\ found = <<>>
  /\ \A s \in 1..acsmNumStates : Edge(str, acsmNumStates, NextState[s], s)
  /\ \A s \in R : /\ Fails(str, s) /\ FailState[s] \in R \cup {0}
                  /\ Lists(MatchList[s], Ending(Patterns, str[s]))
  /\ \A s \in State \ R : FailState[s] = 0
  /\ \A s \in (1..acsmNumStates) \ R : Lists(MatchList[s], Own(Patterns, str[s]))

Completing(str, R) ==
  /\ Built(str) /\ Reached(str, acsmNumStates, R, queue)
  /\ state = 0 /\ T = <<>> /\ found = <<>>
  /\ \A s \in 1..acsmNumStates :
       Fails(str, s) /\ Lists(MatchList[s], Ending(Patterns, str[s]))
  /\ \A s \in R \ ToSet(queue) : Full(str, acsmNumStates, NextState[s], s)
  /\ \A s \in ((1..acsmNumStates) \ R) \cup ToSet(queue) :
       Edge(str, acsmNumStates, NextState[s], s)

Searching(str) ==
  /\ Built(str) /\ queue = <<>>
  /\ \A s \in 0..acsmNumStates : /\ Full(str, acsmNumStates, NextState[s], s)
                                 /\ Lists(MatchList[s], Ending(Patterns, str[s]))
  /\ T \in Seq(Byte) /\ found \in Seq(Int \X Int)
  /\ state \in 0..acsmNumStates
  /\ str[state] = Best(Named(str, acsmNumStates), ConvertCaseEx(T))
  /\ AllOccurrences

IInv ==
  /\ Listed
  /\ \/ pc = "add" /\ Adding
     \/ pc = "trie" /\ \E str : Growing(str)
     \/ pc = "nfa" /\ \E str, R : Failing(str, R)
     \/ pc = "dfa" /\ \E str, R : Completing(str, R)
     \/ pc = "search" /\ \E str : Searching(str)

LEMMA PatternsAre ==
  ASSUME Listed
  PROVE  /\ Len(acsmPatterns) \in Nat
         /\ \A i \in 1..Len(acsmPatterns) : acsmPatterns[i] \in Pattern /\ acsmPatterns[i] \in Patterns
         /\ Patterns = {acsmPatterns[i] : i \in 1..Len(acsmPatterns)}
         /\ Patterns \subseteq Pattern
         /\ \A i, j \in 1..Len(acsmPatterns) :
              acsmPatterns[i].iid = acsmPatterns[j].iid => i = j
         /\ \A p \in Pattern : p.patrn \in Word /\ p.patrn # <<>> /\ Len(p.patrn) \in Nat \ {0}
<1>1. /\ Len(acsmPatterns) \in Nat
      /\ \A i \in 1..Len(acsmPatterns) : acsmPatterns[i] \in Pattern
      /\ Patterns = {acsmPatterns[i] : i \in 1..Len(acsmPatterns)}
  BY SeqIs DEF Listed, Patterns
<1>2. ASSUME NEW i \in 1..Len(acsmPatterns), NEW j \in 1..Len(acsmPatterns),
             acsmPatterns[i].iid = acsmPatterns[j].iid
      PROVE  i = j
  <2>1. Len(acsmPatterns) - i = Len(acsmPatterns) - j
    BY <1>2 DEF Listed
  <2>. QED
    BY <2>1, <1>1
<1>3. ASSUME NEW p \in Pattern
      PROVE  p.patrn \in Word /\ p.patrn # <<>> /\ Len(p.patrn) \in Nat \ {0}
  <2>1. p.patrn \in Word /\ p.patrn # <<>>
    BY DEF Pattern
  <2>. QED
    BY <2>1, SeqIs DEF Word
<1>. QED
  BY <1>1, <1>2, <1>3

LEMMA StateIs ==
  ASSUME Listed
  PROVE  /\ 0 \in State /\ State \subseteq Nat
         /\ \A n \in Nat : n <= Offset[Len(acsmPatterns)] => n \in State
         /\ \A n \in State : 0..n \subseteq State
<1>1. acsmMaxStates \in Nat \ {0} /\ Offset[Len(acsmPatterns)] \in Nat
  <2>1. Len(acsmPatterns) \in 0..Len(acsmPatterns)
    BY PatternsAre
  <2>2. /\ \A i \in 0..Len(acsmPatterns) : Offset[i] \in 0..Offset[Len(acsmPatterns)]
        /\ acsmMaxStates \in Nat \ {0}
    BY OffsetIs DEF Listed
  <2>3. Offset[Len(acsmPatterns)] \in 0..Offset[Len(acsmPatterns)]
    BY <2>1, <2>2
  <2>. QED
    BY <2>2, <2>3 DEF acsmMaxStates
<1>2. ASSUME NEW n \in Nat, n <= Offset[Len(acsmPatterns)] PROVE n \in State
  <2>1. n <= (1 + Offset[Len(acsmPatterns)]) - 1
    BY <1>1, <1>2
  <2>2. n <= acsmMaxStates - 1
    BY <2>1 DEF acsmMaxStates
  <2>. QED
    BY <2>2, <1>1 DEF State
<1>3. ASSUME NEW n \in State PROVE 0..n \subseteq State
  BY <1>1 DEF State
<1>. QED
  BY <1>1, <1>2, <1>3 DEF State

(* Of the passes only the first adds patterns. *)
LEMMA Same ==
  ASSUME Listed, UNCHANGED acsmPatterns
  PROVE  Listed' /\ State' = State /\ Patterns' = Patterns /\ Offset' = Offset
BY DEF Listed, State, acsmMaxStates, Offset, Patterns

LEMMA InitInv == Init => IInv
<1>. SUFFICES ASSUME Init PROVE IInv
  OBVIOUS
<1>1. Listed
  <2>1. <<>> \in Seq(Pattern) /\ Len(<<>>) = 0 /\ 1..0 = {}
    BY EmptySeq
  <2>. QED
    BY <2>1 DEF Init, Listed
<1>. QED
  BY <1>1 DEF Init, IInv, Adding

LEMMA ConvertIs ==
  ASSUME NEW t \in Seq(Byte)
  PROVE  ConvertCaseEx(t) \in Word /\ Len(ConvertCaseEx(t)) = Len(t)
<1>. DEFINE n == Len(t)
            u == [i \in 1..n |-> xlatcase(t[i])]
<1>1. n \in Nat /\ DOMAIN t = 1..n /\ \A i \in 1..n : t[i] \in Byte
  BY SeqIs
<1>2. ConvertCaseEx(t) = u
  BY <1>1 DEF ConvertCaseEx
<1>. HIDE DEF n
<1>3. \A i \in 1..n : xlatcase(t[i]) \in Letter
  BY <1>1, LetterIs
<1>4. u \in [1..n -> Letter]
  BY <1>3
<1>. HIDE DEF u
<1>5. u \in Seq(Letter) /\ DOMAIN u = 1..n
  BY <1>1, <1>4
<1>6. Len(u) = n
  BY <1>1, <1>5, SeqIs
<1>. QED
  BY <1>2, <1>5, <1>6 DEF n, Word

LEMMA AddPatternInv ==
  ASSUME IInv, NEW w \in Keyword, AddPattern(w)
  PROVE  IInv'
<1>. DEFINE k == Len(acsmPatterns)
            p == [iid |-> k, patrn |-> ConvertCaseEx(w.txt), casepatrn |-> w.txt,
                  nocase |-> w.nocase]
            one == <<p>>
            new == one \o acsmPatterns
<1>1. Listed /\ Adding /\ pc = "add"
  BY DEF IInv, AddPattern
<1>2. k \in Nat /\ acsmPatterns \in Seq(Pattern)
  BY <1>1, PatternsAre DEF Listed
<1>3. acsmPatterns' = new
  BY DEF AddPattern
<1>4. p \in Pattern /\ p.iid = k /\ p.patrn = ConvertCaseEx(p.casepatrn)
  <2>1. w.txt \in Seq(Byte) /\ w.txt # <<>> /\ w.nocase \in BOOLEAN
    BY KeywordAssumption
  <2>2. Len(w.txt) \in Nat \ {0}
    BY <2>1, EmptySeq
  <2>3. ConvertCaseEx(w.txt) \in Word /\ ConvertCaseEx(w.txt) # <<>>
    <3>1. ConvertCaseEx(w.txt) \in Word /\ Len(ConvertCaseEx(w.txt)) # 0
      BY <2>1, <2>2, ConvertIs
    <3>. QED
      BY <3>1, SeqIs DEF Word
  <2>. QED
    BY <2>1, <2>3, <1>2 DEF Pattern
<1>. HIDE DEF p, k
<1>5. one \in Seq(Pattern) /\ Len(one) = 1 /\ one[1] = p
  BY <1>4
<1>. HIDE DEF one
<1>6. /\ new \in Seq(Pattern) /\ Len(new) = 1 + k
      /\ \A i \in 1..1 : new[i] = one[i]
      /\ \A i \in 1..k : new[1 + i] = acsmPatterns[i]
      /\ \A i \in 1..(1 + k) : i \in 1..1 \/ \E j \in 1..k : i = 1 + j
  <2>. DEFINE len == Len(acsmPatterns)
  <2>1. /\ new \in Seq(Pattern) /\ Len(new) = Len(one) + len
        /\ \A i \in 1..Len(one) : new[i] = one[i]
        /\ \A i \in 1..len : new[Len(one) + i] = acsmPatterns[i]
        /\ \A i \in 1..(Len(one) + len) : i \in 1..Len(one) \/ \E j \in 1..len : i = Len(one) + j
    BY <1>2, <1>5, ConcatIs
  <2>2. len = k
    BY DEF k
  <2>. HIDE DEF len, new
  <2>. QED
    BY <2>1, <2>2, <1>5
<1>. HIDE DEF new
<1>7. ASSUME NEW i \in 1..(1 + k)
      PROVE  new[i].iid = (1 + k) - i /\ new[i].patrn = ConvertCaseEx(new[i].casepatrn)
  <2>1. CASE i = 1
    <3>1. new[1] = p
      BY <1>5, <1>6
    <3>. QED
      BY <3>1, <2>1, <1>2, <1>4
  <2>2. CASE \E j \in 1..k : i = 1 + j
    <3>1. PICK j \in 1..k : i = 1 + j
      BY <2>2
    <3>2. new[i] = acsmPatterns[j]
      BY <3>1, <1>6
    <3>3. acsmPatterns[j].iid = k - j /\ acsmPatterns[j].patrn = ConvertCaseEx(acsmPatterns[j].casepatrn)
      BY <1>1 DEF Listed, k
    <3>4. (1 + k) - i = k - j
      BY <3>1, <1>2
    <3>. QED
      BY <3>2, <3>3, <3>4
  <2>. QED
    BY <2>1, <2>2, <1>6
<1>8. Listed'
  BY <1>3, <1>6, <1>7 DEF Listed
<1>9. pc' = "add" /\ Adding'
  BY <1>1 DEF AddPattern, Adding, trie, search
<1>. QED
  BY <1>8, <1>9 DEF IInv

LEMMA CompileInv ==
  ASSUME IInv, Compile
  PROVE  IInv'
<1>1. Listed /\ Adding
  BY DEF IInv, Compile
<1>2. UNCHANGED <<acsmPatterns, acsmNumStates, plist, pos, queue, state, T, found>> /\ pc' = "trie"
  BY DEF Compile, trie, search
<1>3. Listed' /\ State' = State /\ Patterns' = Patterns /\ Offset' = Offset
  BY <1>1, <1>2, Same
<1>4. /\ NextState' = [s \in State |-> [b \in Letter |-> ACSM_FAIL_STATE]]
      /\ FailState' = [s \in State |-> 0] /\ MatchList' = [s \in State |-> <<>>]
  BY DEF Compile
<1>5. 0 \in State /\ Len(acsmPatterns) \in Nat /\ Offset[0] = 0
  BY <1>1, StateIs, PatternsAre, OffsetIs DEF Listed
<1>. DEFINE str == [s \in {0} |-> <<>>]
<1>6. acsmNumStates' = 0 /\ 0..0 = {0} /\ 1..0 = {}
  BY <1>1, <1>2 DEF Adding
<1>7. Shape(str, 0) /\ Named(str, 0) = {<<>>} /\ str[0] = <<>>
  <2>1. <<>> \in Word
    BY EmptySeq DEF Word
  <2>. QED
    BY <2>1, <1>6 DEF Shape, Named
<1>. HIDE DEF str
<1>8. Tables'
  <2>1. <<>> \in Seq(Patterns)
    BY EmptySeq
  <2>2. ACSM_FAIL_STATE \in ACSM_FAIL_STATE..0 /\ 0 \in 0..0
    BY DEF ACSM_FAIL_STATE
  <2>. QED
    BY <2>1, <2>2, <1>3, <1>4, <1>5, <1>6 DEF Tables
<1>9. Edge(str, 0, NextState'[0], 0)
  <2>1. ASSUME NEW b \in Letter PROVE Append(<<>>, b) # <<>>
    BY AppendIs, EmptySeq
  <2>2. \A b \in Letter : NextState'[0][b] = ACSM_FAIL_STATE
    BY <1>4, <1>5
  <2>. QED
    BY <2>1, <2>2, <1>7 DEF Edge
<1>10. Added' = {}
  <2>1. plist' = 1 /\ 1..(1 - 1) = {}
    BY <1>1, <1>2 DEF Adding
  <2>. QED
    BY <2>1 DEF Added
<1>11. Lists(MatchList'[0], {})
  <2>1. MatchList'[0] = <<>>
    BY <1>4, <1>5
  <2>. QED
    BY <2>1 DEF Lists, Once, ToSet
<1>12. Len(acsmPatterns) >= 1 =>
         /\ 0 <= Len(acsmPatterns[1].patrn) /\ Take(acsmPatterns[1].patrn, 0) = <<>>
  <2>. SUFFICES ASSUME Len(acsmPatterns) >= 1
                PROVE  0 <= Len(acsmPatterns[1].patrn) /\ Take(acsmPatterns[1].patrn, 0) = <<>>
    OBVIOUS
  <2>1. 1 \in 1..Len(acsmPatterns)
    BY <1>5
  <2>2. acsmPatterns[1].patrn \in Word /\ Len(acsmPatterns[1].patrn) \in Nat
    BY <2>1, <1>1, PatternsAre
  <2>. QED
    BY <2>2, TakeEnds DEF Word
<1>13. Growing(str)'
  <2>1. Own(Added', str[0]) = {}
    BY <1>10 DEF Own
  <2>2. Stemmed(str)'
    BY <1>6 DEF Stemmed
  <2>3. /\ plist' = 1 /\ pos' = 0 /\ state' = 0 /\ queue' = <<>> /\ T' = <<>> /\ found' = <<>>
        /\ acsmPatterns' = acsmPatterns
    BY <1>1, <1>2 DEF Adding
  <2>4. \A s \in State' : MatchList'[s] = <<>> /\ \A b \in Letter : NextState'[s][b] = ACSM_FAIL_STATE
    BY <1>3, <1>4
  <2>5. /\ plist' \in 1..(Len(acsmPatterns') + 1) /\ pos' \in Nat
        /\ acsmNumStates' <= Offset'[plist' - 1] + pos'
    BY <2>3, <1>3, <1>5, <1>6
  <2>6. Shape(str, acsmNumStates') /\ state' \in 0..acsmNumStates'
    BY <2>3, <1>6, <1>7
  <2>7. \A s \in 0..acsmNumStates' : /\ Edge(str, acsmNumStates', NextState'[s], s)
                                     /\ Lists(MatchList'[s], Own(Added', str[s]))
    BY <2>1, <1>6, <1>9, <1>11
  <2>8. /\ plist' <= Len(acsmPatterns') =>
            /\ pos' <= Len(acsmPatterns'[plist'].patrn)
            /\ str[state'] = Take(acsmPatterns'[plist'].patrn, pos')
        /\ plist' > Len(acsmPatterns') => pos' = 0 /\ state' = 0
    BY <2>3, <1>7, <1>12
  <2>9. FailState' = [s \in State' |-> 0] /\ \A p \in Added' : p.patrn \in Named(str, acsmNumStates')
    BY <1>3, <1>4, <1>10
  <2>. QED
    BY <2>2, <2>3, <2>4, <2>5, <2>6, <2>7, <2>8, <2>9, <1>8 DEF Growing
<1>. QED
  BY <1>2, <1>3, <1>13 DEF IInv

(* A state more. *)
LEMMA ShapeGrows ==
  ASSUME NEW str, NEW num, Shape(str, num), NEW r \in 0..num, NEW b \in Letter,
         Append(str[r], b) \notin Named(str, num)
  PROVE  \E new : /\ Shape(new, num + 1) /\ \A s \in 0..num : new[s] = str[s]
                  /\ new[num + 1] = Append(str[r], b)
                  /\ Named(new, num + 1) = Named(str, num) \cup {Append(str[r], b)}
<1>. DEFINE n == num + 1
            w == Append(str[r], b)
            new == [s \in 0..n |-> IF s = n THEN w ELSE str[s]]
<1>1. /\ num \in Nat /\ n \in Nat /\ 0..n = (0..num) \cup {n} /\ n \notin 0..num /\ 0 # n
      /\ 0 \in 0..num /\ \A s \in 1..n : s \in 1..num \/ s = n
  BY DEF Shape
<1>2. w \in Word /\ \A s \in 0..num : str[s] \in Word /\ str[s] \in Named(str, num)
  <2>1. \A s \in 0..num : str[s] \in Word /\ str[s] \in Named(str, num)
    BY NamedIs
  <2>2. w \in Word
    BY <2>1, AppendIs DEF Word
  <2>. QED
    BY <2>1, <2>2
<1>. HIDE DEF n, w
<1>3. \A s \in 0..num : new[s] = str[s]
  BY <1>1
<1>4. new[n] = w /\ new \in [0..n -> Word]
  BY <1>1, <1>2
<1>. HIDE DEF new
<1>5. ASSUME NEW s \in 0..n, NEW t \in 0..n, new[s] = new[t] PROVE s = t
  <2>1. w \notin Named(str, num)
    BY DEF w
  <2>2. CASE s = n /\ t # n
    BY <2>1, <2>2, <1>1, <1>2, <1>3, <1>4, <1>5
  <2>3. CASE s # n /\ t = n
    BY <2>1, <2>3, <1>1, <1>2, <1>3, <1>4, <1>5
  <2>4. CASE s # n /\ t # n
    BY <2>4, <1>1, <1>3, <1>5 DEF Shape
  <2>. QED
    BY <2>2, <2>3, <2>4
<1>6. ASSUME NEW s \in 1..n PROVE \E q \in 0..n, c \in Letter : new[s] = Append(new[q], c)
  <2>1. CASE s = n
    <3>1. r \in 0..n /\ new[s] = Append(new[r], b)
      BY <2>1, <1>1, <1>3, <1>4 DEF w
    <3>. QED
      BY <3>1
  <2>2. CASE s \in 1..num
    <3>1. PICK q \in 0..num, c \in Letter : str[s] = Append(str[q], c)
      BY <2>2 DEF Shape
    <3>2. s \in 0..num
      BY <2>2, <1>1
    <3>3. q \in 0..n /\ new[s] = Append(new[q], c)
      BY <3>1, <3>2, <1>1, <1>3
    <3>. QED
      BY <3>3
  <2>. QED
    BY <2>1, <2>2, <1>1
<1>7. Shape(new, n)
  <2>1. new[0] = <<>>
    BY <1>1, <1>3 DEF Shape
  <2>. QED
    BY <2>1, <1>1, <1>4, <1>5, <1>6 DEF Shape
<1>8. Named(new, n) = Named(str, num) \cup {w}
  BY <1>1, <1>3, <1>4 DEF Named
<1>. QED
  BY <1>3, <1>4, <1>7, <1>8 DEF n, w

(* The pattern being added. *)
LEMMA PatternIs ==
  ASSUME Listed, NEW str, Growing(str), plist <= Len(acsmPatterns)
  PROVE  /\ plist \in 1..Len(acsmPatterns) /\ acsmPatterns[plist] \in Patterns
         /\ acsmPatterns[plist].patrn \in Word /\ Len(acsmPatterns[plist].patrn) \in Nat \ {0}
         /\ Offset[plist] = Offset[plist - 1] + Len(acsmPatterns[plist].patrn)
         /\ Offset[plist] <= Offset[Len(acsmPatterns)] /\ Offset[Len(acsmPatterns)] \in Nat
         /\ Offset[plist - 1] \in Nat
<1>1. Len(acsmPatterns) \in Nat
  BY PatternsAre
<1>2. plist \in 1..Len(acsmPatterns)
  BY <1>1 DEF Growing
<1>3. acsmPatterns[plist] \in Patterns /\ acsmPatterns[plist] \in Pattern
  BY <1>2, PatternsAre
<1>4. acsmPatterns[plist].patrn \in Word /\ Len(acsmPatterns[plist].patrn) \in Nat \ {0}
  BY <1>3, PatternsAre
<1>5. Offset[plist] = Offset[plist - 1] + Len(acsmPatterns[plist].patrn)
  BY <1>2, OffsetIs DEF Listed
<1>6. plist \in 0..Len(acsmPatterns) /\ plist - 1 \in 0..Len(acsmPatterns)
      /\ Len(acsmPatterns) \in 0..Len(acsmPatterns)
  BY <1>1, <1>2
<1>7. \A i \in 0..Len(acsmPatterns) : Offset[i] \in 0..Offset[Len(acsmPatterns)]
  BY OffsetIs DEF Listed
<1>. HIDE DEF Offset
<1>8. /\ Offset[plist] \in 0..Offset[Len(acsmPatterns)]
      /\ Offset[plist - 1] \in 0..Offset[Len(acsmPatterns)]
      /\ Offset[Len(acsmPatterns)] \in 0..Offset[Len(acsmPatterns)]
  BY <1>6, <1>7
<1>. QED
  BY <1>2, <1>3, <1>4, <1>5, <1>8

LEMMA AddPatternStatesInv ==
  ASSUME IInv, AddPatternStates
  PROVE  IInv'
<1>1. Listed
  BY DEF IInv
<1>2. PICK str : Growing(str)
  BY DEF IInv, AddPatternStates
<1>3. /\ UNCHANGED <<acsmPatterns, pc, FailState, MatchList, plist, queue, T, found>>
      /\ pc = "trie" /\ plist <= Len(acsmPatterns) /\ pos < Len(acsmPatterns[plist].patrn)
      /\ pos' = pos + 1
  BY DEF AddPatternStates, search
<1>4. Listed' /\ State' = State /\ Patterns' = Patterns /\ Offset' = Offset
  BY <1>1, <1>3, Same
<1>5. Added' = Added
  BY <1>3 DEF Added
<1>. DEFINE num == acsmNumStates
            p == acsmPatterns[plist]
            w == p.patrn
            b == w[pos + 1]
            u == str[state]
<1>6. /\ plist \in 1..Len(acsmPatterns) /\ p \in Patterns
      /\ w \in Word /\ Len(w) \in Nat \ {0}
      /\ Offset[plist] = Offset[plist - 1] + Len(w)
      /\ Offset[plist] <= Offset[Len(acsmPatterns)] /\ Offset[Len(acsmPatterns)] \in Nat
      /\ Offset[plist - 1] \in Nat
  BY <1>1, <1>2, <1>3, PatternIs
<1>7. /\ pos \in Nat /\ state \in 0..num /\ num <= Offset[plist - 1] + pos /\ num \in Nat
      /\ Shape(str, num) /\ Tables /\ u = Take(w, pos)
  BY <1>2, <1>3 DEF Growing, Shape
<1>8. /\ pos \in 0..(Len(w) - 1) /\ pos + 1 \in 1..Len(w) /\ b \in Letter
      /\ Take(w, pos + 1) = Append(u, b)
  <2>1. pos \in 0..(Len(w) - 1)
    BY <1>3, <1>6, <1>7
  <2>2. pos + 1 \in 1..Len(w) /\ Take(w, pos + 1) = Append(Take(w, pos), b)
    BY <2>1, <1>6, TakeEnds DEF Word
  <2>3. b \in Letter
    BY <2>2, <1>6, SeqIs DEF Word
  <2>. QED
    BY <2>1, <2>2, <2>3, <1>7
<1>9. /\ Edge(str, num, NextState[state], state)
      /\ \A s \in 0..num : Edge(str, num, NextState[s], s)
  BY <1>2, <1>7 DEF Growing
<1>10. \A s \in 0..num : u \in Word /\ str[s] \in Word /\ str[s] \in Named(str, num)
  BY <1>7, NamedIs
<1>11. Take(w, pos + 1) \in Prefixes(w)
  <2>1. pos + 1 \in 0..Len(w)
    BY <1>6, <1>8
  <2>. QED
    BY <2>1 DEF Prefixes, Take
<1>12. CASE NextState[state][b] # ACSM_FAIL_STATE
  <2>1. /\ state' = NextState[state][b] /\ NextState' = NextState
        /\ acsmNumStates' = acsmNumStates
    BY <1>12 DEF AddPatternStates
  <2>2. state' \in 1..num /\ str[state'] = Append(u, b)
    BY <2>1, <1>8, <1>9, <1>12 DEF Edge
  <2>. HIDE DEF u, b, w, p, num
  <2>3. str[state'] = Take(acsmPatterns'[plist'].patrn, pos')
    BY <2>2, <1>3, <1>8 DEF w, p
  <2>4. pos' <= Len(acsmPatterns'[plist'].patrn) /\ pos' \in Nat
    BY <1>3, <1>6, <1>7 DEF w, p
  <2>5. state' \in 0..acsmNumStates' /\ acsmNumStates' <= Offset'[plist' - 1] + pos'
    <3>1. state' \in 0..num
      BY <2>2, <1>7
    <3>2. num <= Offset[plist - 1] + (pos + 1)
      BY <1>6, <1>7
    <3>. QED
      BY <3>1, <3>2, <2>1, <1>3, <1>4 DEF num
  <2>6. ~ (plist' > Len(acsmPatterns'))
    BY <1>3, <1>6
  <2>7. Tables' /\ Stemmed(str)'
    BY <1>2, <1>3, <1>4, <2>1 DEF Tables, Growing, Stemmed
  <2>8. Growing(str)'
    BY <1>2, <1>3, <1>4, <1>5, <2>1, <2>3, <2>4, <2>5, <2>6, <2>7 DEF Growing
  <2>. QED
    BY <2>8, <1>3, <1>4 DEF IInv
<1>13. CASE NextState[state][b] = ACSM_FAIL_STATE
  <2>. DEFINE n == acsmNumStates + 1
  <2>1. /\ acsmNumStates' = n /\ state' = n
        /\ NextState' = [NextState EXCEPT ![state][b] = n]
    BY <1>13 DEF AddPatternStates
  <2>2. Append(u, b) \notin Named(str, num)
    <3>1. ACSM_FAIL_STATE \notin 1..num
      BY DEF ACSM_FAIL_STATE
    <3>. QED
      BY <3>1, <1>8, <1>9, <1>13 DEF Edge
  <2>3. PICK new : /\ Shape(new, n) /\ \A s \in 0..num : new[s] = str[s]
                   /\ new[n] = Append(u, b)
                   /\ Named(new, n) = Named(str, num) \cup {Append(u, b)}
    <3>0. /\ Shape(str, num) /\ state \in 0..num /\ b \in Letter
          /\ Append(str[state], b) \notin Named(str, num)
      BY <2>2, <1>7, <1>8
    <3>. HIDE DEF b, num
    <3>1. \E new : /\ Shape(new, num + 1) /\ \A s \in 0..num : new[s] = str[s]
                   /\ new[num + 1] = Append(str[state], b)
                   /\ Named(new, num + 1) = Named(str, num) \cup {Append(str[state], b)}
      BY <3>0, ShapeGrows
    <3>. QED
      BY <3>1 DEF num
  <2>4. /\ n \in Nat /\ num < n /\ 0..n = (0..num) \cup {n} /\ n \notin 0..num
        /\ 1..num \subseteq 1..n /\ 1..n = (1..num) \cup {n} /\ n \in 0..n /\ n \in 1..n
    BY <1>7
  <2>5. n \in State
    <3>1. n <= Offset[Len(acsmPatterns)]
      BY <1>6, <1>7, <1>8
    <3>. QED
      BY <3>1, <2>4, <1>1, StateIs
  <2>6. state \in State /\ NextState \in [State -> [Letter -> ACSM_FAIL_STATE..num]]
        /\ State \subseteq Nat /\ \A s \in 0..num : s \in State
    <3>1. num \in State
      BY <1>7 DEF Tables
    <3>2. \A s \in 0..num : s \in State
      BY <3>1, <1>1, StateIs
    <3>. QED
      BY <3>2, <1>1, <1>7, StateIs DEF Tables
  <2>7. /\ NextState'[state][b] = n
        /\ \A s \in State, c \in Letter : s # state \/ c # b => NextState'[s][c] = NextState[s][c]
    <3>. HIDE DEF n, b
    <3>1. NextState' = [NextState EXCEPT ![state] = [NextState[state] EXCEPT ![b] = n]]
      BY <2>1
    <3>2. NextState'[state] = [NextState[state] EXCEPT ![b] = n]
      BY <3>1, <2>6
    <3>3. DOMAIN NextState[state] = Letter
      BY <2>6
    <3>4. \A c \in Letter : NextState'[state][c] = IF c = b THEN n ELSE NextState[state][c]
      BY <3>2, <3>3
    <3>5. \A s \in State : s # state => NextState'[s] = NextState[s]
      BY <3>1, <2>6
    <3>. QED
      BY <3>4, <3>5, <1>8 DEF b
  <2>8. NextState' \in [State -> [Letter -> ACSM_FAIL_STATE..n]]
    <3>. HIDE DEF n, b
    <3>1. ACSM_FAIL_STATE..num \subseteq ACSM_FAIL_STATE..n /\ n \in ACSM_FAIL_STATE..n
      BY <2>4, <1>7 DEF ACSM_FAIL_STATE
    <3>2. NextState \in [State -> [Letter -> ACSM_FAIL_STATE..n]]
      BY <3>1, <2>6
    <3>. QED
      BY <3>1, <3>2, <2>1, <2>6, <1>8
  <2>9. Tables'
    <3>1. \A s \in State : FailState[s] = 0 /\ 0 \in 0..n
      BY <1>2, <2>4 DEF Growing
    <3>2. FailState \in [State -> 0..n] /\ MatchList \in [State -> Seq(Patterns)]
      BY <3>1, <1>7, <2>4 DEF Tables
    <3>. QED
      BY <3>2, <2>1, <2>5, <2>8, <1>3, <1>4 DEF Tables
  <2>. HIDE DEF n, u, b, w, p, num
  <2>10. Stemmed(new)'
    <3>1. ASSUME NEW s \in 1..n PROVE \E q \in Patterns : new[s] \in Prefixes(q.patrn)
      <4>1. CASE s = n
        <5>1. new[s] \in Prefixes(p.patrn)
          BY <4>1, <2>3, <1>8, <1>11 DEF w
        <5>. QED
          BY <5>1, <1>6
      <4>2. CASE s \in 1..num
        <5>1. s \in 0..num
          BY <4>2, <1>7
        <5>2. \E q \in Patterns : str[s] \in Prefixes(q.patrn)
          BY <4>2, <1>2 DEF Growing, Stemmed, num
        <5>. QED
          BY <5>1, <5>2, <2>3
      <4>. QED
        BY <4>1, <4>2, <2>4
    <3>. QED
      BY <3>1, <2>1, <1>4 DEF Stemmed
  <2>11. ASSUME NEW s \in 0..n PROVE Edge(new, n, NextState'[s], s)
    <3>. SUFFICES ASSUME NEW c \in Letter
                  PROVE  \/ NextState'[s][c] = ACSM_FAIL_STATE /\ Append(new[s], c) \notin Named(new, n)
                         \/ NextState'[s][c] \in 1..n /\ new[NextState'[s][c]] = Append(new[s], c)
      BY DEF Edge
    <3>1. CASE s = state /\ c = b
      BY <3>1, <2>3, <2>4, <2>7, <1>7 DEF u
    <3>2. CASE s \in 0..num /\ ~ (s = state /\ c = b)
      <4>1. NextState'[s][c] = NextState[s][c] /\ new[s] = str[s] /\ str[s] \in Word
        BY <3>2, <2>3, <2>6, <2>7, <1>10
      <4>2. CASE NextState[s][c] \in 1..num /\ str[NextState[s][c]] = Append(str[s], c)
        <5>1. NextState[s][c] \in 0..num
          BY <4>2, <1>7
        <5>. QED
          BY <5>1, <4>1, <4>2, <2>3, <2>4
      <4>3. CASE NextState[s][c] = ACSM_FAIL_STATE /\ Append(str[s], c) \notin Named(str, num)
        <5>1. Append(str[s], c) # Append(u, b)
          <6>. SUFFICES ASSUME Append(str[s], c) = Append(u, b) PROVE FALSE
            OBVIOUS
          <6>. DEFINE v == str[s]
          <6>1. v \in Seq(Letter) /\ u \in Seq(Letter) /\ Append(v, c) = Append(u, b)
            BY <3>2, <4>1, <1>10 DEF Word
          <6>. HIDE DEF v
          <6>2. v = u /\ c = b
            BY <6>1, <1>8, AppendOnce
          <6>3. s = state
            BY <6>2, <3>2, <1>7 DEF Shape, u, v
          <6>. QED
            BY <6>2, <6>3, <3>2
        <5>. QED
          BY <5>1, <4>1, <4>3, <2>3
      <4>. QED
        BY <4>2, <4>3, <3>2, <1>9 DEF Edge
    <3>3. CASE s = n
      <4>1. n \in State \ (0..num) /\ n # state
        BY <2>4, <2>5, <1>7
      <4>2. NextState'[n][c] = ACSM_FAIL_STATE
        BY <4>1, <2>7, <1>2 DEF Growing, num
      <4>3. Append(new[n], c) \notin Named(new, n)
        <5>. SUFFICES ASSUME NEW t \in 0..n, Append(new[n], c) = new[t] PROVE FALSE
          BY DEF Named
        <5>2. t # n
          <6>. DEFINE x == new[n]
          <6>1. x \in Seq(Letter)
            BY <2>3, <2>4 DEF Shape, Word
          <6>. HIDE DEF x
          <6>2. Len(Append(x, c)) = Len(x) + 1 /\ Len(x) \in Nat
            BY <6>1, AppendIs, SeqIs
          <6>3. Append(x, c) # x
            BY <6>2
          <6>. QED
            BY <6>3 DEF x
        <5>3. t \in 0..num
          BY <5>2, <2>4
        <5>4. Append(new[n], c) \in Named(str, num)
          BY <5>3, <2>3, <1>10
        <5>5. new[n] \in Word
          BY <2>3, <2>4 DEF Shape
        <5>6. new[n] \in Named(str, num)
          BY <5>4, <5>5, <1>7, NamedIs DEF Closed
        <5>. QED
          BY <5>6, <2>2, <2>3
      <4>. QED
        BY <3>3, <4>2, <4>3
    <3>. QED
      BY <3>1, <3>2, <3>3, <2>4
  <2>12. ASSUME NEW s \in State \ (0..n)
         PROVE  MatchList[s] = <<>> /\ \A c \in Letter : NextState'[s][c] = ACSM_FAIL_STATE
    <3>1. s \in State \ (0..num) /\ s # state
      BY <2>4, <1>7
    <3>. QED
      BY <3>1, <2>7, <1>2 DEF Growing, num
  <2>13. ASSUME NEW s \in 0..n PROVE Lists(MatchList[s], Own(Added, new[s]))
    <3>1. CASE s = n
      <4>1. n \in State \ (0..num)
        BY <2>4, <2>5
      <4>2. MatchList[s] = <<>>
        BY <3>1, <4>1, <1>2 DEF Growing, num
      <4>3. \A q \in Added : q.patrn \in Named(str, num)
        BY <1>2 DEF Growing, num
      <4>4. Own(Added, new[s]) = {}
        BY <3>1, <4>3, <2>2, <2>3 DEF Own
      <4>. QED
        BY <4>2, <4>4 DEF Lists, Once, ToSet
    <3>2. CASE s \in 0..num
      BY <3>2, <2>3, <1>2 DEF Growing, num
    <3>. QED
      BY <3>1, <3>2, <2>4
  <2>14. \A q \in Added : q.patrn \in Named(new, n)
    BY <2>3, <1>2 DEF Growing, num
  <2>15. new[state'] = Take(acsmPatterns'[plist'].patrn, pos')
    BY <2>1, <2>3, <1>3, <1>8 DEF w, p
  <2>16. pos' <= Len(acsmPatterns'[plist'].patrn) /\ pos' \in Nat
    BY <1>3, <1>6, <1>7 DEF w, p
  <2>17. state' \in 0..acsmNumStates' /\ acsmNumStates' <= Offset'[plist' - 1] + pos'
    <3>1. n <= Offset[plist - 1] + (pos + 1)
      BY <1>6, <1>7 DEF n, num
    <3>. QED
      BY <3>1, <2>1, <2>4, <1>3, <1>4
  <2>18. ~ (plist' > Len(acsmPatterns'))
    BY <1>3, <1>6
  <2>19. Growing(new)'
    <3>1. /\ queue' = <<>> /\ T' = <<>> /\ found' = <<>> /\ FailState' = [s \in State' |-> 0]
          /\ plist' \in 1..(Len(acsmPatterns') + 1)
      BY <1>2, <1>3, <1>4 DEF Growing
    <3>2. Shape(new, acsmNumStates') /\ \A q \in Added' : q.patrn \in Named(new, acsmNumStates')
      BY <2>1, <2>3, <2>14, <1>5
    <3>3. \A s \in 0..acsmNumStates' : /\ Edge(new, acsmNumStates', NextState'[s], s)
                                       /\ Lists(MatchList'[s], Own(Added', new[s]))
      BY <2>1, <2>11, <2>13, <1>3, <1>5
    <3>4. \A s \in State' \ (0..acsmNumStates') :
            MatchList'[s] = <<>> /\ \A c \in Letter : NextState'[s][c] = ACSM_FAIL_STATE
      BY <2>1, <2>12, <1>3, <1>4
    <3>. QED
      BY <3>1, <3>2, <3>3, <3>4, <2>9, <2>10, <2>15, <2>16, <2>17, <2>18 DEF Growing
  <2>. QED
    BY <2>19, <1>3, <1>4 DEF IInv
<1>. QED
  BY <1>12, <1>13

LEMMA AddMatchListEntryInv ==
  ASSUME IInv, AddMatchListEntry
  PROVE  IInv'
<1>1. Listed
  BY DEF IInv
<1>2. PICK str : Growing(str)
  BY DEF IInv, AddMatchListEntry
<1>. DEFINE num == acsmNumStates
            p == acsmPatterns[plist]
            w == p.patrn
            one == <<p>>
<1>3. /\ UNCHANGED <<acsmPatterns, pc, NextState, FailState, acsmNumStates, queue, T, found>>
      /\ pc = "trie" /\ plist <= Len(acsmPatterns) /\ pos = Len(w)
      /\ MatchList' = [MatchList EXCEPT ![state] = one \o MatchList[state]]
      /\ plist' = plist + 1 /\ pos' = 0 /\ state' = 0
  BY DEF AddMatchListEntry, search
<1>4. Listed' /\ State' = State /\ Patterns' = Patterns /\ Offset' = Offset
  BY <1>1, <1>3, Same
<1>5. /\ plist \in 1..Len(acsmPatterns) /\ p \in Patterns
      /\ w \in Word /\ Len(w) \in Nat \ {0}
      /\ Offset[plist] = Offset[plist - 1] + Len(w)
      /\ Offset[plist] <= Offset[Len(acsmPatterns)] /\ Offset[Len(acsmPatterns)] \in Nat
      /\ Offset[plist - 1] \in Nat
  BY <1>1, <1>2, <1>3, PatternIs
<1>6. /\ state \in 0..num /\ num <= Offset[plist - 1] + pos /\ num \in Nat
      /\ Shape(str, num) /\ Tables /\ str[state] = w
  <2>1. Take(w, Len(w)) = w
    BY <1>5, TakeEnds DEF Word
  <2>. QED
    BY <2>1, <1>2, <1>3 DEF Growing, Shape
<1>7. Added' = Added \cup {p} /\ p \notin Added /\ Added \subseteq Patterns
  <2>1. plist' - 1 = plist /\ 1..plist = (1..(plist - 1)) \cup {plist} /\ plist \notin 1..(plist - 1)
    BY <1>3, <1>5
  <2>2. Added' = Added \cup {p}
    BY <2>1, <1>3 DEF Added
  <2>3. 1..(plist - 1) \subseteq 1..Len(acsmPatterns)
    BY <1>5
  <2>4. p \notin Added
    <3>. SUFFICES ASSUME NEW i \in 1..(plist - 1), p = acsmPatterns[i] PROVE FALSE
      BY DEF Added
    <3>1. i = plist
      BY <2>3, <1>1, <1>5, PatternsAre
    <3>. QED
      BY <3>1, <2>1
  <2>5. Added \subseteq Patterns
    BY <2>3, <1>1, PatternsAre DEF Added
  <2>. QED
    BY <2>2, <2>4, <2>5
<1>. HIDE DEF p, w
<1>8. state \in State /\ MatchList \in [State -> Seq(Patterns)] /\ \A s \in 0..num : s \in State
  <2>1. num \in State
    BY <1>6 DEF Tables
  <2>. QED
    BY <2>1, <1>1, <1>6, StateIs DEF Tables
<1>9. MatchList[state] \in Seq(Patterns) /\ Lists(MatchList[state], Own(Added, w))
  BY <1>2, <1>6, <1>8 DEF Growing
<1>10. /\ one \o MatchList[state] \in Seq(Patterns)
       /\ Lists(one \o MatchList[state], Own(Added, w) \cup {p})
  <2>. DEFINE l == MatchList[state]
  <2>1. one \in Seq(Patterns) /\ ToSet(one) = {p} /\ Once(one)
    BY <1>5 DEF ToSet, Once
  <2>2. l \in Seq(Patterns) /\ Once(l) /\ ToSet(l) = Own(Added, w)
    BY <1>9 DEF Lists
  <2>3. ToSet(one) \cap ToSet(l) = {}
    BY <2>1, <2>2, <1>7 DEF Own
  <2>. HIDE DEF one, l
  <2>4. /\ one \o l \in Seq(Patterns) /\ ToSet(one \o l) = ToSet(one) \cup ToSet(l)
        /\ Once(one \o l)
    BY <2>1, <2>2, <2>3, ConcatIs
  <2>. QED
    BY <2>1, <2>2, <2>4 DEF Lists, l
<1>. HIDE DEF one
<1>11. /\ MatchList' \in [State -> Seq(Patterns)]
       /\ MatchList'[state] = one \o MatchList[state]
       /\ \A s \in State : s # state => MatchList'[s] = MatchList[s]
  BY <1>3, <1>8, <1>10
<1>12. ASSUME NEW s \in 0..num PROVE Lists(MatchList'[s], Own(Added', str[s]))
  <2>1. CASE s = state
    <3>1. Own(Added', w) = Own(Added, w) \cup {p}
      BY <1>7 DEF Own, w
    <3>. QED
      BY <2>1, <3>1, <1>6, <1>10, <1>11
  <2>2. CASE s # state
    <3>1. str[s] # w
      BY <2>2, <1>6 DEF Shape
    <3>2. Own(Added', str[s]) = Own(Added, str[s])
      BY <3>1, <1>7 DEF Own, w
    <3>. QED
      BY <2>2, <3>2, <1>2, <1>8, <1>11 DEF Growing
  <2>. QED
    BY <2>1, <2>2
<1>13. \A q \in Added' : q.patrn \in Named(str, num)
  <2>1. w \in Named(str, num)
    BY <1>6 DEF Named
  <2>. QED
    BY <2>1, <1>2, <1>7 DEF Growing, w
<1>14. Tables' /\ Stemmed(str)'
  BY <1>2, <1>3, <1>4, <1>6, <1>11 DEF Tables, Growing, Stemmed
<1>15. \A s \in State \ (0..num) : MatchList'[s] = <<>>
  BY <1>2, <1>6, <1>11 DEF Growing
<1>16. /\ plist' \in 1..(Len(acsmPatterns) + 1) /\ plist' - 1 = plist
       /\ acsmNumStates' <= Offset'[plist' - 1] + pos'
  <2>1. plist' \in 1..(Len(acsmPatterns) + 1) /\ plist' - 1 = plist
    <3>1. Len(acsmPatterns) \in Nat
      BY <1>1, PatternsAre
    <3>. QED
      BY <3>1, <1>3, <1>5
  <2>2. num <= Offset[plist] + 0
    BY <1>3, <1>5, <1>6
  <2>. QED
    BY <2>1, <2>2, <1>3, <1>4
<1>17. plist' <= Len(acsmPatterns') =>
         /\ pos' <= Len(acsmPatterns'[plist'].patrn)
         /\ str[state'] = Take(acsmPatterns'[plist'].patrn, pos')
  <2>. SUFFICES ASSUME plist' <= Len(acsmPatterns)
                PROVE  /\ 0 <= Len(acsmPatterns[plist'].patrn)
                       /\ <<>> = Take(acsmPatterns[plist'].patrn, 0)
    BY <1>3, <1>6 DEF Shape
  <2>1. plist' \in 1..Len(acsmPatterns)
    BY <1>16
  <2>2. acsmPatterns[plist'].patrn \in Word /\ Len(acsmPatterns[plist'].patrn) \in Nat
    BY <2>1, <1>1, PatternsAre
  <2>. QED
    BY <2>2, TakeEnds DEF Word
<1>18. Growing(str)'
  <2>1. /\ queue' = <<>> /\ T' = <<>> /\ found' = <<>> /\ FailState' = [s \in State' |-> 0]
        /\ pos' \in Nat /\ state' \in 0..acsmNumStates'
        /\ pos' = 0 /\ state' = 0
    BY <1>2, <1>3, <1>4, <1>6 DEF Growing
  <2>2. /\ \A s \in 0..acsmNumStates' : Edge(str, acsmNumStates', NextState'[s], s)
        /\ \A s \in State' \ (0..acsmNumStates') :
             MatchList'[s] = <<>> /\ \A b \in Letter : NextState'[s][b] = ACSM_FAIL_STATE
    BY <1>2, <1>3, <1>4, <1>15 DEF Growing
  <2>3. /\ Shape(str, acsmNumStates')
        /\ \A q \in Added' : q.patrn \in Named(str, acsmNumStates')
        /\ \A s \in 0..acsmNumStates' : Lists(MatchList'[s], Own(Added', str[s]))
        /\ plist' \in 1..(Len(acsmPatterns') + 1)
    BY <1>3, <1>6, <1>12, <1>13, <1>16
  <2>. QED
    BY <2>1, <2>2, <2>3, <1>14, <1>16, <1>17 DEF Growing
<1>. QED
  BY <1>3, <1>4, <1>18 DEF IInv

LEMMA OneLetter ==
  ASSUME NEW b \in Letter
  PROVE  /\ Append(<<>>, b) \in Word /\ Append(<<>>, b) # <<>>
         /\ Tail(Append(<<>>, b)) = <<>>
<1>. DEFINE u == Append(<<>>, b)
<1>1. <<>> \in Seq(Letter) /\ Len(<<>>) = 0
  BY EmptySeq
<1>2. u \in Seq(Letter) /\ Len(u) = 1
  BY <1>1, AppendIs
<1>. HIDE DEF u
<1>3. u # <<>>
  BY <1>2, SeqIs
<1>4. Tail(u) \in Seq(Letter) /\ Len(Tail(u)) = 0
  BY <1>2, <1>3, TailIs
<1>5. Tail(u) = <<>>
  BY <1>4, SeqIs
<1>. QED
  BY <1>2, <1>3, <1>5 DEF u, Word

LEMMA TrieEndInv ==
  ASSUME IInv, TrieEnd
  PROVE  IInv'
<1>1. Listed
  BY DEF IInv
<1>2. PICK str : Growing(str)
  BY DEF IInv, TrieEnd
<1>. DEFINE num == acsmNumStates
            first == [b \in Letter |-> IF NextState[0][b] = ACSM_FAIL_STATE THEN 0
                                       ELSE NextState[0][b]]
<1>0. PICK R : R = After(str, num, 0)
  OBVIOUS
<1>3. /\ UNCHANGED <<acsmPatterns, FailState, MatchList, acsmNumStates, plist, pos, state, T, found>>
      /\ plist > Len(acsmPatterns) /\ pc' = "nfa"
      /\ queue' = Kids(NextState', 0, 0)
  BY DEF TrieEnd, trie, search
<1>4. Listed' /\ State' = State /\ Patterns' = Patterns /\ Offset' = Offset
  BY <1>1, <1>3, Same
<1>5. /\ num \in Nat /\ Shape(str, num) /\ Tables /\ state = 0
      /\ 0 \in 0..num /\ str[0] = <<>> /\ R \subseteq 1..num
  BY <1>0, <1>2, <1>3 DEF Growing, Shape, After
<1>6. 0 \in State /\ NextState \in [State -> [Letter -> ACSM_FAIL_STATE..num]]
      /\ \A s \in 0..num : s \in State
  <2>1. num \in State
    BY <1>5 DEF Tables
  <2>. QED
    BY <2>1, <1>1, <1>5, StateIs DEF Tables
<1>7. Added = Patterns
  <2>1. Len(acsmPatterns) \in Nat /\ Patterns = {acsmPatterns[i] : i \in 1..Len(acsmPatterns)}
    BY <1>1, PatternsAre
  <2>2. plist - 1 = Len(acsmPatterns)
    BY <2>1, <1>2, <1>3 DEF Growing
  <2>. QED
    BY <2>1, <2>2 DEF Added
<1>8. NextState' = [NextState EXCEPT ![0] = first]
  BY DEF TrieEnd
<1>. HIDE DEF num
<1>9. NextState'[0] = first /\ \A s \in State : s # 0 => NextState'[s] = NextState[s]
  BY <1>6, <1>8
<1>10. Edge(str, num, NextState[0], 0)
  BY <1>2, <1>5 DEF Growing, num
<1>11. ASSUME NEW b \in Letter
       PROVE  \/ /\ NextState'[0][b] = 0 /\ Append(str[0], b) \notin Named(str, num)
                 /\ Best(Named(str, num), Append(str[0], b)) = <<>>
              \/ /\ NextState'[0][b] \in 1..num /\ str[NextState'[0][b]] = Append(str[0], b)
                 /\ Best(Named(str, num), Append(str[0], b)) = Append(str[0], b)
  <2>1. /\ Append(str[0], b) \in Word /\ Append(str[0], b) # <<>> /\ Tail(Append(str[0], b)) = <<>>
    BY <1>5, OneLetter
  <2>2. Named(str, num) \in SUBSET Word /\ <<>> \in Named(str, num) /\ <<>> \in Word
    BY <1>5, NamedIs
  <2>3. CASE NextState[0][b] = ACSM_FAIL_STATE /\ Append(str[0], b) \notin Named(str, num)
    <3>1. Best(Named(str, num), Append(str[0], b)) = Best(Named(str, num), <<>>)
      <4>. DEFINE v == Append(str[0], b)
                  St == Named(str, num)
      <4>1. St \in SUBSET Word /\ <<>> \in St /\ v \in Word /\ v \notin St
        BY <2>1, <2>2, <2>3
      <4>. HIDE DEF v, St
      <4>2. Best(St, v) = Best(St, Tail(v))
        BY <4>1, BestIs
      <4>. QED
        BY <4>2, <2>1 DEF v, St
    <3>2. Best(Named(str, num), <<>>) = <<>>
      BY <2>2, BestIs
    <3>. QED
      BY <3>1, <3>2, <2>3, <1>9
  <2>4. CASE NextState[0][b] \in 1..num /\ str[NextState[0][b]] = Append(str[0], b)
    <3>1. NextState[0][b] # ACSM_FAIL_STATE /\ NextState[0][b] \in 0..num
      BY <2>4, <1>5 DEF ACSM_FAIL_STATE, num
    <3>2. Append(str[0], b) \in Named(str, num)
      BY <2>4, <3>1 DEF Named
    <3>3. Best(Named(str, num), Append(str[0], b)) = Append(str[0], b)
      BY <2>1, <2>2, <3>2, BestIs
    <3>. QED
      BY <3>1, <3>3, <2>4, <1>9
  <2>. QED
    BY <2>3, <2>4, <1>10 DEF Edge
<1>. HIDE DEF first
<1>12. queue' \in Seq(1..num) /\ ToSet(queue') = R /\ Once(queue')
  <2>. DEFINE none == 0
  <2>1. none \in {0, ACSM_FAIL_STATE}
    OBVIOUS
  <2>2. \A b \in Letter :
          \/ NextState'[0][b] = none /\ Append(str[0], b) \notin Named(str, num)
          \/ NextState'[0][b] \in 1..num /\ str[NextState'[0][b]] = Append(str[0], b)
    BY <1>11
  <2>. HIDE DEF none
  <2>3. /\ Kids(NextState', 0, none) \in Seq(1..num)
        /\ ToSet(Kids(NextState', 0, none)) = After(str, num, 0)
        /\ Once(Kids(NextState', 0, none))
    BY <2>1, <2>2, <1>5, KidsAfter DEF num
  <2>. QED
    BY <2>3, <1>0, <1>3 DEF none
<1>13. Reached(str, num, R, queue')
  BY <1>0, <1>5, <1>12, ReachedFirst DEF num
<1>14. NextState' \in [State -> [Letter -> ACSM_FAIL_STATE..num]]
  <2>1. \A b \in Letter : NextState[0][b] \in ACSM_FAIL_STATE..num /\ 0 \in ACSM_FAIL_STATE..num
    BY <1>5, <1>6 DEF ACSM_FAIL_STATE, num
  <2>2. first \in [Letter -> ACSM_FAIL_STATE..num]
    BY <2>1 DEF first
  <2>. QED
    BY <2>2, <1>6, <1>8
<1>15. Tables' /\ Stemmed(str)'
  BY <1>2, <1>3, <1>4, <1>5, <1>14 DEF Tables, Growing, Stemmed, num
<1>16. Full(str, num, NextState'[0], 0)
  <2>1. \A b \in Letter : NextState'[0][b] \in 1..num => NextState'[0][b] \in 0..num
    BY <1>5
  <2>. QED
    BY <2>1, <1>5, <1>11 DEF Full, num
<1>17. /\ \A p \in Patterns : p.patrn \in Named(str, num)
       /\ \A s \in 0..num : Lists(MatchList[s], Own(Patterns, str[s]))
  BY <1>2, <1>7 DEF Growing, num
<1>18. Lists(MatchList[0], {})
  <2>1. Own(Patterns, str[0]) = {}
    BY <1>1, <1>5, PatternsAre DEF Own
  <2>2. Lists(MatchList[0], Own(Patterns, str[0]))
    BY <1>5, <1>17 DEF num
  <2>. QED
    BY <2>1, <2>2
<1>19. Built(str)'
  <2>1. /\ Shape(str, acsmNumStates') /\ Full(str, acsmNumStates', NextState'[0], 0)
        /\ \A p \in Patterns' : p.patrn \in Named(str, acsmNumStates')
        /\ Lists(MatchList'[0], {})
    BY <1>3, <1>4, <1>5, <1>16, <1>17, <1>18 DEF num
  <2>. QED
    BY <2>1, <1>15 DEF Built
<1>20. ASSUME NEW s \in 1..num
       PROVE  Edge(str, num, NextState'[s], s) /\ s \in 0..num
  <2>1. s \in 0..num /\ s # 0
    BY <1>5 DEF num
  <2>2. NextState'[s] = NextState[s]
    BY <2>1, <1>6, <1>9 DEF num
  <2>. QED
    BY <2>1, <2>2, <1>2 DEF Growing, num
<1>21. FailState = [s \in State |-> 0]
  BY <1>2 DEF Growing
<1>22. ASSUME NEW s \in R
       PROVE  /\ str[0] = Best(Named(str, num), Tail(str[s]))
              /\ Lists(MatchList[s], Ending(Patterns, str[s]))
  <2>1. PICK b \in Letter : str[s] = Append(str[0], b)
    BY <1>0 DEF After
  <2>2. str[s] \in Word /\ str[s] # <<>> /\ Tail(str[s]) = <<>>
    BY <2>1, <1>5, OneLetter
  <2>3. Best(Named(str, num), <<>>) = <<>>
    <3>1. Named(str, num) \in SUBSET Word /\ <<>> \in Named(str, num)
      BY <1>5, NamedIs DEF num
    <3>. QED
      BY <3>1, BestIs
  <2>4. ASSUME NEW p \in Patterns PROVE Ends(p.patrn, str[s]) <=> p.patrn = str[s]
    <3>1. p.patrn # <<>>
      BY <1>1, PatternsAre
    <3>2. Ends(p.patrn, str[s]) <=> (p.patrn = str[s] \/ Ends(p.patrn, Tail(str[s])))
      BY <2>2, EndsIs DEF Word
    <3>3. <<>> \in Seq(Letter)
      BY EmptySeq
    <3>4. Ends(p.patrn, <<>>) <=> p.patrn = <<>>
      BY <3>3, EndsIs
    <3>. QED
      BY <3>1, <3>2, <3>4, <2>2
  <2>5. Ending(Patterns, str[s]) = Own(Patterns, str[s])
    BY <2>4 DEF Ending, Own
  <2>6. s \in 0..num
    BY <1>5 DEF num
  <2>. QED
    BY <2>2, <2>3, <2>5, <2>6, <1>5, <1>17
<1>23. Failing(str, R)'
  <2>1. /\ Reached(str, acsmNumStates', R, queue')
        /\ state' = 0 /\ T' = <<>> /\ found' = <<>>
    BY <1>2, <1>3, <1>5, <1>13 DEF Growing, num
  <2>2. \A s \in 1..acsmNumStates' : Edge(str, acsmNumStates', NextState'[s], s)
    BY <1>3, <1>20 DEF num
  <2>3. \A s \in 0..num : FailState'[s] = 0
    BY <1>3, <1>6, <1>21
  <2>4. \A s \in State' \ R : FailState'[s] = 0
    BY <1>3, <1>4, <1>21
  <2>5. ASSUME NEW s \in R
        PROVE  /\ str[FailState'[s]] = Best(Named(str, acsmNumStates'), Tail(str[s]))
               /\ FailState'[s] \in R \cup {0}
               /\ Lists(MatchList'[s], Ending(Patterns', str[s]))
    <3>1. s \in 0..num
      BY <1>5 DEF num
    <3>2. FailState'[s] = 0
      BY <2>3, <3>1
    <3>. QED
      BY <3>2, <1>3, <1>4, <1>22 DEF num
  <2>6. ASSUME NEW s \in (1..acsmNumStates') \ R PROVE Lists(MatchList'[s], Own(Patterns', str[s]))
    BY <1>3, <1>4, <1>17, <1>20 DEF num
  <2>7. \A s \in R : Fails(str, s)'
    BY <2>5 DEF Fails
  <2>. QED
    BY <2>1, <2>2, <2>4, <2>5, <2>6, <2>7, <1>19 DEF Failing
<1>. QED
  BY <1>3, <1>4, <1>23 DEF IInv

-----------------------------------------------------------------------------
(* Failure states *)

(* The state of a longest suffix. *)
LEMMA BestState ==
  ASSUME NEW str, NEW num, Shape(str, num), NEW w \in Word
  PROVE  \E t \in 0..num : /\ str[t] = Best(Named(str, num), w)
                           /\ \A u \in 0..num : str[u] = Best(Named(str, num), w) => u = t
<1>1. Named(str, num) \in SUBSET Word /\ <<>> \in Named(str, num)
  BY NamedIs
<1>2. Best(Named(str, num), w) \in Named(str, num)
  BY <1>1, BestIs
<1>3. PICK t \in 0..num : str[t] = Best(Named(str, num), w)
  BY <1>2 DEF Named
<1>4. \A u \in 0..num : str[u] = str[t] => u = t
  BY DEF Shape
<1>. QED
  BY <1>3, <1>4

(* Where there is no transition, the search goes on from the failure       *)
(* state, whose word is shorter.                                           *)
LEMMA FailStep ==
  ASSUME NEW str, NEW num, Shape(str, num), NEW s \in 1..num, NEW f \in 0..num,
         str[f] = Best(Named(str, num), Tail(str[s]))
  PROVE  /\ Len(str[f]) < Len(str[s]) /\ Tail(str[s]) \in Word /\ str[s] # <<>>
         /\ Len(str[f]) \in Nat /\ Len(str[s]) \in Nat
         /\ \A b \in Letter :
              /\ Best(Named(str, num), Tail(Append(str[s], b)))
                   = Best(Named(str, num), Append(str[f], b))
              /\ Append(str[s], b) \notin Named(str, num) =>
                   Best(Named(str, num), Append(str[s], b))
                     = Best(Named(str, num), Append(str[f], b))
<1>. DEFINE St == Named(str, num)
            w == str[s]
<1>1. St \in SUBSET Word /\ <<>> \in St /\ Closed(St)
  BY NamedIs
<1>2. w \in Word /\ w # <<>>
  <2>1. s \in 0..num /\ 0 \in 0..num /\ s # 0
    BY DEF Shape
  <2>. QED
    BY <2>1 DEF Shape
<1>. HIDE DEF St, w
<1>3. Tail(w) \in Word /\ Len(Tail(w)) = Len(w) - 1 /\ Len(w) \in Nat
  BY <1>2, TailIs, SeqIs DEF Word
<1>4. str[f] = Best(St, Tail(w))
  BY DEF St, w
<1>5. Len(str[f]) < Len(w) /\ Len(str[f]) \in Nat
  <2>1. Len(Best(St, Tail(w))) <= Len(Tail(w)) /\ Best(St, Tail(w)) \in Word
    BY <1>1, <1>3, BestIs
  <2>2. Len(Best(St, Tail(w))) \in Nat
    BY <2>1, SeqIs DEF Word
  <2>. QED
    BY <2>1, <2>2, <1>3, <1>4
<1>6. ASSUME NEW b \in Letter
      PROVE  /\ Best(St, Tail(Append(w, b))) = Best(St, Append(str[f], b))
             /\ Append(w, b) \notin St => Best(St, Append(w, b)) = Best(St, Append(str[f], b))
  <2>1. Tail(Append(w, b)) = Append(Tail(w), b)
    BY <1>2, TailAppend DEF Word
  <2>2. Best(St, Append(Tail(w), b)) = Best(St, Append(Best(St, Tail(w)), b))
    BY <1>1, <1>3, BestAppend
  <2>3. Append(w, b) \in Word
    BY <1>2, AppendIs DEF Word
  <2>4. Append(w, b) \notin St => Best(St, Append(w, b)) = Best(St, Tail(Append(w, b)))
    BY <2>3, <1>1, BestIs
  <2>. QED
    BY <2>1, <2>2, <2>4, <1>4
<1>. QED
  BY <1>2, <1>3, <1>5, <1>6 DEF St, w

(* A transition of the tree leads to the longest suffix. *)
LEMMA EdgeIsBest ==
  ASSUME NEW str, NEW num, Shape(str, num), NEW row, NEW s \in 0..num, Edge(str, num, row, s),
         NEW b \in Letter, row[b] # ACSM_FAIL_STATE
  PROVE  row[b] \in 1..num /\ row[b] \in 0..num
         /\ str[row[b]] = Append(str[s], b)
         /\ str[row[b]] = Best(Named(str, num), Append(str[s], b))
<1>1. row[b] \in 1..num /\ str[row[b]] = Append(str[s], b)
  BY DEF Edge
<1>2. row[b] \in 0..num
  BY <1>1 DEF Shape
<1>3. Append(str[s], b) \in Named(str, num)
  BY <1>1, <1>2 DEF Named
<1>4. Best(Named(str, num), Append(str[s], b)) = Append(str[s], b)
  <2>1. Named(str, num) \in SUBSET Word /\ <<>> \in Named(str, num)
    BY NamedIs
  <2>. DEFINE w == Append(str[s], b)
              St == Named(str, num)
  <2>2. St \in SUBSET Word /\ <<>> \in St /\ w \in St /\ w \in Word
    BY <2>1, <1>3
  <2>. HIDE DEF w, St
  <2>3. Best(St, w) = w
    BY <2>2, BestIs
  <2>. QED
    BY <2>3 DEF w, St
<1>. QED
  BY <1>1, <1>2, <1>4

LEMMA LocateIs ==
  ASSUME Listed, NEW str, NEW R, Failing(str, R), NEW b \in Letter, NEW r \in R \cup {0}
  PROVE  /\ Locate(r, b) \in 0..acsmNumStates
         /\ str[Locate(r, b)] = Best(Named(str, acsmNumStates), Append(str[r], b))
<1>. DEFINE num == acsmNumStates
            St == Named(str, num)
            Good(s, t) == t \in 0..num /\ str[t] = Best(St, Append(str[s], b))
            Eq(next) == next = [s \in State |->
                IF NextState[s][b] # ACSM_FAIL_STATE THEN NextState[s][b] ELSE next[FailState[s]]]
<1>1. /\ Shape(str, num) /\ num \in Nat /\ R \subseteq 1..num
      /\ Tables /\ Full(str, num, NextState[0], 0)
      /\ \A s \in R : Edge(str, num, NextState[s], s) /\ Fails(str, s) /\ FailState[s] \in R \cup {0}
      /\ \A s \in State \ R : FailState[s] = 0
  BY DEF Failing, Built, Shape, Reached
<1>2. 0 \in State /\ \A s \in 0..num : s \in State
  <2>1. num \in State
    BY <1>1 DEF Tables
  <2>. QED
    BY <2>1, StateIs
<1>3. R \cup {0} \subseteq 0..num /\ R \cup {0} \subseteq State /\ 0 \notin R
  BY <1>1, <1>2
<1>. HIDE DEF num
<1>4. ASSUME NEW s \in 0..num PROVE \E t : Good(s, t) /\ \A u : Good(s, u) => u = t
  <2>1. Append(str[s], b) \in Word
    BY <1>1, AppendIs DEF Shape, Word
  <2>. DEFINE w == Append(str[s], b)
  <2>. HIDE DEF w
  <2>2. PICK t \in 0..num : /\ str[t] = Best(Named(str, num), w)
                            /\ \A u \in 0..num : str[u] = Best(Named(str, num), w) => u = t
    BY <2>1, <1>1, BestState DEF w
  <2>. QED
    BY <2>2 DEF w
<1>5. NextState[0][b] # ACSM_FAIL_STATE /\ Good(0, NextState[0][b])
  BY <1>1 DEF Full, ACSM_FAIL_STATE
<1>6. ASSUME NEW s \in R, NextState[s][b] # ACSM_FAIL_STATE PROVE Good(s, NextState[s][b])
  <2>. DEFINE row == NextState[s]
  <2>1. Edge(str, num, row, s) /\ row[b] # ACSM_FAIL_STATE /\ s \in 0..num
    BY <1>1, <1>3, <1>6
  <2>. HIDE DEF row
  <2>2. row[b] \in 0..num /\ str[row[b]] = Best(Named(str, num), Append(str[s], b))
    BY <2>1, <1>1, EdgeIsBest
  <2>. QED
    BY <2>2 DEF row
<1>7. ASSUME NEW s \in R, NextState[s][b] = ACSM_FAIL_STATE
      PROVE  /\ FailState[s] \in R \cup {0} /\ FailState[s] \in 0..num
             /\ \A t : Good(FailState[s], t) <=> Good(s, t)
             /\ Len(str[FailState[s]]) < Len(str[s])
  <2>1. FailState[s] \in R \cup {0} /\ FailState[s] \in 0..num /\ s \in 1..num
    BY <1>1, <1>3
  <2>2. str[FailState[s]] = Best(Named(str, num), Tail(str[s]))
    BY <1>1 DEF Fails, num
  <2>3. Append(str[s], b) \notin Named(str, num)
    <3>1. ACSM_FAIL_STATE \notin 1..num
      BY DEF ACSM_FAIL_STATE
    <3>. QED
      BY <3>1, <1>1, <1>7 DEF Edge
  <2>4. /\ Len(str[FailState[s]]) < Len(str[s])
        /\ Best(Named(str, num), Append(str[s], b)) = Best(Named(str, num), Append(str[FailState[s]], b))
    <3>. DEFINE f == FailState[s]
    <3>1. f \in 0..num /\ str[f] = Best(Named(str, num), Tail(str[s]))
      BY <2>1, <2>2
    <3>. HIDE DEF f
    <3>2. /\ Len(str[f]) < Len(str[s])
          /\ Append(str[s], b) \notin Named(str, num) =>
               Best(Named(str, num), Append(str[s], b)) = Best(Named(str, num), Append(str[f], b))
      BY <2>1, <3>1, <1>1, FailStep
    <3>. QED
      BY <3>2, <2>3 DEF f
  <2>. QED
    BY <2>1, <2>4
<1>. HIDE DEF Good
<1>8. \E next : Eq(next)
  <2>. DEFINE To(s) == CHOOSE t : Good(s, t)
              V == [s \in State |->
                     IF s \in R \cup {0} THEN To(s)
                     ELSE IF NextState[s][b] # ACSM_FAIL_STATE THEN NextState[s][b] ELSE To(0)]
  <2>1. \A s \in R \cup {0} : Good(s, To(s)) /\ \A u : Good(s, u) => u = To(s)
    BY <1>3, <1>4
  <2>. HIDE DEF To
  <2>2. V[0] = To(0) /\ \A s \in R : V[s] = To(s)
    BY <1>2, <1>3
  <2>3. \A s \in State : s \notin R \cup {0} =>
          V[s] = IF NextState[s][b] # ACSM_FAIL_STATE THEN NextState[s][b] ELSE To(0)
    OBVIOUS
  <2>4. DOMAIN V = State /\ V = [s \in State |-> V[s]]
    OBVIOUS
  <2>. HIDE DEF V
  <2>5. ASSUME NEW s \in State
        PROVE  V[s] = IF NextState[s][b] # ACSM_FAIL_STATE THEN NextState[s][b] ELSE V[FailState[s]]
    <3>1. CASE s = 0
      BY <3>1, <2>1, <2>2, <1>5
    <3>2. CASE s \in R
      <4>1. CASE NextState[s][b] # ACSM_FAIL_STATE
        BY <3>2, <4>1, <2>1, <2>2, <1>6
      <4>2. CASE NextState[s][b] = ACSM_FAIL_STATE
        <5>1. FailState[s] \in R \cup {0} /\ Good(s, To(FailState[s]))
          BY <3>2, <4>2, <2>1, <1>7
        <5>2. V[FailState[s]] = To(FailState[s]) /\ V[s] = To(s)
          BY <3>2, <5>1, <2>2
        <5>3. To(FailState[s]) = To(s)
          BY <3>2, <5>1, <2>1
        <5>. QED
          BY <4>2, <5>2, <5>3
      <4>. QED
        BY <4>1, <4>2
    <3>3. CASE s \notin R \cup {0}
      <4>1. FailState[s] = 0
        BY <3>3, <1>1
      <4>. QED
        BY <3>3, <4>1, <2>2, <2>3
    <3>. QED
      BY <3>1, <3>2, <3>3
  <2>6. Eq(V)
    BY <2>4, <2>5
  <2>. QED
    BY <2>6
<1>9. PICK next : Eq(next) /\ Locate(r, b) = next[r]
  <2>1. Locate(r, b) = (CHOOSE next : Eq(next))[r]
    BY DEF Locate
  <2>. QED
    BY <1>8, <2>1
<1>10. \A s \in State :
         next[s] = IF NextState[s][b] # ACSM_FAIL_STATE THEN NextState[s][b] ELSE next[FailState[s]]
  BY <1>9
<1>. HIDE DEF Eq
<1>11. Good(0, next[0])
  BY <1>2, <1>5, <1>10
<1>. DEFINE D == {n \in Nat : \A s \in R : Len(str[s]) <= n => Good(s, next[s])}
<1>12. ASSUME NEW s \in R \cup {0} PROVE Len(str[s]) \in Nat
  BY <1>1, <1>3, SeqIs DEF Shape, Word
<1>13. ASSUME NEW s \in R, NextState[s][b] = ACSM_FAIL_STATE,
              FailState[s] \in R => Good(FailState[s], next[FailState[s]])
       PROVE  Good(s, next[s])
  <2>1. FailState[s] \in R \cup {0} /\ \A t : Good(FailState[s], t) <=> Good(s, t)
    BY <1>7, <1>13
  <2>2. next[s] = next[FailState[s]]
    BY <1>3, <1>10, <1>13
  <2>3. Good(FailState[s], next[FailState[s]])
    <3>1. CASE FailState[s] = 0
      BY <3>1, <1>11
    <3>. QED
      BY <3>1, <2>1, <1>13
  <2>. QED
    BY <2>1, <2>2, <2>3
<1>14. ASSUME NEW s \in R, NextState[s][b] # ACSM_FAIL_STATE PROVE Good(s, next[s])
  BY <1>3, <1>6, <1>10, <1>14
<1>15. 0 \in D
  <2>. SUFFICES ASSUME NEW s \in R, Len(str[s]) <= 0 PROVE FALSE
    OBVIOUS
  <2>1. s \in 0..num /\ Len(str[s]) = 0
    BY <1>3, <1>12
  <2>2. str[s] = <<>>
    BY <2>1, <1>1, SeqIs DEF Shape, Word
  <2>3. s = 0
    BY <2>1, <2>2, <1>1, <1>3 DEF Shape
  <2>. QED
    BY <2>3, <1>3
<1>16. ASSUME NEW n \in D PROVE n + 1 \in D
  <2>. SUFFICES ASSUME NEW s \in R, Len(str[s]) <= n + 1 PROVE Good(s, next[s])
    OBVIOUS
  <2>1. CASE NextState[s][b] = ACSM_FAIL_STATE
    <3>1. FailState[s] \in R \cup {0} /\ Len(str[FailState[s]]) < Len(str[s])
      BY <2>1, <1>7
    <3>2. Len(str[FailState[s]]) \in Nat /\ Len(str[s]) \in Nat
      BY <3>1, <1>12
    <3>3. Len(str[FailState[s]]) <= n
      BY <3>1, <3>2
    <3>4. FailState[s] \in R => Good(FailState[s], next[FailState[s]])
      BY <3>3
    <3>. QED
      BY <3>4, <2>1, <1>13
  <2>2. CASE NextState[s][b] # ACSM_FAIL_STATE
    BY <2>2, <1>14
  <2>. QED
    BY <2>1, <2>2
<1>17. D = Nat
  <2>. HIDE DEF D
  <2>1. D \in SUBSET Nat
    BY DEF D
  <2>. QED
    BY <1>15, <1>16, <2>1, SetInduction
<1>18. Good(r, next[r])
  <2>1. CASE r \in R
    <3>1. Len(str[r]) \in D /\ Len(str[r]) <= Len(str[r])
      BY <2>1, <1>12, <1>17
    <3>. QED
      BY <2>1, <3>1
  <2>2. CASE r = 0
    BY <2>2, <1>11
  <2>. QED
    BY <2>1, <2>2
<1>. QED
  BY <1>9, <1>18 DEF Good, num

(* Facts of every finished tree. *)
LEMMA BuiltIs ==
  ASSUME Listed, NEW str, Built(str)
  PROVE  /\ Shape(str, acsmNumStates) /\ acsmNumStates \in Nat /\ Tables
         /\ Named(str, acsmNumStates) \in SUBSET Word /\ <<>> \in Named(str, acsmNumStates)
         /\ str[0] = <<>> /\ 0 \in 0..acsmNumStates
         /\ \A s \in 0..acsmNumStates : s \in State /\ str[s] \in Word
         /\ Kids(NextState, 0, 0) \in Seq(1..acsmNumStates)
         /\ ToSet(Kids(NextState, 0, 0)) = After(str, acsmNumStates, 0)
         /\ Once(Kids(NextState, 0, 0))
         /\ Ending(Patterns, str[0]) = {}
<1>. DEFINE num == acsmNumStates
            St == Named(str, num)
            none == 0
<1>1. /\ Shape(str, num) /\ num \in Nat /\ Tables /\ str[0] = <<>> /\ 0 \in 0..num
      /\ Full(str, num, NextState[0], 0)
  <2>1. Shape(str, num) /\ Tables /\ Full(str, num, NextState[0], 0)
    BY DEF Built
  <2>2. num \in Nat /\ str[0] = <<>>
    BY <2>1 DEF Shape
  <2>3. 0 \in 0..num
    BY <2>2
  <2>. QED
    BY <2>1, <2>2, <2>3
<1>2. St \in SUBSET Word /\ <<>> \in St
  BY <1>1, NamedIs
<1>3. \A s \in 0..num : s \in State /\ str[s] \in Word
  <2>1. num \in State
    BY <1>1 DEF Tables
  <2>. QED
    BY <2>1, <1>1, StateIs DEF Shape
<1>. HIDE DEF num, St
<1>4. ASSUME NEW b \in Letter
      PROVE  \/ NextState[0][b] = none /\ Append(str[0], b) \notin St
             \/ NextState[0][b] \in 1..num /\ str[NextState[0][b]] = Append(str[0], b)
  <2>. DEFINE w == Append(str[0], b)
  <2>1. w \in Word /\ w # <<>> /\ Tail(w) = <<>>
    BY <1>1, OneLetter
  <2>2. NextState[0][b] \in 0..num /\ str[NextState[0][b]] = Best(St, w)
    BY <1>1 DEF Full, St
  <2>. HIDE DEF w
  <2>3. <<>> \in Word
    BY <1>2
  <2>4. CASE w \in St
    <3>1. str[NextState[0][b]] = w
      BY <2>1, <2>2, <2>4, <1>2, BestIs
    <3>2. NextState[0][b] # 0
      BY <3>1, <2>1, <1>1
    <3>. QED
      BY <3>1, <3>2, <2>2, <1>1 DEF w
  <2>5. CASE w \notin St
    <3>1. Best(St, w) = Best(St, <<>>)
      <4>. HIDE DEF St
      <4>1. Best(St, w) = Best(St, Tail(w))
        BY <2>1, <2>5, <1>2, BestIs
      <4>. QED
        BY <4>1, <2>1
    <3>2. Best(St, <<>>) = <<>>
      BY <2>3, <1>2, BestIs
    <3>3. NextState[0][b] = 0
      BY <3>1, <3>2, <2>2, <1>1 DEF Shape
    <3>. QED
      BY <3>3, <2>5 DEF w
  <2>. QED
    BY <2>4, <2>5
<1>5. none \in {0, ACSM_FAIL_STATE}
  OBVIOUS
<1>. HIDE DEF none
<1>6. /\ Kids(NextState, 0, none) \in Seq(1..num)
      /\ ToSet(Kids(NextState, 0, none)) = After(str, num, 0)
      /\ Once(Kids(NextState, 0, none))
  BY <1>1, <1>4, <1>5, KidsAfter DEF St
<1>7. Ending(Patterns, str[0]) = {}
  <2>1. <<>> \in Seq(Letter)
    BY EmptySeq
  <2>2. \A p \in Patterns : Ends(p.patrn, <<>>) <=> p.patrn = <<>>
    BY <2>1, EndsIs
  <2>3. \A p \in Patterns : p.patrn # <<>>
    BY PatternsAre
  <2>. QED
    BY <2>2, <2>3, <1>1 DEF Ending
<1>. QED
  BY <1>1, <1>2, <1>3, <1>6, <1>7 DEF num, St, none

(* The first in the queue, and what follows it. *)
LEMMA HeadIs ==
  ASSUME NEW str, NEW num, Shape(str, num), NEW R, Reached(str, num, R, queue), queue # <<>>,
         \A s \in ToSet(queue) : Edge(str, num, NextState[s], s)
  PROVE  /\ Head(queue) \in R /\ Head(queue) \in 1..num /\ Head(queue) \in ToSet(queue)
         /\ Edge(str, num, NextState[Head(queue)], Head(queue))
         /\ LET k == Kids(NextState, Head(queue), ACSM_FAIL_STATE)
                A == After(str, num, Head(queue))
            IN /\ k \in Seq(1..num) /\ ToSet(k) = A /\ A \cap R = {} /\ A \subseteq 1..num
               /\ Reached(str, num, R \cup A, Tail(queue) \o k)
               /\ ToSet(Tail(queue) \o k) = (ToSet(queue) \ {Head(queue)}) \cup A
<1>. DEFINE r == Head(queue)
            none == ACSM_FAIL_STATE
            k == Kids(NextState, r, none)
<1>1. r \in 1..num /\ r \in 0..num /\ r \in ToSet(queue)
  <2>1. queue \in Seq(1..num) /\ num \in Nat
    BY DEF Reached, Shape
  <2>2. r \in 1..num /\ ToSet(queue) = {r} \cup ToSet(Tail(queue))
    BY <2>1, TailIs
  <2>. QED
    BY <2>1, <2>2
<1>2. Edge(str, num, NextState[r], r)
  BY <1>1
<1>. HIDE DEF r
<1>3. none \in {0, ACSM_FAIL_STATE}
  OBVIOUS
<1>4. \A b \in Letter :
        \/ NextState[r][b] = none /\ Append(str[r], b) \notin Named(str, num)
        \/ NextState[r][b] \in 1..num /\ str[NextState[r][b]] = Append(str[r], b)
  BY <1>2 DEF Edge
<1>. HIDE DEF none
<1>5. k \in Seq(1..num) /\ ToSet(k) = After(str, num, r) /\ Once(k)
  BY <1>1, <1>3, <1>4, KidsAfter
<1>. HIDE DEF k
<1>6. /\ Reached(str, num, R \cup ToSet(k), Tail(queue) \o k)
      /\ ToSet(k) \cap R = {} /\ Head(queue) \in R
      /\ ToSet(Tail(queue) \o k) = (ToSet(queue) \ {Head(queue)}) \cup ToSet(k)
  <2>1. PICK q : q = queue
    OBVIOUS
  <2>2. PICK c \in Seq(1..num) : c = k
    BY <1>5
  <2>3. /\ Shape(str, num) /\ Reached(str, num, R, q) /\ q # <<>>
        /\ Once(c) /\ ToSet(c) = After(str, num, Head(q))
    BY <2>1, <2>2, <1>5 DEF r
  <2>4. /\ Reached(str, num, R \cup ToSet(c), Tail(q) \o c)
        /\ ToSet(c) \cap R = {} /\ Head(q) \in R
        /\ ToSet(Tail(q) \o c) = (ToSet(q) \ {Head(q)}) \cup ToSet(c)
    BY ONLY <2>3, c \in Seq(1..num), ReachedNext, SMTT(30)
  <2>. QED
    BY <2>1, <2>2, <2>4
<1>. QED
  BY <1>1, <1>2, <1>5, <1>6 DEF r, k, none, After

LEMMA BuildNFAInv ==
  ASSUME IInv, BuildNFA
  PROVE  IInv'
<1>1. Listed
  BY DEF IInv
<1>2. PICK str, R : Failing(str, R)
  BY DEF IInv, BuildNFA
<1>. DEFINE num == acsmNumStates
            St == Named(str, num)
            r == Head(queue)
            A == After(str, num, r)
            bytes == {b \in Letter : NextState[r][b] # ACSM_FAIL_STATE}
            via(s) == CHOOSE b \in bytes : NextState[r][b] = s
            succ == {NextState[r][b] : b \in bytes}
            fail(s) == Locate(FailState[r], via(s))
<1>3. UNCHANGED <<acsmPatterns, pc, NextState, acsmNumStates, plist, pos, state, T, found>>
      /\ pc = "nfa" /\ queue # <<>>
  BY DEF BuildNFA, trie, search
<1>4. Listed' /\ State' = State /\ Patterns' = Patterns
  BY <1>1, <1>3, Same
<1>5. /\ FailState' = [s \in State |-> IF s \in succ THEN fail(s) ELSE FailState[s]]
      /\ MatchList' = [s \in State |->
           IF s \in succ THEN Inherit(MatchList[s], MatchList[FailState'[s]]) ELSE MatchList[s]]
      /\ queue' = Tail(queue) \o Kids(NextState, r, ACSM_FAIL_STATE)
  BY DEF BuildNFA
<1>6. Built(str) /\ Reached(str, num, R, queue) /\ \A s \in 1..num : Edge(str, num, NextState[s], s)
  BY <1>2 DEF Failing
<1>7. /\ Shape(str, num) /\ num \in Nat /\ Tables /\ St \in SUBSET Word /\ <<>> \in St
      /\ str[0] = <<>> /\ 0 \in 0..num
      /\ \A s \in 0..num : s \in State /\ str[s] \in Word
      /\ Ending(Patterns, str[0]) = {}
  BY <1>1, <1>6, BuiltIs
<1>8. R \subseteq 1..num /\ ToSet(queue) \subseteq 1..num
  BY <1>6 DEF Reached
<1>9. /\ r \in R /\ r \in 1..num /\ Edge(str, num, NextState[r], r)
      /\ A \cap R = {} /\ A \subseteq 1..num
      /\ Reached(str, num, R \cup A, queue')
  <2>1. \A s \in ToSet(queue) : Edge(str, num, NextState[s], s)
    BY <1>6, <1>8
  <2>. QED
    BY <2>1, <1>3, <1>5, <1>6, <1>7, HeadIs
<1>10. PICK R2 : R2 = R \cup A
  OBVIOUS
<1>11. /\ \A s \in R : /\ Fails(str, s) /\ FailState[s] \in R \cup {0}
                       /\ Lists(MatchList[s], Ending(Patterns, str[s]))
       /\ \A s \in State \ R : FailState[s] = 0
       /\ \A s \in (1..num) \ R : Lists(MatchList[s], Own(Patterns, str[s]))
       /\ Lists(MatchList[0], {})
  BY <1>2 DEF Failing, Built
<1>. HIDE DEF num, St, r, A
<1>12. \A s \in 1..num : s \in 0..num
  BY <1>7
<1>13. /\ \A s \in succ : via(s) \in Letter /\ str[s] = Append(str[r], via(s)) /\ s \in A
       /\ A \subseteq succ
  <2>1. ASSUME NEW s \in succ
        PROVE  via(s) \in Letter /\ str[s] = Append(str[r], via(s)) /\ s \in A
    <3>1. via(s) \in bytes /\ NextState[r][via(s)] = s
      OBVIOUS
    <3>. HIDE DEF via, succ
    <3>2. s \in 1..num /\ str[s] = Append(str[r], via(s)) /\ via(s) \in Letter
      BY <3>1, <1>9 DEF Edge
    <3>. QED
      BY <3>2 DEF A, After
  <2>2. ASSUME NEW s \in A PROVE s \in succ
    <3>1. PICK b \in Letter : str[s] = Append(str[r], b)
      BY DEF A, After
    <3>2. s \in 0..num
      BY <1>9, <1>12
    <3>3. Append(str[r], b) \in Named(str, num)
      BY <3>1, <3>2 DEF Named
    <3>4. NextState[r][b] \in 1..num /\ str[NextState[r][b]] = Append(str[r], b)
      BY <3>3, <1>9 DEF Edge
    <3>5. NextState[r][b] = s
      BY <3>1, <3>2, <3>4, <1>7, <1>12 DEF Shape
    <3>6. NextState[r][b] # ACSM_FAIL_STATE
      BY <3>4 DEF ACSM_FAIL_STATE
    <3>. QED
      BY <3>5, <3>6
  <2>. QED
    BY <2>1, <2>2
<1>. HIDE DEF via, succ
<1>14. succ = A
  BY <1>13
<1>15. ASSUME NEW s \in A
       PROVE  /\ fail(s) \in R \cup {0} /\ fail(s) \in 0..num
              /\ str[fail(s)] = Best(St, Tail(str[s]))
              /\ Len(str[fail(s)]) < Len(str[s])
  <2>. DEFINE f == FailState[r]
              b == via(s)
  <2>1. b \in Letter /\ str[s] = Append(str[r], b) /\ s \in 0..num /\ s \in 1..num
    BY <1>9, <1>12, <1>13
  <2>2. f \in R \cup {0} /\ f \in 0..num /\ str[f] = Best(Named(str, num), Tail(str[r]))
    BY <1>7, <1>8, <1>9, <1>11, <1>12 DEF Fails, num
  <2>. HIDE DEF f, b
  <2>3. fail(s) \in 0..num /\ str[fail(s)] = Best(St, Append(str[f], b))
    <3>1. Locate(f, b) \in 0..num /\ str[Locate(f, b)] = Best(Named(str, num), Append(str[f], b))
      BY <2>1, <2>2, <1>1, <1>2, LocateIs DEF num
    <3>. QED
      BY <3>1 DEF f, b, St
  <2>. HIDE DEF fail
  <2>4. str[fail(s)] = Best(St, Tail(str[s]))
    <3>1. Best(Named(str, num), Tail(Append(str[r], b))) = Best(Named(str, num), Append(str[f], b))
      BY <2>1, <2>2, <1>7, <1>9, FailStep
    <3>. QED
      BY <3>1, <2>1, <2>3 DEF St
  <2>5. Len(str[fail(s)]) < Len(str[s]) /\ Len(str[fail(s)]) \in Nat /\ Len(str[s]) \in Nat
    BY <2>1, <2>3, <2>4, <1>7, FailStep DEF St
  <2>6. Len(str[s]) = Len(str[r]) + 1 /\ Len(str[r]) \in Nat
    <3>1. r \in 0..num
      BY <1>9, <1>12
    <3>2. Len(str[s]) = Len(str[r]) + 1
      BY <3>1, <2>1, <1>7, AfterIs
    <3>. QED
      BY <3>1, <3>2, <1>7, SeqIs DEF Word
  <2>7. fail(s) \in R \cup {0}
    <3>1. CASE fail(s) = 0
      BY <3>1
    <3>2. CASE fail(s) \in 1..num
      <4>1. Len(str[fail(s)]) <= Len(str[r])
        BY <2>5, <2>6
      <4>. QED
        BY <3>2, <4>1, <1>3, <1>6, <1>7, ReachedAll DEF num, r
    <3>. QED
      BY <3>1, <3>2, <2>3, <1>7
  <2>. QED
    BY <2>3, <2>4, <2>5, <2>7
<1>. HIDE DEF fail
<1>16. /\ \A s \in A : FailState'[s] = fail(s)
       /\ \A s \in State \ A : FailState'[s] = FailState[s] /\ MatchList'[s] = MatchList[s]
       /\ \A s \in A : MatchList'[s] = Reverse(MatchList[fail(s)]) \o MatchList[s]
       /\ A \subseteq State
  <2>1. A \subseteq State
    BY <1>7, <1>9, <1>12
  <2>2. \A s \in A : FailState'[s] = fail(s)
    BY <2>1, <1>5, <1>14
  <2>3. \A s \in A : MatchList'[s] = Reverse(MatchList[fail(s)]) \o MatchList[s]
    BY <2>1, <2>2, <1>5, <1>14 DEF Inherit
  <2>. QED
    BY <2>1, <2>2, <2>3, <1>5, <1>14
<1>17. ASSUME NEW s \in A
       PROVE  /\ MatchList'[s] \in Seq(Patterns)
              /\ Lists(MatchList'[s], Ending(Patterns, str[s]))
  <2>. DEFINE l == MatchList[s]
              m == Reverse(MatchList[fail(s)])
              w == str[s]
              g == str[fail(s)]
  <2>1. s \in 1..num /\ s \notin R /\ s \in 0..num
    BY <1>9, <1>12
  <2>2. Lists(l, Own(Patterns, w)) /\ l \in Seq(Patterns)
    BY <2>1, <1>7, <1>11 DEF Tables
  <2>3. MatchList[fail(s)] \in Seq(Patterns) /\ Lists(MatchList[fail(s)], Ending(Patterns, g))
    <3>1. fail(s) \in R \cup {0} /\ fail(s) \in State
      BY <1>7, <1>15
    <3>2. CASE fail(s) = 0
      BY <3>1, <3>2, <1>7, <1>11 DEF Tables
    <3>3. CASE fail(s) \in R
      BY <3>1, <3>3, <1>7, <1>11 DEF Tables
    <3>. QED
      BY <3>1, <3>2, <3>3
  <2>4. m \in Seq(Patterns) /\ Once(m) /\ ToSet(m) = Ending(Patterns, g)
    BY <2>3, ReverseIs DEF Lists
  <2>5. w \in Word /\ w # <<>> /\ Tail(w) \in Word /\ Len(Tail(w)) = Len(w) - 1 /\ Len(w) \in Nat
    <3>1. w \in Word
      BY <2>1, <1>7
    <3>2. w # <<>>
      BY <2>1, <1>7 DEF Shape
    <3>. QED
      BY <3>1, <3>2, TailIs, SeqIs DEF Word
  <2>6. g = Best(St, Tail(w))
    BY <1>15
  <2>. HIDE DEF l, m, w, g
  <2>7. ASSUME NEW p \in Patterns
        PROVE  /\ Ends(p.patrn, w) <=> (p.patrn = w \/ Ends(p.patrn, g))
               /\ ~ (p.patrn = w /\ Ends(p.patrn, g))
    <3>1. p.patrn \in St
      BY <1>6 DEF Built, St, num
    <3>2. Ends(p.patrn, Tail(w)) <=> Ends(p.patrn, g)
      BY <3>1, <2>5, <2>6, <1>7, EndsBest
    <3>3. Ends(p.patrn, w) <=> (p.patrn = w \/ Ends(p.patrn, Tail(w)))
      BY <2>5, EndsIs DEF Word
    <3>4. Ends(p.patrn, Tail(w)) => Len(p.patrn) <= Len(Tail(w))
      BY <2>5, EndsIs DEF Word
    <3>. QED
      BY <3>2, <3>3, <3>4, <2>5
  <2>8. /\ m \o l \in Seq(Patterns) /\ ToSet(m \o l) = ToSet(m) \cup ToSet(l)
        /\ Once(m \o l)
    <3>1. Once(l) /\ ToSet(l) = Own(Patterns, w)
      BY <2>2 DEF Lists
    <3>2. ToSet(m) \cap ToSet(l) = {}
      BY <3>1, <2>4, <2>7 DEF Own, Ending
    <3>. QED
      BY <3>1, <3>2, <2>2, <2>4, ConcatIs
  <2>9. ToSet(m \o l) = Ending(Patterns, w)
    BY <2>2, <2>4, <2>7, <2>8 DEF Own, Ending, Lists
  <2>10. MatchList'[s] = m \o l
    BY <1>16 DEF m, l
  <2>. QED
    BY <2>8, <2>9, <2>10 DEF Lists, w
<1>18. Tables'
  <2>1. \A s \in State : MatchList'[s] \in Seq(Patterns)
    BY <1>7, <1>16, <1>17 DEF Tables
  <2>2. \A s \in State : FailState'[s] \in 0..num
    BY <1>7, <1>15, <1>16 DEF Tables, num
  <2>3. FailState' \in [State -> 0..num] /\ MatchList' \in [State -> Seq(Patterns)]
    BY <2>1, <2>2, <1>5
  <2>. QED
    BY <2>3, <1>3, <1>4, <1>7 DEF Tables, num
<1>19. 0 \in State \ A
  BY <1>7, <1>9
<1>20. Built(str)'
  <2>1. Stemmed(str)'
    BY <1>3, <1>4, <1>6 DEF Built, Stemmed
  <2>2. Lists(MatchList'[0], {})
    BY <1>11, <1>16, <1>19
  <2>. QED
    BY <2>1, <2>2, <1>3, <1>4, <1>6, <1>18 DEF Built
<1>21. Failing(str, R2)'
  <2>1. Reached(str, acsmNumStates', R2, queue')
    BY <1>3, <1>9, <1>10 DEF num
  <2>2. \A s \in 1..acsmNumStates' : Edge(str, acsmNumStates', NextState'[s], s)
    BY <1>3, <1>6 DEF num
  <2>3. ASSUME NEW s \in R2
        PROVE  /\ str[FailState'[s]] = Best(Named(str, acsmNumStates'), Tail(str[s]))
               /\ FailState'[s] \in R2 \cup {0}
               /\ Lists(MatchList'[s], Ending(Patterns', str[s]))
    <3>1. CASE s \in A
      BY <3>1, <1>3, <1>4, <1>10, <1>15, <1>16, <1>17 DEF St, num
    <3>2. CASE s \in R
      <4>1. s \in State \ A
        BY <3>2, <1>7, <1>8, <1>9, <1>12
      <4>. QED
        BY <3>2, <4>1, <1>3, <1>4, <1>10, <1>11, <1>16 DEF Fails
    <3>. QED
      BY <3>1, <3>2, <1>10
  <2>4. \A s \in R2 : Fails(str, s)'
    BY <2>3 DEF Fails
  <2>5. \A s \in State' \ R2 : FailState'[s] = 0
    BY <1>4, <1>10, <1>11, <1>16
  <2>6. ASSUME NEW s \in (1..acsmNumStates') \ R2 PROVE Lists(MatchList'[s], Own(Patterns', str[s]))
    <3>1. s \in (1..num) \ R /\ s \in State \ A
      BY <1>3, <1>7, <1>10, <1>12 DEF num
    <3>. QED
      BY <3>1, <1>4, <1>11, <1>16
  <2>7. state' = 0 /\ T' = <<>> /\ found' = <<>>
    BY <1>2, <1>3 DEF Failing
  <2>. QED
    BY <2>1, <2>2, <2>3, <2>4, <2>5, <2>6, <2>7, <1>20 DEF Failing
<1>. QED
  BY <1>3, <1>4, <1>21 DEF IInv

LEMMA BuildNFAEndInv ==
  ASSUME IInv, BuildNFAEnd
  PROVE  IInv'
<1>1. Listed
  BY DEF IInv
<1>2. PICK str, R : Failing(str, R)
  BY DEF IInv, BuildNFAEnd
<1>. DEFINE num == acsmNumStates
<1>3. /\ UNCHANGED <<acsmPatterns, NextState, FailState, MatchList, acsmNumStates, plist, pos,
                     state, T, found>>
      /\ queue = <<>> /\ queue' = Kids(NextState, 0, 0) /\ pc' = "dfa"
  BY DEF BuildNFAEnd, trie, search
<1>4. Listed' /\ State' = State /\ Patterns' = Patterns
  BY <1>1, <1>3, Same
<1>5. /\ Built(str) /\ Reached(str, num, R, queue) /\ Shape(str, num)
      /\ \A s \in 1..num : Edge(str, num, NextState[s], s)
  BY <1>2 DEF Failing, Built
<1>6. PICK R2 : R2 = After(str, num, 0)
  OBVIOUS
<1>7. Reached(str, num, R2, queue') /\ ToSet(queue') = R2
  <2>1. /\ queue' \in Seq(1..num) /\ ToSet(queue') = After(str, num, 0) /\ Once(queue')
    BY <1>1, <1>3, <1>5, BuiltIs
  <2>. QED
    BY <2>1, <1>5, <1>6, ReachedFirst
<1>8. \A s \in 1..num : s \in R
  BY <1>3, <1>5, ReachedAll
<1>9. Built(str)' /\ \A s : Fails(str, s)' <=> Fails(str, s)
  BY <1>3, <1>4, <1>5 DEF Built, Tables, Stemmed, Fails
<1>10. Completing(str, R2)'
  <2>1. Reached(str, acsmNumStates', R2, queue') /\ state' = 0 /\ T' = <<>> /\ found' = <<>>
    BY <1>2, <1>3, <1>7 DEF Failing
  <2>2. \A s \in 1..acsmNumStates' :
          Fails(str, s)' /\ Lists(MatchList'[s], Ending(Patterns', str[s]))
    BY <1>2, <1>3, <1>4, <1>8, <1>9 DEF Failing
  <2>3. R2 \ ToSet(queue') = {} /\ ToSet(queue') \subseteq 1..num
    BY <1>6, <1>7 DEF After
  <2>4. \A s \in ((1..acsmNumStates') \ R2) \cup ToSet(queue') :
          Edge(str, acsmNumStates', NextState'[s], s)
    BY <2>3, <1>3, <1>5
  <2>. QED
    BY <2>1, <2>2, <2>3, <2>4, <1>9 DEF Completing
<1>. QED
  BY <1>3, <1>4, <1>10 DEF IInv

LEMMA ConvertNFAInv ==
  ASSUME IInv, ConvertNFA
  PROVE  IInv'
<1>1. Listed
  BY DEF IInv
<1>2. PICK str, R : Completing(str, R)
  BY DEF IInv, ConvertNFA
<1>. DEFINE num == acsmNumStates
            St == Named(str, num)
            r == Head(queue)
            A == After(str, num, r)
            row == [b \in Letter |-> IF NextState[r][b] # ACSM_FAIL_STATE THEN NextState[r][b]
                                     ELSE Fallback(r, b)]
<1>3. UNCHANGED <<acsmPatterns, pc, FailState, MatchList, acsmNumStates, plist, pos, state, T,
                  found>>
      /\ pc = "dfa" /\ queue # <<>>
  BY DEF ConvertNFA, trie, search
<1>4. Listed' /\ State' = State /\ Patterns' = Patterns
  BY <1>1, <1>3, Same
<1>5. /\ NextState' = [NextState EXCEPT ![r] = row]
      /\ queue' = Tail(queue) \o Kids(NextState, r, ACSM_FAIL_STATE)
  BY DEF ConvertNFA
<1>6. /\ Built(str) /\ Reached(str, num, R, queue)
      /\ \A s \in 1..num : Fails(str, s) /\ Lists(MatchList[s], Ending(Patterns, str[s]))
      /\ \A s \in R \ ToSet(queue) : Full(str, num, NextState[s], s)
      /\ \A s \in ((1..num) \ R) \cup ToSet(queue) : Edge(str, num, NextState[s], s)
  BY <1>2 DEF Completing
<1>7. /\ Shape(str, num) /\ num \in Nat /\ Tables /\ St \in SUBSET Word /\ <<>> \in St
      /\ str[0] = <<>> /\ 0 \in 0..num
      /\ \A s \in 0..num : s \in State /\ str[s] \in Word
      /\ Full(str, num, NextState[0], 0)
  BY <1>1, <1>6, BuiltIs DEF Built
<1>8. /\ R \subseteq 1..num /\ ToSet(queue) \subseteq R /\ \A s \in 1..num : s \in 0..num
  BY <1>6, <1>7 DEF Reached
<1>9. /\ r \in R /\ r \in 1..num /\ r \in ToSet(queue) /\ Edge(str, num, NextState[r], r)
      /\ A \cap R = {} /\ A \subseteq 1..num
      /\ Reached(str, num, R \cup A, queue')
      /\ ToSet(queue') = (ToSet(queue) \ {r}) \cup A
  BY <1>3, <1>5, <1>6, <1>7, HeadIs
<1>10. PICK R2 : R2 = R \cup A
  OBVIOUS
<1>. HIDE DEF num, St, A
<1>11. ASSUME NEW b \in Letter
       PROVE  row[b] \in 0..num /\ str[row[b]] = Best(Named(str, num), Append(str[r], b))
  <2>1. CASE NextState[r][b] # ACSM_FAIL_STATE
    <3>. DEFINE old == NextState[r]
    <3>1. Edge(str, num, old, r) /\ old[b] # ACSM_FAIL_STATE /\ r \in 0..num
      BY <2>1, <1>8, <1>9
    <3>2. row[b] = old[b]
      BY <2>1
    <3>. HIDE DEF old, r, row
    <3>. QED
      BY <3>1, <3>2, <1>7, EdgeIsBest
  <2>2. CASE NextState[r][b] = ACSM_FAIL_STATE
    <3>. DEFINE f == FailState[r]
    <3>1. row[b] = NextState[f][b]
      BY <2>2 DEF Fallback
    <3>. HIDE DEF r, row
    <3>2. f \in 0..num /\ str[f] = Best(Named(str, num), Tail(str[r]))
      BY <1>6, <1>7, <1>8, <1>9 DEF Tables, Fails, num
    <3>. HIDE DEF f
    <3>3. Append(str[r], b) \notin Named(str, num)
      <4>1. ACSM_FAIL_STATE \notin 1..num
        BY DEF ACSM_FAIL_STATE
      <4>. QED
        BY <4>1, <2>2, <1>9 DEF Edge
    <3>4. /\ Len(str[f]) < Len(str[r])
          /\ Best(Named(str, num), Append(str[r], b)) = Best(Named(str, num), Append(str[f], b))
      BY <3>2, <3>3, <1>7, <1>9, FailStep
    <3>5. Full(str, num, NextState[f], f)
      <4>1. CASE f = 0
        BY <4>1, <1>7
      <4>2. CASE f \in 1..num
        <5>1. Len(str[r]) \in Nat /\ Len(str[f]) \in Nat
          BY <1>7, <1>8, <1>9, <3>2, SeqIs DEF Word
        <5>2. Len(str[f]) <= Len(str[r])
          BY <5>1, <3>4
        <5>3. f \in R /\ f \notin ToSet(queue)
          BY <4>2, <5>2, <3>4, <1>3, <1>6, <1>7, ReachedAll DEF r, num
        <5>. QED
          BY <5>3, <1>6 DEF num
      <4>. QED
        BY <4>1, <4>2, <3>2, <1>7
    <3>. QED
      BY <3>1, <3>4, <3>5 DEF Full
  <2>. QED
    BY <2>1, <2>2
<1>12. row \in [Letter -> ACSM_FAIL_STATE..num]
  <2>1. 0..num \subseteq ACSM_FAIL_STATE..num
    BY DEF ACSM_FAIL_STATE
  <2>2. \A b \in Letter : row[b] \in ACSM_FAIL_STATE..num
    BY <2>1, <1>11
  <2>. QED
    BY <2>2
<1>. HIDE DEF row, r
<1>13. r \in State /\ r # 0 /\ NextState \in [State -> [Letter -> ACSM_FAIL_STATE..num]]
  <2>1. NextState \in [State -> [Letter -> ACSM_FAIL_STATE..num]]
    BY <1>7 DEF Tables, num
  <2>2. r \in 0..num /\ r # 0
    BY <1>8, <1>9
  <2>. QED
    BY <2>1, <2>2, <1>7
<1>14. /\ NextState'[r] = row /\ \A s \in State : s # r => NextState'[s] = NextState[s]
       /\ NextState' \in [State -> [Letter -> ACSM_FAIL_STATE..num]]
  BY <1>5, <1>12, <1>13
<1>15. Full(str, num, NextState'[r], r)
  BY <1>11, <1>14 DEF Full
<1>16. Built(str)'
  <2>1. Stemmed(str)' /\ Tables'
    BY <1>3, <1>4, <1>6, <1>7, <1>14 DEF Built, Stemmed, Tables, num
  <2>2. NextState'[0] = NextState[0]
    BY <1>7, <1>13, <1>14
  <2>. QED
    BY <2>1, <2>2, <1>3, <1>4, <1>6 DEF Built
<1>17. Completing(str, R2)'
  <2>1. Reached(str, acsmNumStates', R2, queue') /\ state' = 0 /\ T' = <<>> /\ found' = <<>>
    BY <1>2, <1>3, <1>9, <1>10 DEF Completing, num
  <2>2. \A s \in 1..acsmNumStates' :
          Fails(str, s)' /\ Lists(MatchList'[s], Ending(Patterns', str[s]))
    BY <1>3, <1>4, <1>6 DEF Fails, num
  <2>3. ASSUME NEW s \in R2 \ ToSet(queue') PROVE Full(str, acsmNumStates', NextState'[s], s)
    <3>1. CASE s = r
      BY <3>1, <1>3, <1>15 DEF num
    <3>2. CASE s # r
      <4>1. s \in R \ ToSet(queue) /\ s \in State
        BY <3>2, <1>7, <1>8, <1>9, <1>10
      <4>. QED
        BY <3>2, <4>1, <1>3, <1>6, <1>14 DEF num
    <3>. QED
      BY <3>1, <3>2
  <2>4. ASSUME NEW s \in ((1..acsmNumStates') \ R2) \cup ToSet(queue')
        PROVE  Edge(str, acsmNumStates', NextState'[s], s)
    <3>1. s # r /\ s \in ((1..num) \ R) \cup ToSet(queue) /\ s \in State
      BY <1>3, <1>7, <1>8, <1>9, <1>10 DEF num
    <3>. QED
      BY <3>1, <1>3, <1>6, <1>14 DEF num
  <2>. QED
    BY <2>1, <2>2, <2>3, <2>4, <1>16 DEF Completing
<1>. QED
  BY <1>3, <1>4, <1>17 DEF IInv

LEMMA ConvertNFAEndInv ==
  ASSUME IInv, ConvertNFAEnd
  PROVE  IInv'
<1>1. Listed
  BY DEF IInv
<1>2. PICK str, R : Completing(str, R)
  BY DEF IInv, ConvertNFAEnd
<1>. DEFINE num == acsmNumStates
<1>3. /\ UNCHANGED <<acsmPatterns, NextState, FailState, MatchList, acsmNumStates, plist, pos,
                     queue, state, T, found>>
      /\ queue = <<>> /\ pc' = "search"
  BY DEF ConvertNFAEnd, trie, search
<1>4. Listed' /\ State' = State /\ Patterns' = Patterns
  BY <1>1, <1>3, Same
<1>5. /\ Built(str) /\ Reached(str, num, R, queue) /\ Shape(str, num)
      /\ Full(str, num, NextState[0], 0) /\ Lists(MatchList[0], {})
      /\ num \in Nat /\ str[0] = <<>> /\ Ending(Patterns, str[0]) = {} /\ 0 \in 0..num
      /\ <<>> \in Named(str, num) /\ Named(str, num) \in SUBSET Word
  <2>1. Built(str)
    BY <1>2 DEF Completing
  <2>. QED
    BY <2>1, <1>1, <1>2, BuiltIs DEF Completing, Built
<1>6. \A s \in 1..num : s \in R /\ s \notin ToSet(queue)
  BY <1>3, <1>5, ReachedAll DEF ToSet
<1>7. \A s \in 0..num : s = 0 \/ s \in 1..num
  BY <1>5
<1>8. state = 0 /\ T = <<>> /\ found = <<>>
  BY <1>2 DEF Completing
<1>9. Built(str)'
  BY <1>3, <1>4, <1>5 DEF Built, Tables, Stemmed
<1>10. ConvertCaseEx(<<>>) = <<>> /\ <<>> \in Seq(Byte) /\ <<>> \in Word
  <2>1. <<>> \in Seq(Byte) /\ Len(<<>>) = 0 /\ <<>> \in Word
    BY EmptySeq DEF Word
  <2>2. ConvertCaseEx(<<>>) \in Word /\ Len(ConvertCaseEx(<<>>)) = 0
    BY <2>1, ConvertIs
  <2>. QED
    BY <2>1, <2>2, SeqIs DEF Word
<1>11. AllOccurrences'
  <2>1. ASSUME NEW p \in Patterns PROVE Occurrences(p)' = {}
    <3>1. Len(p.patrn) \in Nat \ {0}
      BY <1>1, PatternsAre
    <3>2. T' = <<>> /\ Len(<<>>) = 0
      BY <1>3, <1>8
    <3>3. 0..(0 - Len(p.patrn)) = {}
      BY <3>1
    <3>. QED
      BY <3>2, <3>3 DEF Occurrences
  <2>2. found' = <<>> /\ ToSet(<<>>) = {} /\ IsInjective(<<>>)
    BY <1>3, <1>8 DEF ToSet, IsInjective
  <2>3. UNION {{p.iid} \X Occurrences(p)' : p \in Patterns'} = {}
    BY <2>1, <1>4
  <2>. QED
    BY <2>2, <2>3 DEF AllOccurrences
<1>12. Searching(str)'
  <2>1. \A s \in 0..acsmNumStates' : /\ Full(str, acsmNumStates', NextState'[s], s)
                                     /\ Lists(MatchList'[s], Ending(Patterns', str[s]))
    BY <1>2, <1>3, <1>4, <1>5, <1>6, <1>7 DEF Completing
  <2>2. str[0] = Best(Named(str, num), <<>>)
    BY <1>5, <1>10, BestIs
  <2>3. <<>> \in Seq(Int \X Int)
    BY EmptySeq
  <2>. QED
    BY <2>1, <2>2, <2>3, <1>3, <1>5, <1>8, <1>9, <1>10, <1>11 DEF Searching
<1>. QED
  BY <1>3, <1>4, <1>12 DEF IInv

-----------------------------------------------------------------------------
(* The search *)

LEMMA ConvertParts ==
  ASSUME NEW t \in Seq(Byte)
  PROVE  /\ \A i \in 1..Len(t) : ConvertCaseEx(t)[i] = xlatcase(t[i])
         /\ \A b \in Byte : ConvertCaseEx(Append(t, b)) = Append(ConvertCaseEx(t), xlatcase(b))
         /\ \A i \in 0..Len(t) : ConvertCaseEx(Drop(t, i)) = Drop(ConvertCaseEx(t), i)
<1>1. ASSUME NEW s \in Seq(Byte)
      PROVE  /\ \A i \in 1..Len(s) : ConvertCaseEx(s)[i] = xlatcase(s[i])
             /\ ConvertCaseEx(s) \in Seq(Letter) /\ Len(ConvertCaseEx(s)) = Len(s)
             /\ Len(s) \in Nat
  <2>1. DOMAIN s = 1..Len(s) /\ Len(s) \in Nat
    BY SeqIs
  <2>2. \A i \in 1..Len(s) : ConvertCaseEx(s)[i] = xlatcase(s[i])
    BY <2>1 DEF ConvertCaseEx
  <2>. QED
    BY <2>1, <2>2, ConvertIs DEF Word
<1>2. ASSUME NEW b \in Byte
      PROVE  ConvertCaseEx(Append(t, b)) = Append(ConvertCaseEx(t), xlatcase(b))
  <2>. DEFINE u == Append(t, b)
              c == xlatcase(b)
              x == ConvertCaseEx(t)
              y == ConvertCaseEx(u)
              z == Append(x, c)
  <2>1. /\ u \in Seq(Byte) /\ Len(u) = Len(t) + 1 /\ \A i \in 1..Len(t) : u[i] = t[i]
        /\ u[Len(t) + 1] = b
    BY AppendIs
  <2>2. c \in Letter
    BY LetterIs
  <2>3. x \in Seq(Letter) /\ Len(x) = Len(t) /\ Len(t) \in Nat /\ \A i \in 1..Len(t) : x[i] = xlatcase(t[i])
    BY <1>1
  <2>. HIDE DEF u
  <2>4. y \in Seq(Letter) /\ Len(y) = Len(t) + 1 /\ \A i \in 1..(Len(t) + 1) : y[i] = xlatcase(u[i])
    BY <2>1, <1>1
  <2>. HIDE DEF x, y
  <2>5. /\ z \in Seq(Letter) /\ Len(z) = Len(t) + 1 /\ \A i \in 1..Len(t) : z[i] = x[i]
        /\ z[Len(t) + 1] = c
    <3>1. /\ z \in Seq(Letter) /\ Len(z) = Len(x) + 1 /\ \A i \in 1..Len(x) : z[i] = x[i]
          /\ z[Len(x) + 1] = c
      <4>. HIDE DEF c
      <4>. QED
        BY <2>2, <2>3, AppendIs
    <3>. QED
      BY <3>1, <2>3
  <2>. HIDE DEF z
  <2>6. ASSUME NEW i \in 1..(Len(t) + 1) PROVE y[i] = z[i]
    <3>1. CASE i = Len(t) + 1
      BY <3>1, <2>1, <2>4, <2>5
    <3>2. CASE i # Len(t) + 1
      <4>1. i \in 1..Len(t)
        BY <3>2, <2>3
      <4>. QED
        BY <4>1, <2>1, <2>3, <2>4, <2>5
    <3>. QED
      BY <3>1, <3>2
  <2>7. y = z
    <3>1. Len(y) = Len(z) /\ \A i \in 1..Len(y) : y[i] = z[i]
      BY <2>4, <2>5, <2>6
    <3>. QED
      BY <3>1, <2>4, <2>5, SeqEqual
  <2>. QED
    BY <2>7 DEF y, z, u, x
<1>3. ASSUME NEW k \in 0..Len(t)
      PROVE  ConvertCaseEx(Drop(t, k)) = Drop(ConvertCaseEx(t), k)
  <2>. DEFINE u == Drop(t, k)
              x == ConvertCaseEx(t)
              y == ConvertCaseEx(u)
              z == Drop(x, k)
              n == Len(t) - k
  <2>1. u \in Seq(Byte) /\ Len(u) = n /\ \A j \in 1..n : u[j] = t[k + j]
    BY DropIs
  <2>2. x \in Seq(Letter) /\ Len(x) = Len(t) /\ Len(t) \in Nat /\ \A i \in 1..Len(t) : x[i] = xlatcase(t[i])
    BY <1>1
  <2>. HIDE DEF u, n
  <2>3. y \in Seq(Letter) /\ Len(y) = n /\ \A i \in 1..n : y[i] = xlatcase(u[i])
    BY <2>1, <1>1
  <2>. HIDE DEF x, y
  <2>4. z \in Seq(Letter) /\ Len(z) = n /\ \A j \in 1..n : z[j] = x[k + j]
    <3>1. k \in 0..Len(x)
      BY <2>2
    <3>2. z \in Seq(Letter) /\ Len(z) = Len(x) - k /\ \A j \in 1..(Len(x) - k) : z[j] = x[k + j]
      BY <3>1, <2>2, DropIs
    <3>. QED
      BY <3>2, <2>2 DEF n
  <2>. HIDE DEF z
  <2>5. ASSUME NEW j \in 1..n PROVE y[j] = z[j]
    <3>1. k + j \in 1..Len(t)
      BY <2>2 DEF n
    <3>. QED
      BY <3>1, <2>1, <2>2, <2>3, <2>4
  <2>6. y = z
    <3>1. Len(y) = Len(z) /\ \A j \in 1..Len(y) : y[j] = z[j]
      BY <2>3, <2>4, <2>5
    <3>. QED
      BY <3>1, <2>3, <2>4, SeqEqual
  <2>. QED
    BY <2>6 DEF y, z, u, x
<1>. QED
  BY <1>1, <1>2, <1>3

(* A pattern is at place i of a text. *)
At(p, text, i) ==
  LET t == SubSeq(text, i + 1, i + Len(p.patrn)) IN
  IF p.nocase THEN ConvertCaseEx(t) = p.patrn ELSE t = p.casepatrn

(* What the two comparisons of a search find at the end of the text. *)
LEMMA HitIs ==
  ASSUME NEW p \in Pattern, p.patrn = ConvertCaseEx(p.casepatrn), NEW text \in Seq(Byte)
  PROVE  LET i == Len(text) - Len(p.patrn) IN
           (i >= 0 /\ At(p, text, i))
             <=> /\ Ends(p.patrn, ConvertCaseEx(text))
                 /\ p.nocase \/ SubSeq(text, i + 1, Len(text)) = p.casepatrn
<1>. DEFINE n == Len(p.patrn)
            i == Len(text) - n
            x == ConvertCaseEx(text)
            w == p.patrn
            t == SubSeq(text, i + 1, Len(text))
<1>1. w \in Seq(Letter) /\ n \in Nat /\ Len(text) \in Nat /\ x \in Seq(Letter) /\ Len(x) = Len(text)
  <2>1. w \in Seq(Letter)
    BY DEF Pattern, Word
  <2>. QED
    BY <2>1, ConvertIs, SeqIs DEF Word
<1>2. i + n = Len(text) /\ i + Len(w) = Len(text)
  BY <1>1
<1>3. At(p, text, i) <=> IF p.nocase THEN ConvertCaseEx(t) = w ELSE t = p.casepatrn
  <2>1. SubSeq(text, i + 1, i + Len(p.patrn)) = t
    BY <1>2
  <2>. HIDE DEF i, t
  <2>. QED
    BY <2>1 DEF At
<1>4. ASSUME i >= 0 PROVE ConvertCaseEx(t) = Drop(x, i) /\ i \in 0..Len(x)
  <2>1. i \in 0..Len(text)
    BY <1>1, <1>4
  <2>2. t = Drop(text, i)
    BY DEF Drop
  <2>3. ConvertCaseEx(Drop(text, i)) = Drop(ConvertCaseEx(text), i)
    <3>. HIDE DEF i
    <3>. QED
      BY <2>1, ConvertParts
  <2>. QED
    BY <2>1, <2>2, <2>3, <1>1
<1>. HIDE DEF t
<1>5. Ends(w, x) => i >= 0 /\ w = Drop(x, i)
  <2>1. Ends(w, x) => Len(w) <= Len(x) /\ w = Drop(x, Len(x) - Len(w))
    <3>. HIDE DEF w, x
    <3>. QED
      BY <1>1, EndsIs
  <2>. QED
    BY <2>1, <1>1
<1>6. i >= 0 /\ w = Drop(x, i) => Ends(w, x)
  BY <1>4 DEF Ends
<1>. HIDE DEF i, x
<1>7. (i >= 0 /\ At(p, text, i)) <=> (Ends(w, x) /\ (p.nocase \/ t = p.casepatrn))
  BY <1>3, <1>4, <1>5, <1>6
<1>. QED
  BY <1>7 DEF i, x, t

(* A byte more moves no place. *)
LEMMA AtStays ==
  ASSUME NEW p \in Pattern, NEW text \in Seq(Byte), NEW b \in Byte,
         NEW i \in 0..(Len(text) - Len(p.patrn))
  PROVE  At(p, Append(text, b), i) <=> At(p, text, i)
<1>. DEFINE n == Len(p.patrn)
            u == Append(text, b)
<1>1. n \in Nat /\ Len(text) \in Nat
  BY SeqIs DEF Pattern, Word
<1>2. /\ u \in Seq(Byte) /\ Len(u) = Len(text) + 1 /\ \A j \in 1..Len(text) : u[j] = text[j]
  BY AppendIs
<1>. HIDE DEF n, u
<1>3. i + 1 \in Int /\ i + n \in Int /\ \A j \in (i + 1)..(i + n) : j \in 1..Len(text)
  BY <1>1 DEF n
<1>4. /\ SubSeq(text, i + 1, i + n) \in Seq(Byte)
      /\ Len(SubSeq(text, i + 1, i + n)) = IF i + 1 <= i + n THEN (i + n) - (i + 1) + 1 ELSE 0
      /\ \A j \in 1..((i + n) - (i + 1) + 1) : SubSeq(text, i + 1, i + n)[j] = text[(i + 1) + j - 1]
  <2>1. \A j \in (i + 1)..(i + n) : text[j] \in Byte
    BY <1>3, SeqIs
  <2>. QED
    BY <2>1, <1>3, SubSeqProperties
<1>5. /\ SubSeq(u, i + 1, i + n) \in Seq(Byte)
      /\ Len(SubSeq(u, i + 1, i + n)) = IF i + 1 <= i + n THEN (i + n) - (i + 1) + 1 ELSE 0
      /\ \A j \in 1..((i + n) - (i + 1) + 1) : SubSeq(u, i + 1, i + n)[j] = u[(i + 1) + j - 1]
  <2>1. \A j \in (i + 1)..(i + n) : u[j] \in Byte
    BY <1>2, <1>3, SeqIs
  <2>. QED
    BY <2>1, <1>3, SubSeqProperties
<1>6. SubSeq(u, i + 1, i + n) = SubSeq(text, i + 1, i + n)
  <2>. DEFINE x == SubSeq(u, i + 1, i + n)
              y == SubSeq(text, i + 1, i + n)
  <2>1. Len(x) = n /\ Len(y) = n
    BY <1>1, <1>4, <1>5
  <2>2. ASSUME NEW j \in 1..n PROVE x[j] = y[j]
    <3>1. j \in 1..((i + n) - (i + 1) + 1) /\ (i + 1) + j - 1 \in (i + 1)..(i + n)
      BY <1>1
    <3>2. u[(i + 1) + j - 1] = text[(i + 1) + j - 1]
      BY <3>1, <1>2, <1>3
    <3>. QED
      BY <3>1, <3>2, <1>4, <1>5
  <2>3. x \in Seq(Byte) /\ y \in Seq(Byte)
    BY <1>4, <1>5
  <2>. HIDE DEF x, y
  <2>4. Len(x) = Len(y) /\ \A j \in 1..Len(x) : x[j] = y[j]
    BY <2>1, <2>2
  <2>5. x = y
    BY <2>3, <2>4, SeqEqual
  <2>. QED
    BY <2>5 DEF x, y
<1>. QED
  BY <1>6 DEF At, n, u

(* The calls of Match for the last byte of a text. *)
LEMMA MatchesIs ==
  ASSUME Listed, NEW text \in Seq(Byte), NEW list \in Seq(Patterns),
         Lists(list, Ending(Patterns, ConvertCaseEx(text)))
  PROVE  LET hits == {p \in Patterns : Len(text) - Len(p.patrn) >= 0 /\ At(p, text, Len(text) - Len(p.patrn))}
         IN /\ Matches(text, list) \in Seq(Int \X Int) /\ Once(Matches(text, list))
            /\ ToSet(Matches(text, list)) = {<<p.iid, Len(text) - Len(p.patrn)>> : p \in hits}
<1>. DEFINE index(p) == Len(text) - Len(p.patrn)
            hits == {p \in Patterns : index(p) >= 0 /\ At(p, text, index(p))}
            ok(p) == p.nocase \/ SubSeq(text, index(p) + 1, Len(text)) = p.casepatrn
            S == {p \in ToSet(list) : ok(p)}
            c == Chosen(list, S)
            m == Matches(text, list)
<1>1. Once(list) /\ ToSet(list) = Ending(Patterns, ConvertCaseEx(text))
  BY DEF Lists
<1>2. ASSUME NEW p \in Patterns PROVE p \in hits <=> (Ends(p.patrn, ConvertCaseEx(text)) /\ ok(p))
  <2>1. p \in Pattern /\ p.patrn = ConvertCaseEx(p.casepatrn)
    BY PatternsAre DEF Listed
  <2>2. (index(p) >= 0 /\ At(p, text, index(p)))
          <=> (Ends(p.patrn, ConvertCaseEx(text)) /\ ok(p))
    BY <2>1, HitIs
  <2>. QED
    BY <2>2
<1>3. ToSet(list) \cap S = hits
  <2>. HIDE DEF ok
  <2>1. \A p : p \in hits => p \in Patterns
    OBVIOUS
  <2>. HIDE DEF hits
  <2>. QED
    BY <2>1, <1>1, <1>2 DEF Ending
<1>. HIDE DEF S
<1>4. c \in Seq(Patterns) /\ ToSet(c) = hits /\ Once(c)
  <2>1. /\ c \in Seq(Patterns) /\ ToSet(c) = ToSet(list) \cap S
        /\ (\A i, j \in DOMAIN list : list[i] = list[j] /\ list[i] \in S => i = j) => Once(c)
    BY ChosenIs
  <2>. QED
    BY <2>1, <1>1, <1>3 DEF Once
<1>5. m = [i \in DOMAIN c |-> <<c[i].iid, index(c[i])>>]
  BY DEF Matches, S
<1>. HIDE DEF c, hits
<1>6. /\ Len(c) \in Nat /\ DOMAIN c = 1..Len(c)
      /\ \A i \in 1..Len(c) : c[i] \in Patterns /\ c[i] \in hits
      /\ hits = {c[i] : i \in 1..Len(c)}
  <2>1. Len(c) \in Nat /\ DOMAIN c = 1..Len(c) /\ \A i \in 1..Len(c) : c[i] \in Patterns
    BY <1>4, SeqIs
  <2>. QED
    BY <2>1, <1>4 DEF ToSet
<1>7. \A p \in Patterns : p.iid \in Int /\ index(p) \in Int
  <2>1. Len(text) \in Nat
    BY SeqIs
  <2>2. \A p \in Patterns : p.iid \in Nat /\ Len(p.patrn) \in Nat
    BY PatternsAre DEF Pattern
  <2>. QED
    BY <2>1, <2>2
<1>. HIDE DEF index
<1>8. m \in Seq(Int \X Int)
  <2>. DEFINE X == Int \X Int
  <2>1. \A i \in 1..Len(c) : <<c[i].iid, index(c[i])>> \in X
    BY <1>6, <1>7
  <2>. HIDE DEF X
  <2>2. PICK n \in Nat : n = Len(c)
    BY <1>6
  <2>3. m \in [1..n -> X]
    BY <2>1, <2>2, <1>5, <1>6
  <2>. HIDE DEF m
  <2>4. m \in Seq(X)
    BY <2>2, <2>3
  <2>. QED
    BY <2>4 DEF X
<1>9. ToSet(m) = {<<p.iid, index(p)>> : p \in hits}
  <2>1. ToSet(m) = {<<c[i].iid, index(c[i])>> : i \in 1..Len(c)}
    BY <1>5, <1>6 DEF ToSet
  <2>. QED
    BY <2>1, <1>6
<1>10. ASSUME NEW p \in Patterns, NEW q \in Patterns, p.iid = q.iid PROVE p = q
  BY <1>10, PatternsAre
<1>11. ASSUME NEW i \in 1..Len(c), NEW j \in 1..Len(c), m[i] = m[j] PROVE i = j
  <2>1. c[i].iid = c[j].iid
    <3>1. m[i] = <<c[i].iid, index(c[i])>> /\ m[j] = <<c[j].iid, index(c[j])>>
      BY <1>5, <1>6
    <3>. HIDE DEF m
    <3>. QED
      BY <3>1, <1>11
  <2>2. c[i] = c[j]
    BY <2>1, <1>6, <1>10
  <2>. QED
    BY <2>2, <1>4, <1>6 DEF Once
<1>12. Once(m)
  BY <1>5, <1>6, <1>11 DEF Once
<1>. QED
  BY <1>8, <1>9, <1>12 DEF m, hits, index

LEMMA OneMore ==
  ASSUME NEW n \in Nat, NEW m \in Nat, m = n + 1, NEW k \in Nat
  PROVE  \A i : i \in 0..(m - k) <=> i \in 0..(n - k) \/ (i = m - k /\ m - k >= 0)
<1>. SUFFICES ASSUME NEW i
              PROVE  i \in 0..(m - k) <=> i \in 0..(n - k) \/ (i = m - k /\ m - k >= 0)
  OBVIOUS
<1>1. CASE i \in Int
  BY <1>1
<1>2. CASE i \notin Int
  BY <1>2
<1>. QED
  BY <1>1, <1>2

LEMMA SearchInv ==
  ASSUME IInv, NEW b \in Byte, Search(b)
  PROVE  IInv'
<1>1. Listed
  BY DEF IInv
<1>2. PICK str : Searching(str)
  BY DEF IInv, Search
<1>. DEFINE num == acsmNumStates
            St == Named(str, num)
            x == ConvertCaseEx(T)
            c == xlatcase(b)
            u == Append(T, b)
<1>3. /\ UNCHANGED <<acsmPatterns, pc, NextState, FailState, MatchList, acsmNumStates, plist, pos,
                     queue>>
      /\ pc = "search" /\ T' = u /\ state' = NextState[state][c]
      /\ found' = found \o Matches(T', MatchList[state'])
  BY DEF Search, trie
<1>4. Listed' /\ State' = State /\ Patterns' = Patterns
  BY <1>1, <1>3, Same
<1>5. /\ Built(str) /\ T \in Seq(Byte) /\ found \in Seq(Int \X Int) /\ state \in 0..num
      /\ str[state] = Best(St, x) /\ AllOccurrences /\ Full(str, num, NextState[state], state)
      /\ \A s \in 0..num : /\ Full(str, num, NextState[s], s)
                           /\ Lists(MatchList[s], Ending(Patterns, str[s]))
  BY <1>2 DEF Searching
<1>6. /\ Shape(str, num) /\ num \in Nat /\ Tables /\ St \in SUBSET Word /\ <<>> \in St /\ Closed(St)
      /\ \A s \in 0..num : s \in State /\ str[s] \in Word
  BY <1>1, <1>5, BuiltIs, NamedIs
<1>7. c \in Letter /\ x \in Word /\ u \in Seq(Byte) /\ Len(u) = Len(T) + 1 /\ Len(T) \in Nat
      /\ ConvertCaseEx(u) = Append(x, c)
  BY <1>5, LetterIs, ConvertIs, AppendIs, SeqIs, ConvertParts
<1>8. state' \in 0..num /\ str[state'] = Best(St, ConvertCaseEx(u))
  <2>1. state' \in 0..num /\ str[state'] = Best(St, Append(Best(St, x), c))
    <3>. HIDE DEF num, x, c
    <3>. QED
      BY <1>3, <1>5, <1>7 DEF Full
  <2>2. Best(St, Append(x, c)) = Best(St, Append(Best(St, x), c))
    <3>. HIDE DEF St, x, c
    <3>. QED
      BY <1>6, <1>7, BestAppend
  <2>. QED
    BY <2>1, <2>2, <1>7
<1>9. /\ MatchList[state'] \in Seq(Patterns)
      /\ Lists(MatchList[state'], Ending(Patterns, ConvertCaseEx(u)))
  <2>1. Lists(MatchList[state'], Ending(Patterns, str[state']))
    BY <1>5, <1>8
  <2>2. ConvertCaseEx(u) \in Word
    BY <1>7, ConvertIs
  <2>3. ASSUME NEW p \in Patterns
        PROVE  Ends(p.patrn, ConvertCaseEx(u)) <=> Ends(p.patrn, str[state'])
    <3>1. p.patrn \in St
      BY <1>5 DEF Built
    <3>. DEFINE y == ConvertCaseEx(u)
                q == p.patrn
    <3>. HIDE DEF St, y, q
    <3>2. Ends(q, y) <=> Ends(q, Best(St, y))
      BY <3>1, <2>2, <1>6, EndsBest DEF y, q
    <3>. QED
      BY <3>2, <1>8 DEF y, q
  <2>4. Ending(Patterns, ConvertCaseEx(u)) = Ending(Patterns, str[state'])
    BY <2>3 DEF Ending
  <2>. QED
    BY <2>1, <2>4, <1>6, <1>8 DEF Tables
<1>. DEFINE index(p) == Len(u) - Len(p.patrn)
            hits == {p \in Patterns : index(p) >= 0 /\ At(p, u, index(p))}
            m == Matches(u, MatchList[state'])
<1>. HIDE DEF u, x, c, St
<1>10. /\ m \in Seq(Int \X Int) /\ Once(m)
       /\ ToSet(m) = {<<p.iid, index(p)>> : p \in hits}
  <2>. DEFINE list == MatchList[state']
  <2>1. list \in Seq(Patterns) /\ Lists(list, Ending(Patterns, ConvertCaseEx(u)))
    BY <1>9
  <2>. HIDE DEF list
  <2>2. LET h == {p \in Patterns : Len(u) - Len(p.patrn) >= 0 /\ At(p, u, Len(u) - Len(p.patrn))}
        IN /\ Matches(u, list) \in Seq(Int \X Int) /\ Once(Matches(u, list))
           /\ ToSet(Matches(u, list)) = {<<p.iid, Len(u) - Len(p.patrn)>> : p \in h}
    BY <2>1, <1>1, <1>7, MatchesIs
  <2>. QED
    BY <2>2 DEF list
<1>. HIDE DEF m
<1>11. ASSUME NEW p \in Patterns
       PROVE  /\ \A i : i \in Occurrences(p) <=> i \in 0..(Len(T) - Len(p.patrn)) /\ At(p, T, i)
              /\ \A i : i \in Occurrences(p)' <=>
                          i \in Occurrences(p) \/ (i = index(p) /\ p \in hits)
              /\ \A i \in Occurrences(p) : i # index(p)
  <2>1. p \in Pattern /\ Len(p.patrn) \in Nat
    BY <1>1, PatternsAre
  <2>2. \A i : i \in Occurrences(p) <=> i \in 0..(Len(T) - Len(p.patrn)) /\ At(p, T, i)
    BY DEF Occurrences, At
  <2>3. \A i : i \in Occurrences(p)' <=> i \in 0..(Len(u) - Len(p.patrn)) /\ At(p, u, i)
    BY <1>3 DEF Occurrences, At, u
  <2>4. \A i : i \in 0..(Len(u) - Len(p.patrn)) <=>
                 i \in 0..(Len(T) - Len(p.patrn)) \/ (i = index(p) /\ index(p) >= 0)
    <3>. DEFINE n == Len(T)
                k == Len(p.patrn)
                mm == Len(u)
    <3>1. n \in Nat /\ k \in Nat /\ mm \in Nat /\ mm = n + 1
      BY <2>1, <1>7
    <3>. HIDE DEF n, k, mm
    <3>2. \A i : i \in 0..(mm - k) <=> i \in 0..(n - k) \/ (i = mm - k /\ mm - k >= 0)
      BY <3>1, OneMore
    <3>. QED
      BY <3>2 DEF n, k, mm
  <2>5. \A i \in 0..(Len(T) - Len(p.patrn)) : i # index(p) /\ (At(p, u, i) <=> At(p, T, i))
    <3>1. \A i \in 0..(Len(T) - Len(p.patrn)) : i # index(p)
      BY <2>1, <1>7
    <3>2. \A i \in 0..(Len(T) - Len(p.patrn)) : At(p, Append(T, b), i) <=> At(p, T, i)
      BY <2>1, <1>5, AtStays
    <3>. QED
      BY <3>1, <3>2 DEF u
  <2>. HIDE DEF index
  <2>6. p \in hits <=> index(p) >= 0 /\ At(p, u, index(p))
    OBVIOUS
  <2>. HIDE DEF hits
  <2>7. \A i : i \in Occurrences(p)' <=> i \in Occurrences(p) \/ (i = index(p) /\ p \in hits)
    BY <2>2, <2>3, <2>4, <2>5, <2>6
  <2>. QED
    BY <2>2, <2>5, <2>7
<1>12. hits \subseteq Patterns
  OBVIOUS
<1>. HIDE DEF index, hits
<1>13. ToSet(found) = UNION {{p.iid} \X Occurrences(p) : p \in Patterns} /\ Once(found)
  BY <1>5 DEF AllOccurrences, IsInjective, Once
<1>14. ASSUME NEW p \in Patterns, NEW q \in Patterns, p.iid = q.iid PROVE p = q
  BY <1>1, <1>14, PatternsAre
<1>15. ToSet(found) \cap ToSet(m) = {}
  <2>. SUFFICES ASSUME NEW p \in hits, <<p.iid, index(p)>> \in ToSet(found) PROVE FALSE
    BY <1>10
  <2>1. PICK q \in Patterns : <<p.iid, index(p)>> \in {q.iid} \X Occurrences(q)
    BY <1>13
  <2>2. p = q
    BY <2>1, <1>12, <1>14
  <2>. QED
    BY <2>1, <2>2, <1>11
<1>16. /\ found' \in Seq(Int \X Int) /\ ToSet(found') = ToSet(found) \cup ToSet(m)
       /\ Once(found')
  <2>1. found' = found \o m
    BY <1>3 DEF m
  <2>. DEFINE X == Int \X Int
  <2>2. found \in Seq(X) /\ m \in Seq(X)
    BY <1>5, <1>10
  <2>. HIDE DEF X
  <2>3. /\ found \o m \in Seq(X) /\ ToSet(found \o m) = ToSet(found) \cup ToSet(m)
        /\ Once(found \o m)
    BY <2>2, <1>10, <1>13, <1>15, ConcatIs
  <2>. QED
    BY <2>1, <2>3 DEF X
<1>17. ToSet(found') = UNION {{p.iid} \X Occurrences(p)' : p \in Patterns}
  <2>1. ASSUME NEW e \in ToSet(found')
        PROVE  \E p \in Patterns : e \in {p.iid} \X Occurrences(p)'
    <3>1. CASE e \in ToSet(found)
      <4>1. PICK p \in Patterns : e \in {p.iid} \X Occurrences(p)
        BY <3>1, <1>13
      <4>2. e \in {p.iid} \X Occurrences(p)'
        BY <4>1, <1>11
      <4>. QED
        BY <4>2
    <3>2. CASE e \in ToSet(m)
      <4>1. PICK p \in hits : e = <<p.iid, index(p)>>
        BY <3>2, <1>10
      <4>2. index(p) \in Occurrences(p)' /\ p \in Patterns
        BY <1>11, <1>12
      <4>. QED
        BY <4>1, <4>2
    <3>. QED
      BY <3>1, <3>2, <1>16
  <2>2. ASSUME NEW p \in Patterns, NEW i \in Occurrences(p)' PROVE <<p.iid, i>> \in ToSet(found')
    <3>1. CASE i \in Occurrences(p)
      <4>1. <<p.iid, i>> \in {p.iid} \X Occurrences(p)
        BY <3>1
      <4>. QED
        BY <4>1, <1>13, <1>16
    <3>2. CASE i = index(p) /\ p \in hits
      <4>1. <<p.iid, i>> \in ToSet(m)
        BY <3>2, <1>10
      <4>. QED
        BY <4>1, <1>16
    <3>. QED
      BY <3>1, <3>2, <1>11
  <2>. QED
    BY <2>1, <2>2
<1>18. AllOccurrences'
  BY <1>4, <1>16, <1>17 DEF AllOccurrences, IsInjective, Once
<1>19. Built(str)'
  BY <1>3, <1>4, <1>5 DEF Built, Tables, Stemmed
<1>20. Searching(str)'
  <2>1. \A s \in 0..acsmNumStates' : /\ Full(str, acsmNumStates', NextState'[s], s)
                                     /\ Lists(MatchList'[s], Ending(Patterns', str[s]))
    BY <1>3, <1>4, <1>5
  <2>2. queue' = <<>>
    BY <1>2, <1>3 DEF Searching
  <2>3. T' \in Seq(Byte) /\ state' \in 0..acsmNumStates'
        /\ str[state'] = Best(Named(str, acsmNumStates'), ConvertCaseEx(T'))
    BY <1>3, <1>7, <1>8 DEF St
  <2>. QED
    BY <2>1, <2>2, <2>3, <1>16, <1>18, <1>19 DEF Searching
<1>. QED
  BY <1>3, <1>4, <1>20 DEF IInv


LEMMA StutterInv ==
  ASSUME IInv, UNCHANGED vars
  PROVE  IInv'
<1>1. UNCHANGED <<acsmPatterns, pc, NextState, FailState, MatchList, acsmNumStates, plist, pos,
                  queue, state, T, found>>
  BY DEF vars, trie, search
<1>2. Listed /\ Listed' /\ State' = State /\ Patterns' = Patterns /\ Offset' = Offset
  BY <1>1, Same DEF IInv
<1>3. ASSUME NEW str, Built(str) PROVE Built(str)'
  BY <1>1, <1>2, <1>3 DEF Built, Tables, Stemmed
<1>4. CASE pc = "add" /\ Adding
  BY <1>1, <1>2, <1>4 DEF IInv, Adding
<1>5. CASE pc = "trie" /\ \E str : Growing(str)
  <2>1. PICK str : Growing(str)
    BY <1>5
  <2>2. Growing(str)'
    BY <2>1, <1>1, <1>2 DEF Growing, Tables, Stemmed, Added
  <2>. QED
    BY <2>2, <1>1, <1>2, <1>5 DEF IInv
<1>6. CASE pc = "nfa" /\ \E str, R : Failing(str, R)
  <2>1. PICK str, R : Failing(str, R)
    BY <1>6
  <2>2. Built(str)'
    BY <2>1, <1>3 DEF Failing
  <2>3. Failing(str, R)'
    BY <2>1, <2>2, <1>1, <1>2 DEF Failing, Fails
  <2>. QED
    BY <2>3, <1>1, <1>2, <1>6 DEF IInv
<1>7. CASE pc = "dfa" /\ \E str, R : Completing(str, R)
  <2>1. PICK str, R : Completing(str, R)
    BY <1>7
  <2>2. Built(str)'
    BY <2>1, <1>3 DEF Completing
  <2>3. Completing(str, R)'
    BY <2>1, <2>2, <1>1, <1>2 DEF Completing, Fails
  <2>. QED
    BY <2>3, <1>1, <1>2, <1>7 DEF IInv
<1>8. CASE pc = "search" /\ \E str : Searching(str)
  <2>1. PICK str : Searching(str)
    BY <1>8
  <2>2. Built(str)'
    BY <2>1, <1>3 DEF Searching
  <2>3. AllOccurrences'
    BY <2>1, <1>1, <1>2 DEF Searching, AllOccurrences, Occurrences
  <2>4. Searching(str)'
    BY <2>1, <2>2, <2>3, <1>1, <1>2 DEF Searching
  <2>. QED
    BY <2>4, <1>1, <1>2, <1>8 DEF IInv
<1>. QED
  BY <1>4, <1>5, <1>6, <1>7, <1>8 DEF IInv

(* What the passes keep true of the automaton, whatever the patterns.      *)
THEOREM Invariance == Spec => []IInv
<1>1. IInv /\ [Next]_vars => IInv'
  BY AddPatternInv, CompileInv, AddPatternStatesInv, AddMatchListEntryInv, TrieEndInv, BuildNFAInv,
     BuildNFAEndInv, ConvertNFAInv, ConvertNFAEndInv, SearchInv, StutterInv DEF Next
<1>. QED
  BY <1>1, InitInv, PTL DEF Spec

-----------------------------------------------------------------------------
LEMMA NothingFound ==
  ASSUME Listed, T = <<>>, found = <<>>
  PROVE  AllOccurrences
<1>1. ASSUME NEW p \in Patterns PROVE Occurrences(p) = {}
  <2>1. Len(p.patrn) \in Nat \ {0}
    BY PatternsAre
  <2>2. T = <<>> /\ Len(<<>>) = 0
    OBVIOUS
  <2>3. 0..(0 - Len(p.patrn)) = {}
    BY <2>1
  <2>. QED
    BY <2>2, <2>3 DEF Occurrences
<1>2. found = <<>> /\ ToSet(<<>>) = {} /\ IsInjective(<<>>)
  BY DEF ToSet, IsInjective
<1>3. UNION {{p.iid} \X Occurrences(p) : p \in Patterns} = {}
  BY <1>1
<1>. QED
  BY <1>2, <1>3 DEF AllOccurrences

(* Match is called for every occurrence of every pattern once, and for     *)
(* nothing else.                                                           *)
THEOREM AllOccurrencesHolds == Spec => []AllOccurrences
<1>1. IInv => AllOccurrences
  <2>. SUFFICES ASSUME IInv PROVE AllOccurrences
    OBVIOUS
  <2>1. \/ T = <<>> /\ found = <<>>
        \/ AllOccurrences
    BY DEF IInv, Adding, Growing, Failing, Completing, Searching
  <2>. QED
    BY <2>1, NothingFound DEF IInv
<1>. QED
  BY <1>1, Invariance, PTL

(* The states given out fit in the table, and a search never fails.        *)
THEOREM TypeCorrect == Spec => []TypeOK
<1>1. IInv => TypeOK
  <2>. SUFFICES ASSUME IInv PROVE TypeOK
    OBVIOUS
  <2>. DEFINE num == acsmNumStates
  <2>1. Listed
    BY DEF IInv
  <2>2. ASSUME Tables
        PROVE  /\ num \in State /\ num \in Nat
               /\ \A s \in State, b \in Letter : NextState[s][b] \in ACSM_FAIL_STATE..num
               /\ FailState \in [State -> 0..num]
               /\ \A s \in State : ToSet(MatchList[s]) \subseteq Patterns
    <3>1. num \in State /\ num \in Nat
      BY <2>1, <2>2, StateIs DEF Tables
    <3>2. ASSUME NEW s \in State PROVE ToSet(MatchList[s]) \subseteq Patterns
      <4>1. MatchList[s] \in Seq(Patterns)
        BY <2>2 DEF Tables
      <4>. QED
        BY <4>1, SeqIs
    <3>. QED
      BY <2>2, <3>1, <3>2 DEF Tables
  <2>3. ToSet(<<>>) = {}
    BY DEF ToSet
  <2>4. CASE pc = "add" /\ Adding
    BY <2>1, <2>3, <2>4, StateIs DEF TypeOK, Adding
  <2>5. CASE pc = "trie" /\ \E str : Growing(str)
    BY <2>2, <2>3, <2>5 DEF TypeOK, Growing
  <2>6. CASE pc = "nfa" /\ \E str, R : Failing(str, R)
    <3>1. PICK str, R : Failing(str, R)
      BY <2>6
    <3>2. Tables /\ ToSet(queue) \subseteq 1..num /\ state = 0
      BY <3>1 DEF Failing, Built, Reached
    <3>. QED
      BY <2>2, <2>6, <3>2 DEF TypeOK
  <2>7. CASE pc = "dfa" /\ \E str, R : Completing(str, R)
    <3>1. PICK str, R : Completing(str, R)
      BY <2>7
    <3>2. Tables /\ ToSet(queue) \subseteq 1..num /\ state = 0
      BY <3>1 DEF Completing, Built, Reached
    <3>. QED
      BY <2>2, <2>7, <3>2 DEF TypeOK
  <2>8. CASE pc = "search" /\ \E str : Searching(str)
    <3>1. PICK str : Searching(str)
      BY <2>8
    <3>2. Tables /\ queue = <<>> /\ state \in 0..num
      BY <3>1 DEF Searching, Built
    <3>3. \A s \in 0..num, b \in Letter : NextState[s][b] # ACSM_FAIL_STATE
      BY <3>1 DEF Searching, Full, ACSM_FAIL_STATE
    <3>. QED
      BY <2>2, <2>3, <2>8, <3>2, <3>3 DEF TypeOK
  <2>. QED
    BY <2>4, <2>5, <2>6, <2>7, <2>8 DEF IInv
<1>. QED
  BY <1>1, Invariance, PTL

LEMMA OnTree ==
  ASSUME NEW str, NEW num, Shape(str, num), NEW row, NEW r \in 0..num,
         Edge(str, num, row, r) \/ Full(str, num, row, r),
         NEW b \in Letter, Append(str[r], b) \in Named(str, num)
  PROVE  row[b] \in 0..num /\ str[row[b]] = Append(str[r], b)
<1>1. /\ Named(str, num) \in SUBSET Word /\ <<>> \in Named(str, num)
      /\ Append(str[r], b) \in Word /\ num \in Nat
  BY NamedIs DEF Shape
<1>2. CASE Edge(str, num, row, r)
  BY <1>1, <1>2 DEF Edge
<1>3. CASE Full(str, num, row, r)
  <2>. DEFINE w == Append(str[r], b)
              St == Named(str, num)
  <2>1. row[b] \in 0..num /\ str[row[b]] = Best(St, w)
    BY <1>3 DEF Full
  <2>2. w \in Word /\ w \in St /\ St \in SUBSET Word /\ <<>> \in St
    BY <1>1
  <2>. HIDE DEF w, St
  <2>3. Best(St, w) = w
    BY <2>2, BestIs
  <2>. QED
    BY <2>1, <2>3 DEF w
<1>. QED
  BY <1>2, <1>3

(* The word of a state leads to it. *)
LEMMA StateOfIs ==
  ASSUME NEW str, NEW num, Shape(str, num),
         \A r \in 0..num : Edge(str, num, NextState[r], r) \/ Full(str, num, NextState[r], r),
         NEW s \in 0..num
  PROVE  StateOf(str[s]) = s
<1>. DEFINE w == str[s]
            Eq(at) == at = [i \in 0..Len(w) |-> IF i = 0 THEN 0 ELSE NextState[at[i - 1]][w[i]]]
            Good(i, t) == t \in 0..num /\ str[t] = Take(w, i)
            V == [i \in 0..Len(w) |-> CHOOSE t : Good(i, t)]
            f == CHOOSE at : Eq(at)
<1>1. /\ w \in Word /\ Len(w) \in Nat /\ num \in Nat /\ str[0] = <<>>
      /\ Named(str, num) \in SUBSET Word /\ Closed(Named(str, num)) /\ w \in Named(str, num)
  BY NamedIs, SeqIs DEF Shape, Word
<1>2. ASSUME NEW i \in 0..Len(w) PROVE \E t : Good(i, t)
  <2>1. Take(w, i) \in Prefixes(w)
    BY DEF Take, Prefixes
  <2>2. Take(w, i) \in Named(str, num)
    BY <2>1, <1>1, PrefixesInside
  <2>. QED
    BY <2>2 DEF Named
<1>3. \A i, t, u : Good(i, t) /\ Good(i, u) => t = u
  BY DEF Shape
<1>4. StateOf(w) = f[Len(w)]
  BY DEF StateOf
<1>5. Good(0, 0) /\ (\A t : Good(Len(w), t) => t = s)
  <2>1. Take(w, 0) = <<>> /\ Take(w, Len(w)) = w
    BY <1>1, TakeEnds DEF Word
  <2>. QED
    BY <2>1, <1>1 DEF Shape
<1>6. ASSUME NEW i \in 1..Len(w), NEW t, Good(i - 1, t) PROVE Good(i, NextState[t][w[i]])
  <2>. DEFINE j == i - 1
  <2>1. j \in 0..(Len(w) - 1) /\ j + 1 = i /\ i \in 0..Len(w) /\ j \in 0..Len(w)
    BY <1>1
  <2>2. Take(w, i) = Append(Take(w, j), w[i]) /\ w[i] \in Letter
    <3>. HIDE DEF j
    <3>. QED
      BY <2>1, <1>1, TakeEnds, SeqIs DEF Word
  <2>3. Take(w, i) \in Named(str, num)
    BY <2>1, <1>2 DEF Named
  <2>. DEFINE row == NextState[t]
              b == w[i]
  <2>4. /\ t \in 0..num /\ str[t] = Take(w, j)
        /\ (Edge(str, num, row, t) \/ Full(str, num, row, t))
        /\ Append(str[t], b) \in Named(str, num) /\ b \in Letter /\ Take(w, i) = Append(str[t], b)
    BY <1>6, <2>2, <2>3
  <2>. HIDE DEF row, b
  <2>5. row[b] \in 0..num /\ str[row[b]] = Append(str[t], b)
    BY <2>4, OnTree
  <2>. QED
    BY <2>4, <2>5 DEF row, b
<1>. HIDE DEF Good, w
<1>7. Eq(V)
  <2>1. \A i \in 0..Len(w) : Good(i, V[i])
    BY <1>2
  <2>2. 0 \in 0..Len(w)
    BY <1>1
  <2>. HIDE DEF V
  <2>3. V[0] = 0
    BY <2>1, <2>2, <1>3, <1>5
  <2>4. ASSUME NEW i \in 1..Len(w) PROVE V[i] = NextState[V[i - 1]][w[i]]
    <3>1. i - 1 \in 0..Len(w) /\ i \in 0..Len(w)
      BY <1>1
    <3>2. Good(i, NextState[V[i - 1]][w[i]])
      BY <2>1, <3>1, <1>6
    <3>. QED
      BY <2>1, <3>1, <3>2, <1>3
  <2>5. \A i \in 0..Len(w) : V[i] = IF i = 0 THEN 0 ELSE NextState[V[i - 1]][w[i]]
    <3>1. \A i \in 0..Len(w) : i = 0 \/ i \in 1..Len(w)
      BY <1>1
    <3>. QED
      BY <2>3, <2>4, <3>1
  <2>6. V = [i \in 0..Len(w) |-> V[i]]
    BY DEF V
  <2>. QED
    BY <2>5, <2>6
<1>. HIDE DEF V
<1>8. Eq(f)
  <2>. HIDE DEF Eq
  <2>. QED
    BY <1>7
<1>9. f[0] = 0 /\ \A i \in 1..Len(w) : f[i] = NextState[f[i - 1]][w[i]]
  <2>. HIDE DEF f
  <2>1. \A i \in 0..Len(w) : f[i] = IF i = 0 THEN 0 ELSE NextState[f[i - 1]][w[i]]
    BY <1>8
  <2>2. 0 \in 0..Len(w) /\ \A i \in 1..Len(w) : i \in 0..Len(w) /\ i # 0
    BY <1>1
  <2>. QED
    BY <2>1, <2>2
<1>. HIDE DEF f, Eq
<1>10. Good(Len(w), f[Len(w)])
  <2>. DEFINE D == {n \in Nat : n <= Len(w) => Good(n, f[n])}
  <2>1. 0 \in D
    BY <1>5, <1>9
  <2>2. ASSUME NEW n \in D PROVE n + 1 \in D
    <3>. SUFFICES ASSUME n + 1 <= Len(w) PROVE Good(n + 1, f[n + 1])
      OBVIOUS
    <3>1. n + 1 \in 1..Len(w) /\ (n + 1) - 1 = n /\ n <= Len(w)
      BY <1>1
    <3>. QED
      BY <3>1, <1>6, <1>9
  <2>3. D = Nat
    <3>. HIDE DEF D
    <3>1. D \in SUBSET Nat
      BY DEF D
    <3>. QED
      BY <2>1, <2>2, <3>1, SetInduction
  <2>. QED
    BY <2>3, <1>1
<1>. QED
  BY <1>4, <1>5, <1>10 DEF w

LEMMA StemsAre ==
  ASSUME Listed, NEW str, Built(str), NEW w \in Stems
  PROVE  Stems = Named(str, acsmNumStates)
<1>. DEFINE St == Named(str, acsmNumStates)
<1>1. /\ St \in SUBSET Word /\ Closed(St)
      /\ \A p \in Patterns : p.patrn \in St /\ p.patrn \in Word
  <2>1. Shape(str, acsmNumStates) /\ \A p \in Patterns : p.patrn \in St
    BY DEF Built
  <2>. QED
    BY <2>1, NamedIs
<1>2. Stems \subseteq St
  <2>. HIDE DEF St
  <2>. QED
    BY <1>1, PrefixesInside DEF Stems
<1>3. PICK p \in Patterns : w \in Prefixes(p.patrn)
  BY DEF Stems
<1>4. <<>> \in Prefixes(p.patrn)
  <2>1. Take(p.patrn, 0) = <<>> /\ 0 \in 0..Len(p.patrn)
    BY <1>1, TakeEnds, SeqIs DEF Word
  <2>. QED
    BY <2>1 DEF Prefixes, Take
<1>5. ASSUME NEW s \in 0..acsmNumStates PROVE str[s] \in Stems
  <2>1. s = 0 \/ s \in 1..acsmNumStates
    BY DEF Built, Shape
  <2>2. str[0] = <<>>
    BY DEF Built, Shape
  <2>. QED
    BY <2>1, <2>2, <1>4 DEF Built, Stemmed, Stems
<1>. QED
  BY <1>2, <1>5 DEF Named

LEMMA FailsIs ==
  ASSUME Listed, NEW str, Built(str),
         \A r \in 1..acsmNumStates :
           Edge(str, acsmNumStates, NextState[r], r) \/ Full(str, acsmNumStates, NextState[r], r),
         NEW w \in Stems \ {<<>>}
  PROVE  /\ StateOf(w) \in 1..acsmNumStates
         /\ Fails(str, StateOf(w)) =>
              FailState[StateOf(w)] = StateOf(Longest((Suffixes(w) \ {w}) \cap Stems))
<1>. DEFINE num == acsmNumStates
            St == Named(str, num)
<1>1. /\ Shape(str, num) /\ num \in Nat /\ Tables /\ St \in SUBSET Word /\ <<>> \in St
      /\ str[0] = <<>> /\ \A s \in 0..num : s \in State
  BY BuiltIs
<1>2. Stems = St
  BY StemsAre
<1>3. PICK t \in 0..num : w = str[t]
  BY <1>2 DEF Named
<1>4. t \in 1..num /\ t \in State
  BY <1>1, <1>3
<1>5. \A r \in 0..num : Edge(str, num, NextState[r], r) \/ Full(str, num, NextState[r], r)
  <2>1. Full(str, num, NextState[0], 0)
    BY DEF Built
  <2>2. \A r \in 0..num : r = 0 \/ r \in 1..num
    BY <1>1
  <2>. QED
    BY <2>1, <2>2
<1>6. \A s \in 0..num : StateOf(str[s]) = s
  <2>. HIDE DEF num
  <2>. QED
    BY <1>1, <1>5, StateOfIs
<1>7. FailState[t] \in 0..num
  BY <1>1, <1>4 DEF Tables
<1>8. Longest((Suffixes(w) \ {w}) \cap St) = Best(St, Tail(w))
  <2>1. w \in Word
    BY <1>1, <1>2
  <2>. HIDE DEF St
  <2>. QED
    BY <2>1, <1>1, BestLongest
<1>. QED
  BY <1>2, <1>3, <1>4, <1>6, <1>7, <1>8 DEF Fails

(* A failure state stands for the longest proper suffix that begins a      *)
(* pattern: of the queued states in the second pass, of all in the third.  *)
THEOREM FailIsLongestSuffixHolds == Spec => []FailIsLongestSuffix
<1>1. IInv => FailIsLongestSuffix
  <2>. SUFFICES ASSUME IInv, pc \in {"nfa", "dfa"}, NEW w \in Stems \ {<<>>},
                       pc = "dfa" \/ StateOf(w) \in ToSet(queue)
                PROVE  FailState[StateOf(w)] = StateOf(Longest((Suffixes(w) \ {w}) \cap Stems))
    BY DEF FailIsLongestSuffix
  <2>1. Listed
    BY DEF IInv
  <2>2. CASE pc = "nfa"
    <3>1. PICK str, R : Failing(str, R)
      BY <2>2 DEF IInv
    <3>2. /\ Built(str)
          /\ \A s \in 1..acsmNumStates : Edge(str, acsmNumStates, NextState[s], s)
          /\ \A s \in R : Fails(str, s)
      BY <3>1 DEF Failing
    <3>3. StateOf(w) \in R
      BY <2>2, <3>1 DEF Failing, Reached
    <3>. QED
      BY <2>1, <3>2, <3>3, FailsIs
  <2>3. CASE pc = "dfa"
    <3>1. PICK str, R : Completing(str, R)
      BY <2>3 DEF IInv
    <3>2. Built(str) /\ \A s \in 1..acsmNumStates : Fails(str, s)
      BY <3>1 DEF Completing
    <3>3. ASSUME NEW s \in 1..acsmNumStates
          PROVE  Edge(str, acsmNumStates, NextState[s], s) \/ Full(str, acsmNumStates, NextState[s], s)
      BY <3>1 DEF Completing
    <3>. QED
      BY <2>1, <3>2, <3>3, FailsIs
  <2>. QED
    BY <2>2, <2>3
<1>. QED
  BY <1>1, Invariance, PTL
=============================================================================
