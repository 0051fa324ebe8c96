----------------------------- MODULE TextProofs -----------------------------
(* Proofs about modules Request and Codecs: the end of a head is found in  *)
(* whatever packets it comes; base64 is undone by its inverse; prefixes,   *)
(* order, ranges and texts of addresses.                                   *)
EXTENDS Request, Codecs, SequenceTheorems, WellFoundedInduction, TLAPS

LEMMA UpTo ==
  ASSUME NEW n \in Nat, NEW S, 0 \in S, \A i \in 0..n : i \in S /\ i < n => i + 1 \in S
  PROVE  \A i \in 0..n : i \in S
<1>. SUFFICES ASSUME NEW k \in 0..n, k \notin S PROVE FALSE
  OBVIOUS
<1>. DEFINE Out == {i \in 0..n : i \notin S}
<1>1. Out \in SUBSET Nat /\ Out # {}
  OBVIOUS
<1>2. PICK x \in Out : \A y \in Out : ~ (<<y, x>> \in OpToRel(<, Nat))
  BY <1>1, NatLessThanWellFounded, WFMin
<1>3. x # 0 /\ x - 1 \in 0..n /\ x - 1 < x /\ x - 1 < n /\ (x - 1) + 1 = x
  OBVIOUS
<1>4. <<x - 1, x>> \in OpToRel(<, Nat)
  BY <1>3 DEF OpToRel
<1>5. x - 1 \in S
  BY <1>2, <1>3, <1>4
<1>. QED
  BY <1>2, <1>3, <1>5

-----------------------------------------------------------------------------
(* What a packet leaves alone *)

Framed(r, s, n) ==
  /\ {"state", "header_len", "form_status"} \subseteq DOMAIN r
  /\ r.state = s /\ r.header_len = n
  /\ r.form_status \in {"BEGIN", "HEADER", "BODY"}

LEMMA StrFramed ==
  ASSUME NEW s, NEW n, NEW r, Framed(r, s, n), NEW f, NEW data
  PROVE  Framed(http_set_str(r, f, data), s, n)
BY DEF Framed, http_set_str

LEMMA InitFramed ==
  ASSUME NEW s, NEW n, NEW r, Framed(r, s, n), NEW m
  PROVE  Framed([http_init(r) EXCEPT !.header_len = m], s, m)
BY DEF Framed, http_init

LEMMA EmptyArgFramed ==
  ASSUME NEW s, NEW n, NEW r, Framed(r, s, n)
  PROVE  Framed(http_get_empty_arg(r), s, n)
BY DEF Framed, http_get_empty_arg

LEMMA AppendArgFramed ==
  ASSUME NEW s, NEW n, NEW r, Framed(r, s, n), NEW data
  PROVE  Framed(http_append_arg(r, data), s, n)
BY DEF Framed, http_append_arg

LEMMA SetCurFramed ==
  ASSUME NEW s, NEW n, NEW r, Framed(r, s, n), NEW f, NEW v
  PROVE  Framed(SetCur(r, f, v), s, n)
BY DEF Framed, SetCur

(* The records of loops that have the http_t in their field h. *)
FramedIn(p, s, n) == "h" \in DOMAIN p /\ Framed(p.h, s, n)

LEMMA TakeCharFramed ==
  ASSUME NEW s, NEW n, NEW p, FramedIn(p, s, n), NEW i, NEW c, NEW u
  PROVE  FramedIn(TakeChar(p, i, c, u), s, n)
BY DEF Framed, FramedIn, TakeChar

LEMMA TrimFileFramed ==
  ASSUME NEW s, NEW n, NEW r, Framed(r, s, n), NEW m
  PROVE  Framed(TrimFile(r, m), s, n) /\ Framed(TrimArg(r, m), s, n)
BY DEF Framed, TrimFile, TrimArg

LEMMA FileFramed ==
  ASSUME NEW s, NEW n, NEW r, Framed(r, s, n), NEW c
  PROVE  /\ Framed(http_get_empty_file(r), s, n)
         /\ Framed(http_set_file(r, c), s, n)
         /\ Framed(http_append_file(r, c), s, n)
<1>1. Framed(http_get_empty_file(r), s, n)
  BY DEF Framed, http_get_empty_file
<1>2. Framed(http_set_file(r, c), s, n)
  BY DEF Framed, http_set_file
<1>3. Framed(http_append_file(r, c), s, n)
  BY DEF Framed, http_append_file
<1>. QED
  BY <1>1, <1>2, <1>3

LEMMA LabelFramed ==
  ASSUME NEW s, NEW n, NEW r, Framed(r, s, n), NEW c
  PROVE  Framed(ScanLabel(r, c).h, s, n)
<1>1. Framed(CountDashes(r, c), s, n)
  BY DEF Framed, CountDashes
<1>2. ASSUME NEW q, Framed(q, s, n) PROVE Framed(http_wait_label_str(q, c).h, s, n)
  <2>1. Framed(Cached(q, c), s, n)
    BY <1>2 DEF Framed, Cached
  <2>. QED
    BY <2>1 DEF Framed, http_wait_label_str
<1>. QED
  BY <1>1, <1>2 DEF ScanLabel

LEMMA LineFramed ==
  ASSUME NEW s, NEW n, NEW r, Framed(r, s, n), NEW c
  PROVE  Framed(http_wait_line_str(r, c).h, s, n)
<1>1. Framed(Cached(r, c), s, n)
  BY DEF Framed, Cached
<1>. QED
  BY <1>1 DEF Framed, http_wait_line_str

LEMMA FormBeginFramed ==
  ASSUME NEW s, NEW n, NEW r, Framed(r, s, n), NEW c
  PROVE  Framed(FormBegin(r, c), s, n)
BY LabelFramed DEF Framed, FormBegin

LEMMA FormBodyFramed ==
  ASSUME NEW s, NEW n, NEW r, Framed(r, s, n), NEW c
  PROVE  Framed(FormBody(r, c), s, n)
<1>1. PICK q : q = ScanLabel(r, c).h
  OBVIOUS
<1>2. Framed(q, s, n)
  BY <1>1, LabelFramed
<1>3. /\ \A m : Framed(TrimFile(q, m), s, n) /\ Framed(TrimArg(q, m), s, n)
      /\ Framed(http_append_file(q, c), s, n)
      /\ Framed(http_append_arg(q, <<c>>), s, n)
  BY <1>2, TrimFileFramed, FileFramed, AppendArgFramed
<1>. QED
  BY <1>1, <1>3 DEF Framed, FormBody

LEMMA BeginFileFramed ==
  ASSUME NEW s, NEW n, NEW r, Framed(r, s, n), NEW data
  PROVE  Framed(BeginFile(r, data), s, n)
<1>. DEFINE name == http_get_form_lable_value(data, <<FILE_WORD, NAME_IS>>)
            q == http_get_empty_file([r EXCEPT !.null_file = FALSE])
<1>1. Framed(q, s, n)
  <2>1. Framed([r EXCEPT !.null_file = FALSE], s, n)
    BY DEF Framed
  <2>. QED
    BY <2>1, FileFramed
<1>2. Framed(http_set_file(q, name.value), s, n)
  <2>. HIDE DEF name, q
  <2>. QED
    BY <1>1, FileFramed
<1>3. BeginFile(r, data) = IF ~name.found THEN r
                           ELSE IF name.value = <<>> THEN [r EXCEPT !.null_file = TRUE]
                           ELSE [http_set_file(q, name.value) EXCEPT !.form_flag = "FILE"]
  BY DEF BeginFile
<1>. QED
  BY <1>2, <1>3 DEF Framed

LEMMA ChunkFramed ==
  ASSUME NEW s, NEW n, NEW p, FramedIn(p, s, n), NEW c
  PROVE  FramedIn(ChunkChar(p, c), s, n)
<1>1. Framed(http_read_line(p.h, c).h, s, n)
  BY DEF Framed, FramedIn, http_read_line
<1>2. ASSUME NEW q, Framed(q, s, n), NEW size PROVE Framed(BeginChunk(q, size), s, n)
  BY <1>2 DEF Framed, BeginChunk
<1>. QED
  BY <1>1, <1>2 DEF Framed, FramedIn, ChunkChar

-----------------------------------------------------------------------------
(* Loops *)

ScanChar(p, c) ==
  IF p.n > 0 /\ p.state = 4 THEN p ELSE [state |-> JumpNext(p.state, c), n |-> p.n + 1]

CutAt(r, c) == IF c = SEMI THEN Append(r, <<>>) ELSE Append(Front(r), Append(Last(r), c))

(* A turn of each of the loops. *)
Turn(loop, r, x, data, in_url) ==
  CASE loop = "append" -> http_append_arg(r, x)
    [] loop = "args" -> ArgChar(r, x, data, in_url)
    [] loop = "chunk" -> ChunkChar(r, x)
    [] loop = "form" -> FormChar(r, x)
    [] loop = "table" -> parse_table_parsing(r, x)
    [] loop = "head" -> HeadChar(r, x, data)
    [] loop = "scan" -> ScanChar(r, x)
    [] loop = "split" -> CutAt(r, x)
    [] loop = "blanks" -> SkipBlank(r, x)
    [] loop = "join" -> r \o x
    [] loop = "ntohl" -> r * data + x
    [] loop = "digits" -> r * data + xdigit(x)

(* g[i] is what i turns make of base. *)
Course(g, loop, base, s, data, in_url) ==
  g[0] = base /\ \A i \in 1..Len(s) : g[i] = Turn(loop, g[i - 1], s[i], data, in_url)

LEMMA CourseExists ==
  ASSUME NEW loop, NEW base, NEW s, Len(s) \in Nat, NEW data, NEW in_url
  PROVE  \E g : Course(g, loop, base, s, data, in_url)
<1>. DEFINE C(g, m) == g[0] = base /\ \A i \in 1..m : g[i] = Turn(loop, g[i - 1], s[i], data, in_url)
            S == {m \in 0..Len(s) : \E g : C(g, m)}
<1>1. 0 \in S
  <2>1. C([i \in 0..0 |-> base], 0)
    OBVIOUS
  <2>. HIDE DEF C
  <2>. QED
    BY <2>1
<1>2. ASSUME NEW m \in 0..Len(s), m \in S, m < Len(s) PROVE m + 1 \in S
  <2>1. PICK f : C(f, m)
    BY <1>2
  <2>2. PICK g : g = [i \in 0..(m + 1) |-> IF i = m + 1 THEN Turn(loop, f[m], s[m + 1], data, in_url) ELSE f[i]]
    OBVIOUS
  <2>3. g[0] = base
    BY <2>1, <2>2
  <2>4. ASSUME NEW i \in 1..(m + 1) PROVE g[i] = Turn(loop, g[i - 1], s[i], data, in_url)
    <3>1. i \in 0..(m + 1) /\ i - 1 \in 0..(m + 1) /\ i - 1 # m + 1
      OBVIOUS
    <3>2. g[i - 1] = f[i - 1]
      BY <2>2, <3>1
    <3>3. CASE i = m + 1
      BY <2>2, <3>1, <3>2, <3>3
    <3>4. CASE i # m + 1
      <4>1. i \in 1..m /\ g[i] = f[i]
        BY <2>2, <3>1, <3>4
      <4>. QED
        BY <2>1, <3>2, <4>1
    <3>. QED
      BY <3>3, <3>4
  <2>5. C(g, m + 1)
    BY <2>3, <2>4
  <2>. HIDE DEF C
  <2>. QED
    BY <1>2, <2>5
<1>3. Len(s) \in S
  <2>. HIDE DEF S
  <2>1. \A i \in 0..Len(s) : i \in S
    BY <1>1, <1>2, UpTo
  <2>. QED
    BY <2>1
<1>. QED
  BY <1>3 DEF Course

(* What the turns of a loop keep: the two fields of the http_t, or of the  *)
(* http_t in a loop's record; where the line begins; that there are pieces. *)
Kept(kind, r, st, n) ==
  CASE kind = "call" -> Framed(r, st, n)
    [] kind = "loop" -> FramedIn(r, st, n)
    [] kind = "line" -> FramedIn(r, st, n) /\ {"begin", "split"} \subseteq DOMAIN r /\ r.begin \in Nat /\ r.split \in Nat
    [] kind = "pieces" -> r # <<>> /\ \E S : r \in Seq(S)

LEMMA KeptCourse ==
  ASSUME NEW kind, NEW loop, NEW base, NEW s, Len(s) \in Nat, NEW data, NEW in_url,
         NEW g, Course(g, loop, base, s, data, in_url),
         NEW st, NEW n, Kept(kind, base, st, n),
         \A r, i : i \in 1..Len(s) /\ Kept(kind, r, st, n) => Kept(kind, Turn(loop, r, s[i], data, in_url), st, n)
  PROVE  Kept(kind, g[Len(s)], st, n)
<1>. DEFINE S == {i \in 0..Len(s) : Kept(kind, g[i], st, n)}
<1>1. 0 \in S
  BY DEF Course
<1>2. ASSUME NEW i \in 0..Len(s), i \in S, i < Len(s) PROVE i + 1 \in S
  <2>1. i + 1 \in 1..Len(s) /\ (i + 1) - 1 = i
    BY <1>2
  <2>2. g[i + 1] = Turn(loop, g[i], s[i + 1], data, in_url)
    BY <2>1 DEF Course
  <2>. QED
    BY <1>2, <2>1, <2>2
<1>3. \A i \in 0..Len(s) : i \in S
  <2>. HIDE DEF S
  <2>. QED
    BY <1>1, <1>2, UpTo
<1>. QED
  BY <1>3

(* f has the values of g, each as a set of one, as far as one follows the other. *)
Follows(f, g, n) == f[0] = {g[0]} /\ \A i \in 1..n : f[i - 1] = {g[i - 1]} => f[i] = {g[i]}

LEMMA Singles ==
  ASSUME NEW n \in Nat, NEW f, NEW g, Follows(f, g, n)
  PROVE  f[n] = {g[n]}
<1>. DEFINE S == {i \in 0..n : f[i] = {g[i]}}
<1>1. 0 \in S
  BY DEF Follows
<1>2. ASSUME NEW i \in 0..n, i \in S, i < n PROVE i + 1 \in S
  <2>1. i + 1 \in 1..n /\ (i + 1) - 1 = i
    BY <1>2
  <2>. QED
    BY <1>2, <2>1 DEF Follows
<1>3. \A i \in 0..n : i \in S
  <2>. HIDE DEF S
  <2>. QED
    BY <1>1, <1>2, UpTo
<1>. QED
  BY <1>3

(* What Read makes of f: the values of a course, each as a set of one. *)
IsLoop(f, loop, base, s, data, in_url) ==
  /\ f = [i \in 0..Len(s) |-> f[i]]
  /\ f[0] = {base}
  /\ \A i \in 1..Len(s) : f[i] = {Turn(loop, r, s[i], data, in_url) : r \in f[i - 1]}

(* There is what Read makes of f, and it ends where a course does. *)
Loops(loop, base, s, data, in_url) ==
  \E g : /\ Course(g, loop, base, s, data, in_url)
         /\ \E f : IsLoop(f, loop, base, s, data, in_url)
         /\ \A f : IsLoop(f, loop, base, s, data, in_url) => f[Len(s)] = {g[Len(s)]}

LEMMA LoopIs ==
  ASSUME NEW loop, NEW base, NEW s, Len(s) \in Nat, NEW data, NEW in_url
  PROVE  Loops(loop, base, s, data, in_url)
<1>. DEFINE T(r, i) == Turn(loop, r, s[i], data, in_url)
<1>1. PICK g : Course(g, loop, base, s, data, in_url)
  BY CourseExists
<1>2. g[0] = base /\ \A i \in 1..Len(s) : g[i] = T(g[i - 1], i)
  BY <1>1 DEF Course
<1>. HIDE DEF T
<1>3. PICK F : F = [i \in 0..Len(s) |-> {g[i]}]
  OBVIOUS
<1>4. IsLoop(F, loop, base, s, data, in_url)
  <2>1. ASSUME NEW i \in 1..Len(s) PROVE F[i] = {T(r, i) : r \in F[i - 1]}
    <3>1. F[i - 1] = {g[i - 1]} /\ g[i] = T(g[i - 1], i) /\ F[i] = {g[i]}
      BY <1>2, <1>3
    <3>. QED
      BY <3>1
  <2>2. F[0] = {base} /\ F = [i \in 0..Len(s) |-> F[i]]
    BY <1>2, <1>3
  <2>. QED
    BY <2>1, <2>2 DEF IsLoop, T
<1>5. ASSUME NEW f, IsLoop(f, loop, base, s, data, in_url) PROVE f[Len(s)] = {g[Len(s)]}
  <2>1. f[0] = {base} /\ \A i \in 1..Len(s) : f[i] = {T(r, i) : r \in f[i - 1]}
    BY <1>5 DEF IsLoop, T
  <2>2. ASSUME NEW i \in 1..Len(s), f[i - 1] = {g[i - 1]} PROVE f[i] = {g[i]}
    BY <1>2, <2>1, <2>2
  <2>3. Follows(f, g, Len(s))
    BY <1>2, <2>1, <2>2 DEF Follows
  <2>. QED
    BY <2>3, Singles
<1>. QED
  BY <1>1, <1>4, <1>5 DEF Loops

(* x is the end of a course. *)
Reads(x, loop, base, s, data, in_url) ==
  \E g : Course(g, loop, base, s, data, in_url) /\ x = g[Len(s)]

LEMMA KeptReads ==
  ASSUME NEW kind, NEW loop, NEW base, NEW s, Len(s) \in Nat, NEW data, NEW in_url,
         NEW x, Reads(x, loop, base, s, data, in_url),
         NEW st, NEW n, Kept(kind, base, st, n),
         \A r, i : i \in 1..Len(s) /\ Kept(kind, r, st, n) => Kept(kind, Turn(loop, r, s[i], data, in_url), st, n)
  PROVE  Kept(kind, x, st, n)
BY KeptCourse DEF Reads

ReadAppend(base, s) == Read(http_append_arg, base, s)

LEMMA ReadAppendIs ==
  ASSUME NEW base, NEW s, Len(s) \in Nat
  PROVE  Reads(ReadAppend(base, s), "append", base, s, 0, 0)
<1>. DEFINE T(p, i) == http_append_arg(p, s[i])
            Def(f) == f = [i \in 0..Len(s) |-> IF i = 0 THEN {base} ELSE {T(p, i) : p \in f[i - 1]}]
            after == CHOOSE f : Def(f)
<1>1. ASSUME NEW f PROVE Def(f) <=> IsLoop(f, "append", base, s, 0, 0)
  <2>. PICK B : B = f
    OBVIOUS
  <2>. DEFINE X(i) == {T(p, i) : p \in B[i - 1]}
  <2>1. \A i : X(i) = {Turn("append", p, s[i], 0, 0) : p \in B[i - 1]}
    BY DEF Turn
  <2>. HIDE DEF T
  <2>2. Def(f) <=> f = [i \in 0..Len(s) |-> IF i = 0 THEN {base} ELSE X(i)]
    OBVIOUS
  <2>. HIDE DEF X
  <2>3. Def(f) <=> /\ f = [i \in 0..Len(s) |-> f[i]]
                   /\ f[0] = {base} /\ \A i \in 1..Len(s) : f[i] = X(i)
    BY <2>2
  <2>. HIDE DEF Def
  <2>. QED
    BY <2>1, <2>3 DEF IsLoop
<1>2. ReadAppend(base, s) = CHOOSE p \in after[Len(s)] : TRUE
  BY DEF ReadAppend, Read
<1>. HIDE DEF Def
<1>3. Loops("append", base, s, 0, 0)
  BY LoopIs
<1>4. PICK g : /\ Course(g, "append", base, s, 0, 0)
               /\ \E f : IsLoop(f, "append", base, s, 0, 0)
               /\ \A f : IsLoop(f, "append", base, s, 0, 0) => f[Len(s)] = {g[Len(s)]}
  BY <1>3 DEF Loops
<1>5. Def(after)
  BY <1>1, <1>4
<1>6. after[Len(s)] = {g[Len(s)]}
  BY <1>1, <1>4, <1>5
<1>7. ReadAppend(base, s) = g[Len(s)]
  <2>. HIDE DEF after
  <2>. QED
    BY <1>2, <1>6
<1>. QED
  BY <1>4, <1>7 DEF Reads

ReadArgs(base, s, data, in_url) == Read(LAMBDA p, i : ArgChar(p, i, data, in_url), base, s)

LEMMA ReadArgsIs ==
  ASSUME NEW base, NEW s, Len(s) \in Nat, NEW data, NEW in_url
  PROVE  Reads(ReadArgs(base, s, data, in_url), "args", base, s, data, in_url)
<1>. DEFINE T(p, i) == ArgChar(p, s[i], data, in_url)
            Def(f) == f = [i \in 0..Len(s) |-> IF i = 0 THEN {base} ELSE {T(p, i) : p \in f[i - 1]}]
            after == CHOOSE f : Def(f)
<1>1. ASSUME NEW f PROVE Def(f) <=> IsLoop(f, "args", base, s, data, in_url)
  <2>. PICK B : B = f
    OBVIOUS
  <2>. DEFINE X(i) == {T(p, i) : p \in B[i - 1]}
  <2>1. \A i : X(i) = {Turn("args", p, s[i], data, in_url) : p \in B[i - 1]}
    BY DEF Turn
  <2>. HIDE DEF T
  <2>2. Def(f) <=> f = [i \in 0..Len(s) |-> IF i = 0 THEN {base} ELSE X(i)]
    OBVIOUS
  <2>. HIDE DEF X
  <2>3. Def(f) <=> /\ f = [i \in 0..Len(s) |-> f[i]]
                   /\ f[0] = {base} /\ \A i \in 1..Len(s) : f[i] = X(i)
    BY <2>2
  <2>. HIDE DEF Def
  <2>. QED
    BY <2>1, <2>3 DEF IsLoop
<1>2. ReadArgs(base, s, data, in_url) = CHOOSE p \in after[Len(s)] : TRUE
  BY DEF ReadArgs, Read
<1>. HIDE DEF Def
<1>3. Loops("args", base, s, data, in_url)
  BY LoopIs
<1>4. PICK g : /\ Course(g, "args", base, s, data, in_url)
               /\ \E f : IsLoop(f, "args", base, s, data, in_url)
               /\ \A f : IsLoop(f, "args", base, s, data, in_url) => f[Len(s)] = {g[Len(s)]}
  BY <1>3 DEF Loops
<1>5. Def(after)
  BY <1>1, <1>4
<1>6. after[Len(s)] = {g[Len(s)]}
  BY <1>1, <1>4, <1>5
<1>7. ReadArgs(base, s, data, in_url) = g[Len(s)]
  <2>. HIDE DEF after
  <2>. QED
    BY <1>2, <1>6
<1>. QED
  BY <1>4, <1>7 DEF Reads

ReadChunk(base, s) == Read(ChunkChar, base, s)

LEMMA ReadChunkIs ==
  ASSUME NEW base, NEW s, Len(s) \in Nat
  PROVE  Reads(ReadChunk(base, s), "chunk", base, s, 0, 0)
<1>. DEFINE T(p, i) == ChunkChar(p, s[i])
            Def(f) == f = [i \in 0..Len(s) |-> IF i = 0 THEN {base} ELSE {T(p, i) : p \in f[i - 1]}]
            after == CHOOSE f : Def(f)
<1>1. ASSUME NEW f PROVE Def(f) <=> IsLoop(f, "chunk", base, s, 0, 0)
  <2>. PICK B : B = f
    OBVIOUS
  <2>. DEFINE X(i) == {T(p, i) : p \in B[i - 1]}
  <2>1. \A i : X(i) = {Turn("chunk", p, s[i], 0, 0) : p \in B[i - 1]}
    BY DEF Turn
  <2>. HIDE DEF T
  <2>2. Def(f) <=> f = [i \in 0..Len(s) |-> IF i = 0 THEN {base} ELSE X(i)]
    OBVIOUS
  <2>. HIDE DEF X
  <2>3. Def(f) <=> /\ f = [i \in 0..Len(s) |-> f[i]]
                   /\ f[0] = {base} /\ \A i \in 1..Len(s) : f[i] = X(i)
    BY <2>2
  <2>. HIDE DEF Def
  <2>. QED
    BY <2>1, <2>3 DEF IsLoop
<1>2. ReadChunk(base, s) = CHOOSE p \in after[Len(s)] : TRUE
  BY DEF ReadChunk, Read
<1>. HIDE DEF Def
<1>3. Loops("chunk", base, s, 0, 0)
  BY LoopIs
<1>4. PICK g : /\ Course(g, "chunk", base, s, 0, 0)
               /\ \E f : IsLoop(f, "chunk", base, s, 0, 0)
               /\ \A f : IsLoop(f, "chunk", base, s, 0, 0) => f[Len(s)] = {g[Len(s)]}
  BY <1>3 DEF Loops
<1>5. Def(after)
  BY <1>1, <1>4
<1>6. after[Len(s)] = {g[Len(s)]}
  BY <1>1, <1>4, <1>5
<1>7. ReadChunk(base, s) = g[Len(s)]
  <2>. HIDE DEF after
  <2>. QED
    BY <1>2, <1>6
<1>. QED
  BY <1>4, <1>7 DEF Reads

ReadForm(base, s) == Read(FormChar, base, s)

LEMMA ReadFormIs ==
  ASSUME NEW base, NEW s, Len(s) \in Nat
  PROVE  Reads(ReadForm(base, s), "form", base, s, 0, 0)
<1>. DEFINE T(p, i) == FormChar(p, s[i])
            Def(f) == f = [i \in 0..Len(s) |-> IF i = 0 THEN {base} ELSE {T(p, i) : p \in f[i - 1]}]
            after == CHOOSE f : Def(f)
<1>1. ASSUME NEW f PROVE Def(f) <=> IsLoop(f, "form", base, s, 0, 0)
  <2>. PICK B : B = f
    OBVIOUS
  <2>. DEFINE X(i) == {T(p, i) : p \in B[i - 1]}
  <2>1. \A i : X(i) = {Turn("form", p, s[i], 0, 0) : p \in B[i - 1]}
    BY DEF Turn
  <2>. HIDE DEF T
  <2>2. Def(f) <=> f = [i \in 0..Len(s) |-> IF i = 0 THEN {base} ELSE X(i)]
    OBVIOUS
  <2>. HIDE DEF X
  <2>3. Def(f) <=> /\ f = [i \in 0..Len(s) |-> f[i]]
                   /\ f[0] = {base} /\ \A i \in 1..Len(s) : f[i] = X(i)
    BY <2>2
  <2>. HIDE DEF Def
  <2>. QED
    BY <2>1, <2>3 DEF IsLoop
<1>2. ReadForm(base, s) = CHOOSE p \in after[Len(s)] : TRUE
  BY DEF ReadForm, Read
<1>. HIDE DEF Def
<1>3. Loops("form", base, s, 0, 0)
  BY LoopIs
<1>4. PICK g : /\ Course(g, "form", base, s, 0, 0)
               /\ \E f : IsLoop(f, "form", base, s, 0, 0)
               /\ \A f : IsLoop(f, "form", base, s, 0, 0) => f[Len(s)] = {g[Len(s)]}
  BY <1>3 DEF Loops
<1>5. Def(after)
  BY <1>1, <1>4
<1>6. after[Len(s)] = {g[Len(s)]}
  BY <1>1, <1>4, <1>5
<1>7. ReadForm(base, s) = g[Len(s)]
  <2>. HIDE DEF after
  <2>. QED
    BY <1>2, <1>6
<1>. QED
  BY <1>4, <1>7 DEF Reads

ReadTable(base, s) == Read(parse_table_parsing, base, s)

LEMMA ReadTableIs ==
  ASSUME NEW base, NEW s, Len(s) \in Nat
  PROVE  Reads(ReadTable(base, s), "table", base, s, 0, 0)
<1>. DEFINE T(p, i) == parse_table_parsing(p, s[i])
            Def(f) == f = [i \in 0..Len(s) |-> IF i = 0 THEN {base} ELSE {T(p, i) : p \in f[i - 1]}]
            after == CHOOSE f : Def(f)
<1>1. ASSUME NEW f PROVE Def(f) <=> IsLoop(f, "table", base, s, 0, 0)
  <2>. PICK B : B = f
    OBVIOUS
  <2>. DEFINE X(i) == {T(p, i) : p \in B[i - 1]}
  <2>1. \A i : X(i) = {Turn("table", p, s[i], 0, 0) : p \in B[i - 1]}
    BY DEF Turn
  <2>. HIDE DEF T
  <2>2. Def(f) <=> f = [i \in 0..Len(s) |-> IF i = 0 THEN {base} ELSE X(i)]
    OBVIOUS
  <2>. HIDE DEF X
  <2>3. Def(f) <=> /\ f = [i \in 0..Len(s) |-> f[i]]
                   /\ f[0] = {base} /\ \A i \in 1..Len(s) : f[i] = X(i)
    BY <2>2
  <2>. HIDE DEF Def
  <2>. QED
    BY <2>1, <2>3 DEF IsLoop
<1>2. ReadTable(base, s) = CHOOSE p \in after[Len(s)] : TRUE
  BY DEF ReadTable, Read
<1>. HIDE DEF Def
<1>3. Loops("table", base, s, 0, 0)
  BY LoopIs
<1>4. PICK g : /\ Course(g, "table", base, s, 0, 0)
               /\ \E f : IsLoop(f, "table", base, s, 0, 0)
               /\ \A f : IsLoop(f, "table", base, s, 0, 0) => f[Len(s)] = {g[Len(s)]}
  BY <1>3 DEF Loops
<1>5. Def(after)
  BY <1>1, <1>4
<1>6. after[Len(s)] = {g[Len(s)]}
  BY <1>1, <1>4, <1>5
<1>7. ReadTable(base, s) = g[Len(s)]
  <2>. HIDE DEF after
  <2>. QED
    BY <1>2, <1>6
<1>. QED
  BY <1>4, <1>7 DEF Reads

ReadHead(base, s, data) == Read(LAMBDA l, i : HeadChar(l, i, data), base, s)

LEMMA ReadHeadIs ==
  ASSUME NEW base, NEW s, Len(s) \in Nat, NEW data
  PROVE  Reads(ReadHead(base, s, data), "head", base, s, data, 0)
<1>. DEFINE T(p, i) == HeadChar(p, s[i], data)
            Def(f) == f = [i \in 0..Len(s) |-> IF i = 0 THEN {base} ELSE {T(p, i) : p \in f[i - 1]}]
            after == CHOOSE f : Def(f)
<1>1. ASSUME NEW f PROVE Def(f) <=> IsLoop(f, "head", base, s, data, 0)
  <2>. PICK B : B = f
    OBVIOUS
  <2>. DEFINE X(i) == {T(p, i) : p \in B[i - 1]}
  <2>1. \A i : X(i) = {Turn("head", p, s[i], data, 0) : p \in B[i - 1]}
    BY DEF Turn
  <2>. HIDE DEF T
  <2>2. Def(f) <=> f = [i \in 0..Len(s) |-> IF i = 0 THEN {base} ELSE X(i)]
    OBVIOUS
  <2>. HIDE DEF X
  <2>3. Def(f) <=> /\ f = [i \in 0..Len(s) |-> f[i]]
                   /\ f[0] = {base} /\ \A i \in 1..Len(s) : f[i] = X(i)
    BY <2>2
  <2>. HIDE DEF Def
  <2>. QED
    BY <2>1, <2>3 DEF IsLoop
<1>2. ReadHead(base, s, data) = CHOOSE p \in after[Len(s)] : TRUE
  BY DEF ReadHead, Read
<1>. HIDE DEF Def
<1>3. Loops("head", base, s, data, 0)
  BY LoopIs
<1>4. PICK g : /\ Course(g, "head", base, s, data, 0)
               /\ \E f : IsLoop(f, "head", base, s, data, 0)
               /\ \A f : IsLoop(f, "head", base, s, data, 0) => f[Len(s)] = {g[Len(s)]}
  BY <1>3 DEF Loops
<1>5. Def(after)
  BY <1>1, <1>4
<1>6. after[Len(s)] = {g[Len(s)]}
  BY <1>1, <1>4, <1>5
<1>7. ReadHead(base, s, data) = g[Len(s)]
  <2>. HIDE DEF after
  <2>. QED
    BY <1>2, <1>6
<1>. QED
  BY <1>4, <1>7 DEF Reads

ReadScan(base, s) == Read(ScanChar, base, s)

LEMMA ReadScanIs ==
  ASSUME NEW base, NEW s, Len(s) \in Nat
  PROVE  Reads(ReadScan(base, s), "scan", base, s, 0, 0)
<1>. DEFINE T(p, i) == ScanChar(p, s[i])
            Def(f) == f = [i \in 0..Len(s) |-> IF i = 0 THEN {base} ELSE {T(p, i) : p \in f[i - 1]}]
            after == CHOOSE f : Def(f)
<1>1. ASSUME NEW f PROVE Def(f) <=> IsLoop(f, "scan", base, s, 0, 0)
  <2>. PICK B : B = f
    OBVIOUS
  <2>. DEFINE X(i) == {T(p, i) : p \in B[i - 1]}
  <2>1. \A i : X(i) = {Turn("scan", p, s[i], 0, 0) : p \in B[i - 1]}
    BY DEF Turn
  <2>. HIDE DEF T
  <2>2. Def(f) <=> f = [i \in 0..Len(s) |-> IF i = 0 THEN {base} ELSE X(i)]
    OBVIOUS
  <2>. HIDE DEF X
  <2>3. Def(f) <=> /\ f = [i \in 0..Len(s) |-> f[i]]
                   /\ f[0] = {base} /\ \A i \in 1..Len(s) : f[i] = X(i)
    BY <2>2
  <2>. HIDE DEF Def
  <2>. QED
    BY <2>1, <2>3 DEF IsLoop
<1>2. ReadScan(base, s) = CHOOSE p \in after[Len(s)] : TRUE
  BY DEF ReadScan, Read
<1>. HIDE DEF Def
<1>3. Loops("scan", base, s, 0, 0)
  BY LoopIs
<1>4. PICK g : /\ Course(g, "scan", base, s, 0, 0)
               /\ \E f : IsLoop(f, "scan", base, s, 0, 0)
               /\ \A f : IsLoop(f, "scan", base, s, 0, 0) => f[Len(s)] = {g[Len(s)]}
  BY <1>3 DEF Loops
<1>5. Def(after)
  BY <1>1, <1>4
<1>6. after[Len(s)] = {g[Len(s)]}
  BY <1>1, <1>4, <1>5
<1>7. ReadScan(base, s) = g[Len(s)]
  <2>. HIDE DEF after
  <2>. QED
    BY <1>2, <1>6
<1>. QED
  BY <1>4, <1>7 DEF Reads

ReadSplit(base, s) == Read(CutAt, base, s)

LEMMA ReadSplitIs ==
  ASSUME NEW base, NEW s, Len(s) \in Nat
  PROVE  Reads(ReadSplit(base, s), "split", base, s, 0, 0)
<1>. DEFINE T(p, i) == CutAt(p, s[i])
            Def(f) == f = [i \in 0..Len(s) |-> IF i = 0 THEN {base} ELSE {T(p, i) : p \in f[i - 1]}]
            after == CHOOSE f : Def(f)
<1>1. ASSUME NEW f PROVE Def(f) <=> IsLoop(f, "split", base, s, 0, 0)
  <2>. PICK B : B = f
    OBVIOUS
  <2>. DEFINE X(i) == {T(p, i) : p \in B[i - 1]}
  <2>1. \A i : X(i) = {Turn("split", p, s[i], 0, 0) : p \in B[i - 1]}
    BY DEF Turn
  <2>. HIDE DEF T
  <2>2. Def(f) <=> f = [i \in 0..Len(s) |-> IF i = 0 THEN {base} ELSE X(i)]
    OBVIOUS
  <2>. HIDE DEF X
  <2>3. Def(f) <=> /\ f = [i \in 0..Len(s) |-> f[i]]
                   /\ f[0] = {base} /\ \A i \in 1..Len(s) : f[i] = X(i)
    BY <2>2
  <2>. HIDE DEF Def
  <2>. QED
    BY <2>1, <2>3 DEF IsLoop
<1>2. ReadSplit(base, s) = CHOOSE p \in after[Len(s)] : TRUE
  BY DEF ReadSplit, Read
<1>. HIDE DEF Def
<1>3. Loops("split", base, s, 0, 0)
  BY LoopIs
<1>4. PICK g : /\ Course(g, "split", base, s, 0, 0)
               /\ \E f : IsLoop(f, "split", base, s, 0, 0)
               /\ \A f : IsLoop(f, "split", base, s, 0, 0) => f[Len(s)] = {g[Len(s)]}
  BY <1>3 DEF Loops
<1>5. Def(after)
  BY <1>1, <1>4
<1>6. after[Len(s)] = {g[Len(s)]}
  BY <1>1, <1>4, <1>5
<1>7. ReadSplit(base, s) = g[Len(s)]
  <2>. HIDE DEF after
  <2>. QED
    BY <1>2, <1>6
<1>. QED
  BY <1>4, <1>7 DEF Reads

ReadBlanks(base, s) == Read(SkipBlank, base, s)

LEMMA ReadBlanksIs ==
  ASSUME NEW base, NEW s, Len(s) \in Nat
  PROVE  Reads(ReadBlanks(base, s), "blanks", base, s, 0, 0)
<1>. DEFINE T(p, i) == SkipBlank(p, s[i])
            Def(f) == f = [i \in 0..Len(s) |-> IF i = 0 THEN {base} ELSE {T(p, i) : p \in f[i - 1]}]
            after == CHOOSE f : Def(f)
<1>1. ASSUME NEW f PROVE Def(f) <=> IsLoop(f, "blanks", base, s, 0, 0)
  <2>. PICK B : B = f
    OBVIOUS
  <2>. DEFINE X(i) == {T(p, i) : p \in B[i - 1]}
  <2>1. \A i : X(i) = {Turn("blanks", p, s[i], 0, 0) : p \in B[i - 1]}
    BY DEF Turn
  <2>. HIDE DEF T
  <2>2. Def(f) <=> f = [i \in 0..Len(s) |-> IF i = 0 THEN {base} ELSE X(i)]
    OBVIOUS
  <2>. HIDE DEF X
  <2>3. Def(f) <=> /\ f = [i \in 0..Len(s) |-> f[i]]
                   /\ f[0] = {base} /\ \A i \in 1..Len(s) : f[i] = X(i)
    BY <2>2
  <2>. HIDE DEF Def
  <2>. QED
    BY <2>1, <2>3 DEF IsLoop
<1>2. ReadBlanks(base, s) = CHOOSE p \in after[Len(s)] : TRUE
  BY DEF ReadBlanks, Read
<1>. HIDE DEF Def
<1>3. Loops("blanks", base, s, 0, 0)
  BY LoopIs
<1>4. PICK g : /\ Course(g, "blanks", base, s, 0, 0)
               /\ \E f : IsLoop(f, "blanks", base, s, 0, 0)
               /\ \A f : IsLoop(f, "blanks", base, s, 0, 0) => f[Len(s)] = {g[Len(s)]}
  BY <1>3 DEF Loops
<1>5. Def(after)
  BY <1>1, <1>4
<1>6. after[Len(s)] = {g[Len(s)]}
  BY <1>1, <1>4, <1>5
<1>7. ReadBlanks(base, s) = g[Len(s)]
  <2>. HIDE DEF after
  <2>. QED
    BY <1>2, <1>6
<1>. QED
  BY <1>4, <1>7 DEF Reads

ReadNtohl(base, s, data) == Read(LAMBDA n, b : n * data + b, base, s)

LEMMA ReadNtohlIs ==
  ASSUME NEW base, NEW s, Len(s) \in Nat, NEW data
  PROVE  Reads(ReadNtohl(base, s, data), "ntohl", base, s, data, 0)
<1>. DEFINE T(p, i) == p * data + s[i]
            Def(f) == f = [i \in 0..Len(s) |-> IF i = 0 THEN {base} ELSE {T(p, i) : p \in f[i - 1]}]
            after == CHOOSE f : Def(f)
<1>1. ASSUME NEW f PROVE Def(f) <=> IsLoop(f, "ntohl", base, s, data, 0)
  <2>. PICK B : B = f
    OBVIOUS
  <2>. DEFINE X(i) == {T(p, i) : p \in B[i - 1]}
  <2>1. \A i : X(i) = {Turn("ntohl", p, s[i], data, 0) : p \in B[i - 1]}
    BY DEF Turn
  <2>. HIDE DEF T
  <2>2. Def(f) <=> f = [i \in 0..Len(s) |-> IF i = 0 THEN {base} ELSE X(i)]
    OBVIOUS
  <2>. HIDE DEF X
  <2>3. Def(f) <=> /\ f = [i \in 0..Len(s) |-> f[i]]
                   /\ f[0] = {base} /\ \A i \in 1..Len(s) : f[i] = X(i)
    BY <2>2
  <2>. HIDE DEF Def
  <2>. QED
    BY <2>1, <2>3 DEF IsLoop
<1>2. ReadNtohl(base, s, data) = CHOOSE p \in after[Len(s)] : TRUE
  BY DEF ReadNtohl, Read
<1>. HIDE DEF Def
<1>3. Loops("ntohl", base, s, data, 0)
  BY LoopIs
<1>4. PICK g : /\ Course(g, "ntohl", base, s, data, 0)
               /\ \E f : IsLoop(f, "ntohl", base, s, data, 0)
               /\ \A f : IsLoop(f, "ntohl", base, s, data, 0) => f[Len(s)] = {g[Len(s)]}
  BY <1>3 DEF Loops
<1>5. Def(after)
  BY <1>1, <1>4
<1>6. after[Len(s)] = {g[Len(s)]}
  BY <1>1, <1>4, <1>5
<1>7. ReadNtohl(base, s, data) = g[Len(s)]
  <2>. HIDE DEF after
  <2>. QED
    BY <1>2, <1>6
<1>. QED
  BY <1>4, <1>7 DEF Reads

ReadDigits(base, s, data) == Read(LAMBDA n, b : n * data + xdigit(b), base, s)

LEMMA ReadDigitsIs ==
  ASSUME NEW base, NEW s, Len(s) \in Nat, NEW data
  PROVE  Reads(ReadDigits(base, s, data), "digits", base, s, data, 0)
<1>. DEFINE T(p, i) == p * data + xdigit(s[i])
            Def(f) == f = [i \in 0..Len(s) |-> IF i = 0 THEN {base} ELSE {T(p, i) : p \in f[i - 1]}]
            after == CHOOSE f : Def(f)
<1>1. ASSUME NEW f PROVE Def(f) <=> IsLoop(f, "digits", base, s, data, 0)
  <2>. PICK B : B = f
    OBVIOUS
  <2>. DEFINE X(i) == {T(p, i) : p \in B[i - 1]}
  <2>1. \A i : X(i) = {Turn("digits", p, s[i], data, 0) : p \in B[i - 1]}
    BY DEF Turn
  <2>. HIDE DEF T
  <2>2. Def(f) <=> f = [i \in 0..Len(s) |-> IF i = 0 THEN {base} ELSE X(i)]
    OBVIOUS
  <2>. HIDE DEF X
  <2>3. Def(f) <=> /\ f = [i \in 0..Len(s) |-> f[i]]
                   /\ f[0] = {base} /\ \A i \in 1..Len(s) : f[i] = X(i)
    BY <2>2
  <2>. HIDE DEF Def
  <2>. QED
    BY <2>1, <2>3 DEF IsLoop
<1>2. ReadDigits(base, s, data) = CHOOSE p \in after[Len(s)] : TRUE
  BY DEF ReadDigits, Read
<1>. HIDE DEF Def
<1>3. Loops("digits", base, s, data, 0)
  BY LoopIs
<1>4. PICK g : /\ Course(g, "digits", base, s, data, 0)
               /\ \E f : IsLoop(f, "digits", base, s, data, 0)
               /\ \A f : IsLoop(f, "digits", base, s, data, 0) => f[Len(s)] = {g[Len(s)]}
  BY <1>3 DEF Loops
<1>5. Def(after)
  BY <1>1, <1>4
<1>6. after[Len(s)] = {g[Len(s)]}
  BY <1>1, <1>4, <1>5
<1>7. ReadDigits(base, s, data) = g[Len(s)]
  <2>. HIDE DEF after
  <2>. QED
    BY <1>2, <1>6
<1>. QED
  BY <1>4, <1>7 DEF Reads

-----------------------------------------------------------------------------
(* Texts *)

IsText(s) == \E S : s \in Seq(S)

LEMMA TextLen ==
  ASSUME NEW s, IsText(s)
  PROVE  Len(s) \in Nat /\ DOMAIN s = 1..Len(s)
BY DEF IsText

LEMMA Indices ==
  ASSUME NEW s, IsText(s)
  PROVE  Len([i \in DOMAIN s |-> i]) = Len(s) /\ \A i \in 1..Len(s) : [j \in DOMAIN s |-> j][i] = i
<1>1. PICK S : s \in Seq(S)
  BY DEF IsText
<1>. QED
  BY <1>1

LEMMA SubText ==
  ASSUME NEW s, NEW i \in Int, NEW j \in Int
  PROVE  IsText(SubSeq(s, i, j))
<1>1. SubSeq(s, i, j) \in Seq({s[k] : k \in i..j})
  BY SubSeqProperties
<1>. QED
  BY <1>1 DEF IsText

LEMMA SingleText ==
  ASSUME NEW x
  PROVE  IsText(<<x>>)
<1>1. <<x>> \in Seq({x})
  OBVIOUS
<1>. QED
  BY <1>1 DEF IsText

LEMMA FromText ==
  ASSUME NEW s, Len(s) \in Nat, NEW i \in Int
  PROVE  IsText(From(s, i))
BY SubText DEF From

LEMMA MinNat ==
  ASSUME NEW S \in SUBSET Nat, S # {}
  PROVE  Min(S) \in S /\ \A y \in S : Min(S) <= y
<1>1. PICK x \in S : \A y \in S : ~ (<<y, x>> \in OpToRel(<, Nat))
  BY NatLessThanWellFounded, WFMin
<1>2. ASSUME NEW y \in S, y < x PROVE FALSE
  <2>1. <<y, x>> \in OpToRel(<, Nat)
    BY <1>2 DEF OpToRel
  <2>. QED
    BY <1>1, <2>1
<1>3. \A y \in S : x <= y
  BY <1>2
<1>. QED
  BY <1>3 DEF Min

LEMMA MaxNat ==
  ASSUME NEW n \in Nat, NEW S \in SUBSET (0..n), S # {}
  PROVE  Max(S) \in S /\ \A y \in S : y <= Max(S)
<1>. DEFINE R == {k \in 0..n : n - k \in S}
<1>1. R \in SUBSET Nat /\ R # {}
  <2>1. PICK y \in S : TRUE
    OBVIOUS
  <2>2. n - y \in 0..n /\ n - (n - y) = y
    BY <2>1
  <2>3. n - y \in R
    BY <2>1, <2>2
  <2>4. R \in SUBSET Nat
    OBVIOUS
  <2>. HIDE DEF R
  <2>. QED
    BY <2>3, <2>4
<1>2. PICK k \in R : \A y \in R : k <= y
  <2>. HIDE DEF R
  <2>. QED
    BY <1>1, MinNat
<1>3. n - k \in S /\ \A y \in S : y <= n - k
  <2>1. ASSUME NEW y \in S PROVE y <= n - k
    <3>1. n - y \in 0..n /\ n - (n - y) = y
      OBVIOUS
    <3>2. n - y \in R
      BY <3>1
    <3>. QED
      BY <1>2, <3>1, <3>2
  <2>. QED
    BY <1>2, <2>1
<1>. QED
  BY <1>3 DEF Max

LEMMA FoundAt ==
  ASSUME NEW s, IsText(s), NEW pattern, IsText(pattern)
  PROVE  strlstr(s, pattern) \in Nat
<1>. DEFINE at == {i \in 1..(Len(s) - Len(pattern) + 1) : SubSeq(s, i, i + Len(pattern) - 1) = pattern}
<1>1. at \in SUBSET Nat
  BY TextLen
<1>2. strlstr(s, pattern) = IF at = {} THEN 0 ELSE Min(at)
  BY DEF strlstr
<1>. HIDE DEF at
<1>3. CASE at # {}
  <2>1. Min(at) \in at
    BY <1>1, <1>3, MinNat
  <2>. QED
    BY <1>1, <1>2, <1>3, <2>1
<1>. QED
  BY <1>2, <1>3

LEMMA StripText ==
  ASSUME NEW s, IsText(s)
  PROVE  IsText(strlstrip(s))
<1>. DEFINE kept == {i \in DOMAIN s : ~isspace(s[i]) /\ s[i] # COLON}
<1>1. kept \in SUBSET (0..Len(s)) /\ Len(s) \in Nat
  BY TextLen
<1>2. strlstrip(s) = IF kept = {} THEN <<>> ELSE SubSeq(s, Min(kept), Max(kept))
  BY DEF strlstrip
<1>. HIDE DEF kept
<1>3. CASE kept = {}
  BY <1>2, <1>3 DEF IsText
<1>4. CASE kept # {}
  <2>1. Min(kept) \in kept /\ Max(kept) \in kept
    <3>1. kept \in SUBSET Nat /\ Len(s) \in Nat
      BY <1>1
    <3>2. Min(kept) \in kept
      BY <1>4, <3>1, MinNat
    <3>3. Max(kept) \in kept
      BY <1>1, <1>4, <3>1, MaxNat
    <3>. QED
      BY <3>2, <3>3
  <2>2. Min(kept) \in Int /\ Max(kept) \in Int
    <3>1. \A x \in kept : x \in Int
      BY <1>1
    <3>2. Min(kept) \in Int
      BY <2>1, <3>1
    <3>3. Max(kept) \in Int
      BY <2>1, <3>1
    <3>. QED
      BY <3>2, <3>3
  <2>3. IsText(SubSeq(s, Min(kept), Max(kept)))
    BY <2>2, SubText
  <2>. QED
    BY <1>2, <1>4, <2>3
<1>. QED
  BY <1>3, <1>4

-----------------------------------------------------------------------------
(* The loops leave the two fields alone *)

LEMMA FinishFramed ==
  ASSUME NEW r, NEW st, NEW n, Framed(r, st, n), NEW rest, NEW f, NEW v
  PROVE  Framed(Finish(r, rest, f), st, n)
<1>1. PICK s : s = <<rest, <<NUL>>>>
  OBVIOUS
<1>2. Len(s) \in Nat
  BY <1>1
<1>3. Reads(ReadAppend(r, s), "append", r, s, 0, 0)
  BY <1>2, ReadAppendIs
<1>4. Kept("call", r, st, n)
  BY DEF Kept
<1>5. ASSUME NEW q, NEW i, i \in 1..Len(s) /\ Kept("call", q, st, n)
      PROVE  Kept("call", Turn("append", q, s[i], 0, 0), st, n)
  BY <1>5, AppendArgFramed DEF Kept, Turn
<1>6. Kept("call", ReadAppend(r, s), st, n)
  BY <1>2, <1>3, <1>4, <1>5, KeptReads
<1>7. Finish(r, rest, f) = SetCur(ReadAppend(r, s), f, 1)
  BY <1>1 DEF Finish, ReadAppend
<1>. QED
  BY <1>6, <1>7, SetCurFramed DEF Kept

LEMMA NextArgFramed ==
  ASSUME NEW p, NEW st, NEW n, FramedIn(p, st, n), NEW data, NEW u
  PROVE  FramedIn(NextArg(p, data, u), st, n)
<1>1. PICK q : q = SetCur(http_append_arg(p.h, Run(p, data)), "complete_flag", 1)
  OBVIOUS
<1>2. Framed(q, st, n)
  BY <1>1, AppendArgFramed, SetCurFramed DEF FramedIn
<1>3. PICK r : r = [q EXCEPT !.url_arg_cnt = IF u THEN @ + 1 ELSE @]
  OBVIOUS
<1>4. Framed(r, st, n)
  BY <1>2, <1>3 DEF Framed
<1>5. PICK x : x = http_get_empty_arg(r)
  OBVIOUS
<1>6. Framed(x, st, n)
  BY <1>4, <1>5, EmptyArgFramed
<1>7. NextArg(p, data, u) = [h |-> x, tmp_data |-> NULL, tmp_len |-> 0, full |-> x.arg_cur = NULL]
  BY <1>1, <1>3, <1>5 DEF NextArg
<1>. QED
  BY <1>6, <1>7 DEF FramedIn

LEMMA EndNameFramed ==
  ASSUME NEW p, NEW st, NEW n, FramedIn(p, st, n), NEW data
  PROVE  FramedIn(EndName(p, data), st, n)
<1>1. PICK q : q = Finish(p.h, Run(p, data), "arg_flag")
  OBVIOUS
<1>2. Framed(q, st, n)
  BY <1>1, FinishFramed DEF FramedIn
<1>3. EndName(p, data) = IF p.h.arg[p.h.arg_cur].arg_flag = 1 THEN [p EXCEPT !.tmp_len = @ + 1]
                         ELSE [p EXCEPT !.h = q, !.tmp_data = NULL, !.tmp_len = 0]
  BY <1>1 DEF EndName
<1>. QED
  BY <1>2, <1>3 DEF FramedIn

LEMMA ArgCharFramed ==
  ASSUME NEW p, NEW st, NEW n, FramedIn(p, st, n), NEW i, NEW data, NEW u
  PROVE  FramedIn(ArgChar(p, i, data, u), st, n)
BY NextArgFramed, EndNameFramed, TakeCharFramed DEF ArgChar

LEMMA EndArgsFramed ==
  ASSUME NEW p, NEW st, NEW n, FramedIn(p, st, n), NEW data, NEW u
  PROVE  Framed(EndArgs(p, data, u), st, n)
<1>1. PICK q : q = Finish(p.h, Run(p, data), "complete_flag")
  OBVIOUS
<1>2. Framed(q, st, n) /\ Framed(http_append_arg(p.h, Run(p, data)), st, n) /\ Framed(p.h, st, n)
  BY <1>1, FinishFramed, AppendArgFramed DEF FramedIn
<1>3. EndArgs(p, data, u) = IF p.full THEN p.h
                            ELSE IF ~u /\ p.h.st # "NONE" THEN http_append_arg(p.h, Run(p, data))
                            ELSE [q EXCEPT !.url_arg_cnt = IF u THEN @ + 1 ELSE @]
  BY <1>1 DEF EndArgs
<1>4. Framed([q EXCEPT !.url_arg_cnt = IF u THEN @ + 1 ELSE @], st, n)
  BY <1>2 DEF Framed
<1>. QED
  BY <1>2, <1>3, <1>4

LEMMA ArgsFramed ==
  ASSUME NEW r, NEW st, NEW n, Framed(r, st, n), NEW data, IsText(data), NEW u
  PROVE  Framed(_http_parse_args(r, data, u), st, n)
<1>1. PICK open : open = IF r.arg_cur = NULL THEN http_get_empty_arg(r) ELSE r
  OBVIOUS
<1>2. Framed(open, st, n)
  BY <1>1, EmptyArgFramed
<1>3. PICK base : base = [h |-> open, tmp_data |-> NULL, tmp_len |-> 0, full |-> FALSE]
  OBVIOUS
<1>4. Kept("loop", base, st, n)
  BY <1>2, <1>3 DEF Kept, FramedIn
<1>5. PICK s : s = [i \in DOMAIN data |-> i]
  OBVIOUS
<1>6. Len(s) \in Nat
  BY <1>5, Indices, TextLen
<1>7. Reads(ReadArgs(base, s, data, u), "args", base, s, data, u)
  BY <1>6, ReadArgsIs
<1>8. ASSUME NEW q, NEW i, i \in 1..Len(s) /\ Kept("loop", q, st, n)
      PROVE  Kept("loop", Turn("args", q, s[i], data, u), st, n)
  BY <1>8, ArgCharFramed DEF Kept, Turn
<1>9. Kept("loop", ReadArgs(base, s, data, u), st, n)
  BY <1>4, <1>6, <1>7, <1>8, KeptReads
<1>10. _http_parse_args(r, data, u) =
         IF open.arg_cur = NULL THEN r ELSE EndArgs(ReadArgs(base, s, data, u), data, u)
  BY <1>1, <1>3, <1>5 DEF _http_parse_args, ReadArgs
<1>. QED
  BY <1>9, <1>10, EndArgsFramed DEF Kept

LEMMA BeginArgFramed ==
  ASSUME NEW p, NEW st, NEW n, FramedIn(p, st, n), NEW data
  PROVE  FramedIn(BeginArg(p, data), st, n)
<1>1. PICK label : LET name == http_get_form_lable_value(data, <<NAME_IS>>)
                   IN  label = IF name.found THEN name.value ELSE p.name
  OBVIOUS
<1>2. PICK slot : slot = http_get_empty_arg(p.h)
  OBVIOUS
<1>3. PICK q : q = Finish(slot, label, "arg_flag")
  OBVIOUS
<1>4. Framed(slot, st, n) /\ Framed(q, st, n)
  BY <1>2, <1>3, EmptyArgFramed, FinishFramed DEF FramedIn
<1>5. BeginArg(p, data) = IF p.h.form_flag = "FILE" THEN [p EXCEPT !.name = label]
                          ELSE IF slot.arg_cur = NULL THEN [p EXCEPT !.h = slot, !.full = TRUE]
                          ELSE [p EXCEPT !.h = q, !.name = label]
  BY <1>1, <1>2, <1>3 DEF BeginArg
<1>. QED
  BY <1>4, <1>5 DEF FramedIn

LEMMA FormHeaderFramed ==
  ASSUME NEW p, NEW st, NEW n, FramedIn(p, st, n), NEW c
  PROVE  FramedIn(FormHeader(p, c), st, n)
<1>1. PICK line : line = http_wait_line_str(p.h, c)
  OBVIOUS
<1>2. Framed(line.h, st, n)
  BY <1>1, LineFramed DEF FramedIn
<1>3. PICK body : body = [line.h EXCEPT !.form_status = "BODY"]
  OBVIOUS
<1>4. Framed(body, st, n)
  BY <1>2, <1>3 DEF Framed
<1>5. PICK data : data = Cached(p.h, c).cache_buf
  OBVIOUS
<1>6. PICK q : q = BeginFile(body, data)
  OBVIOUS
<1>7. Framed(q, st, n)
  BY <1>4, <1>6, BeginFileFramed
<1>8. FramedIn([p EXCEPT !.h = q], st, n) /\ FramedIn([p EXCEPT !.h = line.h], st, n)
  BY <1>2, <1>7 DEF FramedIn
<1>9. FormHeader(p, c) = IF line.found THEN BeginArg([p EXCEPT !.h = q], data) ELSE [p EXCEPT !.h = line.h]
  BY <1>1, <1>3, <1>5, <1>6 DEF FormHeader
<1>. QED
  BY <1>8, <1>9, BeginArgFramed

LEMMA FormCharFramed ==
  ASSUME NEW p, NEW st, NEW n, FramedIn(p, st, n), NEW c
  PROVE  FramedIn(FormChar(p, c), st, n)
<1>1. PICK a : a = FormBegin(p.h, c)
  OBVIOUS
<1>2. PICK b : b = FormBody(p.h, c)
  OBVIOUS
<1>3. Framed(a, st, n) /\ Framed(b, st, n)
  BY <1>1, <1>2, FormBeginFramed, FormBodyFramed DEF FramedIn
<1>4. FramedIn([p EXCEPT !.h = a], st, n) /\ FramedIn([p EXCEPT !.h = b], st, n)
  BY <1>3 DEF FramedIn
<1>5. p.h.form_status \in {"BEGIN", "HEADER", "BODY"}
  BY DEF FramedIn, Framed
<1>. QED
  BY <1>1, <1>2, <1>4, <1>5, FormHeaderFramed DEF FormChar

LEMMA FormFramed ==
  ASSUME NEW r, NEW st, NEW n, Framed(r, st, n), NEW data, Len(data) \in Nat
  PROVE  Framed(http_parse_form(r, data), st, n)
<1>1. PICK base : base = [h |-> r, name |-> <<>>, full |-> FALSE]
  OBVIOUS
<1>2. Kept("loop", base, st, n)
  BY <1>1 DEF Kept, FramedIn
<1>3. Reads(ReadForm(base, data), "form", base, data, 0, 0)
  BY ReadFormIs
<1>4. ASSUME NEW q, NEW i, i \in 1..Len(data) /\ Kept("loop", q, st, n)
      PROVE  Kept("loop", Turn("form", q, data[i], 0, 0), st, n)
  BY <1>4, FormCharFramed DEF Kept, Turn
<1>5. Kept("loop", ReadForm(base, data), st, n)
  BY <1>2, <1>3, <1>4, KeptReads
<1>6. ASSUME NEW p, FramedIn(p, st, n) PROVE Framed(EndForm(p), st, n)
  BY <1>6, TrimFileFramed DEF EndForm, FramedIn
<1>7. http_parse_form(r, data) = EndForm(ReadForm(base, data))
  BY <1>1 DEF http_parse_form, ReadForm
<1>. QED
  BY <1>5, <1>6, <1>7 DEF Kept

LEMMA RecvChunkFramed ==
  ASSUME NEW r, NEW st, NEW n, Framed(r, st, n), NEW data, Len(data) \in Nat
  PROVE  Framed(recv_chunk(r, data), st, n)
<1>1. PICK base : base = [h |-> r, stop |-> FALSE]
  OBVIOUS
<1>2. Kept("loop", base, st, n)
  BY <1>1 DEF Kept, FramedIn
<1>3. Reads(ReadChunk(base, data), "chunk", base, data, 0, 0)
  BY ReadChunkIs
<1>4. ASSUME NEW q, NEW i, i \in 1..Len(data) /\ Kept("loop", q, st, n)
      PROVE  Kept("loop", Turn("chunk", q, data[i], 0, 0), st, n)
  BY <1>4, ChunkFramed DEF Kept, Turn
<1>5. Kept("loop", ReadChunk(base, data), st, n)
  BY <1>2, <1>3, <1>4, KeptReads
<1>6. PICK q : q = ReadChunk(base, data).h
  OBVIOUS
<1>7. Framed(q, st, n)
  BY <1>5, <1>6 DEF Kept, FramedIn
<1>8. recv_chunk(r, data) = IF q.chunk_flag = "FIN" /\ q.un_recv_chunked_len = 0
                            THEN [q EXCEPT !.st = "NONE"] ELSE q
  BY <1>1, <1>6 DEF recv_chunk, ReadChunk, http_set_state
<1>. QED
  BY <1>7, <1>8 DEF Framed

LEMMA BodyFramed ==
  ASSUME NEW r, NEW st, NEW n, Framed(r, st, n), NEW data, IsText(data)
  PROVE  Framed(http_parse_body(r, data), st, n)
<1>1. PICK q : q = [r EXCEPT !.body_len = @ + Len(data)]
  OBVIOUS
<1>2. Framed(q, st, n)
  BY <1>1 DEF Framed
<1>3. PICK x : x = IF q.is_chunked THEN recv_chunk(q, data) ELSE http_set_state(q, "NONE")
  OBVIOUS
<1>4. Framed(http_set_state(q, "NONE"), st, n)
  BY <1>2 DEF Framed, http_set_state
<1>5. Framed(x, st, n)
  BY <1>2, <1>3, <1>4, RecvChunkFramed, TextLen
<1>6. Framed(http_parse_body_args(x, data), st, n)
  BY <1>5, FormFramed, ArgsFramed, TextLen DEF http_parse_body_args
<1>7. http_parse_body(r, data) = IF data = <<>> THEN r ELSE http_parse_body_args(x, data)
  BY <1>1, <1>3 DEF http_parse_body
<1>. QED
  BY <1>6, <1>7

-----------------------------------------------------------------------------
(* The head leaves the two fields alone, once its length is set *)

LEMMA ContentTypeFramed ==
  ASSUME NEW r, NEW st, NEW n, Framed(r, st, n), NEW text
  PROVE  Framed(http_get_content_type(r, text), st, n)
BY DEF Framed, http_get_content_type

LEMMA BoundaryFramed ==
  ASSUME NEW r, NEW st, NEW n, Framed(r, st, n), NEW text
  PROVE  Framed(get_post_boundary(r, text), st, n)
<1>1. PICK q : q = http_set_str(r, "boundary", text)
  OBVIOUS
<1>2. Framed(q, st, n)
  BY <1>1, StrFramed
<1>3. PICK end : end = RunEnd(text, 1, LAMBDA c : c = DASH)
  OBVIOUS
<1>4. get_post_boundary(r, text) = [q EXCEPT !.boundary_cnt = @ + end - 1 + 2]
  BY <1>1, <1>3 DEF get_post_boundary
<1>. QED
  BY <1>2, <1>4 DEF Framed

LEMMA TableFramed ==
  ASSUME NEW r, NEW st, NEW n, Framed(r, st, n), NEW text
  PROVE  Framed(parse_table_parsing(r, text), st, n)
<1>1. PICK kept : kept = From(text, RunEnd(text, 1, LAMBDA c : c \in {SP, TAB}))
  OBVIOUS
<1>2. parse_table_parsing(r, text) =
        IF kept = <<>> THEN r
        ELSE IF kept[1] = BOUNDARY_IS THEN get_post_boundary(r, Tail(kept))
        ELSE IF kept[1] = TYPE_IS THEN http_get_content_type(r, Tail(kept))
        ELSE r
  BY <1>1 DEF parse_table_parsing
<1>. QED
  BY <1>2, ContentTypeFramed, BoundaryFramed

LEMMA SplitPieces ==
  ASSUME NEW text, Len(text) \in Nat
  PROVE  Len(Tail(Split(text))) \in Nat
<1>1. PICK base : base = <<<<>>>>
  OBVIOUS
<1>2. Kept("pieces", base, 0, 0)
  <2>1. base \in Seq({<<>>}) /\ base # <<>>
    BY <1>1
  <2>. QED
    BY <2>1 DEF Kept
<1>3. Reads(ReadSplit(base, text), "split", base, text, 0, 0)
  BY ReadSplitIs
<1>4. ASSUME NEW q, NEW i, i \in 1..Len(text) /\ Kept("pieces", q, 0, 0)
      PROVE  Kept("pieces", Turn("split", q, text[i], 0, 0), 0, 0)
  <2>1. PICK S : q \in Seq(S) /\ q # <<>>
    BY <1>4 DEF Kept
  <2>2. PICK x : x = Append(Last(q), text[i])
    OBVIOUS
  <2>3. Append(q, <<>>) \in Seq(S \cup {<<>>}) /\ Append(q, <<>>) # <<>>
    BY <2>1
  <2>4. Append(Front(q), x) \in Seq(S \cup {x}) /\ Append(Front(q), x) # <<>>
    <3>1. Front(q) \in Seq(S)
      BY <2>1 DEF Front
    <3>2. Front(q) \in Seq(S \cup {x})
      BY <3>1
    <3>. HIDE DEF Front
    <3>. QED
      BY <3>2
  <2>5. Turn("split", q, text[i], 0, 0) \in {Append(q, <<>>), Append(Front(q), x)}
    BY <2>2 DEF Turn, CutAt
  <2>. QED
    BY <2>3, <2>4, <2>5 DEF Kept
<1>5. Kept("pieces", ReadSplit(base, text), 0, 0)
  BY <1>2, <1>3, <1>4, KeptReads
<1>6. Split(text) = ReadSplit(base, text)
  BY <1>1 DEF Split, ReadSplit, CutAt
<1>7. PICK S : Split(text) \in Seq(S) /\ Split(text) # <<>>
  BY <1>5, <1>6 DEF Kept
<1>. HIDE DEF Split
<1>. QED
  BY <1>7

LEMMA TypeFramed ==
  ASSUME NEW r, NEW st, NEW n, Framed(r, st, n), NEW value, Len(value) \in Nat
  PROVE  Framed(http_parse_content_type(r, value), st, n)
<1>1. PICK base : base = http_get_content_type(r, Head(Split(value)))
  OBVIOUS
<1>2. Framed(base, st, n)
  BY <1>1, ContentTypeFramed
<1>3. PICK s : s = IF base.content_type = "NA" \/ Len(value) - (Len(Head(Split(value))) + 1) >= MAX_TYPE
                   THEN <<>> ELSE Tail(Split(value))
  OBVIOUS
<1>4. Len(s) \in Nat
  BY <1>3, SplitPieces
<1>5. Reads(ReadTable(base, s), "table", base, s, 0, 0)
  BY <1>4, ReadTableIs
<1>6. ASSUME NEW q, NEW i, i \in 1..Len(s) /\ Kept("call", q, st, n)
      PROVE  Kept("call", Turn("table", q, s[i], 0, 0), st, n)
  BY <1>6, TableFramed DEF Kept, Turn
<1>7. Kept("call", ReadTable(base, s), st, n)
  <2>1. Kept("call", base, st, n)
    BY <1>2 DEF Kept
  <2>. QED
    BY <2>1, <1>4, <1>5, <1>6, KeptReads
<1>8. http_parse_content_type(r, value) = ReadTable(base, s)
  BY <1>1, <1>3 DEF http_parse_content_type, ReadTable
<1>. QED
  BY <1>7, <1>8 DEF Kept

LEMMA AuthFramed ==
  ASSUME NEW r, NEW st, NEW n, Framed(r, st, n), NEW value
  PROVE  Framed(parse_au(r, value), st, n)
<1>1. ASSUME NEW q, Framed(q, st, n) PROVE Framed(Decoded64(q), st, n)
  BY <1>1 DEF Framed, Decoded64
<1>2. ASSUME NEW q, Framed(q, st, n) PROVE Framed(UserAndPassword(q), st, n)
  BY <1>2, StrFramed DEF UserAndPassword
<1>3. Framed(UserAndPassword(Decoded64(http_set_str(r, "auth", strlstrip(Tail(value))))), st, n)
  BY <1>1, <1>2, StrFramed
<1>. QED
  BY <1>3, StrFramed DEF parse_au

LEMMA FieldFramed ==
  ASSUME NEW r, NEW st, NEW n, Framed(r, st, n), NEW name, NEW value, Len(value) \in Nat
  PROVE  Framed(http_match_header_table(r, name, value), st, n)
<1>1. Framed([r EXCEPT !.is_chunked = TRUE], st, n)
  BY DEF Framed
<1>2. ASSUME NEW k PROVE Framed([r EXCEPT !.str.cookie = http_append_str(@, value), !.header_cookie_num = k], st, n)
  BY DEF Framed
<1>3. ASSUME NEW k PROVE Framed([r EXCEPT !.header_range_num = k], st, n)
  BY DEF Framed
<1>4. Framed(http_parse_content_type(http_set_str(r, http_header_str[CONTENT_TYPE], value), value), st, n)
  BY StrFramed, TypeFramed
<1>5. Framed(parse_conl(r, value), st, n)
  BY DEF Framed, parse_conl
<1>. HIDE DEF http_parse_content_type
<1>. QED
  BY <1>1, <1>2, <1>3, <1>4, <1>5, AuthFramed, StrFramed DEF http_match_header_table

LEMMA UrlFramed ==
  ASSUME NEW r, NEW st, NEW n, Framed(r, st, n), NEW data, IsText(data)
  PROVE  Framed(http_myparse_method(r, data), st, n)
<1>1. PICK line : line = SubSeq(data, 1, Len(data) - 2)
  OBVIOUS
<1>2. PICK text : text = strlstrip(line)
  OBVIOUS
<1>3. IsText(line) /\ IsText(text)
  BY <1>1, <1>2, SubText, StripText, TextLen
<1>4. PICK begin : begin = RunEnd(line, 1, LAMBDA c : isspace(c) \/ c = COLON)
  OBVIOUS
<1>5. begin \in Nat
  <2>. DEFINE others == {j \in 1..Len(line) : ~(isspace(line[j]) \/ line[j] = COLON)}
  <2>1. begin = IF others = {} THEN Len(line) + 1 ELSE Min(others)
    BY <1>4 DEF RunEnd
  <2>2. others \in SUBSET Nat /\ Len(line) \in Nat
    BY <1>3, TextLen
  <2>3. others # {} => Min(others) \in Nat
    BY <2>2, MinNat
  <2>. QED
    BY <2>1, <2>2, <2>3
<1>6. PICK tmp : tmp = strlstr(data, <<QUESTION>>)
  OBVIOUS
<1>7. tmp \in Nat
  BY <1>6, SingleText, FoundAt
<1>8. PICK raw : raw = IF text = <<>> THEN r ELSE [r EXCEPT !.str.raw_url = text]
  OBVIOUS
<1>9. PICK whole : whole = http_set_str(raw, "url_and_arg", text)
  OBVIOUS
<1>10. Framed(raw, st, n)
  BY <1>8 DEF Framed
<1>11. Framed(whole, st, n)
  BY <1>9, <1>10, StrFramed
<1>12. Framed(http_set_str(whole, "url", text), st, n)
  BY <1>11, StrFramed
<1>13. PICK q : q = http_set_str(whole, "url", SubSeq(data, begin, tmp - 1))
  OBVIOUS
<1>14. PICK args : args = SubSeq(data, tmp + 1, begin + Len(text) - 1)
  OBVIOUS
<1>15. Framed(q, st, n) /\ IsText(args)
  BY <1>3, <1>5, <1>7, <1>11, <1>13, <1>14, StrFramed, SubText, TextLen
<1>16. Framed(UrlArgs(q, args), st, n)
  <2>1. PICK x : x = _http_parse_args(q, args, TRUE)
    OBVIOUS
  <2>2. Framed(x, st, n)
    BY <1>15, <2>1, ArgsFramed
  <2>3. Framed([x EXCEPT !.arg_cur = NULL], st, n)
    BY <2>2 DEF Framed
  <2>. QED
    BY <2>1, <2>3 DEF UrlArgs
<1>17. http_myparse_method(r, data) =
         IF tmp = 0 THEN http_set_str(whole, "url", text) ELSE UrlArgs(q, args)
  BY <1>1, <1>2, <1>4, <1>6, <1>8, <1>9, <1>13, <1>14 DEF http_myparse_method
<1>. QED
  BY <1>12, <1>16, <1>17

LEMMA MethodFramed ==
  ASSUME NEW r, NEW st, NEW n, Framed(r, st, n), NEW line, IsText(line)
  PROVE  Framed(parse_method(r, line), st, n)
<1>1. PICK blank : blank = strlstr(line, <<SP>>)
  OBVIOUS
<1>2. blank \in Nat
  <2>1. IsText(<<SP>>)
    BY SingleText
  <2>. QED
    BY <1>1, <2>1, FoundAt
<1>3. PICK m : LET method == strlstrip(SubSeq(line, 1, blank - 1))
               IN  m = IF Len(method) = 1 THEN MethodValue(method[1]) ELSE METHOD_NA
  OBVIOUS
<1>4. PICK q : q = [r EXCEPT !.method = m]
  OBVIOUS
<1>5. Framed(q, st, n)
  BY <1>4 DEF Framed
<1>6. IsText(From(line, blank + 1))
  BY <1>2, FromText, TextLen
<1>7. parse_method(r, line) = IF blank = 0 THEN r ELSE http_myparse_method(q, From(line, blank + 1))
  BY <1>1, <1>3, <1>4 DEF parse_method
<1>. QED
  BY <1>5, <1>6, <1>7, UrlFramed

LEMMA LineParseFramed ==
  ASSUME NEW r, NEW st, NEW n, Framed(r, st, n), NEW line, IsText(line), NEW split \in Int,
         NEW seen, NEW num
  PROVE  Framed(http_parse_line(r, line, split, seen, num), st, n)
<1>1. PICK q : q = [r EXCEPT !.max_header_line_len = IF Len(line) > @ THEN Len(line) ELSE @]
  OBVIOUS
<1>2. Framed(q, st, n)
  BY <1>1 DEF Framed
<1>3. PICK value : value = strlstrip(From(line, split))
  OBVIOUS
<1>4. Len(value) \in Nat
  BY <1>3, StripText, FromText, TextLen
<1>5. PICK name : name = strlstrip(SubSeq(line, 1, split - 1))
  OBVIOUS
<1>6. http_parse_line(r, line, split, seen, num) =
        IF num = 0 THEN parse_method(r, line)
        ELSE IF ~seen THEN r
        ELSE IF split < 1 THEN q
        ELSE http_match_header_table(q, name, value)
  BY <1>1, <1>3, <1>5 DEF http_parse_line
<1>. QED
  BY <1>2, <1>4, <1>6, MethodFramed, FieldFramed

LEMMA HeadCharKept ==
  ASSUME NEW l, NEW st, NEW n, Kept("line", l, st, n), NEW data, NEW i \in Nat
  PROVE  Kept("line", HeadChar(l, i, data), st, n)
<1>1. FramedIn(l, st, n) /\ l.begin \in Nat /\ l.split \in Nat /\ {"begin", "split"} \subseteq DOMAIN l
  BY DEF Kept
<1>2. PICK kind : kind = IF data[i] = CR THEN "cr" ELSE IF data[i] = LF THEN "lf" ELSE "other"
  OBVIOUS
<1>3. PICK s : s = http_header_state[l.st][kind]
  OBVIOUS
<1>4. PICK colon : colon = (data[i] = COLON /\ ~l.tmp_flag)
  OBVIOUS
<1>5. PICK flag : flag = l.flag \cup FlagOf(data[i])
  OBVIOUS
<1>6. PICK split : split = IF data[i] = COLON /\ ~l.tmp_flag THEN i ELSE l.split
  OBVIOUS
<1>7. split \in Nat /\ split - l.begin + 1 \in Int
  BY <1>1, <1>6
<1>8. PICK line : line = SubSeq(data, l.begin, i - 2)
  OBVIOUS
<1>9. IsText(line)
  BY <1>1, <1>8, SubText
<1>10. PICK q : q = [l.h EXCEPT !.tmp_flag = flag]
  OBVIOUS
<1>11. Framed(q, st, n)
  BY <1>1, <1>10 DEF FramedIn, Framed
<1>12. PICK x : x = http_parse_line(q, line, split - l.begin + 1, split # NULL, l.num)
  OBVIOUS
<1>13. Framed(x, st, n)
  BY <1>7, <1>9, <1>11, <1>12, LineParseFramed
<1>14. Framed([x EXCEPT !.header_line_num = @ + 1], st, n)
  BY <1>13 DEF Framed
<1>15. HeadChar(l, i, data) =
         IF s = "N1"
         THEN [st |-> "CHAR0", begin |-> l.begin, split |-> split, tmp_flag |-> FALSE, flag |-> {},
               num |-> l.num + 1, h |-> [x EXCEPT !.header_line_num = @ + 1]]
         ELSE [l EXCEPT !.st = s, !.begin = IF s = "CHAR1" THEN i ELSE @, !.split = split,
                        !.tmp_flag = @ \/ (data[i] = COLON /\ ~l.tmp_flag), !.flag = flag]
  BY <1>2, <1>3, <1>5, <1>6, <1>8, <1>10, <1>12 DEF HeadChar
<1>16. CASE s = "N1"
  BY <1>1, <1>7, <1>14, <1>15, <1>16 DEF Kept, FramedIn
<1>17. CASE s # "N1"
  BY <1>1, <1>7, <1>15, <1>17 DEF Kept, FramedIn
<1>. QED
  BY <1>16, <1>17

(* http_parse_head *)
LEMMA HeadFramed ==
  ASSUME NEW r, NEW st, NEW m, Framed(r, st, m), NEW data, IsText(data)
  PROVE  Framed(http_parse_head(r, data), st, Len(data))
<1>1. PICK q : q = [http_init(r) EXCEPT !.header_len = Len(data)]
  OBVIOUS
<1>2. Framed(q, st, Len(data))
  BY <1>1, InitFramed
<1>3. PICK base : base = [st |-> "CHAR0", begin |-> NULL, split |-> NULL, tmp_flag |-> FALSE,
                          flag |-> {}, num |-> 0, h |-> q]
  OBVIOUS
<1>4. Kept("line", base, st, Len(data))
  BY <1>2, <1>3 DEF Kept, FramedIn, NULL
<1>5. PICK s : s = [i \in DOMAIN data |-> i]
  OBVIOUS
<1>6. Len(s) \in Nat /\ \A i \in 1..Len(s) : s[i] \in Nat
  <2>1. Len(data) \in Nat /\ Len(s) = Len(data) /\ \A i \in 1..Len(data) : s[i] = i
    BY <1>5, Indices, TextLen
  <2>. QED
    BY <2>1
<1>7. Reads(ReadHead(base, s, data), "head", base, s, data, 0)
  BY <1>6, ReadHeadIs
<1>8. ASSUME NEW l, NEW i, i \in 1..Len(s) /\ Kept("line", l, st, Len(data))
      PROVE  Kept("line", Turn("head", l, s[i], data, 0), st, Len(data))
  BY <1>6, <1>8, HeadCharKept DEF Turn
<1>9. Kept("line", ReadHead(base, s, data), st, Len(data))
  BY <1>4, <1>6, <1>7, <1>8, KeptReads
<1>10. http_parse_head(r, data) = http_set_state(ReadHead(base, s, data).h, "HEAD")
  BY <1>1, <1>3, <1>5 DEF http_parse_head, ReadHead
<1>. QED
  BY <1>9, <1>10 DEF Kept, FramedIn, Framed, http_set_state

-----------------------------------------------------------------------------
(* The search for the end of a head *)

(* The k characters up to i are those that the end of a head begins with. *)
Begun(T, i, k) == k <= i /\ \A j \in 1..k : T[i - k + j] = jump_buf[j]

(* k is the most of them. *)
Longest(T, i, k) == Begun(T, i, k) /\ \A m \in (k + 1)..4 : ~Begun(T, i, m)

(* No head ends up to n; the first one ends at e. *)
NoEnd(T, n) == \A i \in 0..n : ~Begun(T, i, 4)
FirstEnd(T, e) == Begun(T, e, 4) /\ NoEnd(T, e - 1)

LEMMA Twice ==
  ASSUME NEW a, NEW b
  PROVE  <<a, b>> \o <<a, b>> = <<a, b, a, b>>
<1>1. PICK s : s = <<a, b>>
  OBVIOUS
<1>2. s \in Seq({a, b}) /\ Len(s) = 2 /\ s[1] = a /\ s[2] = b
  BY <1>1
<1>3. PICK t : t = s \o s
  OBVIOUS
<1>4. /\ t \in Seq({a, b}) /\ Len(t) = Len(s) + Len(s)
      /\ \A i \in 1..(Len(s) + Len(s)) : t[i] = IF i <= Len(s) THEN s[i] ELSE s[i - Len(s)]
  BY <1>2, <1>3, ConcatProperties, ZenonT(60)
<1>5. Len(t) = 4 /\ t[1] = a /\ t[2] = b /\ t[3] = a /\ t[4] = b
  BY <1>2, <1>4
<1>6. t = <<a, b, a, b>>
  <2>1. PICK u : u = <<a, b, a, b>>
    OBVIOUS
  <2>2. u \in Seq({a, b}) /\ Len(u) = 4 /\ u[1] = a /\ u[2] = b /\ u[3] = a /\ u[4] = b
    BY <2>1
  <2>3. \A i \in 1..Len(t) : t[i] = u[i]
    BY <1>5, <2>2
  <2>. QED
    BY <1>4, <1>5, <2>1, <2>2, <2>3, SeqEqual
<1>. QED
  BY <1>1, <1>3, <1>5, <1>6

LEMMA JumpBuf == /\ jump_buf = <<CR, LF, CR, LF>> /\ Len(jump_buf) = 4 /\ IsText(jump_buf)
                 /\ jump_buf[1] = CR /\ jump_buf[2] = LF /\ jump_buf[3] = CR /\ jump_buf[4] = LF
<1>1. jump_buf = <<CR, LF, CR, LF>>
  <2>1. <<CR, LF>> \o <<CR, LF>> = <<CR, LF, CR, LF>>
    BY Twice
  <2>. QED
    BY <2>1 DEF jump_buf, CRLF
<1>2. <<CR, LF, CR, LF>> \in Seq({CR, LF})
  OBVIOUS
<1>. QED
  BY <1>1, <1>2 DEF IsText

LEMMA AtNext ==
  ASSUME NEW T, NEW i \in Nat, NEW k \in 0..3
  PROVE  Begun(T, i + 1, k + 1) <=> Begun(T, i, k) /\ T[i + 1] = jump_buf[k + 1]
<1>1. k + 1 <= i + 1 <=> k <= i
  OBVIOUS
<1>2. \A j \in 1..(k + 1) : (i + 1) - (k + 1) + j = i - k + j
  OBVIOUS
<1>3. (i + 1) - (k + 1) + (k + 1) = i + 1
  OBVIOUS
<1>4. 1..(k + 1) = (1..k) \cup {k + 1}
  OBVIOUS
<1>. QED
  BY <1>1, <1>2, <1>3, <1>4 DEF Begun

LEMMA AtNone ==
  ASSUME NEW T, NEW i \in Nat
  PROVE  Begun(T, i, 0)
BY DEF Begun

(* The beginnings that end alike. *)
LEMMA AtShorter ==
  ASSUME NEW T, NEW i \in Nat
  PROVE  /\ Begun(T, i, 3) => Begun(T, i, 1)
         /\ Begun(T, i, 4) => Begun(T, i, 2)
         /\ Begun(T, i, 1) => ~Begun(T, i, 2)
<1>1. Begun(T, 0, 0) /\ ~Begun(T, 0, 1) /\ ~Begun(T, 0, 2) /\ ~Begun(T, 0, 3) /\ ~Begun(T, 0, 4)
  BY DEF Begun
<1>2. CASE i = 0
  BY <1>1, <1>2
<1>3. CASE i # 0
  <2>. DEFINE a == i - 1
  <2>1. a \in Nat /\ i = a + 1
    BY <1>3
  <2>. HIDE DEF a
  <2>2. /\ Begun(T, i, 1) <=> Begun(T, a, 0) /\ T[i] = CR
        /\ Begun(T, i, 2) <=> Begun(T, a, 1) /\ T[i] = LF
        /\ Begun(T, i, 3) <=> Begun(T, a, 2) /\ T[i] = CR
        /\ Begun(T, i, 4) <=> Begun(T, a, 3) /\ T[i] = LF
    <3>1. Begun(T, a + 1, 0 + 1) <=> Begun(T, a, 0) /\ T[a + 1] = jump_buf[0 + 1]
      BY <2>1, AtNext
    <3>2. Begun(T, a + 1, 1 + 1) <=> Begun(T, a, 1) /\ T[a + 1] = jump_buf[1 + 1]
      BY <2>1, AtNext
    <3>3. Begun(T, a + 1, 2 + 1) <=> Begun(T, a, 2) /\ T[a + 1] = jump_buf[2 + 1]
      BY <2>1, AtNext
    <3>4. Begun(T, a + 1, 3 + 1) <=> Begun(T, a, 3) /\ T[a + 1] = jump_buf[3 + 1]
      BY <2>1, AtNext
    <3>. QED
      BY <2>1, <3>1, <3>2, <3>3, <3>4, JumpBuf
  <2>3. Begun(T, a, 0)
    BY <2>1, AtNone
  <2>4. Begun(T, i, 1) => ~Begun(T, i, 2)
    BY <2>2 DEF CR, LF
  <2>5. Begun(T, a, 3) => Begun(T, a, 1)
    <3>1. CASE a = 0
      BY <1>1, <3>1
    <3>2. CASE a # 0
      <4>. DEFINE b == a - 1
      <4>1. b \in Nat /\ a = b + 1
        BY <2>1, <3>2
      <4>. HIDE DEF b
      <4>2. Begun(T, b + 1, 0 + 1) <=> Begun(T, b, 0) /\ T[b + 1] = jump_buf[0 + 1]
        BY <4>1, AtNext
      <4>3. Begun(T, b + 1, 2 + 1) <=> Begun(T, b, 2) /\ T[b + 1] = jump_buf[2 + 1]
        BY <4>1, AtNext
      <4>. QED
        BY <4>1, <4>2, <4>3, AtNone, JumpBuf
    <3>. QED
      BY <3>1, <3>2
  <2>. QED
    BY <2>2, <2>3, <2>4, <2>5
<1>. QED
  BY <1>2, <1>3

(* JumpNext keeps the most of them. *)
LEMMA JumpStep ==
  ASSUME NEW T, NEW i \in Nat, NEW k \in 0..3, Longest(T, i, k)
  PROVE  /\ JumpNext(k, T[i + 1]) \in 0..4
         /\ Longest(T, i + 1, JumpNext(k, T[i + 1]))
<1>. DEFINE c == T[i + 1]
<1>1. /\ Begun(T, i + 1, 1) <=> c = CR
      /\ Begun(T, i + 1, 2) <=> Begun(T, i, 1) /\ c = LF
      /\ Begun(T, i + 1, 3) <=> Begun(T, i, 2) /\ c = CR
      /\ Begun(T, i + 1, 4) <=> Begun(T, i, 3) /\ c = LF
  <2>1. Begun(T, i + 1, 0 + 1) <=> Begun(T, i, 0) /\ c = jump_buf[0 + 1]
    BY AtNext
  <2>2. Begun(T, i + 1, 1 + 1) <=> Begun(T, i, 1) /\ c = jump_buf[1 + 1]
    BY AtNext
  <2>3. Begun(T, i + 1, 2 + 1) <=> Begun(T, i, 2) /\ c = jump_buf[2 + 1]
    BY AtNext
  <2>4. Begun(T, i + 1, 3 + 1) <=> Begun(T, i, 3) /\ c = jump_buf[3 + 1]
    BY AtNext
  <2>. HIDE DEF c
  <2>. QED
    BY <2>1, <2>2, <2>3, <2>4, AtNone, JumpBuf
<1>2. Begun(T, i + 1, 0)
  BY AtNone
<1>3. /\ Begun(T, i, 3) => Begun(T, i, 1)
      /\ Begun(T, i, 4) => Begun(T, i, 2)
      /\ Begun(T, i, 1) => ~Begun(T, i, 2)
  BY AtShorter
<1>4. JumpNext(k, c) = IF c = jump_buf[k + 1] THEN k + 1 ELSE IF c = CR THEN 1 ELSE 0
  BY JumpBuf DEF JumpNext
<1>. HIDE DEF c
<1>5. /\ Longest(T, i + 1, 4) <=> Begun(T, i + 1, 4)
      /\ Longest(T, i + 1, 3) <=> Begun(T, i + 1, 3) /\ ~Begun(T, i + 1, 4)
      /\ Longest(T, i + 1, 2) <=> Begun(T, i + 1, 2) /\ ~Begun(T, i + 1, 3) /\ ~Begun(T, i + 1, 4)
      /\ Longest(T, i + 1, 1) <=> Begun(T, i + 1, 1) /\ ~Begun(T, i + 1, 2) /\ ~Begun(T, i + 1, 3) /\ ~Begun(T, i + 1, 4)
      /\ Longest(T, i + 1, 0) <=> ~Begun(T, i + 1, 1) /\ ~Begun(T, i + 1, 2) /\ ~Begun(T, i + 1, 3) /\ ~Begun(T, i + 1, 4)
  <2>1. 5..4 = {} /\ 4..4 = {4} /\ 3..4 = {3, 4} /\ 2..4 = {2, 3, 4} /\ 1..4 = {1, 2, 3, 4}
    OBVIOUS
  <2>. QED
    BY <1>2, <2>1 DEF Longest
<1>6. CR # LF
  BY DEF CR, LF
<1>7. CASE k = 0
  <2>1. ~Begun(T, i, 1) /\ ~Begun(T, i, 2) /\ ~Begun(T, i, 3)
    BY <1>7 DEF Longest
  <2>2. JumpNext(k, c) = IF c = CR THEN 1 ELSE 0
    BY <1>4, <1>7, JumpBuf
  <2>. QED
    BY <1>1, <1>5, <1>6, <2>1, <2>2 DEF c
<1>8. CASE k = 1
  <2>1. Begun(T, i, 1) /\ ~Begun(T, i, 2) /\ ~Begun(T, i, 3)
    BY <1>8 DEF Longest
  <2>2. JumpNext(k, c) = IF c = LF THEN 2 ELSE IF c = CR THEN 1 ELSE 0
    BY <1>4, <1>8, JumpBuf
  <2>. QED
    BY <1>1, <1>5, <1>6, <2>1, <2>2 DEF c
<1>9. CASE k = 2
  <2>1. ~Begun(T, i, 1) /\ Begun(T, i, 2) /\ ~Begun(T, i, 3)
    BY <1>3, <1>9 DEF Longest
  <2>2. JumpNext(k, c) = IF c = CR THEN 3 ELSE 0
    BY <1>4, <1>9, JumpBuf
  <2>. QED
    BY <1>1, <1>5, <1>6, <2>1, <2>2 DEF c
<1>10. CASE k = 3
  <2>1. Begun(T, i, 1) /\ ~Begun(T, i, 2) /\ Begun(T, i, 3)
    BY <1>3, <1>10 DEF Longest
  <2>2. JumpNext(k, c) = IF c = LF THEN 4 ELSE IF c = CR THEN 1 ELSE 0
    BY <1>4, <1>10, JumpBuf
  <2>. QED
    BY <1>1, <1>5, <1>6, <2>1, <2>2 DEF c
<1>. QED
  BY <1>7, <1>8, <1>9, <1>10

IsPiece(buf, T, a, m) == IsText(buf) /\ Len(buf) = m /\ \A i \in 1..m : buf[i] = T[a + i]

LEMMA PieceIs ==
  ASSUME NEW T, NEW a \in Nat, NEW m \in Nat, NEW buf, buf = SubSeq(T, a + 1, a + m)
  PROVE  IsPiece(buf, T, a, m)
<1>1. a + m - (a + 1) + 1 = m /\ (a + 1 <= a + m + 1)
  OBVIOUS
<1>2. IsText(buf)
  BY SubText
<1>3. Len(buf) = m
  BY <1>1, SubSeqProperties
<1>4. ASSUME NEW i \in 1..m PROVE buf[i] = T[a + i]
  <2>1. i \in 1..(a + m - (a + 1) + 1) /\ (a + 1) + i - 1 = a + i
    BY <1>1
  <2>. QED
    BY <2>1, SubSeqProperties
<1>. QED
  BY <1>2, <1>3, <1>4 DEF IsPiece

(* s_http_parse, from any state *)
LEMMA ScanBounds ==
  ASSUME NEW state \in 0..4, NEW data, Len(data) \in Nat
  PROVE  s_http_parse(state, data).state \in 0..4 /\ s_http_parse(state, data).n \in Nat
<1>1. PICK base : base = [state |-> state, n |-> 0]
  OBVIOUS
<1>2. s_http_parse(state, data) = ReadScan(base, data)
  BY <1>1 DEF s_http_parse, ReadScan, ScanChar
<1>3. Reads(ReadScan(base, data), "scan", base, data, 0, 0)
  BY ReadScanIs
<1>4. PICK g : Course(g, "scan", base, data, 0, 0) /\ ReadScan(base, data) = g[Len(data)]
  BY <1>3 DEF Reads
<1>. DEFINE S == {i \in 0..Len(data) : g[i].state \in 0..4 /\ g[i].n \in Nat}
<1>5. 0 \in S
  BY <1>1, <1>4 DEF Course
<1>6. ASSUME NEW i \in 0..Len(data), i \in S, i < Len(data) PROVE i + 1 \in S
  <2>1. i + 1 \in 1..Len(data) /\ (i + 1) - 1 = i
    BY <1>6
  <2>2. g[i + 1] = ScanChar(g[i], data[i + 1])
    BY <1>4, <2>1 DEF Course, Turn
  <2>3. JumpNext(g[i].state, data[i + 1]) \in 0..4
    BY <1>6 DEF JumpNext
  <2>. QED
    BY <1>6, <2>1, <2>2, <2>3 DEF ScanChar
<1>7. \A i \in 0..Len(data) : i \in S
  <2>. HIDE DEF S
  <2>. QED
    BY <1>5, <1>6, UpTo
<1>. QED
  BY <1>2, <1>4, <1>7

(* s_http_parse, where no head has ended yet: it has as many of the        *)
(* characters as there are before the end of data, or stops at the end of  *)
(* the head.                                                               *)
LEMMA ScanFinds ==
  ASSUME NEW T, NEW a \in Nat, NEW m \in Nat, NEW k \in 0..3, Longest(T, a, k), NoEnd(T, a),
         NEW p, p = s_http_parse(k, SubSeq(T, a + 1, a + m))
  PROVE  /\ p.state \in 0..4 /\ p.n \in 0..m
         /\ p.state < 4 => Longest(T, a + m, p.state) /\ NoEnd(T, a + m)
         /\ p.state = 4 => p.n > 0 /\ FirstEnd(T, a + p.n)
<1>1. PICK base : base = [state |-> k, n |-> 0]
  OBVIOUS
<1>2. PICK data : data = SubSeq(T, a + 1, a + m)
  OBVIOUS
<1>3. Len(data) = m /\ \A i \in 1..m : data[i] = T[a + i]
  <2>1. IsPiece(data, T, a, m)
    BY <1>2, PieceIs
  <2>. QED
    BY <2>1 DEF IsPiece
<1>4. p = ReadScan(base, data)
  BY <1>1, <1>2 DEF s_http_parse, ReadScan, ScanChar
<1>5. Reads(ReadScan(base, data), "scan", base, data, 0, 0)
  BY <1>3, ReadScanIs
<1>6. PICK g : Course(g, "scan", base, data, 0, 0) /\ p = g[m]
  BY <1>3, <1>4, <1>5 DEF Reads
<1>. DEFINE Found(i, r) ==
              /\ r.state \in 0..4 /\ r.n \in 0..i
              /\ r.state < 4 => r.n = i /\ Longest(T, a + i, r.state) /\ NoEnd(T, a + i)
              /\ r.state = 4 => r.n > 0 /\ FirstEnd(T, a + r.n)
            S == {i \in 0..m : Found(i, g[i])}
<1>7. 0 \in S
  <2>1. g[0] = base /\ a + 0 = a
    BY <1>6 DEF Course
  <2>. QED
    BY <1>1, <2>1
<1>8. ASSUME NEW i \in 0..m, i \in S, i < m PROVE i + 1 \in S
  <2>1. i + 1 \in 1..m /\ (i + 1) - 1 = i /\ i + 1 \in 0..m
    BY <1>8
  <2>2. PICK r : r = g[i]
    OBVIOUS
  <2>3. Found(i, r)
    BY <1>8, <2>2
  <2>4. g[i + 1] = ScanChar(r, data[i + 1])
    BY <1>3, <1>6, <2>1, <2>2 DEF Course, Turn
  <2>5. CASE r.state = 4
    <3>1. g[i + 1] = r
      BY <2>3, <2>4, <2>5 DEF ScanChar
    <3>. QED
      BY <2>1, <2>3, <2>5, <3>1
  <2>6. CASE r.state < 4
    <3>1. r.n = i /\ Longest(T, a + i, r.state) /\ NoEnd(T, a + i) /\ r.state \in 0..3
      BY <2>3, <2>6
    <3>2. PICK s : s = JumpNext(r.state, T[(a + i) + 1])
      OBVIOUS
    <3>3. s \in 0..4 /\ Longest(T, (a + i) + 1, s)
      BY <3>1, <3>2, JumpStep
    <3>4. data[i + 1] = T[(a + i) + 1]
      <4>1. a + (i + 1) = (a + i) + 1
        OBVIOUS
      <4>. QED
        BY <1>3, <2>1, <4>1
    <3>5. g[i + 1] = [state |-> s, n |-> i + 1]
      BY <2>4, <2>6, <3>1, <3>2, <3>4 DEF ScanChar
    <3>6. a + (i + 1) = (a + i) + 1
      OBVIOUS
    <3>7. CASE s < 4
      <4>1. ~Begun(T, (a + i) + 1, 4)
        BY <3>3, <3>7 DEF Longest
      <4>2. NoEnd(T, (a + i) + 1)
        <5>1. 0..((a + i) + 1) = (0..(a + i)) \cup {(a + i) + 1}
          OBVIOUS
        <5>. QED
          BY <3>1, <4>1, <5>1 DEF NoEnd
      <4>3. Found(i + 1, [state |-> s, n |-> i + 1])
        BY <3>3, <3>6, <3>7, <4>2
      <4>. HIDE DEF Found
      <4>. QED
        BY <2>1, <3>5, <4>3
    <3>8. CASE s = 4
      <4>1. Begun(T, (a + i) + 1, 4)
        BY <3>3, <3>8 DEF Longest
      <4>2. FirstEnd(T, (a + i) + 1)
        <5>1. (a + i) + 1 - 1 = a + i
          OBVIOUS
        <5>. QED
          BY <3>1, <4>1, <5>1 DEF FirstEnd
      <4>3. Found(i + 1, [state |-> s, n |-> i + 1])
        BY <3>3, <3>6, <3>8, <4>2
      <4>. HIDE DEF Found
      <4>. QED
        BY <2>1, <3>5, <4>3
    <3>. QED
      BY <3>3, <3>7, <3>8
  <2>. QED
    BY <2>3, <2>5, <2>6
<1>9. \A i \in 0..m : i \in S
  <2>. HIDE DEF S
  <2>. QED
    BY <1>7, <1>8, UpTo
<1>10. Found(m, p)
  <2>. HIDE DEF Found
  <2>. QED
    BY <1>6, <1>9
<1>. QED
  BY <1>10

-----------------------------------------------------------------------------
(* The inductive invariant *)

(* The packets are pieces of the text, one behind the other. *)
CutsOK ==
  /\ layout.text \in Seq(Nat)
  /\ cuts \in Seq(Nat) /\ cuts # <<>>
  /\ Sent <= Len(layout.text)
  /\ \A i \in DOMAIN cuts : cuts[i] <= Sent
  /\ heads \in Nat

HttpOK == Framed(h, h.state, h.header_len) /\ h.state \in 0..4

(* Before the first head: what the end of one begins with. *)
Waiting == h.state < 4 /\ Longest(layout.text, Sent, h.state) /\ NoEnd(layout.text, Sent)

(* The last packet that began before e began at c. *)
BeginsAt(c, e) == c \in Cut /\ c < e /\ \A d \in Cut : d < e => d <= c

(* The first head ended at e; its length is known until there is another. *)
Ended(e) ==
  /\ e \in 1..Sent /\ FirstEnd(layout.text, e)
  /\ heads = 1 => \E c : BeginsAt(c, e) /\ h.header_len = e - c

HeadInv ==
  /\ CutsOK /\ HttpOK
  /\ heads = 0 => Waiting
  /\ heads # 0 => \E e : Ended(e)

LEMMA HeadInvInit ==
  ASSUME Init
  PROVE  HeadInv
<1>1. layout.text = Text(msg) /\ layout.text \in Seq(Nat)
  BY MessagesAssumption DEF Init, Layout
<1>2. cuts \in Seq(Nat) /\ cuts # <<>> /\ Sent = 0 /\ DOMAIN cuts = {1} /\ cuts[1] = 0
  BY DEF Init, Sent, Last
<1>3. CutsOK
  <2>. HIDE DEF Sent
  <2>1. Len(layout.text) \in Nat
    BY <1>1
  <2>. QED
    BY <1>1, <1>2, <2>1 DEF CutsOK, Init
<1>4. HttpOK /\ h.state = 0
  BY DEF Init, HttpOK, Framed, http_t
<1>5. Longest(layout.text, 0, 0) /\ NoEnd(layout.text, 0)
  BY DEF Longest, NoEnd, Begun
<1>. QED
  BY <1>2, <1>3, <1>4, <1>5 DEF HeadInv, Waiting, Init

(* What do_http_parse_test makes of a packet. *)
LEMMA PacketParsed ==
  ASSUME HttpOK, NEW buf, IsText(buf), NEW scan, scan = s_http_parse(h.state, buf)
  PROVE  /\ scan.state \in 0..4 /\ scan.n \in Nat
         /\ scan.state < 4 => Framed(do_http_parse_test(buf), scan.state, h.header_len)
         /\ scan.state = 4 => Framed(do_http_parse_test(buf), 4, Len(SubSeq(buf, 1, scan.n)))
<1>1. scan.state \in 0..4 /\ scan.n \in Nat
  BY ScanBounds, TextLen DEF HttpOK
<1>2. PICK q : q = IF h.state = 4 THEN http_parse_body(h, buf) ELSE h
  OBVIOUS
<1>3. Framed(q, h.state, h.header_len)
  BY <1>2, BodyFramed DEF HttpOK
<1>4. PICK r : r = [q EXCEPT !.state = scan.state]
  OBVIOUS
<1>5. Framed(r, scan.state, h.header_len)
  BY <1>3, <1>4 DEF Framed
<1>6. do_http_parse_test(buf) =
        IF r.state < 4 THEN r
        ELSE http_parse_body(http_parse_head(r, SubSeq(buf, 1, scan.n)), From(buf, scan.n + 1))
  BY <1>2, <1>4 DEF do_http_parse_test, HeadAndBody
<1>7. r.state = scan.state
  BY <1>5 DEF Framed
<1>8. PICK x : x = http_parse_head(r, SubSeq(buf, 1, scan.n))
  OBVIOUS
<1>9. Framed(x, scan.state, Len(SubSeq(buf, 1, scan.n)))
  <2>1. IsText(SubSeq(buf, 1, scan.n))
    BY <1>1, SubText
  <2>. QED
    BY <1>5, <1>8, <2>1, HeadFramed
<1>10. Framed(http_parse_body(x, From(buf, scan.n + 1)), scan.state, Len(SubSeq(buf, 1, scan.n)))
  <2>1. IsText(From(buf, scan.n + 1))
    <3>1. Len(buf) \in Nat /\ scan.n + 1 \in Int
      BY <1>1, TextLen
    <3>. QED
      BY <3>1, FromText
  <2>. QED
    BY <1>9, <2>1, BodyFramed
<1>. QED
  BY <1>1, <1>5, <1>6, <1>7, <1>8, <1>10

LEMMA HeadInvStep ==
  ASSUME HeadInv, Next
  PROVE  HeadInv'
<1>. DEFINE T == layout.text
<1>1. PICK m \in 1..(Len(T) - Sent) : Packet(m)
  BY DEF Next
<1>2. T \in Seq(Nat) /\ cuts \in Seq(Nat) /\ cuts # <<>> /\ Sent <= Len(T) /\ heads \in Nat
  BY DEF HeadInv, CutsOK
<1>3. Sent \in Nat /\ Sent \in Cut /\ m \in Nat /\ m > 0 /\ Sent + m <= Len(T) /\ Len(T) \in Nat
  BY <1>1, <1>2 DEF Sent, Last, Cut
<1>4. T' = T /\ cuts' = Append(cuts, Sent + m)
  BY <1>1 DEF Packet
<1>5. Sent' = Sent + m
  BY <1>2, <1>3, <1>4 DEF Sent, Last
<1>6. Cut' = Cut \cup {Sent + m}
  <2>1. PICK v : v = Sent + m
    OBVIOUS
  <2>2. v \in Nat /\ cuts' = Append(cuts, v)
    BY <1>3, <1>4, <2>1
  <2>3. DOMAIN cuts' = DOMAIN cuts \cup {Len(cuts) + 1}
    BY <1>2, <2>2
  <2>4. cuts'[Len(cuts) + 1] = v /\ \A i \in DOMAIN cuts : cuts'[i] = cuts[i]
    BY <1>2, <2>2
  <2>5. ASSUME NEW x \in Cut' PROVE x \in Cut \cup {v}
    <3>1. PICK i \in DOMAIN cuts' : x = cuts'[i]
      BY DEF Cut
    <3>. QED
      BY <2>3, <2>4, <3>1 DEF Cut
  <2>6. v \in Cut'
    BY <2>3, <2>4 DEF Cut
  <2>7. ASSUME NEW x \in Cut PROVE x \in Cut'
    <3>1. PICK i \in DOMAIN cuts : x = cuts[i]
      BY DEF Cut
    <3>. QED
      BY <2>3, <2>4, <3>1 DEF Cut
  <2>8. Cut' \subseteq Cut \cup {v} /\ Cut \cup {v} \subseteq Cut'
    BY <2>5, <2>6, <2>7
  <2>9. Cut' = Cut \cup {v}
    BY <2>8, Zenon
  <2>. QED
    BY <2>1, <2>9, Zenon
<1>7. \A c \in Cut : c \in Nat /\ c <= Sent
  BY <1>2 DEF HeadInv, CutsOK, Cut
<1>8. heads' = (IF h'.state = 4 THEN heads + 1 ELSE heads) /\ heads' \in Nat
  BY <1>1, <1>2 DEF Packet
<1>9. CutsOK'
  <2>1. cuts' \in Seq(Nat) /\ cuts' # <<>>
    <3>1. PICK v : v = Sent + m
      OBVIOUS
    <3>2. v \in Nat /\ cuts' = Append(cuts, v)
      BY <1>3, <1>4, <3>1
    <3>. QED
      BY <1>2, <3>2
  <2>2. \A i \in DOMAIN cuts' : cuts'[i] <= Sent + m
    <3>1. \A c \in Cut' : c <= Sent + m
      BY <1>3, <1>6, <1>7
    <3>. QED
      BY <3>1 DEF Cut
  <2>. QED
    BY <1>2, <1>3, <1>4, <1>5, <1>8, <2>1, <2>2 DEF CutsOK
<1>10. PICK buf : buf = SubSeq(T, Sent + 1, Sent + m)
  OBVIOUS
<1>11. IsText(buf) /\ Len(buf) = m
  <2>1. IsPiece(buf, T, Sent, m)
    BY <1>3, <1>10, PieceIs
  <2>. QED
    BY <2>1 DEF IsPiece
<1>12. PICK scan : scan = s_http_parse(h.state, buf)
  OBVIOUS
<1>13. h' = do_http_parse_test(buf)
  BY <1>1, <1>10 DEF Packet
<1>14. /\ scan.state \in 0..4 /\ scan.n \in Nat
       /\ scan.state < 4 => Framed(h', scan.state, h.header_len)
       /\ scan.state = 4 => Framed(h', 4, Len(SubSeq(buf, 1, scan.n)))
  BY <1>11, <1>12, <1>13, PacketParsed DEF HeadInv
<1>15. HttpOK' /\ h'.state = scan.state
  BY <1>14 DEF HttpOK, Framed
<1>16. CASE heads = 0
  <2>1. h.state \in 0..3 /\ Longest(T, Sent, h.state) /\ NoEnd(T, Sent)
    BY <1>16 DEF HeadInv, Waiting, HttpOK
  <2>2. /\ scan.n \in 0..m
        /\ scan.state < 4 => Longest(T, Sent + m, scan.state) /\ NoEnd(T, Sent + m)
        /\ scan.state = 4 => scan.n > 0 /\ FirstEnd(T, Sent + scan.n)
    BY <1>3, <1>10, <1>12, <2>1, ScanFinds
  <2>3. CASE scan.state < 4
    <3>1. heads' = 0
      BY <1>8, <1>15, <1>16, <2>3
    <3>2. Waiting'
      BY <1>4, <1>5, <1>15, <2>2, <2>3 DEF Waiting
    <3>. QED
      BY <1>9, <1>15, <3>1, <3>2 DEF HeadInv
  <2>4. CASE scan.state = 4
    <3>1. heads' = 1
      BY <1>8, <1>15, <1>16, <2>4
    <3>2. PICK e : e = Sent + scan.n
      OBVIOUS
    <3>3. e \in 1..(Sent + m) /\ FirstEnd(T, e) /\ Sent < e
      BY <1>3, <2>2, <2>4, <3>2
    <3>4. PICK c : c = Sent
      OBVIOUS
    <3>5. BeginsAt(c, e)'
      BY <1>3, <1>5, <1>6, <1>7, <3>3, <3>4 DEF BeginsAt
    <3>6. h'.header_len = scan.n
      <4>1. Len(SubSeq(buf, 1, scan.n)) = scan.n
        BY <2>2, SubSeqProperties
      <4>. QED
        BY <1>14, <2>4, <4>1 DEF Framed
    <3>7. h'.header_len = e - c
      BY <1>3, <1>14, <3>2, <3>4, <3>6
    <3>8. Ended(e)'
      BY <1>4, <1>5, <3>3, <3>5, <3>7 DEF Ended
    <3>. QED
      BY <1>9, <1>15, <3>1, <3>8 DEF HeadInv
  <2>. QED
    BY <1>14, <2>3, <2>4
<1>17. CASE heads # 0
  <2>1. PICK e : Ended(e)
    BY <1>17 DEF HeadInv
  <2>2. e \in 1..Sent /\ FirstEnd(T, e)
    BY <2>1 DEF Ended
  <2>3. heads' # 0 /\ (heads' = 1 => heads = 1 /\ scan.state < 4)
    BY <1>2, <1>8, <1>14, <1>15, <1>17
  <2>4. ASSUME heads' = 1 PROVE \E c : BeginsAt(c, e)' /\ h'.header_len = e - c
    <3>1. PICK c : BeginsAt(c, e) /\ h.header_len = e - c
      BY <2>1, <2>3, <2>4 DEF Ended
    <3>2. BeginsAt(c, e)'
      BY <1>3, <1>6, <2>2, <3>1 DEF BeginsAt
    <3>3. h'.header_len = h.header_len
      BY <1>14, <2>3, <2>4 DEF Framed
    <3>. QED
      BY <3>1, <3>2, <3>3
  <2>5. e \in 1..(Sent + m)
    BY <1>3, <2>2
  <2>6. Ended(e)'
    BY <1>4, <1>5, <2>2, <2>4, <2>5 DEF Ended
  <2>. QED
    BY <1>9, <1>15, <2>3, <2>6 DEF HeadInv
<1>. QED
  BY <1>16, <1>17

-----------------------------------------------------------------------------
(* The ends of heads, as strlstr finds them *)

Alike(x, T, a, y, U, b, k) == x = y <=> \A j \in 1..k : T[a + j] = U[b + j]

LEMMA PiecesEqual ==
  ASSUME NEW x, NEW T, NEW a \in Nat, NEW k \in Nat, IsPiece(x, T, a, k),
         NEW y, NEW U, NEW b \in Nat, IsPiece(y, U, b, k)
  PROVE  Alike(x, T, a, y, U, b, k)
<1>1. PICK S, R : x \in Seq(S) /\ y \in Seq(R)
  BY DEF IsPiece, IsText
<1>2. x \in Seq(S \cup R) /\ y \in Seq(S \cup R)
  BY <1>1
<1>3. Len(x) = k /\ Len(y) = k /\ \A j \in 1..k : x[j] = T[a + j] /\ y[j] = U[b + j]
  BY DEF IsPiece
<1>4. ASSUME \A j \in 1..k : T[a + j] = U[b + j] PROVE x = y
  BY <1>2, <1>3, <1>4, SeqEqual
<1>. QED
  BY <1>3, <1>4 DEF Alike

LEMMA BeginIs ==
  ASSUME NEW k \in 0..4
  PROVE  IsPiece(SubSeq(jump_buf, 1, k), jump_buf, 0, k)
<1>1. PICK x, a : x = SubSeq(jump_buf, 1, k) /\ a = 0
  OBVIOUS
<1>2. x = SubSeq(jump_buf, a + 1, a + k) /\ a \in Nat /\ k \in Nat
  BY <1>1
<1>3. IsPiece(x, jump_buf, a, k)
  BY <1>2, PieceIs
<1>. QED
  BY <1>1, <1>3

LEMMA JumpBufIs == IsPiece(jump_buf, jump_buf, 0, 4)
<1>1. \A i \in 1..4 : 0 + i = i
  OBVIOUS
<1>. QED
  BY <1>1, JumpBuf DEF IsPiece

(* A piece that is the beginning of the end of a head. *)
LEMMA PieceAt ==
  ASSUME NEW T, NEW a \in Nat, NEW k \in 0..4, NEW x, IsPiece(x, T, a, k),
         NEW y, IsPiece(y, jump_buf, 0, k)
  PROVE  x = y <=> Begun(T, a + k, k)
<1>1. x = y <=> \A j \in 1..k : T[a + j] = jump_buf[0 + j]
  <2>1. PICK b : b = 0
    OBVIOUS
  <2>2. k \in Nat /\ b \in Nat /\ IsPiece(y, jump_buf, b, k)
    BY <2>1
  <2>3. Alike(x, T, a, y, jump_buf, b, k)
    BY <2>2, PiecesEqual
  <2>. QED
    BY <2>1, <2>3 DEF Alike
<1>2. \A j \in 1..k : 0 + j = j /\ (a + k) - k + j = a + j
  OBVIOUS
<1>3. k <= a + k
  OBVIOUS
<1>. QED
  BY <1>1, <1>2, <1>3 DEF Begun

(* A piece of what was seen. *)
LEMMA SeenPiece ==
  ASSUME NEW T, NEW n \in Nat, NEW seen, IsPiece(seen, T, 0, n),
         NEW a \in Nat, NEW k \in Nat, a + k <= n
  PROVE  IsPiece(SubSeq(seen, a + 1, a + k), T, a, k)
<1>1. PICK x : x = SubSeq(seen, a + 1, a + k)
  OBVIOUS
<1>2. IsPiece(x, seen, a, k)
  BY <1>1, PieceIs
<1>3. ASSUME NEW i \in 1..k PROVE x[i] = T[a + i]
  <2>1. a + i \in 1..n /\ 0 + (a + i) = a + i
    OBVIOUS
  <2>. QED
    BY <1>2, <2>1 DEF IsPiece
<1>. QED
  BY <1>1, <1>2, <1>3 DEF IsPiece

LEMMA FoundIs ==
  ASSUME NEW T, NEW n \in Nat, NEW seen, IsPiece(seen, T, 0, n)
  PROVE  /\ NoEnd(T, n) => strlstr(seen, jump_buf) = 0
         /\ \A e \in 1..n : FirstEnd(T, e) => e > 3 /\ strlstr(seen, jump_buf) = e - 3
<1>. DEFINE at == {i \in 1..(Len(seen) - Len(jump_buf) + 1) :
                     SubSeq(seen, i, i + Len(jump_buf) - 1) = jump_buf}
<1>1. strlstr(seen, jump_buf) = IF at = {} THEN 0 ELSE Min(at)
  BY DEF strlstr
<1>2. Len(seen) = n /\ Len(jump_buf) = 4
  BY JumpBuf DEF IsPiece
<1>3. ASSUME NEW i \in 1..(n - 3) PROVE SubSeq(seen, i, i + 3) = jump_buf <=> Begun(T, i + 3, 4)
  <2>. DEFINE a == i - 1
  <2>1. a \in Nat /\ a + 1 = i /\ a + 4 = i + 3 /\ a + 4 <= n
    OBVIOUS
  <2>. HIDE DEF a
  <2>2. IsPiece(SubSeq(seen, a + 1, a + 4), T, a, 4)
    BY <2>1, SeenPiece
  <2>3. SubSeq(seen, a + 1, a + 4) = jump_buf <=> Begun(T, a + 4, 4)
    <3>1. PICK x, k : x = SubSeq(seen, a + 1, a + 4) /\ k = 4
      OBVIOUS
    <3>2. k \in 0..4 /\ IsPiece(x, T, a, k) /\ IsPiece(jump_buf, jump_buf, 0, k)
      BY <2>2, <3>1, JumpBufIs
    <3>3. x = jump_buf <=> Begun(T, a + k, k)
      BY <2>1, <3>2, PieceAt
    <3>. QED
      BY <3>1, <3>3
  <2>. QED
    BY <2>1, <2>3
<1>4. at = {i \in 1..(n - 3) : Begun(T, i + 3, 4)}
  <2>1. n - 4 + 1 = n - 3 /\ \A i \in Int : i + 4 - 1 = i + 3
    OBVIOUS
  <2>2. at = {i \in 1..(n - 3) : SubSeq(seen, i, i + 3) = jump_buf}
    BY <1>2, <2>1
  <2>. HIDE DEF at
  <2>. QED
    BY <1>3, <2>2
<1>. HIDE DEF at
<1>5. ASSUME NoEnd(T, n) PROVE strlstr(seen, jump_buf) = 0
  <2>1. ASSUME NEW i \in at PROVE FALSE
    <3>1. i + 3 \in 0..n /\ Begun(T, i + 3, 4)
      BY <1>4
    <3>. QED
      BY <1>5, <3>1 DEF NoEnd
  <2>. QED
    BY <1>1, <2>1
<1>6. ASSUME NEW e \in 1..n, FirstEnd(T, e) PROVE e > 3 /\ strlstr(seen, jump_buf) = e - 3
  <2>1. e > 3 /\ e - 3 \in 1..(n - 3) /\ (e - 3) + 3 = e
    BY <1>6 DEF FirstEnd, Begun
  <2>2. e - 3 \in at
    BY <1>4, <1>6, <2>1 DEF FirstEnd
  <2>3. ASSUME NEW i \in at PROVE e - 3 <= i
    <3>1. i \in 1..(n - 3) /\ Begun(T, i + 3, 4)
      BY <1>4
    <3>2. CASE i + 3 < e
      <4>1. i + 3 \in 0..(e - 1)
        BY <3>1, <3>2
      <4>. QED
        BY <1>6, <3>1, <4>1 DEF FirstEnd, NoEnd
    <3>. QED
      BY <2>1, <3>1, <3>2
  <2>4. Min(at) \in at /\ \A i \in at : Min(at) <= i
    <3>1. at \in SUBSET Nat
      BY <1>4
    <3>. QED
      BY <2>2, <3>1, MinNat
  <2>5. Min(at) = e - 3
    <3>1. PICK k : k = Min(at)
      OBVIOUS
    <3>2. k \in at /\ k <= e - 3 /\ e - 3 <= k /\ k \in 1..(n - 3)
      BY <1>4, <2>2, <2>3, <2>4, <3>1
    <3>. QED
      BY <2>1, <3>1, <3>2
  <2>. QED
    BY <1>1, <2>1, <2>2, <2>5
<1>. QED
  BY <1>5, <1>6

LEMMA HeadInvHeadEnd ==
  ASSUME HeadInv
  PROVE  HeadEnd
<1>. DEFINE T == layout.text
            seen == SubSeq(T, 1, Sent)
            ends == strlstr(seen, jump_buf)
            begun == {k \in 0..3 : k <= Sent /\ From(seen, Sent - k + 1) = SubSeq(jump_buf, 1, k)}
<1>1. PICK n : n = Sent
  OBVIOUS
<1>2. n \in Nat /\ \A c \in Cut : c \in Nat /\ c <= n
  BY <1>1 DEF HeadInv, CutsOK, Sent, Last, Cut
<1>3. IsPiece(seen, T, 0, n)
  <2>1. seen = SubSeq(T, 0 + 1, 0 + n)
    BY <1>1, <1>2
  <2>. HIDE DEF seen
  <2>. QED
    BY <1>2, <2>1, PieceIs
<1>4. heads \in Nat
  BY DEF HeadInv, CutsOK
<1>5. CASE heads = 0
  <2>1. h.state \in 0..3 /\ Longest(T, n, h.state) /\ NoEnd(T, n)
    BY <1>1, <1>5 DEF HeadInv, Waiting, HttpOK
  <2>2. ends = 0
    <3>. HIDE DEF seen
    <3>. QED
      BY <1>2, <1>3, <2>1, FoundIs
  <2>3. ASSUME NEW k \in 0..3 PROVE k \in begun <=> Begun(T, n, k)
    <3>1. CASE k <= n
      <4>. DEFINE a == n - k
      <4>1. a \in Nat /\ a + 1 = n - k + 1 /\ a + k = n /\ k \in Nat /\ k \in 0..4
        BY <1>2, <3>1
      <4>. HIDE DEF a, seen
      <4>2. From(seen, n - k + 1) = SubSeq(seen, a + 1, a + k)
        BY <1>3, <4>1 DEF From, IsPiece
      <4>3. IsPiece(SubSeq(seen, a + 1, a + k), T, a, k)
        <5>1. a + k <= n
          BY <1>2, <4>1
        <5>. QED
          BY <1>2, <1>3, <4>1, <5>1, SeenPiece
      <4>4. IsPiece(SubSeq(jump_buf, 1, k), jump_buf, 0, k)
        BY <4>1, BeginIs
      <4>5. SubSeq(seen, a + 1, a + k) = SubSeq(jump_buf, 1, k) <=> Begun(T, a + k, k)
        <5>1. PICK x, y : x = SubSeq(seen, a + 1, a + k) /\ y = SubSeq(jump_buf, 1, k)
          OBVIOUS
        <5>2. IsPiece(x, T, a, k) /\ IsPiece(y, jump_buf, 0, k)
          BY <4>3, <4>4, <5>1
        <5>3. x = y <=> Begun(T, a + k, k)
          BY <4>1, <5>2, PieceAt
        <5>. QED
          BY <5>1, <5>3
      <4>. QED
        BY <1>1, <3>1, <4>1, <4>2, <4>5
    <3>2. CASE ~(k <= n)
      BY <1>1, <3>2 DEF Begun
    <3>. QED
      BY <3>1, <3>2
  <2>4. begun \in SUBSET (0..3)
    OBVIOUS
  <2>. HIDE DEF begun, seen, ends
  <2>5. h.state \in begun /\ \A k \in begun : k <= h.state
    <3>1. ASSUME NEW k \in begun PROVE k <= h.state
      <4>1. k \in 0..3 /\ Begun(T, n, k)
        BY <2>3, <2>4
      <4>. QED
        BY <2>1, <4>1 DEF Longest
    <3>. QED
      BY <2>1, <2>3, <3>1 DEF Longest
  <2>6. h.state = Max(begun)
    <3>1. PICK k : k = Max(begun)
      OBVIOUS
    <3>2. k \in begun /\ \A y \in begun : y <= k
      BY <2>4, <2>5, <3>1, MaxNat
    <3>3. k <= h.state /\ h.state <= k /\ k \in 0..3
      BY <2>4, <2>5, <3>2
    <3>. QED
      BY <2>1, <3>1, <3>3
  <2>. QED
    BY <1>5, <2>2, <2>6 DEF HeadEnd, begun, ends, seen
<1>6. CASE heads # 0
  <2>1. PICK e : Ended(e)
    BY <1>6 DEF HeadInv
  <2>2. e \in 1..n /\ FirstEnd(T, e)
    BY <1>1, <2>1 DEF Ended
  <2>3. e > 3 /\ ends = e - 3
    <3>. HIDE DEF seen
    <3>. QED
      BY <1>2, <1>3, <2>2, FoundIs
  <2>4. ends # 0 /\ ends + 3 = e
    BY <1>2, <2>2, <2>3
  <2>. HIDE DEF begun, seen, ends
  <2>5. ASSUME heads = 1 PROVE h.header_len = ends + 3 - Max({c \in Cut : c < ends + 3})
    <3>1. PICK c : BeginsAt(c, e) /\ h.header_len = e - c
      BY <2>1, <2>5 DEF Ended
    <3>2. PICK B : B = {d \in Cut : d < e}
      OBVIOUS
    <3>3. B \in SUBSET (0..n) /\ c \in B /\ \A d \in B : d <= c
      BY <1>2, <3>1, <3>2 DEF BeginsAt
    <3>4. PICK k : k = Max(B)
      OBVIOUS
    <3>5. k \in B /\ \A y \in B : y <= k
      BY <1>2, <3>3, <3>4, MaxNat
    <3>6. k <= c /\ c <= k /\ k \in 0..n /\ c \in 0..n
      BY <3>3, <3>5
    <3>7. k = c
      BY <1>2, <3>6
    <3>8. Max({d \in Cut : d < ends + 3}) = c
      BY <2>4, <3>2, <3>4, <3>7
    <3>9. h.header_len = ends + 3 - c
      <4>1. h.header_len = e - c
        BY <3>1
      <4>. QED
        BY <1>2, <2>2, <2>3, <3>6, <4>1
    <3>. QED
      BY <3>8, <3>9, Zenon
  <2>. QED
    BY <1>6, <2>4, <2>5 DEF HeadEnd, begun, ends, seen
<1>. QED
  BY <1>5, <1>6

(* s_http_parse: the end of the first head is found in whatever packets it *)
(* comes, wherever a beginning of it came before, and no byte behind it is *)
(* taken for the head.                                                     *)
THEOREM HeadEndHolds == Spec => []HeadEnd
<1>1. Init => HeadInv
  BY HeadInvInit
<1>2. HeadInv /\ [Next]_vars => HeadInv'
  <2>1. ASSUME HeadInv, UNCHANGED vars PROVE HeadInv'
    BY <2>1 DEF vars, HeadInv, CutsOK, HttpOK, Waiting, Ended, BeginsAt, Sent, Cut, FirstEnd, NoEnd, Longest
  <2>. QED
    BY <2>1, HeadInvStep
<1>3. HeadInv => HeadEnd
  BY HeadInvHeadEnd
<1>. QED
  BY <1>1, <1>2, <1>3, PTL DEF Spec

-----------------------------------------------------------------------------
(* Base64 *)

(* Byte i of s, and 0 behind its end. *)
ByteOr0(s, i) == IF i <= Len(s) THEN s[i] ELSE 0

(* Four characters' numbers of three bytes, and three bytes of four numbers. *)
Six1(a) == a \div 4
Six2(a, b) == (a % 4) * 16 + b \div 16
Six3(b, c) == (b % 16) * 4 + c \div 64
Six4(c) == c % 64
Eight1(v, w) == 4 * v + w \div 16
Eight2(w, x) == 16 * (w % 16) + x \div 4
Eight3(x, y) == 64 * (x % 4) + y

(* Group q of s. *)
Sextets(s, q) ==
  <<Six1(ByteOr0(s, 3 * q + 1)), Six2(ByteOr0(s, 3 * q + 1), ByteOr0(s, 3 * q + 2)),
    Six3(ByteOr0(s, 3 * q + 2), ByteOr0(s, 3 * q + 3)), Six4(ByteOr0(s, 3 * q + 3))>>

(* How many groups n bytes make, and how many characters before the pads. *)
Groups(n) == (n + 2) \div 3
Chars64(n) == (4 * n + 2) \div 3

LEMMA Table64 ==
  /\ \A n \in 0..63 : /\ Base64(n) \in Characters /\ Base64(n) \in 43..122
                      /\ Base64Values(Base64(n)) = n
  /\ \A c \in Characters : /\ Base64Values(c) \in 0..63 /\ Base64(Base64Values(c)) = c /\ c # Pad64
<1>1. ASSUME NEW n \in 0..63 PROVE Base64(n) \in 43..122 /\ Base64(n) # 61
  BY DEF Base64, PLUS, SLASH
<1>2. ASSUME NEW n \in 0..63, NEW m \in 0..63, Base64(n) = Base64(m) PROVE n = m
  BY <1>2 DEF Base64, PLUS, SLASH
<1>3. ASSUME NEW n \in 0..63 PROVE Base64Values(Base64(n)) = n
  BY <1>2 DEF Base64Values
<1>. QED
  BY <1>1, <1>3 DEF Characters, Pad64, EQUALS

(* Each undoes the other. *)
LEMMA Pack ==
  ASSUME NEW a \in Byte, NEW b \in Byte, NEW c \in Byte
  PROVE  /\ Six1(a) \in 0..63 /\ Six2(a, b) \in 0..63 /\ Six3(b, c) \in 0..63 /\ Six4(c) \in 0..63
         /\ Eight1(Six1(a), Six2(a, b)) = a
         /\ Eight2(Six2(a, b), Six3(b, c)) = b
         /\ Eight3(Six3(b, c), Six4(c)) = c
<1>. a \in 0..255 /\ b \in 0..255 /\ c \in 0..255
  BY DEF Byte
<1>1. Six1(a) \in 0..63 /\ Six2(a, b) \in 0..63
  BY DEF Six1, Six2
<1>2. Six3(b, c) \in 0..63 /\ Six4(c) \in 0..63
  BY DEF Six3, Six4
<1>3. Eight1(Six1(a), Six2(a, b)) = a
  BY DEF Eight1, Six1, Six2
<1>4. Eight2(Six2(a, b), Six3(b, c)) = b
  <2>1. Six2(a, b) % 16 = b \div 16
    BY DEF Six2
  <2>2. Six3(b, c) \div 4 = b % 16
    BY DEF Six3
  <2>. QED
    BY <2>1, <2>2 DEF Eight2
<1>5. Eight3(Six3(b, c), Six4(c)) = c
  <2>1. Six3(b, c) % 4 = c \div 64
    BY DEF Six3
  <2>. QED
    BY <2>1 DEF Eight3, Six4
<1>. QED
  BY <1>1, <1>2, <1>3, <1>4, <1>5

LEMMA Unpack ==
  ASSUME NEW v \in 0..63, NEW w \in 0..63, NEW x \in 0..63, NEW y \in 0..63
  PROVE  /\ Eight1(v, w) \in Byte /\ Eight2(w, x) \in Byte /\ Eight3(x, y) \in Byte
         /\ Six1(Eight1(v, w)) = v
         /\ Six2(Eight1(v, w), Eight2(w, x)) = w
         /\ Six3(Eight2(w, x), Eight3(x, y)) = x
         /\ Six4(Eight3(x, y)) = y
<1>1. Eight1(v, w) \in 0..255 /\ Eight2(w, x) \in 0..255 /\ Eight3(x, y) \in 0..255
  BY DEF Eight1, Eight2, Eight3
<1>2. Six1(Eight1(v, w)) = v /\ Six4(Eight3(x, y)) = y
  BY DEF Eight1, Eight3, Six1, Six4
<1>3. Six2(Eight1(v, w), Eight2(w, x)) = w
  <2>1. Eight1(v, w) % 4 = w \div 16
    BY DEF Eight1
  <2>2. Eight2(w, x) \div 16 = w % 16
    BY DEF Eight2
  <2>. QED
    BY <2>1, <2>2 DEF Six2
<1>4. Six3(Eight2(w, x), Eight3(x, y)) = x
  <2>1. Eight2(w, x) % 16 = x \div 4
    BY DEF Eight2
  <2>2. Eight3(x, y) \div 64 = x % 4
    BY DEF Eight3
  <2>. QED
    BY <2>1, <2>2 DEF Six3
<1>. QED
  BY <1>1, <1>2, <1>3, <1>4 DEF Byte

(* Behind the last byte or character. *)
LEMMA Nothing64 ==
  Six3(0, 0) = 0 /\ Six4(0) = 0 /\ Eight3(0, 0) = 0
BY DEF Six3, Six4, Eight3

LEMMA SextetsAre ==
  ASSUME NEW s \in Seq(Byte), NEW q \in Nat
  PROVE  \A k \in 1..4 : Sextets(s, q)[k] \in 0..63
<1>1. ASSUME NEW i \in Nat \ {0} PROVE ByteOr0(s, i) \in Byte
  <2>1. 0 \in Byte
    BY DEF Byte
  <2>2. i <= Len(s) => s[i] \in Byte
    OBVIOUS
  <2>. QED
    BY <2>1, <2>2 DEF ByteOr0
<1>2. ByteOr0(s, 3 * q + 1) \in Byte /\ ByteOr0(s, 3 * q + 2) \in Byte /\ ByteOr0(s, 3 * q + 3) \in Byte
  BY <1>1
<1>4. /\ Six1(ByteOr0(s, 3 * q + 1)) \in 0..63 /\ Six2(ByteOr0(s, 3 * q + 1), ByteOr0(s, 3 * q + 2)) \in 0..63
      /\ Six3(ByteOr0(s, 3 * q + 2), ByteOr0(s, 3 * q + 3)) \in 0..63 /\ Six4(ByteOr0(s, 3 * q + 3)) \in 0..63
  BY <1>2, Pack
<1>6. /\ Sextets(s, q)[1] \in 0..63 /\ Sextets(s, q)[2] \in 0..63
      /\ Sextets(s, q)[3] \in 0..63 /\ Sextets(s, q)[4] \in 0..63
  BY <1>4 DEF Sextets
<1>7. ASSUME NEW k \in 1..4 PROVE Sextets(s, q)[k] \in 0..63
  <2>1. k = 1 \/ k = 2 \/ k = 3 \/ k = 4
    OBVIOUS
  <2>. QED
    BY <1>6, <2>1
<1>. QED
  BY <1>7

(* The numbers of bytes, groups and characters. *)
LEMMA Counts ==
  ASSUME NEW a \in Nat
  PROVE  /\ Groups(3 * a) = a /\ Groups(3 * a + 1) = a + 1 /\ Groups(3 * a + 2) = a + 1
         /\ Chars64(3 * a) = 4 * a /\ Chars64(3 * a + 1) = 4 * a + 2 /\ Chars64(3 * a + 2) = 4 * a + 3
         /\ (6 * (4 * a)) \div 8 = 3 * a /\ (6 * (4 * a) + 7) \div 8 = 3 * a
         /\ (6 * (4 * a + 2)) \div 8 = 3 * a + 1 /\ (6 * (4 * a + 2) + 7) \div 8 = 3 * a + 2
         /\ (6 * (4 * a + 3)) \div 8 = 3 * a + 2 /\ (6 * (4 * a + 3) + 7) \div 8 = 3 * a + 3
BY DEF Groups, Chars64

LEMMA Thirds ==
  ASSUME NEW n \in Nat
  PROVE  \E a \in Nat : n = 3 * a \/ n = 3 * a + 1 \/ n = 3 * a + 2
<1>1. n \div 3 \in Nat /\ n = 3 * (n \div 3) + (n % 3) /\ n % 3 \in 0..2
  OBVIOUS
<1>. QED
  BY <1>1

LEMMA Quarters ==
  ASSUME NEW n \in Nat
  PROVE  \E a \in Nat : n = 4 * a \/ n = 4 * a + 1 \/ n = 4 * a + 2 \/ n = 4 * a + 3
<1>1. n \div 4 \in Nat /\ n = 4 * (n \div 4) + (n % 4) /\ n % 4 \in 0..3
  OBVIOUS
<1>. QED
  BY <1>1

(* The group that begins behind byte 3 * q of s. *)
LEMMA GroupIs ==
  ASSUME NEW s \in Seq(Byte), NEW q \in Nat, 3 * q < Len(s)
  PROVE  LET group == b64_group(SubSeq(s, 3 * (q + 1) - 2, Min({3 * (q + 1), Len(s)})))
         IN  /\ group \in Seq(Nat) /\ Len(group) = 4
             /\ \A k \in 1..4 : group[k] = IF k <= Len(s) - 3 * q + 1 THEN Base64(Sextets(s, q)[k]) ELSE Pad64
<1>. DEFINE last == Min({3 * (q + 1), Len(s)})
            piece == SubSeq(s, 3 * (q + 1) - 2, last)
            Or0(i) == IF i <= Len(piece) THEN piece[i] ELSE 0
            numbers == <<Or0(1) \div 4, (Or0(1) % 4) * 16 + Or0(2) \div 16,
                         (Or0(2) % 16) * 4 + Or0(3) \div 64, Or0(3) % 64>>
            group == [i \in 1..4 |-> IF i <= Len(piece) + 1 THEN Base64(numbers[i]) ELSE Pad64]
            n == IF 3 * (q + 1) <= Len(s) THEN 3 ELSE Len(s) - 3 * q
<1>1. last = 3 * q + n /\ n \in 1..3 /\ 3 * q + n <= Len(s) /\ (n < 3 => 3 * q + n = Len(s))
  <2>1. {3 * (q + 1), Len(s)} \in SUBSET Nat /\ {3 * (q + 1), Len(s)} # {}
    OBVIOUS
  <2>2. last \in {3 * (q + 1), Len(s)} /\ \A y \in {3 * (q + 1), Len(s)} : last <= y
    BY <2>1, MinNat
  <2>3. last = IF 3 * (q + 1) <= Len(s) THEN 3 * (q + 1) ELSE Len(s)
    BY <2>2
  <2>. HIDE DEF last
  <2>4. CASE 3 * (q + 1) <= Len(s)
    BY <2>3, <2>4
  <2>5. CASE ~(3 * (q + 1) <= Len(s))
    <3>1. n = Len(s) - 3 * q /\ last = Len(s)
      BY <2>3, <2>5
    <3>2. PICK len \in Nat : len = Len(s)
      OBVIOUS
    <3>3. len - 3 * q \in 1..2 /\ len = 3 * q + (len - 3 * q)
      BY <2>5, <3>2
    <3>. HIDE DEF n
    <3>. QED
      BY <3>1, <3>2, <3>3
  <2>. QED
    BY <2>4, <2>5
<1>. HIDE DEF last, n
<1>2. Len(piece) = n /\ \A i \in 1..n : piece[i] = s[3 * q + i]
  <2>1. piece = SubSeq(s, 3 * q + 1, 3 * q + n)
    BY <1>1
  <2>. HIDE DEF piece
  <2>2. 3 * q + 1 \in 1..(Len(s) + 1) /\ 3 * q + n \in 0..Len(s)
    BY <1>1
  <2>3. \A i \in (3 * q + 1)..(3 * q + n) : s[i] \in Byte
    BY <2>2
  <2>4. /\ Len(SubSeq(s, 3 * q + 1, 3 * q + n)) = (3 * q + n) - (3 * q + 1) + 1
        /\ \A i \in 1..((3 * q + n) - (3 * q + 1) + 1) : SubSeq(s, 3 * q + 1, 3 * q + n)[i] = s[(3 * q + 1) + i - 1]
    BY <1>1, <2>2, <2>3, SubSeqProperties
  <2>5. (3 * q + n) - (3 * q + 1) + 1 = n /\ \A i \in 1..n : (3 * q + 1) + i - 1 = 3 * q + i
    BY <1>1
  <2>. QED
    BY <2>1, <2>4, <2>5
<1>. HIDE DEF piece
<1>3. ASSUME NEW i \in 1..3 PROVE Or0(i) = ByteOr0(s, 3 * q + i)
  <2>1. i <= n <=> 3 * q + i <= Len(s)
    BY <1>1
  <2>. QED
    BY <1>1, <1>2, <2>1 DEF ByteOr0
<1>4. numbers = Sextets(s, q)
  <2>1. Or0(1) = ByteOr0(s, 3 * q + 1) /\ Or0(2) = ByteOr0(s, 3 * q + 2) /\ Or0(3) = ByteOr0(s, 3 * q + 3)
    BY <1>3
  <2>. HIDE DEF Or0
  <2>. QED
    BY <2>1 DEF Sextets, Six1, Six2, Six3, Six4
<1>5. b64_group(piece) = group
  BY DEF b64_group
<1>. HIDE DEF numbers
<1>6. ASSUME NEW k \in 1..4 PROVE /\ group[k] = IF k <= Len(s) - 3 * q + 1 THEN Base64(Sextets(s, q)[k]) ELSE Pad64
                                 /\ group[k] \in Nat
  <2>1. k <= Len(piece) + 1 <=> k <= Len(s) - 3 * q + 1
    BY <1>1, <1>2
  <2>2. Base64(Sextets(s, q)[k]) \in Nat /\ Pad64 \in Nat
    <3>1. Sextets(s, q)[k] \in 0..63
      BY SextetsAre
    <3>2. Base64(Sextets(s, q)[k]) \in 43..122
      BY <3>1, Table64
    <3>3. \A x \in 43..122 : x \in Nat
      OBVIOUS
    <3>. QED
      BY <3>2, <3>3 DEF Pad64, EQUALS
  <2>. QED
    BY <1>4, <2>1, <2>2
<1>. HIDE DEF group
<1>7. group \in Seq(Nat) /\ Len(group) = 4
  <2>1. group = [i \in 1..4 |-> group[i]]
    BY DEF group
  <2>. QED
    BY <1>6, <2>1
<1>. QED
  BY <1>5, <1>6, <1>7 DEF piece, last

(* g is the text of the first groups of s. *)
Encoding(g, s) ==
  /\ g[0] = <<>>
  /\ \A q \in 0..(Groups(Len(s)) - 1) :
       g[q + 1] = g[q] \o b64_group(SubSeq(s, 3 * (q + 1) - 2, Min({3 * (q + 1), Len(s)})))

LEMMA EncodedAt ==
  ASSUME NEW s \in Seq(Byte), NEW g, Encoding(g, s), NEW n \in 0..Groups(Len(s))
  PROVE  /\ g[n] \in Seq(Nat) /\ Len(g[n]) = 4 * n
         /\ \A q \in 0..(n - 1), k \in 1..4 :
              g[n][4 * q + k] = IF k <= Len(s) - 3 * q + 1 THEN Base64(Sextets(s, q)[k]) ELSE Pad64
<1>. DEFINE Code(q, k) == IF k <= Len(s) - 3 * q + 1 THEN Base64(Sextets(s, q)[k]) ELSE Pad64
            Good(m) == /\ g[m] \in Seq(Nat) /\ Len(g[m]) = 4 * m
                       /\ \A q \in 0..(m - 1), k \in 1..4 : g[m][4 * q + k] = Code(q, k)
            N == Groups(Len(s))
            S == {m \in 0..N : Good(m)}
<1>1. N \in Nat /\ \A q \in 0..(N - 1) : 3 * q < Len(s)
  BY DEF Groups
<1>2. 0 \in S
  <2>1. g[0] = <<>>
    BY DEF Encoding
  <2>2. <<>> \in Seq(Nat) /\ Len(<<>>) = 0 /\ 0 \in 0..N
    BY <1>1
  <2>. HIDE DEF Code, N
  <2>3. Good(0)
    BY <2>1, <2>2
  <2>. QED
    BY <2>2, <2>3
<1>3. ASSUME NEW m \in 0..N, m \in S, m < N PROVE m + 1 \in S
  <2>1. m \in 0..(N - 1) /\ 3 * m < Len(s) /\ m \in Nat /\ m + 1 \in 0..N
    BY <1>1, <1>3
  <2>2. PICK group : /\ group = b64_group(SubSeq(s, 3 * (m + 1) - 2, Min({3 * (m + 1), Len(s)})))
                     /\ group \in Seq(Nat) /\ Len(group) = 4
                     /\ \A k \in 1..4 : group[k] = Code(m, k)
    BY <2>1, GroupIs
  <2>3. g[m + 1] = g[m] \o group
    BY <2>1, <2>2 DEF Encoding
  <2>. HIDE DEF Code, N
  <2>4. g[m] \in Seq(Nat) /\ Len(g[m]) = 4 * m /\ \A q \in 0..(m - 1), k \in 1..4 : g[m][4 * q + k] = Code(q, k)
    BY <1>3
  <2>5. /\ g[m + 1] \in Seq(Nat) /\ Len(g[m + 1]) = 4 * (m + 1)
        /\ \A i \in 1..(4 * m + 4) : g[m + 1][i] = IF i <= 4 * m THEN g[m][i] ELSE group[i - 4 * m]
    <3>1. /\ g[m] \o group \in Seq(Nat) /\ Len(g[m] \o group) = Len(g[m]) + Len(group)
          /\ \A i \in 1..(Len(g[m]) + Len(group)) :
               (g[m] \o group)[i] = IF i <= Len(g[m]) THEN g[m][i] ELSE group[i - Len(g[m])]
      BY <2>2, <2>4, ConcatProperties
    <3>2. 4 * m + 4 = 4 * (m + 1)
      BY <2>1
    <3>. QED
      BY <2>2, <2>3, <2>4, <3>1, <3>2
  <2>6. ASSUME NEW q \in 0..m, NEW k \in 1..4 PROVE g[m + 1][4 * q + k] = Code(q, k)
    <3>1. CASE q < m
      <4>1. q \in 0..(m - 1) /\ 4 * q + k \in 1..(4 * m + 4) /\ 4 * q + k <= 4 * m
        BY <2>1, <3>1
      <4>. QED
        BY <2>4, <2>5, <4>1
    <3>2. CASE q = m
      <4>1. 4 * m + k \in 1..(4 * m + 4) /\ ~(4 * m + k <= 4 * m) /\ (4 * m + k) - 4 * m = k
        BY <2>1
      <4>2. g[m + 1][4 * m + k] = group[k]
        BY <2>5, <4>1
      <4>. QED
        BY <2>2, <3>2, <4>2
    <3>. QED
      BY <2>1, <3>1, <3>2
  <2>7. (m + 1) - 1 = m
    BY <2>1
  <2>. QED
    BY <2>1, <2>5, <2>6, <2>7
<1>4. \A m \in 0..N : m \in S
  <2>. HIDE DEF S, N
  <2>. QED
    BY <1>1, <1>2, <1>3, UpTo
<1>5. n \in S
  BY <1>4
<1>. QED
  BY <1>5

LEMMA EncodeIs ==
  ASSUME NEW s \in Seq(Byte)
  PROVE  \E g : Encoding(g, s) /\ b64_encode(s) = g[Groups(Len(s))]
<1>. DEFINE N == Groups(Len(s))
            Piece(n) == b64_group(SubSeq(s, 3 * n - 2, Min({3 * n, Len(s)})))
            Def(f) == f = [n \in 0..N |-> IF n = 0 THEN <<>> ELSE f[n - 1] \o Piece(n)]
            upto == CHOOSE f : Def(f)
<1>1. N \in Nat
  BY DEF Groups
<1>2. b64_encode(s) = upto[N]
  BY DEF b64_encode, Groups
<1>. HIDE DEF N
<1>3. \E f : Def(f)
  <2>. HIDE DEF Piece
  <2>1. PICK p : p = [n \in 1..N |-> Piece(n)]
    OBVIOUS
  <2>2. Len(p) = N
    BY <1>1, <2>1
  <2>3. PICK g : Course(g, "join", <<>>, p, 0, 0)
    BY <1>1, <2>2, CourseExists
  <2>4. g[0] = <<>> /\ \A n \in 1..N : g[n] = g[n - 1] \o p[n]
    BY <2>2, <2>3 DEF Course, Turn
  <2>5. PICK f : f = [n \in 0..N |-> g[n]]
    OBVIOUS
  <2>6. ASSUME NEW n \in 0..N PROVE f[n] = IF n = 0 THEN <<>> ELSE f[n - 1] \o Piece(n)
    <3>1. CASE n = 0
      BY <2>4, <2>5, <3>1
    <3>2. CASE n # 0
      <4>1. n \in 1..N /\ n - 1 \in 0..N
        BY <1>1, <3>2
      <4>2. f[n] = g[n] /\ f[n - 1] = g[n - 1] /\ p[n] = Piece(n)
        BY <2>1, <2>5, <4>1
      <4>. QED
        BY <2>4, <3>2, <4>1, <4>2
    <3>. QED
      BY <3>1, <3>2
  <2>7. Def(f)
    BY <2>5, <2>6
  <2>. QED
    BY <2>7
<1>4. Def(upto)
  <2>. HIDE DEF Def
  <2>. QED
    BY <1>3
<1>. HIDE DEF upto
<1>5. upto[0] = <<>> /\ \A n \in 1..N : upto[n] = upto[n - 1] \o Piece(n)
  <2>. HIDE DEF Piece
  <2>1. \A n \in 0..N : upto[n] = IF n = 0 THEN <<>> ELSE upto[n - 1] \o Piece(n)
    BY <1>4
  <2>2. upto[0] = <<>>
    BY <1>1, <2>1
  <2>3. ASSUME NEW n \in 1..N PROVE upto[n] = upto[n - 1] \o Piece(n)
    <3>1. n \in 0..N /\ n # 0
      BY <1>1
    <3>. QED
      BY <2>1, <3>1
  <2>. QED
    BY <2>2, <2>3
<1>6. ASSUME NEW q \in 0..(N - 1) PROVE upto[q + 1] = upto[q] \o Piece(q + 1)
  <2>. HIDE DEF Piece
  <2>1. q + 1 \in 1..N /\ (q + 1) - 1 = q
    BY <1>1
  <2>. QED
    BY <1>5, <2>1
<1>7. Encoding(upto, s)
  BY <1>5, <1>6 DEF Encoding, N
<1>. QED
  BY <1>2, <1>7 DEF N

(* The text of s: characters of its bits, and pads. *)
LEMMA TextOfBytes ==
  ASSUME NEW s \in Seq(Byte)
  PROVE  /\ b64_encode(s) \in Seq(Nat) /\ Len(b64_encode(s)) = 4 * Groups(Len(s))
         /\ \A q \in 0..(Groups(Len(s)) - 1), k \in 1..4 :
              b64_encode(s)[4 * q + k] = IF k <= Len(s) - 3 * q + 1 THEN Base64(Sextets(s, q)[k]) ELSE Pad64
<1>1. PICK g : Encoding(g, s) /\ b64_encode(s) = g[Groups(Len(s))]
  BY EncodeIs
<1>2. Groups(Len(s)) \in 0..Groups(Len(s))
  BY DEF Groups
<1>3. /\ g[Groups(Len(s))] \in Seq(Nat) /\ Len(g[Groups(Len(s))]) = 4 * Groups(Len(s))
      /\ \A q \in 0..(Groups(Len(s)) - 1), k \in 1..4 :
           g[Groups(Len(s))][4 * q + k] = IF k <= Len(s) - 3 * q + 1 THEN Base64(Sextets(s, q)[k]) ELSE Pad64
  BY <1>1, <1>2, EncodedAt
<1>. QED
  BY <1>1, <1>3

(* Which of the characters of group q there are, by how many bytes. *)
LEMMA InGroup ==
  ASSUME NEW n \in Nat, NEW q \in Nat, NEW k \in 1..4, q < Groups(n)
  PROVE  k <= n - 3 * q + 1 <=> 4 * q + k <= Chars64(n)
<1>1. PICK a \in Nat : n = 3 * a \/ n = 3 * a + 1 \/ n = 3 * a + 2
  BY Thirds
<1>2. CASE n = 3 * a
  <2>1. Groups(n) = a /\ Chars64(n) = 4 * a
    BY <1>2, Counts
  <2>. QED
    BY <1>2, <2>1
<1>3. CASE n = 3 * a + 1
  <2>1. Groups(n) = a + 1 /\ Chars64(n) = 4 * a + 2
    BY <1>3, Counts
  <2>. QED
    BY <1>3, <2>1
<1>4. CASE n = 3 * a + 2
  <2>1. Groups(n) = a + 1 /\ Chars64(n) = 4 * a + 3
    BY <1>4, Counts
  <2>. QED
    BY <1>4, <2>1
<1>. QED
  BY <1>1, <1>2, <1>3, <1>4

(* A place in a text is one of a group. *)
LEMMA GroupOf ==
  ASSUME NEW n \in Nat, NEW i \in 1..(4 * n)
  PROVE  \E q \in 0..(n - 1), k \in 1..4 : i = 4 * q + k
<1>0. i - 1 \in Nat
  OBVIOUS
<1>1. PICK a \in Nat : i - 1 = 4 * a \/ i - 1 = 4 * a + 1 \/ i - 1 = 4 * a + 2 \/ i - 1 = 4 * a + 3
  BY <1>0, Quarters
<1>2. a \in 0..(n - 1)
  BY <1>1
<1>3. i = 4 * a + 1 \/ i = 4 * a + 2 \/ i = 4 * a + 3 \/ i = 4 * a + 4
  BY <1>1
<1>. QED
  BY <1>2, <1>3

(* What b64_decode makes of a text without blanks. *)
PadAt(text) == RunEnd(text, 1, LAMBDA b : b # Pad64)
CharsOf(text) == SubSeq(text, 1, PadAt(text) - 1)
BytesOf(n) == (6 * n) \div 8
Extra(chars) == IF BytesOf(Len(chars)) < Len(Bits(chars)) THEN Bits(chars)[BytesOf(Len(chars)) + 1] ELSE 0
Valid(text) ==
  /\ ToSet(CharsOf(text)) \subseteq Characters
  /\ b64_trailer(Len(CharsOf(text)) % 4, From(text, PadAt(text)), Extra(CharsOf(text)))

LEMMA DecodeIs ==
  ASSUME NEW src, NEW text, text = NoBlanks(src)
  PROVE  b64_decode(src) = IF Valid(text) THEN SubSeq(Bits(CharsOf(text)), 1, BytesOf(Len(CharsOf(text)))) ELSE INVALID
BY DEF b64_decode, Valid, CharsOf, PadAt, Extra, BytesOf

LEMMA PadAtIs ==
  ASSUME NEW text \in Seq(Nat)
  PROVE  /\ PadAt(text) \in 1..(Len(text) + 1)
         /\ \A i \in 1..(PadAt(text) - 1) : text[i] # Pad64
         /\ PadAt(text) <= Len(text) => text[PadAt(text)] = Pad64
<1>. DEFINE Pads == {j \in 1..Len(text) : ~(text[j] # Pad64)}
<1>1. PadAt(text) = IF Pads = {} THEN Len(text) + 1 ELSE Min(Pads)
  BY DEF PadAt, RunEnd
<1>2. CASE Pads = {}
  BY <1>1, <1>2
<1>3. CASE Pads # {}
  <2>1. Pads \in SUBSET Nat
    OBVIOUS
  <2>2. Min(Pads) \in Pads /\ \A y \in Pads : Min(Pads) <= y
    BY <1>3, <2>1, MinNat
  <2>. DEFINE m == Min(Pads)
  <2>3. m \in 1..Len(text) /\ text[m] = Pad64 /\ \A y \in 1..Len(text) : text[y] = Pad64 => m <= y
    BY <2>2
  <2>4. PadAt(text) = m
    BY <1>1, <1>3
  <2>. HIDE DEF m
  <2>. QED
    BY <2>3, <2>4
<1>. QED
  BY <1>2, <1>3

LEMMA CharsOfIs ==
  ASSUME NEW text \in Seq(Nat)
  PROVE  /\ CharsOf(text) \in Seq(Nat) /\ Len(CharsOf(text)) = PadAt(text) - 1
         /\ \A i \in 1..(PadAt(text) - 1) : CharsOf(text)[i] = text[i]
<1>. DEFINE p == PadAt(text) - 1
<1>1. p \in 0..Len(text)
  BY PadAtIs
<1>. HIDE DEF p
<1>2. \A i \in 1..p : text[i] \in Nat
  BY <1>1
<1>3. /\ SubSeq(text, 1, p) \in Seq(Nat) /\ Len(SubSeq(text, 1, p)) = IF 1 <= p THEN p - 1 + 1 ELSE 0
      /\ \A i \in 1..(p - 1 + 1) : SubSeq(text, 1, p)[i] = text[1 + i - 1]
  BY <1>1, <1>2, SubSeqProperties
<1>4. Len(SubSeq(text, 1, p)) = p /\ \A i \in 1..p : SubSeq(text, 1, p)[i] = text[i]
  BY <1>1, <1>3
<1>. QED
  BY <1>3, <1>4 DEF CharsOf, p

(* The number of a character, and 0 behind the last. *)
ValueOr0(chars, i) == IF i <= Len(chars) THEN Base64Values(chars[i]) ELSE 0

Octets(chars, q) ==
  <<Eight1(ValueOr0(chars, 4 * q + 1), ValueOr0(chars, 4 * q + 2)),
    Eight2(ValueOr0(chars, 4 * q + 2), ValueOr0(chars, 4 * q + 3)),
    Eight3(ValueOr0(chars, 4 * q + 3), ValueOr0(chars, 4 * q + 4))>>

LEMMA BitsAre ==
  ASSUME NEW chars \in Seq(Nat)
  PROVE  /\ Len(Bits(chars)) = (6 * Len(chars) + 7) \div 8 /\ DOMAIN Bits(chars) = 1..Len(Bits(chars))
         /\ \A q \in Nat, k \in 1..3 :
              3 * q + k <= Len(Bits(chars)) => Bits(chars)[3 * q + k] = Octets(chars, q)[k]
<1>. DEFINE n == (6 * Len(chars) + 7) \div 8
            Sextet(i) == IF i <= Len(chars) THEN Base64Values(chars[i]) ELSE 0
            EightBits(i) == LET q == (i - 1) \div 3
                        IN  CASE i % 3 = 1 -> Eight1(Sextet(4 * q + 1), Sextet(4 * q + 2))
                              [] i % 3 = 2 -> Eight2(Sextet(4 * q + 2), Sextet(4 * q + 3))
                              [] OTHER -> Eight3(Sextet(4 * q + 3), Sextet(4 * q + 4))
<1>1. Bits(chars) = [i \in 1..n |-> EightBits(i)]
  BY DEF Bits, Eight1, Eight2, Eight3
<1>2. n \in Nat
  OBVIOUS
<1>3. ASSUME NEW q \in Nat, NEW k \in 1..3 PROVE EightBits(3 * q + k) = Octets(chars, q)[k]
  <2>. DEFINE i == 3 * q + k
  <2>1. (i - 1) \div 3 = q
    OBVIOUS
  <2>2. /\ k = 1 => i % 3 = 1
        /\ k = 2 => i % 3 = 2
        /\ k = 3 => i % 3 # 1 /\ i % 3 # 2
    OBVIOUS
  <2>. HIDE DEF i
  <2>3. \A j : Sextet(j) = ValueOr0(chars, j)
    BY DEF ValueOr0
  <2>. HIDE DEF Sextet
  <2>4. CASE k = 1
    <3>1. EightBits(i) = Eight1(Sextet(4 * q + 1), Sextet(4 * q + 2))
      BY <2>1, <2>2, <2>4
    <3>. QED
      BY <2>3, <2>4, <3>1 DEF Octets, i
  <2>5. CASE k = 2
    <3>1. EightBits(i) = Eight2(Sextet(4 * q + 2), Sextet(4 * q + 3))
      BY <2>1, <2>2, <2>5
    <3>. QED
      BY <2>3, <2>5, <3>1 DEF Octets, i
  <2>6. CASE k = 3
    <3>1. EightBits(i) = Eight3(Sextet(4 * q + 3), Sextet(4 * q + 4))
      BY <2>1, <2>2, <2>6
    <3>. QED
      BY <2>3, <2>6, <3>1 DEF Octets, i
  <2>7. k = 1 \/ k = 2 \/ k = 3
    OBVIOUS
  <2>. QED
    BY <2>4, <2>5, <2>6, <2>7 DEF i
<1>. HIDE DEF n, EightBits
<1>4. Len(Bits(chars)) = n /\ DOMAIN Bits(chars) = 1..n
  BY <1>1, <1>2
<1>5. ASSUME NEW q \in Nat, NEW k \in 1..3, 3 * q + k <= n PROVE Bits(chars)[3 * q + k] = Octets(chars, q)[k]
  <2>1. 3 * q + k \in 1..n
    BY <1>2, <1>5
  <2>. QED
    BY <1>1, <1>3, <2>1
<1>. QED
  BY <1>4, <1>5 DEF n

LEMMA NoBlanksIs ==
  ASSUME NEW s \in Seq(Nat)
  PROVE  /\ NoBlanks(s) \in Seq(Nat)
         /\ (\A i \in 1..Len(s) : ~isspace(s[i])) => NoBlanks(s) = s
<1>1. PICK g : Course(g, "blanks", <<>>, s, 0, 0) /\ NoBlanks(s) = g[Len(s)]
  <2>1. Reads(ReadBlanks(<<>>, s), "blanks", <<>>, s, 0, 0)
    BY ReadBlanksIs
  <2>2. ReadBlanks(<<>>, s) = NoBlanks(s)
    BY DEF ReadBlanks, NoBlanks
  <2>. QED
    BY <2>1, <2>2 DEF Reads
<1>2. g[0] = <<>> /\ \A i \in 1..Len(s) : g[i] = SkipBlank(g[i - 1], s[i])
  BY <1>1 DEF Course, Turn
<1>3. g[Len(s)] \in Seq(Nat)
  <2>. DEFINE S == {m \in 0..Len(s) : g[m] \in Seq(Nat)}
  <2>0. Len(s) \in Nat /\ 0 \in 0..Len(s) /\ <<>> \in Seq(Nat) /\ Len(<<>>) = 0
    OBVIOUS
  <2>1. 0 \in S
    BY <1>2, <2>0
  <2>2. ASSUME NEW m \in 0..Len(s), m \in S, m < Len(s) PROVE m + 1 \in S
    <3>1. m + 1 \in 1..Len(s) /\ (m + 1) - 1 = m /\ s[m + 1] \in Nat /\ g[m] \in Seq(Nat)
      BY <2>2
    <3>2. g[m + 1] = SkipBlank(g[m], s[m + 1])
      BY <1>2, <3>1
    <3>3. g[m + 1] \in Seq(Nat)
      BY <3>1, <3>2, AppendProperties DEF SkipBlank
    <3>. QED
      BY <3>1, <3>3
  <2>3. \A m \in 0..Len(s) : m \in S
    <3>. HIDE DEF S
    <3>. QED
      BY <2>0, <2>1, <2>2, UpTo
  <2>. QED
    BY <2>3
<1>4. ASSUME \A i \in 1..Len(s) : ~isspace(s[i]) PROVE g[Len(s)] = s
  <2>. DEFINE Same(m) == g[m] \in Seq(Nat) /\ Len(g[m]) = m /\ \A i \in 1..m : g[m][i] = s[i]
              S == {m \in 0..Len(s) : Same(m)}
  <2>0. Len(s) \in Nat /\ 0 \in 0..Len(s) /\ <<>> \in Seq(Nat) /\ Len(<<>>) = 0
    OBVIOUS
  <2>1. 0 \in S
    <3>1. Same(0)
      BY <1>2, <2>0
    <3>. QED
      BY <2>0, <3>1
  <2>2. ASSUME NEW m \in 0..Len(s), m \in S, m < Len(s) PROVE m + 1 \in S
    <3>1. m + 1 \in 1..Len(s) /\ (m + 1) - 1 = m /\ s[m + 1] \in Nat /\ Same(m)
      BY <2>2
    <3>2. g[m + 1] = Append(g[m], s[m + 1])
      BY <1>2, <1>4, <3>1 DEF SkipBlank
    <3>3. /\ g[m + 1] \in Seq(Nat) /\ Len(g[m + 1]) = m + 1
          /\ \A i \in 1..m : g[m + 1][i] = g[m][i]
          /\ g[m + 1][m + 1] = s[m + 1]
      BY <3>1, <3>2, AppendProperties
    <3>4. \A i \in 1..(m + 1) : g[m + 1][i] = s[i]
      BY <3>1, <3>3
    <3>5. Same(m + 1)
      BY <3>3, <3>4
    <3>. HIDE DEF Same
    <3>. QED
      BY <3>1, <3>5
  <2>3. \A m \in 0..Len(s) : m \in S
    <3>. HIDE DEF S
    <3>. QED
      BY <2>0, <2>1, <2>2, UpTo
  <2>4. Same(Len(s))
    BY <2>3
  <2>. QED
    BY <2>4, SeqEqual
<1>. QED
  BY <1>1, <1>3, <1>4

(* What is found in an encoded text: its characters, then its pads. *)
LEMMA EncodedText ==
  ASSUME NEW s \in Seq(Byte), NEW e, e = b64_encode(s)
  PROVE  /\ NoBlanks(e) = e /\ PadAt(e) = Chars64(Len(s)) + 1 /\ ToSet(CharsOf(e)) \subseteq Characters
         /\ \A q \in 0..(Groups(Len(s)) - 1), k \in 1..4 :
              ValueOr0(CharsOf(e), 4 * q + k) = IF 4 * q + k <= Chars64(Len(s)) THEN Sextets(s, q)[k] ELSE 0
<1>. DEFINE N == Groups(Len(s))
            C == Chars64(Len(s))
<1>1. N \in Nat /\ C \in Nat /\ C <= 4 * N
  BY DEF Groups, Chars64
<1>2. e \in Seq(Nat) /\ Len(e) = 4 * N
  BY TextOfBytes
<1>3. ASSUME NEW q \in 0..(N - 1), NEW k \in 1..4
      PROVE  /\ 4 * q + k \in 1..(4 * N) /\ Sextets(s, q)[k] \in 0..63
             /\ e[4 * q + k] = IF 4 * q + k <= C THEN Base64(Sextets(s, q)[k]) ELSE Pad64
  <2>1. q \in Nat /\ q < Groups(Len(s)) /\ 4 * q + k \in 1..(4 * N)
    BY <1>1
  <2>2. k <= Len(s) - 3 * q + 1 <=> 4 * q + k <= Chars64(Len(s))
    <3>1. Len(s) \in Nat
      OBVIOUS
    <3>. QED
      BY <2>1, <3>1, InGroup
  <2>3. e[4 * q + k] = IF k <= Len(s) - 3 * q + 1 THEN Base64(Sextets(s, q)[k]) ELSE Pad64
    BY TextOfBytes
  <2>. QED
    BY <2>1, <2>2, <2>3, SextetsAre
<1>. HIDE DEF N, C
<1>4. ASSUME NEW i \in 1..Len(e)
      PROVE  e[i] \in 43..122 /\ (i <= C => e[i] \in Characters /\ e[i] # Pad64) /\ (i > C => e[i] = Pad64)
  <2>1. PICK q \in 0..(N - 1), k \in 1..4 : i = 4 * q + k
    <3>1. i \in 1..(4 * N)
      BY <1>2
    <3>. QED
      BY <1>1, <3>1, GroupOf
  <2>2. Sextets(s, q)[k] \in 0..63 /\ e[i] = IF i <= C THEN Base64(Sextets(s, q)[k]) ELSE Pad64
    BY <1>3, <2>1
  <2>3. Base64(Sextets(s, q)[k]) \in Characters /\ Base64(Sextets(s, q)[k]) \in 43..122 /\ Base64(Sextets(s, q)[k]) # Pad64
    BY <2>2, Table64
  <2>4. Pad64 \in 43..122 /\ i \in Nat
    BY DEF Pad64, EQUALS
  <2>. QED
    BY <1>1, <2>2, <2>3, <2>4
<1>5. NoBlanks(e) = e
  <2>1. ASSUME NEW c \in 43..122 PROVE ~isspace(c)
    BY DEF isspace, SP
  <2>2. \A i \in 1..Len(e) : ~isspace(e[i])
    BY <1>4, <2>1
  <2>. QED
    BY <1>2, <2>2, NoBlanksIs
<1>6. PadAt(e) = C + 1
  <2>1. /\ PadAt(e) \in 1..(Len(e) + 1) /\ \A i \in 1..(PadAt(e) - 1) : e[i] # Pad64
        /\ PadAt(e) <= Len(e) => e[PadAt(e)] = Pad64
    BY <1>2, PadAtIs
  <2>2. PICK p : p = PadAt(e)
    OBVIOUS
  <2>3. CASE p <= C
    <3>1. p \in 1..Len(e) /\ e[p] = Pad64
      BY <1>1, <1>2, <2>1, <2>2, <2>3
    <3>. QED
      BY <1>4, <2>3, <3>1
  <2>4. CASE p > C + 1
    <3>1. C + 1 \in 1..Len(e) /\ C + 1 > C /\ C + 1 \in 1..(p - 1)
      BY <1>1, <1>2, <2>1, <2>2, <2>4
    <3>. QED
      BY <1>4, <2>1, <2>2, <3>1
  <2>. QED
    BY <1>1, <1>2, <2>1, <2>2, <2>3, <2>4
<1>7. /\ CharsOf(e) \in Seq(Nat) /\ Len(CharsOf(e)) = C
      /\ \A i \in 1..C : CharsOf(e)[i] = e[i] /\ e[i] \in Characters
  <2>1. PadAt(e) - 1 = C
    BY <1>1, <1>6
  <2>2. \A i \in 1..C : i \in 1..Len(e) /\ i <= C
    BY <1>1, <1>2
  <2>. QED
    BY <1>2, <1>4, <2>1, <2>2, CharsOfIs
<1>8. ToSet(CharsOf(e)) \subseteq Characters
  <2>1. DOMAIN CharsOf(e) = 1..C
    BY <1>7
  <2>. QED
    BY <1>7, <2>1 DEF ToSet
<1>9. ASSUME NEW q \in 0..(N - 1), NEW k \in 1..4
      PROVE  ValueOr0(CharsOf(e), 4 * q + k) = IF 4 * q + k <= C THEN Sextets(s, q)[k] ELSE 0
  <2>1. CASE 4 * q + k <= C
    <3>1. 4 * q + k \in 1..C
      BY <1>1, <2>1
    <3>2. CharsOf(e)[4 * q + k] = Base64(Sextets(s, q)[k]) /\ Sextets(s, q)[k] \in 0..63
      BY <1>3, <1>7, <2>1, <3>1
    <3>3. Base64Values(Base64(Sextets(s, q)[k])) = Sextets(s, q)[k]
      BY <3>2, Table64
    <3>. QED
      BY <1>7, <2>1, <3>2, <3>3 DEF ValueOr0
  <2>2. CASE ~(4 * q + k <= C)
    BY <1>7, <2>2 DEF ValueOr0
  <2>. QED
    BY <2>1, <2>2
<1>. QED
  BY <1>5, <1>6, <1>8, <1>9 DEF N, C

(* Decoding undoes encoding. *)
LEMMA DecodeOfEncode ==
  ASSUME NEW s \in Seq(Byte)
  PROVE  b64_decode(b64_encode(s)) = s
<1>. DEFINE e == b64_encode(s)
            N == Groups(Len(s))
            C == Chars64(Len(s))
            L == Len(s)
            chars == CharsOf(e)
<1>0. L \in Nat
  OBVIOUS
<1>1. PICK a \in Nat : L = 3 * a \/ L = 3 * a + 1 \/ L = 3 * a + 2
  BY <1>0, Thirds
<1>2. /\ L = 3 * a => N = a /\ C = 4 * a
      /\ L = 3 * a + 1 => N = a + 1 /\ C = 4 * a + 2
      /\ L = 3 * a + 2 => N = a + 1 /\ C = 4 * a + 3
  BY <1>1, Counts
<1>3. e \in Seq(Nat) /\ Len(e) = 4 * N
  BY TextOfBytes
<1>4. /\ NoBlanks(e) = e /\ PadAt(e) = C + 1 /\ ToSet(chars) \subseteq Characters
      /\ \A q \in 0..(N - 1), k \in 1..4 :
           ValueOr0(chars, 4 * q + k) = IF 4 * q + k <= C THEN Sextets(s, q)[k] ELSE 0
  BY EncodedText
<1>5. \A i \in Nat \ {0} : ByteOr0(s, i) \in Byte
  <2>1. 0 \in Byte
    BY DEF Byte
  <2>. QED
    BY <2>1 DEF ByteOr0
<1>. HIDE DEF e, N, C, L
<1>6. chars \in Seq(Nat) /\ Len(chars) = C
  <2>1. C \in Nat
    BY <1>1, <1>2
  <2>. QED
    BY <1>3, <1>4, <2>1, CharsOfIs
<1>. HIDE DEF chars
<1>7. ASSUME NEW q \in 0..(N - 1), NEW k \in 1..3 PROVE Octets(chars, q)[k] = ByteOr0(s, 3 * q + k)
  <2>. DEFINE b1 == ByteOr0(s, 3 * q + 1)
              b2 == ByteOr0(s, 3 * q + 2)
              b3 == ByteOr0(s, 3 * q + 3)
  <2>0. q \in Nat
    BY <1>1, <1>2
  <2>1. b1 \in Byte /\ b2 \in Byte /\ b3 \in Byte
    BY <1>5, <2>0
  <2>2. /\ 4 * q + 2 > C => b2 = 0
        /\ 4 * q + 3 > C => b2 = 0 /\ b3 = 0
        /\ 4 * q + 4 > C => b3 = 0
        /\ 4 * q + 1 <= C /\ 4 * q + 2 <= C
    BY <1>1, <1>2, <2>0 DEF ByteOr0, L
  <2>3. Sextets(s, q) = <<Six1(b1), Six2(b1, b2), Six3(b2, b3), Six4(b3)>>
    BY DEF Sextets
  <2>. HIDE DEF b1, b2, b3
  <2>4. /\ ValueOr0(chars, 4 * q + 1) = Six1(b1)
        /\ ValueOr0(chars, 4 * q + 2) = Six2(b1, b2)
        /\ ValueOr0(chars, 4 * q + 3) = Six3(b2, b3)
        /\ ValueOr0(chars, 4 * q + 4) = Six4(b3)
    <3>1. /\ Sextets(s, q)[1] = Six1(b1) /\ Sextets(s, q)[2] = Six2(b1, b2)
          /\ Sextets(s, q)[3] = Six3(b2, b3) /\ Sextets(s, q)[4] = Six4(b3)
      BY <2>3
    <3>2. Six3(0, 0) = 0 /\ Six4(0) = 0
      BY Nothing64
    <3>3. /\ ValueOr0(chars, 4 * q + 1) = IF 4 * q + 1 <= C THEN Sextets(s, q)[1] ELSE 0
          /\ ValueOr0(chars, 4 * q + 2) = IF 4 * q + 2 <= C THEN Sextets(s, q)[2] ELSE 0
          /\ ValueOr0(chars, 4 * q + 3) = IF 4 * q + 3 <= C THEN Sextets(s, q)[3] ELSE 0
          /\ ValueOr0(chars, 4 * q + 4) = IF 4 * q + 4 <= C THEN Sextets(s, q)[4] ELSE 0
      BY <1>4
    <3>4. ValueOr0(chars, 4 * q + 3) = Six3(b2, b3)
      <4>1. CASE 4 * q + 3 <= C
        BY <3>1, <3>3, <4>1
      <4>2. CASE ~(4 * q + 3 <= C)
        <5>1. C \in Nat
          BY <1>1, <1>2
        <5>2. b2 = 0 /\ b3 = 0
          BY <2>0, <2>2, <4>2, <5>1
        <5>. QED
          BY <3>2, <3>3, <4>2, <5>2
      <4>. QED
        BY <4>1, <4>2
    <3>5. ValueOr0(chars, 4 * q + 4) = Six4(b3)
      <4>1. CASE 4 * q + 4 <= C
        BY <3>1, <3>3, <4>1
      <4>2. CASE ~(4 * q + 4 <= C)
        <5>1. C \in Nat
          BY <1>1, <1>2
        <5>2. b3 = 0
          BY <2>0, <2>2, <4>2, <5>1
        <5>. QED
          BY <3>2, <3>3, <4>2, <5>2
      <4>. QED
        BY <4>1, <4>2
    <3>. QED
      BY <2>2, <3>1, <3>3, <3>4, <3>5
  <2>5. Octets(chars, q) = <<b1, b2, b3>>
    <3>1. /\ Eight1(Six1(b1), Six2(b1, b2)) = b1
          /\ Eight2(Six2(b1, b2), Six3(b2, b3)) = b2
          /\ Eight3(Six3(b2, b3), Six4(b3)) = b3
      BY <2>1, Pack
    <3>. QED
      BY <2>4, <3>1 DEF Octets
  <2>6. Octets(chars, q)[1] = b1 /\ Octets(chars, q)[2] = b2 /\ Octets(chars, q)[3] = b3
    BY <2>5
  <2>7. k = 1 \/ k = 2 \/ k = 3
    OBVIOUS
  <2>. QED
    BY <2>6, <2>7 DEF b1, b2, b3
<1>. DEFINE all == Bits(chars)
<1>8. /\ BytesOf(C) = L /\ L \in Nat
      /\ L = 3 * a => Len(all) = 3 * a
      /\ L = 3 * a + 1 => Len(all) = 3 * a + 2
      /\ L = 3 * a + 2 => Len(all) = 3 * a + 3
  <2>1. Len(all) = (6 * C + 7) \div 8
    BY <1>6, BitsAre
  <2>2. CASE L = 3 * a
    BY <1>2, <2>1, <2>2, Counts DEF BytesOf
  <2>3. CASE L = 3 * a + 1
    BY <1>2, <2>1, <2>3, Counts DEF BytesOf
  <2>4. CASE L = 3 * a + 2
    BY <1>2, <2>1, <2>4, Counts DEF BytesOf
  <2>. QED
    BY <1>1, <2>2, <2>3, <2>4
<1>9. ASSUME NEW i \in 1..Len(all) PROVE all[i] = ByteOr0(s, i)
  <2>0. Len(all) \in Nat /\ i - 1 \in Nat
    BY <1>1, <1>8
  <2>1. PICK q \in Nat : i - 1 = 3 * q \/ i - 1 = 3 * q + 1 \/ i - 1 = 3 * q + 2
    BY <2>0, Thirds
  <2>2. PICK k \in 1..3 : i = 3 * q + k
    <3>1. i = 3 * q + 1 \/ i = 3 * q + 2 \/ i = 3 * q + 3
      BY <2>1
    <3>. QED
      BY <3>1
  <2>3. q \in 0..(N - 1)
    BY <1>1, <1>2, <1>8, <2>0, <2>2
  <2>4. 3 * q + k <= Len(all)
    BY <2>2
  <2>5. all[3 * q + k] = Octets(chars, q)[k]
    BY <1>6, <2>4, BitsAre
  <2>. QED
    BY <1>7, <2>2, <2>3, <2>5
<1>. HIDE DEF all
<1>10. Extra(chars) = 0
  <2>1. CASE L < Len(all)
    <3>1. L + 1 \in 1..Len(all)
      BY <1>1, <1>8, <2>1
    <3>2. ByteOr0(s, L + 1) = 0
      BY <1>8 DEF ByteOr0, L
    <3>3. Extra(chars) = all[L + 1]
      BY <1>6, <1>8, <2>1 DEF Extra, all
    <3>. QED
      BY <1>9, <3>1, <3>2, <3>3
  <2>2. CASE ~(L < Len(all))
    BY <1>6, <1>8, <2>2 DEF Extra, all
  <2>. QED
    BY <2>1, <2>2
<1>11. b64_trailer(C % 4, From(e, C + 1), 0)
  <2>. DEFINE tail == From(e, C + 1)
  <2>1. /\ tail \in Seq(Nat) /\ Len(tail) = 4 * N - C /\ \A i \in 1..Len(tail) : tail[i] = e[C + i]
    <3>1. tail = SubSeq(e, C + 1, 4 * N)
      BY <1>3 DEF From
    <3>2. C + 1 \in Int /\ 4 * N \in Int /\ \A i \in (C + 1)..(4 * N) : e[i] \in Nat
      <4>1. C \in Nat /\ N \in Nat
        BY <1>1, <1>2
      <4>2. \A i \in (C + 1)..(4 * N) : i \in 1..Len(e)
        BY <1>3, <4>1
      <4>. QED
        BY <1>3, <4>1, <4>2
    <3>3. /\ SubSeq(e, C + 1, 4 * N) \in Seq(Nat)
          /\ Len(SubSeq(e, C + 1, 4 * N)) = IF C + 1 <= 4 * N THEN 4 * N - (C + 1) + 1 ELSE 0
          /\ \A i \in 1..(4 * N - (C + 1) + 1) : SubSeq(e, C + 1, 4 * N)[i] = e[(C + 1) + i - 1]
      BY <3>2, SubSeqProperties
    <3>4. C \in Nat /\ C <= 4 * N /\ N \in Nat
      BY <1>1, <1>2
    <3>5. (IF C + 1 <= 4 * N THEN 4 * N - (C + 1) + 1 ELSE 0) = 4 * N - C
      BY <3>4
    <3>6. \A i \in 1..(4 * N - C) : i \in 1..(4 * N - (C + 1) + 1) /\ (C + 1) + i - 1 = C + i
      BY <3>4
    <3>. QED
      BY <3>1, <3>3, <3>5, <3>6
  <2>. HIDE DEF tail
  <2>2. CASE L = 3 * a
    <3>1. Len(tail) = 0 /\ C % 4 = 0
      BY <1>2, <2>1, <2>2
    <3>2. tail = <<>>
      BY <2>1, <3>1, EmptySeq
    <3>. QED
      BY <3>1, <3>2 DEF b64_trailer, tail
  <2>3. CASE L # 3 * a
    <3>1. C % 4 \in {2, 3} /\ Len(tail) = 4 - (C % 4) /\ Len(tail) \in 1..2 /\ C % 4 > 0
      <4>1. CASE L = 3 * a + 1
        <5>1. C = 4 * a + 2 /\ Len(tail) = 2
          BY <1>2, <2>1, <4>1
        <5>2. C % 4 = 2
          BY <5>1
        <5>. QED
          BY <5>1, <5>2
      <4>2. CASE L = 3 * a + 2
        <5>1. C = 4 * a + 3 /\ Len(tail) = 1
          BY <1>2, <2>1, <4>2
        <5>2. C % 4 = 3
          BY <5>1
        <5>. QED
          BY <5>1, <5>2
      <4>3. L = 3 * a + 1 \/ L = 3 * a + 2
        BY <1>1, <2>3
      <4>. QED
        BY <4>1, <4>2, <4>3
    <3>2. \A i \in 1..Len(tail) : tail[i] = Pad64
      <4>. SUFFICES ASSUME NEW i \in 1..Len(tail) PROVE e[C + i] = Pad64
        BY <2>1
      <4>1. PICK q \in 0..(N - 1), k \in 1..4 : C + i = 4 * q + k
        <5>1. N \in Nat /\ C \in Nat
          BY <1>1, <1>2
        <5>2. i \in 1..(4 * N - C)
          BY <2>1
        <5>3. C + i \in 1..(4 * N)
          BY <5>1, <5>2
        <5>. QED
          BY <5>1, <5>3, GroupOf
      <4>2. ~(k <= L - 3 * q + 1)
        <5>1. q \in Nat /\ q < N /\ ~(4 * q + k <= C)
          BY <1>1, <1>2, <4>1
        <5>. QED
          BY <1>8, <5>1, InGroup DEF N, C, L
      <4>. QED
        <5>1. e[4 * q + k] = IF k <= L - 3 * q + 1 THEN Base64(Sextets(s, q)[k]) ELSE Pad64
          BY TextOfBytes DEF e, N, L
        <5>. QED
          BY <4>1, <4>2, <5>1
    <3>3. ToSet(tail) = {Pad64}
      <4>1. DOMAIN tail = 1..Len(tail) /\ 1 \in 1..Len(tail)
        BY <2>1, <3>1
      <4>. QED
        BY <3>2, <4>1 DEF ToSet
    <3>. QED
      <4>1. tail # <<>>
        BY <3>1
      <4>. QED
        BY <3>1, <3>3, <4>1 DEF b64_trailer, tail
  <2>. QED
    BY <2>2, <2>3
<1>12. Valid(e)
  BY <1>4, <1>6, <1>10, <1>11 DEF Valid, chars
<1>13. SubSeq(all, 1, L) = s
  <2>1. L <= Len(all) /\ Len(all) \in Nat
    BY <1>1, <1>8
  <2>2. \A i \in 1..L : i \in 1..Len(all) /\ all[i] = s[i]
    BY <1>8, <1>9, <2>1 DEF ByteOr0, L
  <2>3. /\ SubSeq(all, 1, L) \in Seq(Byte) /\ Len(SubSeq(all, 1, L)) = IF 1 <= L THEN L - 1 + 1 ELSE 0
        /\ \A i \in 1..(L - 1 + 1) : SubSeq(all, 1, L)[i] = all[1 + i - 1]
    <3>1. \A i \in 1..L : all[i] \in Byte
      BY <2>2 DEF L
    <3>. QED
      BY <1>8, <3>1, SubSeqProperties
  <2>4. Len(SubSeq(all, 1, L)) = L /\ \A i \in 1..L : SubSeq(all, 1, L)[i] = s[i]
    BY <1>8, <2>2, <2>3
  <2>. QED
    BY <2>3, <2>4, SeqEqual DEF L
<1>14. b64_decode(e) = SubSeq(all, 1, BytesOf(C))
  BY <1>4, <1>6, <1>12, DecodeIs DEF chars, all
<1>. QED
  BY <1>8, <1>13, <1>14 DEF e

(* What is decoded is encoded as the same text. *)
LEMMA EncodeOfDecode ==
  ASSUME NEW src \in Seq(Nat), b64_decode(src) # INVALID
  PROVE  b64_encode(b64_decode(src)) = NoBlanks(src)
<1>1. PICK text : text = NoBlanks(src)
  OBVIOUS
<1>. DEFINE chars == CharsOf(text)
            C == Len(chars)
            all == Bits(chars)
            n == BytesOf(C)
            r == SubSeq(all, 1, n)
            tail == From(text, PadAt(text))
<1>2. text \in Seq(Nat)
  BY <1>1, NoBlanksIs
<1>3. Valid(text) /\ b64_decode(src) = r
  <2>1. b64_decode(src) = IF Valid(text) THEN r ELSE INVALID
    BY <1>1, DecodeIs
  <2>. QED
    BY <2>1
<1>4. /\ chars \in Seq(Nat) /\ C \in Nat /\ C <= Len(text) /\ PadAt(text) = C + 1
      /\ \A i \in 1..C : chars[i] = text[i]
  <2>1. /\ CharsOf(text) \in Seq(Nat) /\ Len(CharsOf(text)) = PadAt(text) - 1
        /\ \A i \in 1..(PadAt(text) - 1) : CharsOf(text)[i] = text[i]
    BY <1>2, CharsOfIs
  <2>2. PadAt(text) \in 1..(Len(text) + 1) /\ Len(text) \in Nat
    BY <1>2, PadAtIs
  <2>. QED
    BY <2>1, <2>2
<1>5. \A i \in 1..C : text[i] \in Characters
  <2>1. DOMAIN chars = 1..C /\ ToSet(chars) \subseteq Characters
    BY <1>3, <1>4 DEF Valid
  <2>. QED
    BY <1>4, <2>1 DEF ToSet
<1>6. b64_trailer(C % 4, tail, Extra(chars))
  BY <1>3 DEF Valid
<1>7. /\ tail \in Seq(Nat) /\ Len(tail) = Len(text) - C /\ \A i \in 1..Len(tail) : tail[i] = text[C + i]
  <2>1. tail = SubSeq(text, C + 1, Len(text))
    BY <1>4 DEF From
  <2>2. \A i \in (C + 1)..Len(text) : text[i] \in Nat
    <3>1. \A i \in (C + 1)..Len(text) : i \in 1..Len(text)
      BY <1>2, <1>4
    <3>. QED
      BY <1>2, <3>1
  <2>3. /\ SubSeq(text, C + 1, Len(text)) \in Seq(Nat)
        /\ Len(SubSeq(text, C + 1, Len(text))) = IF C + 1 <= Len(text) THEN Len(text) - (C + 1) + 1 ELSE 0
        /\ \A i \in 1..(Len(text) - (C + 1) + 1) : SubSeq(text, C + 1, Len(text))[i] = text[(C + 1) + i - 1]
    <3>1. C + 1 \in Int /\ Len(text) \in Int
      BY <1>2, <1>4
    <3>. QED
      BY <2>2, <3>1, SubSeqProperties
  <2>4. (IF C + 1 <= Len(text) THEN Len(text) - (C + 1) + 1 ELSE 0) = Len(text) - C
    BY <1>2, <1>4
  <2>5. \A i \in 1..(Len(text) - C) : i \in 1..(Len(text) - (C + 1) + 1) /\ (C + 1) + i - 1 = C + i
    BY <1>2, <1>4
  <2>. HIDE DEF C
  <2>. QED
    BY <2>1, <2>3, <2>4, <2>5
<1>8. /\ Len(all) = (6 * C + 7) \div 8
      /\ \A q \in Nat, k \in 1..3 : 3 * q + k <= Len(all) => all[3 * q + k] = Octets(chars, q)[k]
      /\ Extra(chars) = IF n < Len(all) THEN all[n + 1] ELSE 0
  BY <1>4, BitsAre DEF Extra
<1>9. ASSUME NEW i \in Nat \ {0} PROVE ValueOr0(chars, i) \in 0..63
  <2>1. CASE i <= C
    <3>1. i \in 1..C
      BY <1>4, <2>1
    <3>. QED
      BY <1>4, <1>5, <2>1, <3>1, Table64 DEF ValueOr0
  <2>2. CASE ~(i <= C)
    BY <2>2 DEF ValueOr0
  <2>. QED
    BY <2>1, <2>2
<1>. HIDE DEF chars, C, all, n, r, tail
<1>10. /\ tail = <<>> => C % 4 = 0
       /\ tail # <<>> => /\ C % 4 = 2 \/ C % 4 = 3
                         /\ Len(tail) = 4 - (C % 4) /\ Extra(chars) = 0
                         /\ \A i \in 1..Len(tail) : tail[i] = Pad64
  <2>1. DOMAIN tail = 1..Len(tail)
    BY <1>7
  <2>2. ToSet(tail) = {Pad64} => \A i \in 1..Len(tail) : tail[i] = Pad64
    BY <2>1 DEF ToSet
  <2>. QED
    BY <1>6, <2>2 DEF b64_trailer
<1>11. PICK a \in Nat :
         \/ C = 4 * a /\ tail = <<>>
         \/ C = 4 * a + 2 /\ tail # <<>>
         \/ C = 4 * a + 3 /\ tail # <<>>
  <2>1. PICK a \in Nat : C = 4 * a \/ C = 4 * a + 1 \/ C = 4 * a + 2 \/ C = 4 * a + 3
    BY <1>4, Quarters
  <2>2. /\ C = 4 * a => C % 4 = 0
        /\ C = 4 * a + 1 => C % 4 = 1
        /\ C = 4 * a + 2 => C % 4 = 2
        /\ C = 4 * a + 3 => C % 4 = 3
    OBVIOUS
  <2>3. CASE tail = <<>>
    <3>1. C = 4 * a
      BY <1>10, <2>1, <2>2, <2>3
    <3>. QED
      BY <2>1, <2>3, <3>1
  <2>4. CASE tail # <<>>
    BY <1>10, <2>1, <2>2, <2>4
  <2>. QED
    BY <2>3, <2>4
<1>12. /\ C = 4 * a => n = 3 * a /\ Len(all) = 3 * a /\ Groups(n) = a /\ Chars64(n) = C
       /\ C = 4 * a + 2 => n = 3 * a + 1 /\ Len(all) = 3 * a + 2 /\ Groups(n) = a + 1 /\ Chars64(n) = C
       /\ C = 4 * a + 3 => n = 3 * a + 2 /\ Len(all) = 3 * a + 3 /\ Groups(n) = a + 1 /\ Chars64(n) = C
  <2>1. CASE C = 4 * a
    BY <1>8, <2>1, Counts DEF BytesOf, n
  <2>2. CASE C = 4 * a + 2
    BY <1>8, <2>2, Counts DEF BytesOf, n
  <2>3. CASE C = 4 * a + 3
    BY <1>8, <2>3, Counts DEF BytesOf, n
  <2>. QED
    BY <1>11, <2>1, <2>2, <2>3
<1>13. Len(text) = 4 * Groups(n)
  <2>1. CASE tail = <<>>
    <3>1. Len(tail) = 0
      BY <2>1
    <3>. QED
      BY <1>2, <1>4, <1>7, <1>11, <1>12, <2>1, <3>1
  <2>2. CASE tail # <<>>
    <3>0. Len(tail) = 4 - (C % 4) /\ Len(tail) = Len(text) - C
      BY <1>7, <1>10, <2>2
    <3>1. Len(text) = C + (4 - (C % 4))
      BY <1>2, <1>4, <3>0
    <3>2. CASE C = 4 * a + 2
      <4>1. C % 4 = 2
        BY <3>2
      <4>. QED
        BY <1>12, <3>1, <3>2, <4>1
    <3>3. CASE C = 4 * a + 3
      <4>1. C % 4 = 3
        BY <3>3
      <4>. QED
        BY <1>12, <3>1, <3>3, <4>1
    <3>. QED
      BY <1>11, <2>2, <3>2, <3>3
  <2>. QED
    BY <2>1, <2>2
<1>14. n \in Nat /\ Groups(n) \in Nat /\ n <= Len(all) /\ Len(all) <= 3 * Groups(n) /\ Len(all) \in Nat
  BY <1>11, <1>12
<1>15. ASSUME NEW q \in Nat
       PROVE  /\ ValueOr0(chars, 4 * q + 1) \in 0..63 /\ ValueOr0(chars, 4 * q + 2) \in 0..63
              /\ ValueOr0(chars, 4 * q + 3) \in 0..63 /\ ValueOr0(chars, 4 * q + 4) \in 0..63
  BY <1>9
<1>16. ASSUME NEW q \in Nat, NEW k \in 1..3 PROVE Octets(chars, q)[k] \in Byte
  <2>1. /\ Eight1(ValueOr0(chars, 4 * q + 1), ValueOr0(chars, 4 * q + 2)) \in Byte
        /\ Eight2(ValueOr0(chars, 4 * q + 2), ValueOr0(chars, 4 * q + 3)) \in Byte
        /\ Eight3(ValueOr0(chars, 4 * q + 3), ValueOr0(chars, 4 * q + 4)) \in Byte
    BY <1>15, Unpack
  <2>2. Octets(chars, q)[1] \in Byte /\ Octets(chars, q)[2] \in Byte /\ Octets(chars, q)[3] \in Byte
    BY <2>1 DEF Octets
  <2>3. k = 1 \/ k = 2 \/ k = 3
    OBVIOUS
  <2>. QED
    BY <2>2, <2>3
<1>17. ASSUME NEW i \in 1..n PROVE all[i] \in Byte
  <2>0. i - 1 \in Nat
    OBVIOUS
  <2>1. PICK q \in Nat : i - 1 = 3 * q \/ i - 1 = 3 * q + 1 \/ i - 1 = 3 * q + 2
    BY <2>0, Thirds
  <2>2. PICK k \in 1..3 : i = 3 * q + k
    <3>1. i = 3 * q + 1 \/ i = 3 * q + 2 \/ i = 3 * q + 3
      BY <2>1
    <3>. QED
      BY <3>1
  <2>3. 3 * q + k <= Len(all)
    BY <1>14, <2>2
  <2>. QED
    BY <1>8, <1>16, <2>2, <2>3
<1>18. r \in Seq(Byte) /\ Len(r) = n /\ \A i \in 1..n : r[i] = all[i]
  <2>1. /\ SubSeq(all, 1, n) \in Seq(Byte) /\ Len(SubSeq(all, 1, n)) = IF 1 <= n THEN n - 1 + 1 ELSE 0
        /\ \A i \in 1..(n - 1 + 1) : SubSeq(all, 1, n)[i] = all[1 + i - 1]
    BY <1>14, <1>17, SubSeqProperties
  <2>. QED
    BY <1>14, <2>1 DEF r
<1>19. ASSUME NEW q \in Nat, q < Groups(n), NEW k \in 1..3 PROVE ByteOr0(r, 3 * q + k) = Octets(chars, q)[k]
  <2>1. CASE 3 * q + k <= n
    <3>1. 3 * q + k \in 1..n /\ 3 * q + k <= Len(all)
      BY <1>14, <2>1
    <3>2. all[3 * q + k] = Octets(chars, q)[k]
      BY <1>8, <3>1
    <3>. QED
      BY <1>18, <2>1, <3>1, <3>2 DEF ByteOr0
  <2>2. CASE 3 * q + k > n
    <3>1. ByteOr0(r, 3 * q + k) = 0
      BY <1>14, <1>18, <2>2 DEF ByteOr0
    <3>2. q = a /\ (C = 4 * a + 2 \/ C = 4 * a + 3) /\ tail # <<>>
      BY <1>11, <1>12, <1>19, <2>2
    <3>3. Extra(chars) = 0
      BY <1>10, <3>2
    <3>4. CASE 3 * q + k = n + 1
      <4>1. n < Len(all) /\ all[n + 1] = Octets(chars, q)[k]
        <5>1. n < Len(all) /\ 3 * q + k <= Len(all)
          BY <1>12, <3>2, <3>4
        <5>. QED
          BY <1>8, <3>4, <5>1
      <4>. QED
        BY <1>8, <3>1, <3>3, <4>1
    <3>5. CASE 3 * q + k # n + 1
      <4>1. k = 3 /\ C = 4 * q + 2
        BY <1>12, <2>2, <3>2, <3>5
      <4>2. ValueOr0(chars, 4 * q + 3) = 0 /\ ValueOr0(chars, 4 * q + 4) = 0
        BY <4>1 DEF ValueOr0, C
      <4>3. Octets(chars, q)[3] = 0
        BY <4>2, Nothing64 DEF Octets
      <4>. QED
        BY <3>1, <4>1, <4>3
    <3>. QED
      BY <3>4, <3>5
  <2>. QED
    BY <1>14, <2>1, <2>2
<1>20. ASSUME NEW q \in Nat, q < Groups(n), NEW k \in 1..4 PROVE Sextets(r, q)[k] = ValueOr0(chars, 4 * q + k)
  <2>. DEFINE v == ValueOr0(chars, 4 * q + 1)
              w == ValueOr0(chars, 4 * q + 2)
              x == ValueOr0(chars, 4 * q + 3)
              y == ValueOr0(chars, 4 * q + 4)
  <2>1. v \in 0..63 /\ w \in 0..63 /\ x \in 0..63 /\ y \in 0..63
    BY <1>15
  <2>2. /\ Octets(chars, q)[1] = Eight1(v, w) /\ Octets(chars, q)[2] = Eight2(w, x)
        /\ Octets(chars, q)[3] = Eight3(x, y)
    BY DEF Octets
  <2>3. ByteOr0(r, 3 * q + 1) = Eight1(v, w) /\ ByteOr0(r, 3 * q + 2) = Eight2(w, x) /\ ByteOr0(r, 3 * q + 3) = Eight3(x, y)
    BY <1>19, <1>20, <2>2
  <2>. HIDE DEF v, w, x, y
  <2>4. /\ Six1(Eight1(v, w)) = v /\ Six2(Eight1(v, w), Eight2(w, x)) = w
        /\ Six3(Eight2(w, x), Eight3(x, y)) = x /\ Six4(Eight3(x, y)) = y
    BY <2>1, Unpack
  <2>5. Sextets(r, q) = <<v, w, x, y>>
    BY <2>3, <2>4 DEF Sextets
  <2>6. Sextets(r, q)[1] = v /\ Sextets(r, q)[2] = w /\ Sextets(r, q)[3] = x /\ Sextets(r, q)[4] = y
    BY <2>5
  <2>7. k = 1 \/ k = 2 \/ k = 3 \/ k = 4
    OBVIOUS
  <2>. QED
    BY <2>6, <2>7 DEF v, w, x, y
<1>21. b64_encode(r) \in Seq(Nat) /\ Len(b64_encode(r)) = Len(text)
  BY <1>13, <1>18, TextOfBytes
<1>22. ASSUME NEW i \in 1..Len(text) PROVE b64_encode(r)[i] = text[i]
  <2>1. PICK q \in 0..(Groups(n) - 1), k \in 1..4 : i = 4 * q + k
    <3>1. i \in 1..(4 * Groups(n))
      BY <1>13
    <3>. QED
      BY <1>14, <3>1, GroupOf
  <2>2. q \in Nat /\ q < Groups(n)
    BY <1>14
  <2>3. b64_encode(r)[4 * q + k] = IF k <= n - 3 * q + 1 THEN Base64(Sextets(r, q)[k]) ELSE Pad64
    BY <1>18, TextOfBytes
  <2>4. k <= n - 3 * q + 1 <=> 4 * q + k <= C
    BY <1>11, <1>12, <1>14, <2>2, InGroup
  <2>5. CASE i <= C
    <3>1. i \in 1..C /\ Sextets(r, q)[k] = Base64Values(chars[i])
      BY <1>20, <2>1, <2>2, <2>5 DEF ValueOr0, C
    <3>2. Base64(Base64Values(text[i])) = text[i] /\ chars[i] = text[i]
      BY <1>4, <1>5, <3>1, Table64
    <3>. QED
      BY <2>1, <2>3, <2>4, <2>5, <3>1, <3>2
  <2>6. CASE i > C
    <3>1. i - C \in 1..Len(tail) /\ C + (i - C) = i
      BY <1>2, <1>4, <1>7, <2>6
    <3>2. tail # <<>>
      BY <3>1
    <3>3. text[i] = Pad64
      BY <1>7, <1>10, <3>1, <3>2
    <3>. QED
      BY <1>4, <2>1, <2>3, <2>4, <2>6, <3>3
  <2>. QED
    BY <1>2, <1>4, <2>5, <2>6
<1>23. b64_encode(r) = text
  BY <1>2, <1>21, <1>22, SeqEqual
<1>. QED
  BY <1>1, <1>3, <1>23

(* What a function is asked, before and after its call, and what it answers. *)
Answers ==
  /\ fn = "b64_encode" => in \in Bytes64 /\ out \in {NoAnswer, <<b64_encode(in)>>}
  /\ fn = "b64_decode" => in \in Text64 /\ out \in {NoAnswer, <<b64_decode(in)>>}
  /\ fn = "ip_mask_match" => in \in Mask /\ out \in {NoAnswer, <<{ip \in Ip : ip_mask_match(in, ip)}>>}
  /\ fn = "ip_addr_compare" => in \in Ip \X Ip /\ out \in {NoAnswer, <<ip_addr_compare(in[1], in[2])>>}
  /\ fn = "ip4_match_range" =>
       /\ in \in Bound \X Bound
       /\ out \in {NoAnswer, <<{ip \in Ip : /\ ip.family = AF_INET
                                          /\ ip4_match_range(ip.addr, in[1] \o <<DASH>> \o in[2])}>>}
  /\ fn = "ip_port_to_str" => in \in IpPort /\ out \in {NoAnswer, <<ip_port_to_str(in)>>}

Called == {"b64_encode", "b64_decode", "ip_mask_match", "ip_addr_compare", "ip4_match_range", "ip_port_to_str"}

LEMMA AnswersHolds == CodecsSpec => []Answers
<1>1. CodecsInit => Answers
  BY DEF CodecsInit, Answers
<1>2. Answers /\ [CodecsNext]_codecsVars => Answers'
  <2>. SUFFICES ASSUME Answers, [CodecsNext]_codecsVars PROVE Answers'
    OBVIOUS
  <2>1. CASE UNCHANGED codecsVars
    BY <2>1 DEF Answers, codecsVars
  <2>2. CASE Returns("b64_encode", b64_encode(in))
    BY <2>2 DEF Returns, Answers
  <2>3. CASE Returns("b64_decode", b64_decode(in))
    BY <2>3 DEF Returns, Answers
  <2>4. CASE Returns("ip_mask_match", {ip \in Ip : ip_mask_match(in, ip)})
    BY <2>4 DEF Returns, Answers
  <2>5. CASE Returns("ip_addr_compare", ip_addr_compare(in[1], in[2]))
    BY <2>5 DEF Returns, Answers
  <2>6. CASE Returns("ip4_match_range",
                     {ip \in Ip : ip.family = AF_INET /\ ip4_match_range(ip.addr, in[1] \o <<DASH>> \o in[2])})
    BY <2>6 DEF Returns, Answers
  <2>7. CASE Returns("ip_port_to_str", ip_port_to_str(in))
    BY <2>7 DEF Returns, Answers
  <2>8. CASE \E f, a : f \notin Called /\ Returns(f, a)
    BY <2>8 DEF Returns, Answers, Called
  <2>9. ASSUME CodecsNext
        PROVE  \/ \E f, a : f \notin Called /\ Returns(f, a)
               \/ Returns("b64_encode", b64_encode(in))
               \/ Returns("b64_decode", b64_decode(in))
               \/ Returns("ip_mask_match", {ip \in Ip : ip_mask_match(in, ip)})
               \/ Returns("ip_addr_compare", ip_addr_compare(in[1], in[2]))
               \/ Returns("ip4_match_range",
                          {ip \in Ip : ip.family = AF_INET /\ ip4_match_range(ip.addr, in[1] \o <<DASH>> \o in[2])})
               \/ Returns("ip_port_to_str", ip_port_to_str(in))
    BY <2>9 DEF CodecsNext, Called
  <2>. QED
    BY <2>1, <2>2, <2>3, <2>4, <2>5, <2>6, <2>7, <2>8, <2>9
<1>. QED
  BY <1>1, <1>2, PTL DEF CodecsSpec

LEMMA BytesAreNumbers ==
  ASSUME NEW s \in Seq(Byte)
  PROVE  s \in Seq(Nat)
<1>1. Byte \subseteq Nat
  BY DEF Byte
<1>2. s \in [1..Len(s) -> Byte] /\ Len(s) \in Nat
  OBVIOUS
<1>3. s \in [1..Len(s) -> Nat]
  BY <1>1, <1>2
<1>. QED
  BY <1>2, <1>3

(* Base64Canonical: b64_decode undoes b64_encode for byte strings of any   *)
(* length, and a text it does not refuse is, without its blanks, the one   *)
(* text of its bytes: no other pads, no bits that slop over.               *)
THEOREM Base64CanonicalHolds == CodecsSpec => []Base64Canonical
<1>1. Answers => Base64Canonical
  <2>. SUFFICES ASSUME Answers PROVE Base64Canonical
    OBVIOUS
  <2>1. ASSUME Answered("b64_encode") PROVE b64_decode(answer) = in
    <3>1. in \in Seq(Byte) /\ out = <<b64_encode(in)>>
      BY <2>1, Base64Assumption DEF Answers, Answered
    <3>. QED
      BY <3>1, DecodeOfEncode DEF answer
  <2>2. ASSUME Answered("b64_decode"), answer # INVALID PROVE b64_encode(answer) = NoBlanks(in)
    <3>0. in \in Seq(0..127) /\ out = <<b64_decode(in)>>
      BY <2>2, Base64Assumption DEF Answers, Answered
    <3>1. in \in Seq(Byte)
      BY <3>0 DEF Byte
    <3>2. answer = b64_decode(in)
      BY <3>0 DEF answer
    <3>. QED
      BY <2>2, <3>1, <3>2, BytesAreNumbers, EncodeOfDecode
  <2>. QED
    BY <2>1, <2>2 DEF Base64Canonical
<1>. QED
  BY <1>1, AnswersHolds, PTL

-----------------------------------------------------------------------------
(* Whole numbers *)

LEMMA Division ==
  ASSUME NEW a \in Int, NEW n \in Nat \ {0}
  PROVE  a \div n \in Int /\ a % n \in 0..(n - 1) /\ a = n * (a \div n) + (a % n)
BY SMT

LEMMA DivisionIs ==
  ASSUME NEW a \in Int, NEW n \in Nat \ {0}, NEW q \in Int, NEW r \in 0..(n - 1), a = n * q + r
  PROVE  a \div n = q /\ a % n = r
<1>. DEFINE p == a \div n
            s == a % n
<1>1. s \in 0..(n - 1) /\ p \in Int /\ a = n * p + s
  BY Division
<1>. SUFFICES p = q /\ s = r
  OBVIOUS
<1>. HIDE DEF p, s
<1>2. n * (p - q) = r - s
  BY <1>1
<1>3. CASE p > q
  <2>1. n * (p - q) >= n
    BY <1>1, <1>3
  <2>. QED
    BY <2>1, <1>2, <1>1
<1>4. CASE p < q
  <2>1. n * (q - p) >= n
    BY <1>1, <1>4
  <2>2. n * (q - p) = s - r
    BY <1>1
  <2>. QED
    BY <2>1, <2>2, <1>1
<1>5. CASE p = q
  BY <1>1, <1>5
<1>. QED
  BY <1>1, <1>3, <1>4, <1>5

(* Dividing twice *)
LEMMA DivDiv ==
  ASSUME NEW a \in Int, NEW m \in Nat \ {0}, NEW n \in Nat \ {0}
  PROVE  (a \div m) \div n = a \div (m * n)
<1>1. PICK p \in Int, r \in 0..(m - 1) : a \div m = p /\ a = m * p + r
  BY Division
<1>2. PICK q \in Int, s \in 0..(n - 1) : p \div n = q /\ p = n * q + s
  BY Division
<1>3. m * n \in Nat \ {0}
  BY SMT
<1>4. a = (m * n) * q + (m * s + r)
  <2>1. m * (n * q + s) = (m * n) * q + m * s
    BY <1>2
  <2>. QED
    BY <1>1, <1>2, <2>1
<1>5. m * s + r \in 0..(m * n - 1)
  <2>1. m * s \in Nat
    BY <1>2
  <2>2. m * s <= m * (n - 1)
    BY <1>2
  <2>3. m * (n - 1) = m * n - m
    OBVIOUS
  <2>. QED
    BY <1>1, <1>3, <2>1, <2>2, <2>3
<1>6. a \div (m * n) = q
  BY <1>3, <1>4, <1>5, DivisionIs
<1>. QED
  BY <1>1, <1>2, <1>6

LEMMA DivOrder ==
  ASSUME NEW a \in Int, NEW b \in Int, NEW m \in Nat \ {0}, a \div m < b \div m
  PROVE  a < b
<1>1. PICK p \in Int, r \in 0..(m - 1) : a \div m = p /\ a = m * p + r
  BY Division
<1>2. PICK q \in Int, s \in 0..(m - 1) : b \div m = q /\ b = m * q + s
  BY Division
<1>3. m * (p + 1) <= m * q
  BY <1>1, <1>2
<1>. QED
  BY <1>1, <1>2, <1>3

(* A number is twice its half, and its last bit. *)
LEMMA Halves ==
  ASSUME NEW a \in Int
  PROVE  a \div 2 \in Int /\ a % 2 \in 0..1 /\ a = 2 * (a \div 2) + (a % 2)
OBVIOUS

-----------------------------------------------------------------------------
(* Powers of two *)

Doubles(f, m) == f[0] = 1 /\ \A i \in 1..m : f[i] = 2 * f[i - 1]

LEMMA DoublesExist ==
  ASSUME NEW n \in Nat
  PROVE  \E f : Doubles(f, n)
<1>. DEFINE S == {m \in 0..n : \E f : Doubles(f, m)}
<1>1. 0 \in S
  <2>1. Doubles([i \in 0..0 |-> 1], 0)
    BY DEF Doubles
  <2>. QED
    BY <2>1
<1>2. ASSUME NEW m \in 0..n, m \in S, m < n PROVE m + 1 \in S
  <2>1. PICK f : Doubles(f, m)
    BY <1>2
  <2>2. PICK g : g = [i \in 0..(m + 1) |-> IF i = m + 1 THEN 2 * f[m] ELSE f[i]]
    OBVIOUS
  <2>3. ASSUME NEW i \in 1..(m + 1) PROVE g[i] = 2 * g[i - 1]
    <3>1. i - 1 \in 0..m /\ g[i - 1] = f[i - 1]
      BY <2>2
    <3>2. CASE i = m + 1
      BY <2>2, <3>1, <3>2
    <3>3. CASE i # m + 1
      <4>1. i \in 1..m /\ g[i] = f[i]
        BY <2>2, <3>3
      <4>. QED
        BY <2>1, <3>1, <4>1 DEF Doubles
    <3>. QED
      BY <3>2, <3>3
  <2>4. g[0] = 1
    BY <2>1, <2>2 DEF Doubles
  <2>5. Doubles(g, m + 1)
    BY <2>3, <2>4 DEF Doubles
  <2>. QED
    BY <1>2, <2>5
<1>3. \A i \in 0..n : i \in S
  <2>. HIDE DEF S
  <2>. QED
    BY <1>1, <1>2, UpTo
<1>. QED
  BY <1>3

LEMMA DoublesUnique ==
  ASSUME NEW n \in Nat, NEW f, NEW g, Doubles(f, n), Doubles(g, n)
  PROVE  f[n] = g[n]
<1>. DEFINE S == {m \in 0..n : f[m] = g[m]}
<1>1. 0 \in S
  BY DEF Doubles
<1>2. ASSUME NEW m \in 0..n, m \in S, m < n PROVE m + 1 \in S
  <2>1. m + 1 \in 1..n /\ (m + 1) - 1 = m
    BY <1>2
  <2>. QED
    BY <1>2, <2>1 DEF Doubles
<1>3. \A i \in 0..n : i \in S
  <2>. HIDE DEF S
  <2>. QED
    BY <1>1, <1>2, UpTo
<1>. QED
  BY <1>3

LEMMA Pow2Is ==
  Pow2 = [n \in Nat |-> IF n = 0 THEN 1 ELSE 2 * Pow2[n - 1]]
<1>. DEFINE D(n) == CHOOSE f : Doubles(f, n)
            F == [n \in Nat |-> D(n)[n]]
<1>1. ASSUME NEW n \in Nat PROVE Doubles(D(n), n)
  BY DoublesExist
<1>. HIDE DEF D
<1>2. F[0] = 1
  BY <1>1 DEF Doubles
<1>3. ASSUME NEW n \in Nat, n # 0 PROVE F[n] = 2 * F[n - 1]
  <2>1. n - 1 \in Nat /\ n \in 1..n
    BY <1>3
  <2>2. Doubles(D(n), n) /\ Doubles(D(n - 1), n - 1)
    BY <1>1, <2>1
  <2>3. Doubles(D(n), n - 1)
    BY <2>1, <2>2 DEF Doubles
  <2>4. D(n)[n - 1] = D(n - 1)[n - 1]
    BY <2>1, <2>2, <2>3, DoublesUnique
  <2>5. D(n)[n] = 2 * D(n)[n - 1]
    BY <2>1, <2>2 DEF Doubles
  <2>. QED
    BY <2>1, <2>4, <2>5
<1>4. F = [n \in Nat |-> IF n = 0 THEN 1 ELSE 2 * F[n - 1]]
  <2>1. \A n \in Nat : F[n] = IF n = 0 THEN 1 ELSE 2 * F[n - 1]
    BY <1>2, <1>3
  <2>2. F = [n \in Nat |-> F[n]]
    OBVIOUS
  <2>. HIDE DEF F
  <2>. QED
    BY <2>1, <2>2
<1>. HIDE DEF F
<1>. QED
  BY <1>4 DEF Pow2

LEMMA Pow2Next ==
  Pow2[0] = 1 /\ \A n \in Nat : Pow2[n + 1] = 2 * Pow2[n]
<1>1. Pow2[0] = 1
  BY Pow2Is
<1>2. ASSUME NEW n \in Nat PROVE Pow2[n + 1] = 2 * Pow2[n]
  <2>1. n + 1 \in Nat /\ n + 1 # 0 /\ (n + 1) - 1 = n
    OBVIOUS
  <2>. QED
    BY <2>1, Pow2Is
<1>. QED
  BY <1>1, <1>2

LEMMA Pow2Pos ==
  ASSUME NEW n \in Nat
  PROVE  Pow2[n] \in Nat \ {0}
<1>. DEFINE S == {m \in 0..n : Pow2[m] \in Nat \ {0}}
<1>1. 0 \in S
  BY Pow2Next
<1>2. ASSUME NEW m \in 0..n, m \in S, m < n PROVE m + 1 \in S
  BY <1>2, Pow2Next
<1>3. \A i \in 0..n : i \in S
  <2>. HIDE DEF S
  <2>. QED
    BY <1>1, <1>2, UpTo
<1>. QED
  BY <1>3

LEMMA Pow2Plus ==
  ASSUME NEW m \in Nat, NEW n \in Nat
  PROVE  Pow2[m + n] = Pow2[m] * Pow2[n]
<1>. DEFINE S == {k \in 0..n : Pow2[m + k] = Pow2[m] * Pow2[k]}
<1>1. 0 \in S
  BY Pow2Next, Pow2Pos
<1>2. ASSUME NEW k \in 0..n, k \in S, k < n PROVE k + 1 \in S
  <2>1. Pow2[m + (k + 1)] = 2 * Pow2[m + k]
    <3>1. m + k \in Nat /\ m + (k + 1) = (m + k) + 1
      OBVIOUS
    <3>. QED
      BY <3>1, Pow2Next
  <2>2. Pow2[k + 1] = 2 * Pow2[k]
    BY Pow2Next
  <2>3. Pow2[m] \in Nat /\ Pow2[k] \in Nat /\ Pow2[m + k] = Pow2[m] * Pow2[k]
    BY <1>2, Pow2Pos
  <2>4. Pow2[m] * (2 * Pow2[k]) = 2 * (Pow2[m] * Pow2[k])
    BY <2>3
  <2>. QED
    BY <1>2, <2>1, <2>2, <2>3, <2>4
<1>3. \A i \in 0..n : i \in S
  <2>. HIDE DEF S
  <2>. QED
    BY <1>1, <1>2, UpTo
<1>. QED
  BY <1>3

-----------------------------------------------------------------------------
(* The bits of an address *)

(* Bit j of a byte, from the first. *)
BitOf(b, j) == (b \div Pow2[ByteBits - 1 - j]) % 2

(* A byte without all bits but the first p. *)
Top(b, p) == b \div Pow2[ByteBits - p]

LEMMA ByteRange ==
  /\ Full + 1 = Pow2[ByteBits] /\ Full \in Nat /\ Octet \subseteq Nat
  /\ \A b \in Octet : b < Pow2[ByteBits]
<1>1. Pow2[ByteBits] \in Nat \ {0}
  BY WidthAssumption, Pow2Pos
<1>. QED
  BY <1>1 DEF Full, Octet

LEMMA TopNext ==
  ASSUME NEW b \in Nat, NEW j \in 0..(ByteBits - 1)
  PROVE  Top(b, j + 1) = 2 * Top(b, j) + BitOf(b, j) /\ BitOf(b, j) \in 0..1 /\ Top(b, j) \in Int
<1>1. PICK k \in Nat : k = ByteBits - 1 - j
  BY WidthAssumption
<1>2. ByteBits - (j + 1) = k /\ ByteBits - j = k + 1
  BY <1>1, WidthAssumption
<1>3. Pow2[k] \in Nat \ {0} /\ Pow2[k + 1] = Pow2[k] * 2
  BY Pow2Pos, Pow2Next
<1>4. PICK d \in Nat \ {0} : d = Pow2[k]
  BY <1>3
<1>5. b \div d \in Int
  BY Division
<1>6. (b \div d) \div 2 = b \div (d * 2)
  <2>1. b \in Int /\ 2 \in Nat \ {0}
    OBVIOUS
  <2>. QED
    BY <2>1, DivDiv, Zenon
<1>7. Top(b, j + 1) = b \div d /\ Top(b, j) = b \div (d * 2) /\ BitOf(b, j) = (b \div d) % 2
  BY <1>1, <1>2, <1>3, <1>4 DEF Top, BitOf
<1>. QED
  BY <1>5, <1>6, <1>7, Halves

LEMMA TopNone ==
  ASSUME NEW b \in Octet
  PROVE  Top(b, 0) = 0
<1>1. b \in Nat /\ b \in 0..(Pow2[ByteBits] - 1) /\ Pow2[ByteBits] \in Nat \ {0}
  BY ByteRange, Pow2Pos, WidthAssumption
<1>2. b = Pow2[ByteBits] * 0 + b
  BY <1>1
<1>3. b \div Pow2[ByteBits] = 0
  BY <1>1, <1>2, DivisionIs
<1>4. ByteBits - 0 = ByteBits
  BY WidthAssumption
<1>. QED
  BY <1>3, <1>4 DEF Top

LEMMA TopAll ==
  ASSUME NEW b \in Nat
  PROVE  Top(b, ByteBits) = b
<1>1. ByteBits - ByteBits = 0
  BY WidthAssumption
<1>2. b = 1 * b + 0 /\ 0 \in 0..(1 - 1)
  OBVIOUS
<1>3. b \div 1 = b
  BY <1>2, DivisionIs
<1>. QED
  BY <1>1, <1>3, Pow2Next DEF Top

SameBits(a, b, p) == \A j \in 0..(p - 1) : BitOf(a, j) = BitOf(b, j)

LEMMA SameTop ==
  ASSUME NEW a \in Octet, NEW b \in Octet, NEW p \in 0..ByteBits
  PROVE  Top(a, p) = Top(b, p) <=> SameBits(a, b, p)
<1>. DEFINE S == {k \in 0..p : Top(a, k) = Top(b, k) <=> SameBits(a, b, k)}
<1>0. p \in Nat /\ p <= ByteBits /\ ByteBits \in Nat /\ a \in Nat /\ b \in Nat
  BY WidthAssumption, ByteRange
<1>1. 0 \in S
  <2>1. SameBits(a, b, 0)
    BY DEF SameBits
  <2>. QED
    BY <1>0, <2>1, TopNone
<1>2. ASSUME NEW k \in 0..p, k \in S, k < p PROVE k + 1 \in S
  <2>0. k \in 0..(ByteBits - 1) /\ k + 1 \in 0..p
    BY <1>0, <1>2
  <2>1. /\ Top(a, k + 1) = 2 * Top(a, k) + BitOf(a, k) /\ BitOf(a, k) \in 0..1 /\ Top(a, k) \in Int
        /\ Top(b, k + 1) = 2 * Top(b, k) + BitOf(b, k) /\ BitOf(b, k) \in 0..1 /\ Top(b, k) \in Int
    BY <1>0, <2>0, TopNext
  <2>2. Top(a, k + 1) = Top(b, k + 1) <=> Top(a, k) = Top(b, k) /\ BitOf(a, k) = BitOf(b, k)
    BY <2>1
  <2>3. SameBits(a, b, k + 1) <=> SameBits(a, b, k) /\ BitOf(a, k) = BitOf(b, k)
    <3>1. 0..((k + 1) - 1) = (0..(k - 1)) \cup {k}
      BY <2>0
    <3>. QED
      BY <3>1 DEF SameBits
  <2>. QED
    BY <1>2, <2>0, <2>2, <2>3
<1>3. \A k \in 0..p : k \in S
  <2>. HIDE DEF S
  <2>. QED
    BY <1>0, <1>1, <1>2, UpTo
<1>. QED
  BY <1>0, <1>3

LEMMA SameByte ==
  ASSUME NEW a \in Octet, NEW b \in Octet
  PROVE  a = b <=> SameBits(a, b, ByteBits)
<1>1. ByteBits \in 0..ByteBits /\ a \in Nat /\ b \in Nat
  BY WidthAssumption, ByteRange
<1>. QED
  BY <1>1, SameTop, TopAll

(* The first bit in which two bytes differ is their order. *)
LEMMA FirstBit ==
  ASSUME NEW a \in Octet, NEW b \in Octet, NEW j \in 0..(ByteBits - 1),
         SameBits(a, b, j), BitOf(a, j) # BitOf(b, j)
  PROVE  IF BitOf(a, j) = 0 THEN a < b ELSE b < a
<1>0. j \in 0..ByteBits /\ a \in Nat /\ b \in Nat /\ ByteBits \in Nat
  BY WidthAssumption, ByteRange
<1>1. Top(a, j) = Top(b, j)
  BY <1>0, SameTop
<1>2. /\ Top(a, j + 1) = 2 * Top(a, j) + BitOf(a, j) /\ BitOf(a, j) \in 0..1 /\ Top(a, j) \in Int
      /\ Top(b, j + 1) = 2 * Top(b, j) + BitOf(b, j) /\ BitOf(b, j) \in 0..1
  BY <1>0, TopNext
<1>3. ByteBits - (j + 1) \in Nat
  BY <1>0
<1>4. Pow2[ByteBits - (j + 1)] \in Nat \ {0}
  BY <1>3, Pow2Pos
<1>5. CASE BitOf(a, j) = 0
  <2>1. Top(a, j + 1) < Top(b, j + 1)
    BY <1>1, <1>2, <1>5
  <2>. QED
    BY <1>0, <1>4, <1>5, <2>1, DivOrder DEF Top
<1>6. CASE BitOf(a, j) # 0
  <2>1. Top(b, j + 1) < Top(a, j + 1)
    BY <1>1, <1>2, <1>6
  <2>. QED
    BY <1>0, <1>4, <1>6, <2>1, DivOrder DEF Top
<1>. QED
  BY <1>5, <1>6

LEMMA BitAt ==
  ASSUME NEW addr, NEW q \in Nat, NEW j \in 0..(ByteBits - 1)
  PROVE  Bit(addr, ByteBits * q + j) = BitOf(addr[q + 1], j)
<1>1. ByteBits \in Nat \ {0}
  BY WidthAssumption
<1>2. PICK i : i = ByteBits * q + j
  OBVIOUS
<1>3. i \in Int
  BY <1>1, <1>2
<1>4. i \div ByteBits = q /\ i % ByteBits = j
  BY <1>1, <1>2, <1>3, DivisionIs
<1>5. 1 + q = q + 1
  OBVIOUS
<1>. QED
  BY <1>2, <1>4, <1>5 DEF Bit, BitOf

(* Which bit of which byte the i-th bit is. *)
LEMMA BitPlace ==
  ASSUME NEW i \in Nat
  PROVE  \E q \in Nat, j \in 0..(ByteBits - 1) : i = ByteBits * q + j
<1>1. ByteBits \in Nat \ {0}
  BY WidthAssumption
<1>2. PICK q \in Int, j \in 0..(ByteBits - 1) : i = ByteBits * q + j
  <2>1. /\ i \div ByteBits \in Int /\ i % ByteBits \in 0..(ByteBits - 1)
        /\ i = ByteBits * (i \div ByteBits) + (i % ByteBits)
    BY <1>1, Division
  <2>. QED
    BY <2>1
<1>3. q >= 0
  <2>1. CASE q < 0
    <3>1. ByteBits * q <= ByteBits * (-1)
      BY <1>1, <2>1
    <3>. QED
      BY <1>1, <1>2, <3>1
  <2>. QED
    BY <2>1
<1>. QED
  BY <1>2, <1>3

(* The first c bits of two addresses: whole bytes, and part of one. *)
LEMMA SamePrefix ==
  ASSUME NEW n \in Nat, NEW a \in [1..n -> Octet], NEW b \in [1..n -> Octet],
         NEW w \in Nat, NEW p \in 0..(ByteBits - 1), ByteBits * w + p <= ByteBits * n
  PROVE  /\ p > 0 => w + 1 <= n
         /\ w <= n
         /\ (\A i \in 0..(ByteBits * w + p - 1) : Bit(a, i) = Bit(b, i))
              <=> (\A i \in 1..w : a[i] = b[i]) /\ SameBits(a[w + 1], b[w + 1], p)
<1>1. ByteBits \in Nat \ {0}
  BY WidthAssumption
<1>2. w <= n
  <2>1. CASE w > n
    <3>1. ByteBits * (w - n) >= ByteBits
      BY <1>1, <2>1
    <3>. QED
      BY <1>1, <3>1
  <2>. QED
    BY <2>1
<1>3. p > 0 => w + 1 <= n
  BY <1>1, <1>2
<1>4. ByteBits * w \in Nat
  BY <1>1
<1>5. ASSUME \A i \in 0..(ByteBits * w + p - 1) : Bit(a, i) = Bit(b, i)
      PROVE  (\A i \in 1..w : a[i] = b[i]) /\ SameBits(a[w + 1], b[w + 1], p)
  <2>1. ASSUME NEW i \in 1..w PROVE a[i] = b[i]
    <3>1. a[i] \in Octet /\ b[i] \in Octet /\ i - 1 \in Nat /\ (i - 1) + 1 = i
      BY <1>2
    <3>2. ASSUME NEW j \in 0..(ByteBits - 1) PROVE BitOf(a[i], j) = BitOf(b[i], j)
      <4>1. ByteBits * (i - 1) <= ByteBits * (w - 1) /\ ByteBits * (i - 1) \in Nat
        BY <1>1
      <4>2. ByteBits * (w - 1) = ByteBits * w - ByteBits
        BY <1>1
      <4>3. ByteBits * (i - 1) + j \in 0..(ByteBits * w + p - 1)
        BY <1>1, <1>4, <4>1, <4>2
      <4>4. Bit(a, ByteBits * (i - 1) + j) = Bit(b, ByteBits * (i - 1) + j)
        BY <1>5, <4>3
      <4>5. /\ Bit(a, ByteBits * (i - 1) + j) = BitOf(a[(i - 1) + 1], j)
            /\ Bit(b, ByteBits * (i - 1) + j) = BitOf(b[(i - 1) + 1], j)
        BY <3>1, BitAt
      <4>. QED
        BY <3>1, <4>4, <4>5
    <3>. QED
      BY <3>1, <3>2, SameByte DEF SameBits
  <2>2. ASSUME NEW j \in 0..(p - 1) PROVE BitOf(a[w + 1], j) = BitOf(b[w + 1], j)
    <3>1. j \in 0..(ByteBits - 1) /\ ByteBits * w + j \in 0..(ByteBits * w + p - 1)
      BY <1>1, <1>4
    <3>2. Bit(a, ByteBits * w + j) = Bit(b, ByteBits * w + j)
      BY <1>5, <3>1
    <3>. QED
      BY <3>1, <3>2, BitAt
  <2>. QED
    BY <2>1, <2>2 DEF SameBits
<1>6. ASSUME \A i \in 1..w : a[i] = b[i], SameBits(a[w + 1], b[w + 1], p),
             NEW i \in 0..(ByteBits * w + p - 1)
      PROVE  Bit(a, i) = Bit(b, i)
  <2>1. PICK q \in Nat, j \in 0..(ByteBits - 1) : i = ByteBits * q + j
    <3>1. i \in Nat
      BY <1>4
    <3>. QED
      BY <3>1, BitPlace
  <2>2. CASE q < w
    <3>1. a[q + 1] = b[q + 1]
      BY <1>6, <2>2
    <3>2. /\ Bit(a, ByteBits * q + j) = BitOf(a[q + 1], j)
          /\ Bit(b, ByteBits * q + j) = BitOf(b[q + 1], j)
      BY BitAt
    <3>. QED
      BY <2>1, <3>1, <3>2
  <2>3. CASE q >= w
    <3>1. q = w
      <4>1. CASE q > w
        <5>1. ByteBits * (q - w) >= ByteBits
          BY <1>1, <4>1
        <5>2. ByteBits * (q - w) = ByteBits * q - ByteBits * w
          BY <1>1
        <5>3. ByteBits * q \in Nat
          BY <1>1
        <5>. QED
          BY <1>1, <1>4, <2>1, <5>1, <5>2, <5>3
      <4>. QED
        BY <2>3, <4>1
    <3>2. j \in 0..(p - 1)
      BY <1>1, <1>4, <2>1, <3>1
    <3>3. BitOf(a[w + 1], j) = BitOf(b[w + 1], j)
      BY <1>6, <3>2 DEF SameBits
    <3>. QED
      BY <2>1, <3>1, <3>3, BitAt
  <2>. QED
    BY <2>2, <2>3
<1>. QED
  BY <1>2, <1>3, <1>5, <1>6

-----------------------------------------------------------------------------
(* Prefixes *)

LEMMA AddressSeq ==
  ASSUME NEW n \in Nat, NEW a \in [1..n -> Octet]
  PROVE  a \in Seq(Octet) /\ Len(a) = n /\ DOMAIN a = 1..n
OBVIOUS

LEMMA Factor ==
  ASSUME NEW x \in Int, NEW y \in Int, NEW d \in Nat \ {0}, x * d = y * d
  PROVE  x = y
<1>1. CASE x < y
  <2>1. (y - x) * d >= 1
    BY <1>1
  <2>2. (y - x) * d = y * d - x * d
    OBVIOUS
  <2>. QED
    BY <2>1, <2>2
<1>2. CASE y < x
  <2>1. (x - y) * d >= 1
    BY <1>2
  <2>2. (x - y) * d = x * d - y * d
    OBVIOUS
  <2>. QED
    BY <2>1, <2>2
<1>. QED
  BY <1>1, <1>2

LEMMA MaskedIs ==
  ASSUME NEW a \in Octet, NEW b \in Octet, NEW p \in 0..ByteBits
  PROVE  Masked(a, p) = Masked(b, p) <=> SameBits(a, b, p)
<1>1. a \in Nat /\ b \in Nat /\ ByteBits - p \in Nat
  BY ByteRange, WidthAssumption
<1>2. PICK d \in Nat \ {0} : d = Pow2[ByteBits - p]
  BY <1>1, Pow2Pos
<1>3. Masked(a, p) = (a \div d) * d /\ Masked(b, p) = (b \div d) * d
  BY <1>2 DEF Masked
<1>4. a \div d \in Int /\ b \div d \in Int
  BY <1>1, Division
<1>5. Masked(a, p) = Masked(b, p) <=> a \div d = b \div d
  BY <1>3, <1>4, Factor
<1>6. Top(a, p) = a \div d /\ Top(b, p) = b \div d
  BY <1>2 DEF Top
<1>. QED
  BY <1>5, <1>6, SameTop

(* What ip_mask_match compares are the bits of the prefix. *)
LEMMA MatchIs ==
  ASSUME NEW m, NEW ip, NEW n \in Nat, m.addr \in [1..n -> Octet], ip.addr \in [1..n -> Octet],
         m.cidr \in 0..(ByteBits * n)
  PROVE  ip_mask_match(m, ip)
           <=> /\ ip.family = m.family
               /\ \A i \in 0..(m.cidr - 1) : Bit(ip.addr, i) = Bit(m.addr, i)
<1>1. PICK a, b, c, K : a = ip.addr /\ b = m.addr /\ c = m.cidr /\ K = ByteBits
  OBVIOUS
<1>2. K \in Nat \ {0} /\ K * n \in Nat /\ c \in Nat /\ c <= K * n
  BY <1>1, WidthAssumption
<1>3. PICK w \in Int, p \in 0..(K - 1) : w = c \div K /\ p = c % K /\ c = K * w + p
  <2>1. c \div K \in Int /\ c % K \in 0..(K - 1) /\ c = K * (c \div K) + (c % K)
    BY <1>2, Division
  <2>. QED
    BY <2>1
<1>4. w \in Nat
  <2>1. PICK q \in Nat, j \in 0..(K - 1) : c = K * q + j
    BY <1>1, <1>2, BitPlace
  <2>2. c \div K = q
    <3>1. c \in Int /\ q \in Int
      BY <1>2
    <3>. QED
      BY <1>2, <2>1, <3>1, DivisionIs, Zenon
  <2>. QED
    BY <1>3, <2>2
<1>5. /\ p > 0 => w + 1 <= n
      /\ w <= n
      /\ (\A i \in 0..(c - 1) : Bit(a, i) = Bit(b, i))
           <=> (\A i \in 1..w : a[i] = b[i]) /\ SameBits(a[w + 1], b[w + 1], p)
  <2>1. a \in [1..n -> Octet] /\ b \in [1..n -> Octet]
    BY <1>1
  <2>2. p \in 0..(ByteBits - 1) /\ ByteBits * w + p <= ByteBits * n /\ c - 1 = ByteBits * w + p - 1
    BY <1>1, <1>2, <1>3
  <2>3. /\ p > 0 => w + 1 <= n
        /\ w <= n
        /\ (\A i \in 0..(ByteBits * w + p - 1) : Bit(a, i) = Bit(b, i))
             <=> (\A i \in 1..w : a[i] = b[i]) /\ SameBits(a[w + 1], b[w + 1], p)
    BY <1>4, <2>1, <2>2, SamePrefix
  <2>. QED
    BY <2>2, <2>3
<1>6. SubSeq(b, 1, w) = SubSeq(a, 1, w) <=> \A i \in 1..w : a[i] = b[i]
  <2>1. ASSUME NEW x \in {a, b} PROVE IsPiece(SubSeq(x, 1, w), x, 0, w)
    <3>1. PICK y, z : y = SubSeq(x, 1, w) /\ z = 0
      OBVIOUS
    <3>2. y = SubSeq(x, z + 1, z + w) /\ z \in Nat
      BY <1>4, <3>1
    <3>3. IsPiece(y, x, z, w)
      BY <1>4, <3>2, PieceIs
    <3>. QED
      BY <3>1, <3>3
  <2>2. PICK x, y, z : x = SubSeq(b, 1, w) /\ y = SubSeq(a, 1, w) /\ z = 0
    OBVIOUS
  <2>3. IsPiece(x, b, z, w) /\ IsPiece(y, a, z, w) /\ z \in Nat
    BY <2>1, <2>2
  <2>4. Alike(x, b, z, y, a, z, w)
    BY <1>4, <2>3, PiecesEqual
  <2>5. x = y <=> \A i \in 1..w : b[z + i] = a[z + i]
    BY <2>4 DEF Alike
  <2>6. \A i \in 1..w : z + i = i
    BY <2>2
  <2>. QED
    BY <2>2, <2>5, <2>6
<1>7. ip_mask_match(m, ip)
        <=> /\ m.family = ip.family
            /\ \/ c = 0
               \/ /\ SubSeq(b, 1, w) = SubSeq(a, 1, w)
                  /\ p > 0 => Masked(b[w + 1], p) = Masked(a[w + 1], p)
  BY <1>1, <1>3 DEF ip_mask_match
<1>8. (p > 0 => Masked(b[w + 1], p) = Masked(a[w + 1], p)) <=> SameBits(a[w + 1], b[w + 1], p)
  <2>1. CASE p = 0
    <3>1. SameBits(a[w + 1], b[w + 1], 0)
      BY DEF SameBits
    <3>. QED
      BY <2>1, <3>1
  <2>2. CASE p > 0
    <3>1. w + 1 \in 1..n
      BY <1>4, <1>5, <2>2
    <3>2. a[w + 1] \in Octet /\ b[w + 1] \in Octet /\ p \in 0..ByteBits
      BY <1>1, <1>2, <3>1
    <3>3. Masked(a[w + 1], p) = Masked(b[w + 1], p) <=> SameBits(a[w + 1], b[w + 1], p)
      BY <3>2, MaskedIs
    <3>. QED
      BY <2>2, <3>3
  <2>. QED
    BY <1>3, <2>1, <2>2
<1>9. c = 0 => \A i \in 0..(c - 1) : Bit(a, i) = Bit(b, i)
  OBVIOUS
<1>. QED
  BY <1>1, <1>5, <1>6, <1>7, <1>8, <1>9

-----------------------------------------------------------------------------
(* Addresses as numbers *)

LEMMA NumberIs ==
  ASSUME NEW addr, Len(addr) \in Nat
  PROVE  \E g : /\ g[0] = 0 /\ ntohl(addr) = g[Len(addr)]
                /\ \A i \in 1..Len(addr) : g[i] = g[i - 1] * Pow2[ByteBits] + addr[i]
<1>1. Reads(ReadNtohl(0, addr, Full + 1), "ntohl", 0, addr, Full + 1, 0)
  BY ReadNtohlIs
<1>2. ReadNtohl(0, addr, Full + 1) = ntohl(addr)
  BY DEF ReadNtohl, ntohl
<1>3. PICK g : Course(g, "ntohl", 0, addr, Full + 1, 0) /\ ntohl(addr) = g[Len(addr)]
  BY <1>1, <1>2 DEF Reads
<1>4. g[0] = 0 /\ \A i \in 1..Len(addr) : g[i] = g[i - 1] * (Full + 1) + addr[i]
  BY <1>3 DEF Course, Turn
<1>. QED
  BY <1>3, <1>4, ByteRange

LEMMA NumberOfBytes ==
  ASSUME NEW m \in Nat, m < Pow2[Bits4]
  PROVE  ntohl(htonl(m)) = m /\ htonl(m) \in [1..N4 -> Octet]
<1>. DEFINE Shifted(i) == m \div Pow2[ByteBits * (N4 - i)]
<1>0. ByteBits \in Nat \ {0} /\ N4 \in Nat \ {0} /\ Bits4 = ByteBits * N4 /\ Pow2[ByteBits] \in Nat \ {0}
  BY WidthAssumption, Pow2Pos DEF Bits4
<1>1. htonl(m) = [i \in 1..N4 |-> Shifted(i) % Pow2[ByteBits]]
  BY ByteRange DEF htonl
<1>2. ASSUME NEW i \in 0..N4 PROVE Shifted(i) \in Int /\ Pow2[ByteBits * (N4 - i)] \in Nat \ {0}
  <2>1. ByteBits * (N4 - i) \in Nat
    BY <1>0
  <2>2. PICK d \in Nat \ {0} : d = Pow2[ByteBits * (N4 - i)]
    BY <2>1, Pow2Pos
  <2>3. m \div d \in Int
    BY Division
  <2>. QED
    BY <2>2, <2>3
<1>3. ASSUME NEW i \in 1..N4
      PROVE  Shifted(i) % Pow2[ByteBits] \in Octet /\ Shifted(i) = Shifted(i - 1) * Pow2[ByteBits] + (Shifted(i) % Pow2[ByteBits])
  <2>1. PICK e \in Nat, d \in Nat \ {0}, B \in Nat \ {0} :
          e = ByteBits * (N4 - i) /\ d = Pow2[e] /\ B = Pow2[ByteBits]
    <3>1. ByteBits * (N4 - i) \in Nat
      BY <1>0
    <3>. QED
      BY <1>0, <3>1, Pow2Pos
  <2>2. ByteBits * (N4 - (i - 1)) = e + ByteBits
    BY <1>0, <2>1
  <2>3. Pow2[e + ByteBits] = d * B
    BY <1>0, <2>1, Pow2Plus
  <2>4. Shifted(i) = m \div d /\ Shifted(i - 1) = m \div (d * B)
    BY <2>1, <2>2, <2>3
  <2>5. m \in Int /\ m \div d \in Int
    BY Division
  <2>6. (m \div d) \div B = m \div (d * B)
    BY <2>5, DivDiv, Zenon
  <2>7. PICK x \in Int : x = m \div d
    BY <2>5
  <2>8. PICK y \in Int, z \in 0..(B - 1) : y = x \div B /\ z = x % B /\ x = B * y + z
    <3>1. x \div B \in Int /\ x % B \in 0..(B - 1) /\ x = B * (x \div B) + (x % B)
      BY Division
    <3>. QED
      BY <3>1
  <2>9. x % B \in Octet
    BY <2>1, <2>8 DEF Octet, Full
  <2>10. x = (m \div (d * B)) * B + (x % B)
    <3>1. y = m \div (d * B)
      BY <2>6, <2>7, <2>8
    <3>2. x = y * B + z
      BY <2>8
    <3>. QED
      BY <2>8, <3>1, <3>2
  <2>. HIDE DEF Shifted
  <2>. QED
    BY <2>1, <2>4, <2>7, <2>9, <2>10
<1>. HIDE DEF Shifted
<1>4. htonl(m) \in [1..N4 -> Octet]
  BY <1>1, <1>3
<1>5. Len(htonl(m)) = N4
  BY <1>0, <1>4, AddressSeq
<1>6. PICK g : /\ g[0] = 0 /\ ntohl(htonl(m)) = g[N4]
               /\ \A i \in 1..N4 : g[i] = g[i - 1] * Pow2[ByteBits] + htonl(m)[i]
  BY <1>0, <1>5, NumberIs
<1>7. Shifted(0) = 0
  <2>1. PICK d \in Nat \ {0} : d = Pow2[Bits4]
    BY <1>0, Pow2Pos
  <2>2. m = d * 0 + m /\ m \in 0..(d - 1)
    BY <2>1
  <2>3. m \div d = 0
    BY <2>2, DivisionIs
  <2>4. ByteBits * (N4 - 0) = Bits4
    BY <1>0
  <2>. QED
    BY <2>1, <2>3, <2>4 DEF Shifted
<1>8. Shifted(N4) = m
  <2>1. ByteBits * (N4 - N4) = 0
    BY <1>0
  <2>2. m = 1 * m + 0 /\ 0 \in 0..(1 - 1)
    OBVIOUS
  <2>3. m \div 1 = m
    BY <2>2, DivisionIs
  <2>. QED
    BY <2>1, <2>3, Pow2Next DEF Shifted
<1>9. g[N4] = Shifted(N4)
  <2>. DEFINE G == {i \in 0..N4 : g[i] = Shifted(i)}
  <2>1. 0 \in G
    BY <1>0, <1>6, <1>7
  <2>2. ASSUME NEW i \in 0..N4, i \in G, i < N4 PROVE i + 1 \in G
    <3>1. i + 1 \in 1..N4 /\ (i + 1) - 1 = i
      BY <1>0, <2>2
    <3>2. g[i + 1] = g[i] * Pow2[ByteBits] + (Shifted(i + 1) % Pow2[ByteBits])
      BY <1>1, <1>6, <3>1
    <3>3. Shifted(i + 1) = Shifted(i) * Pow2[ByteBits] + (Shifted(i + 1) % Pow2[ByteBits])
      BY <1>3, <3>1
    <3>. QED
      BY <2>2, <3>1, <3>2, <3>3
  <2>3. \A i \in 0..N4 : i \in G
    <3>. HIDE DEF G
    <3>. QED
      BY <1>0, <2>1, <2>2, UpTo
  <2>. QED
    BY <1>0, <2>3
<1>. QED
  BY <1>4, <1>6, <1>8, <1>9

(* A netmask is read back as the prefix it was made of. *)
LEMMA NetmaskIs ==
  ASSUME NEW c \in 0..Bits4
  PROVE  ip4_mask_to_cidr(ip4_cidr_to_mask(c)) = c
<1>. DEFINE Low(m) == {i \in 0..(Bits4 - 1) : (m \div Pow2[i]) % 2 = 1}
<1>0. Bits4 \in Nat \ {0}
  BY WidthAssumption DEF Bits4
<1>1. Pow2[Bits4] \in Nat \ {0}
  BY <1>0, Pow2Pos
<1>2. ASSUME NEW m \in Nat, m < Pow2[Bits4]
      PROVE  ip4_mask_to_cidr(htonl(m)) = Bits4 - (IF Low(m) = {} THEN Bits4 ELSE Min(Low(m)))
  BY <1>2, NumberOfBytes DEF ip4_mask_to_cidr
<1>3. CASE c = 0
  <2>1. Low(0) = {}
    <3>1. ASSUME NEW i \in 0..(Bits4 - 1) PROVE (0 \div Pow2[i]) % 2 = 0
      <4>1. PICK d \in Nat \ {0} : d = Pow2[i]
        BY <1>0, Pow2Pos
      <4>2. 0 = d * 0 + 0 /\ 0 \in 0..(d - 1)
        OBVIOUS
      <4>3. 0 \div d = 0
        BY <4>2, DivisionIs
      <4>. QED
        BY <4>1, <4>3
    <3>. QED
      BY <3>1
  <2>2. ip4_cidr_to_mask(c) = htonl(0)
    BY <1>3 DEF ip4_cidr_to_mask
  <2>3. ip4_mask_to_cidr(htonl(0)) = Bits4 - Bits4
    <3>. HIDE DEF Low
    <3>1. 0 \in Nat /\ 0 < Pow2[Bits4]
      BY <1>1
    <3>. QED
      BY <1>2, <2>1, <3>1
  <2>. QED
    BY <1>0, <1>3, <2>2, <2>3
<1>4. CASE c # 0
  <2>1. PICK k \in Nat, d \in Nat \ {0}, P \in Nat \ {0} : k = Bits4 - c /\ d = Pow2[k] /\ P = Pow2[c - 1]
    <3>1. Bits4 - c \in Nat /\ c - 1 \in Nat
      BY <1>0, <1>4
    <3>. QED
      BY <3>1, Pow2Pos
  <2>2. Pow2[Bits4] = d * (2 * P)
    <3>1. c \in Nat /\ c - 1 \in Nat /\ c = (c - 1) + 1 /\ Bits4 = k + c
      BY <1>0, <1>4, <2>1
    <3>2. Pow2[c] = 2 * P
      BY <2>1, <3>1, Pow2Next
    <3>3. Pow2[k + c] = Pow2[k] * Pow2[c]
      BY <3>1, Pow2Plus
    <3>. QED
      BY <2>1, <3>1, <3>2, <3>3
  <2>3. PICK o \in Nat : o = 2 * P - 1
    BY <2>1
  <2>4. PICK m \in Nat : m = Pow2[Bits4] - d /\ m = d * o /\ m < Pow2[Bits4]
    <3>1. d * (2 * P) - d = d * o
      BY <2>3
    <3>2. d * o \in Nat
      OBVIOUS
    <3>. QED
      BY <1>1, <2>2, <3>1, <3>2
  <2>5. ip4_cidr_to_mask(c) = htonl(m)
    <3>1. ~(c <= 0 \/ c > Bits4)
      BY <1>0, <1>4
    <3>. QED
      BY <2>1, <2>4, <3>1 DEF ip4_cidr_to_mask
  <2>6. k \in Low(m)
    <3>1. m = d * o + 0 /\ 0 \in 0..(d - 1)
      BY <2>4
    <3>2. m \div d = o
      BY <3>1, DivisionIs
    <3>3. o % 2 = 1
      BY <2>3
    <3>4. k \in 0..(Bits4 - 1)
      BY <1>0, <1>4, <2>1
    <3>. QED
      BY <2>1, <3>2, <3>3, <3>4
  <2>7. ASSUME NEW i \in 0..(Bits4 - 1), i < k PROVE i \notin Low(m)
    <3>1. PICK r \in Nat, e \in Nat \ {0}, Q \in Nat \ {0} : r = k - i - 1 /\ e = Pow2[i] /\ Q = Pow2[r]
      <4>1. k - i - 1 \in Nat /\ i \in Nat
        BY <2>7
      <4>. QED
        BY <4>1, Pow2Pos
    <3>2. d = e * (2 * Q)
      <4>1. i \in Nat /\ r + 1 \in Nat /\ k = i + (r + 1)
        BY <2>1, <3>1
      <4>2. Pow2[r + 1] = 2 * Q
        BY <3>1, Pow2Next
      <4>3. Pow2[i + (r + 1)] = Pow2[i] * Pow2[r + 1]
        BY <4>1, Pow2Plus
      <4>. QED
        BY <2>1, <3>1, <4>1, <4>2, <4>3
    <3>3. PICK y \in Int : y = Q * o
      OBVIOUS
    <3>4. m = e * (2 * y) + 0 /\ 0 \in 0..(e - 1)
      <4>1. (e * (2 * Q)) * o = e * (2 * (Q * o))
        OBVIOUS
      <4>. QED
        BY <2>4, <3>2, <3>3, <4>1
    <3>5. m \in Int /\ 2 * y \in Int
      OBVIOUS
    <3>6. m \div e = 2 * y
      BY <3>4, <3>5, DivisionIs, Zenon
    <3>7. (2 * y) % 2 = 0
      OBVIOUS
    <3>. QED
      BY <3>1, <3>6, <3>7
  <2>8. Min(Low(m)) = k
    <3>1. Low(m) \in SUBSET Nat /\ Low(m) # {} /\ \A i \in Low(m) : i \in 0..(Bits4 - 1)
      BY <1>0, <2>6
    <3>. HIDE DEF Low
    <3>2. Min(Low(m)) \in Low(m) /\ Min(Low(m)) <= k
      BY <2>6, <3>1, MinNat
    <3>3. ~(Min(Low(m)) < k)
      BY <2>7, <3>1, <3>2
    <3>. QED
      BY <2>1, <3>1, <3>2, <3>3
  <2>. HIDE DEF Low
  <2>9. ip4_mask_to_cidr(htonl(m)) = Bits4 - k
    BY <1>2, <2>4, <2>6, <2>8
  <2>. QED
    BY <1>0, <2>1, <2>5, <2>9
<1>. QED
  BY <1>3, <1>4

(* The bytes of an address are as many as its family has. *)
Width(family) == IF family = AF_INET THEN N4 ELSE N6

LEMMA AddressIs ==
  ASSUME NEW ip, ip \in {Pton[t] : t \in DOMAIN Pton}
  PROVE  /\ ip.family \in {AF_INET, AF_INET6} /\ ip = [family |-> ip.family, addr |-> ip.addr]
         /\ ip.addr \in [1..Width(ip.family) -> Octet] /\ Len(ip.addr) = Width(ip.family)
         /\ Width(ip.family) \in Nat \ {0}
<1>1. ip \in V4 \cup V6
  BY PtonAssumption
<1>2. AF_INET # AF_INET6
  BY DEF AF_INET, AF_INET6
<1>3. N4 \in Nat \ {0} /\ N6 \in Nat \ {0}
  BY WidthAssumption
<1>4. CASE ip \in V4
  <2>1. ip.family = AF_INET /\ ip.addr \in [1..N4 -> Octet] /\ ip = [family |-> ip.family, addr |-> ip.addr]
    BY <1>4 DEF V4
  <2>. QED
    BY <1>3, <2>1, AddressSeq DEF Width
<1>5. CASE ip \in V6
  <2>1. ip.family = AF_INET6 /\ ip.addr \in [1..N6 -> Octet] /\ ip = [family |-> ip.family, addr |-> ip.addr]
    BY <1>5 DEF V6
  <2>. QED
    BY <1>2, <1>3, <2>1, AddressSeq DEF Width
<1>. QED
  BY <1>1, <1>4, <1>5

(* PrefixMatch: an address matches a mask of any length if its first cidr  *)
(* bits are the mask's; a netmask of any length is read back.              *)
THEOREM PrefixMatchHolds == CodecsSpec => []PrefixMatch
<1>1. Answers => PrefixMatch
  <2>. SUFFICES ASSUME Answers, Answered("ip_mask_match")
                PROVE  /\ answer = {ip \in Ip : /\ ip.family = in.family
                                                /\ \A i \in 0..(in.cidr - 1) : Bit(ip.addr, i) = Bit(in.addr, i)}
                       /\ in.family = AF_INET => ip4_mask_to_cidr(ip4_cidr_to_mask(in.cidr)) = in.cidr
    BY DEF PrefixMatch
  <2>1. in \in Mask /\ answer = {ip \in Ip : ip_mask_match(in, ip)}
    BY DEF Answers, Answered, answer
  <2>2. PICK net \in Ip : in.family = net.family /\ in.addr = net.addr /\ in.cidr \in 0..(ByteBits * Len(net.addr))
    BY <2>1 DEF Mask
  <2>3. PICK n \in Nat : n = Width(in.family) /\ in.addr \in [1..n -> Octet] /\ in.cidr \in 0..(ByteBits * n)
    <3>1. net \in {Pton[t] : t \in DOMAIN Pton}
      BY IpAssumption
    <3>. QED
      BY <2>2, <3>1, AddressIs
  <2>4. ASSUME NEW ip \in Ip
        PROVE  ip_mask_match(in, ip)
                 <=> /\ ip.family = in.family
                     /\ \A i \in 0..(in.cidr - 1) : Bit(ip.addr, i) = Bit(in.addr, i)
    <3>1. CASE ip.family = in.family
      <4>1. ip \in {Pton[t] : t \in DOMAIN Pton}
        BY IpAssumption
      <4>2. ip.addr \in [1..n -> Octet]
        BY <2>3, <3>1, <4>1, AddressIs
      <4>. QED
        BY <2>3, <4>2, MatchIs
    <3>2. CASE ip.family # in.family
      BY <3>2 DEF ip_mask_match
    <3>. QED
      BY <3>1, <3>2
  <2>5. ASSUME in.family = AF_INET PROVE in.cidr \in 0..Bits4
    BY <2>3, <2>5 DEF Width, Bits4
  <2>. QED
    BY <2>1, <2>4, <2>5, NetmaskIs
<1>. QED
  BY <1>1, AnswersHolds, PTL

-----------------------------------------------------------------------------
(* The order of addresses *)

LEMMA CompareIs ==
  ASSUME NEW n \in Nat, NEW a \in [1..n -> Octet], NEW b \in [1..n -> Octet],
         NEW d \in 1..n, \A i \in 1..(d - 1) : a[i] = b[i], a[d] # b[d]
  PROVE  memcmp(a, b) = IF a[d] < b[d] THEN -1 ELSE 1
<1>. DEFINE differ == {i \in DOMAIN a : a[i] # b[i]}
<1>1. differ \in SUBSET Nat /\ d \in differ /\ \A i \in differ : i >= d
  <2>1. ASSUME NEW i \in 1..n, i < d PROVE a[i] = b[i]
    BY <2>1
  <2>. QED
    BY <2>1
<1>2. memcmp(a, b) = IF differ = {} THEN 0 ELSE IF a[Min(differ)] < b[Min(differ)] THEN -1 ELSE 1
  BY DEF memcmp
<1>. HIDE DEF differ
<1>3. Min(differ) \in differ /\ Min(differ) <= d
  BY <1>1, MinNat
<1>4. Min(differ) = d
  <2>1. Min(differ) \in Nat /\ Min(differ) >= d
    BY <1>1, <1>3
  <2>. QED
    BY <1>3, <2>1
<1>. QED
  BY <1>1, <1>2, <1>4

LEMMA CompareSame ==
  ASSUME NEW a
  PROVE  memcmp(a, a) = 0
BY DEF memcmp

(* memcmp finds the first bit in which two addresses differ. *)
LEMMA CompareBits ==
  ASSUME NEW n \in Nat, NEW a \in [1..n -> Octet], NEW b \in [1..n -> Octet],
         NEW differ, differ = {i \in 0..(ByteBits * n - 1) : Bit(a, i) # Bit(b, i)}
  PROVE  memcmp(a, b) = IF differ = {} THEN 0 ELSE IF Bit(a, Min(differ)) = 0 THEN -1 ELSE 1
<1>1. ByteBits \in Nat \ {0} /\ ByteBits * n \in Nat
  BY WidthAssumption
<1>2. CASE differ = {}
  <2>1. \A i \in 0..(ByteBits * n + 0 - 1) : Bit(a, i) = Bit(b, i)
    <3>1. ByteBits * n + 0 - 1 = ByteBits * n - 1
      BY <1>1
    <3>. QED
      BY <1>2, <3>1
  <2>2. 0 \in 0..(ByteBits - 1) /\ ByteBits * n + 0 <= ByteBits * n
    BY <1>1
  <2>3. \A i \in 1..n : a[i] = b[i]
    BY <2>1, <2>2, SamePrefix
  <2>4. a = b
    BY <2>3
  <2>. QED
    BY <1>2, <2>4, CompareSame
<1>3. CASE differ # {}
  <2>1. differ \in SUBSET Nat
    BY <1>1
  <2>2. PICK i \in Nat : i = Min(differ) /\ i \in differ /\ \A y \in differ : i <= y
    BY <1>3, <2>1, MinNat
  <2>3. i <= ByteBits * n - 1 /\ Bit(a, i) # Bit(b, i)
    BY <1>1, <2>2
  <2>4. PICK q \in Nat, j \in 0..(ByteBits - 1) : i = ByteBits * q + j
    BY BitPlace
  <2>5. /\ Bit(a, i) = BitOf(a[q + 1], j) /\ Bit(b, i) = BitOf(b[q + 1], j)
    BY <2>4, BitAt
  <2>6. ByteBits * q + j <= ByteBits * n /\ ByteBits * q + j - 1 = i - 1
    BY <1>1, <2>3, <2>4
  <2>7. ASSUME NEW k \in 0..(i - 1) PROVE Bit(a, k) = Bit(b, k)
    <3>1. k \in 0..(ByteBits * n - 1) /\ k \notin differ
      BY <1>1, <2>2, <2>3
    <3>. QED
      BY <3>1
  <2>8. q <= n /\ (\A k \in 1..q : a[k] = b[k]) /\ SameBits(a[q + 1], b[q + 1], j)
    <3>1. \A k \in 0..(ByteBits * q + j - 1) : Bit(a, k) = Bit(b, k)
      BY <2>6, <2>7
    <3>2. /\ j > 0 => q + 1 <= n
          /\ q <= n
          /\ (\A k \in 0..(ByteBits * q + j - 1) : Bit(a, k) = Bit(b, k))
               <=> (\A k \in 1..q : a[k] = b[k]) /\ SameBits(a[q + 1], b[q + 1], j)
      BY <2>6, SamePrefix
    <3>. QED
      BY <3>1, <3>2
  <2>9. q + 1 \in 1..n
    <3>1. CASE q = n
      BY <1>1, <2>3, <2>4, <3>1
    <3>. QED
      BY <2>8, <3>1
  <2>10. a[q + 1] \in Octet /\ b[q + 1] \in Octet
    BY <2>9
  <2>11. IF BitOf(a[q + 1], j) = 0 THEN a[q + 1] < b[q + 1] ELSE b[q + 1] < a[q + 1]
    BY <2>3, <2>5, <2>8, <2>10, FirstBit
  <2>12. a[q + 1] \in Nat /\ b[q + 1] \in Nat
    BY <2>10, ByteRange
  <2>13. a[q + 1] # b[q + 1] /\ (a[q + 1] < b[q + 1] <=> Bit(a, i) = 0)
    BY <2>5, <2>11, <2>12
  <2>14. \A k \in 1..((q + 1) - 1) : a[k] = b[k]
    BY <2>8
  <2>15. memcmp(a, b) = IF a[q + 1] < b[q + 1] THEN -1 ELSE 1
    BY <2>9, <2>13, <2>14, CompareIs
  <2>. QED
    BY <1>3, <2>2, <2>13, <2>15
<1>. QED
  BY <1>2, <1>3

(* An address is below another if it is where they differ first. *)
LEMMA NumberLess ==
  ASSUME NEW n \in Nat, NEW a \in [1..n -> Octet], NEW b \in [1..n -> Octet],
         NEW d \in 1..n, \A i \in 1..(d - 1) : a[i] = b[i], a[d] < b[d]
  PROVE  ntohl(a) < ntohl(b)
<1>1. PICK B \in Nat \ {0} : B = Pow2[ByteBits]
  BY WidthAssumption, Pow2Pos
<1>2. ASSUME NEW i \in 1..n PROVE a[i] \in 0..(B - 1) /\ b[i] \in 0..(B - 1)
  <2>1. a[i] \in Octet /\ b[i] \in Octet
    OBVIOUS
  <2>2. Full + 1 = B /\ Full \in Nat
    BY <1>1, ByteRange
  <2>. QED
    BY <2>1, <2>2 DEF Octet
<1>3. Len(a) = n /\ Len(b) = n
  BY AddressSeq
<1>4. PICK f : f[0] = 0 /\ ntohl(a) = f[n] /\ \A i \in 1..n : f[i] = f[i - 1] * B + a[i]
  <2>1. PICK f : /\ f[0] = 0 /\ ntohl(a) = f[Len(a)]
                /\ \A i \in 1..Len(a) : f[i] = f[i - 1] * Pow2[ByteBits] + a[i]
    BY <1>3, NumberIs
  <2>. QED
    BY <1>1, <1>3, <2>1
<1>5. PICK g : g[0] = 0 /\ ntohl(b) = g[n] /\ \A i \in 1..n : g[i] = g[i - 1] * B + b[i]
  <2>1. PICK g : /\ g[0] = 0 /\ ntohl(b) = g[Len(b)]
                /\ \A i \in 1..Len(b) : g[i] = g[i - 1] * Pow2[ByteBits] + b[i]
    BY <1>3, NumberIs
  <2>. QED
    BY <1>1, <1>3, <2>1
<1>. DEFINE Below(i) == /\ f[i] \in Nat /\ g[i] \in Nat
                        /\ i < d => f[i] = g[i]
                        /\ i >= d => f[i] < g[i]
            S == {i \in 0..n : Below(i)}
<1>6. 0 \in S
  BY <1>4, <1>5
<1>7. ASSUME NEW i \in 0..n, i \in S, i < n PROVE i + 1 \in S
  <2>1. i + 1 \in 1..n /\ (i + 1) - 1 = i /\ i + 1 \in 0..n /\ i \in Nat
    BY <1>7
  <2>2. PICK x \in Nat, y \in Nat : x = f[i] /\ y = g[i] /\ (i < d => x = y) /\ (i >= d => x < y)
    BY <1>7
  <2>3. PICK v \in 0..(B - 1), w \in 0..(B - 1) : v = a[i + 1] /\ w = b[i + 1]
    BY <1>2, <2>1
  <2>4. f[i + 1] = x * B + v /\ g[i + 1] = y * B + w
    BY <1>4, <1>5, <2>1, <2>2, <2>3
  <2>5. x * B \in Nat /\ y * B \in Nat
    OBVIOUS
  <2>6. CASE i + 1 < d
    <3>1. i + 1 \in 1..(d - 1)
      BY <2>1, <2>6
    <3>2. v = w
      BY <2>3, <3>1
    <3>3. x = y
      BY <2>1, <2>2, <2>6
    <3>. QED
      BY <2>1, <2>4, <2>5, <2>6, <3>2, <3>3
  <2>7. CASE i + 1 = d
    <3>1. x = y
      BY <2>1, <2>2, <2>7
    <3>2. v < w
      BY <2>3, <2>7
    <3>3. f[i + 1] \in Nat /\ g[i + 1] \in Nat /\ f[i + 1] < g[i + 1]
      BY <2>4, <2>5, <3>1, <3>2
    <3>. QED
      BY <2>1, <2>7, <3>3
  <2>8. CASE i + 1 > d
    <3>1. x < y
      BY <2>1, <2>2, <2>8
    <3>2. (y - x) * B >= B /\ (y - x) * B = y * B - x * B
      BY <3>1
    <3>3. x * B + v < y * B + w
      BY <2>5, <3>2
    <3>. QED
      BY <2>1, <2>4, <2>5, <2>8, <3>3
  <2>. QED
    BY <2>1, <2>6, <2>7, <2>8
<1>8. \A i \in 0..n : i \in S
  <2>. HIDE DEF S
  <2>. QED
    BY <1>6, <1>7, UpTo
<1>9. Below(n)
  BY <1>8
<1>. QED
  BY <1>4, <1>5, <1>9

LEMMA NumberNat ==
  ASSUME NEW n \in Nat, NEW a \in [1..n -> Octet]
  PROVE  ntohl(a) \in Nat
<1>1. PICK B \in Nat \ {0} : B = Pow2[ByteBits]
  BY WidthAssumption, Pow2Pos
<1>2. Len(a) = n
  BY AddressSeq
<1>3. PICK f : f[0] = 0 /\ ntohl(a) = f[n] /\ \A i \in 1..n : f[i] = f[i - 1] * B + a[i]
  BY <1>1, <1>2, NumberIs
<1>. DEFINE S == {i \in 0..n : f[i] \in Nat}
<1>4. 0 \in S
  BY <1>3
<1>5. ASSUME NEW i \in 0..n, i \in S, i < n PROVE i + 1 \in S
  <2>1. i + 1 \in 1..n /\ (i + 1) - 1 = i /\ i + 1 \in 0..n
    BY <1>5
  <2>2. a[i + 1] \in Nat /\ f[i] \in Nat
    BY <1>5, <2>1, ByteRange
  <2>3. f[i + 1] = f[i] * B + a[i + 1]
    BY <1>3, <2>1
  <2>. QED
    BY <2>1, <2>2, <2>3
<1>6. \A i \in 0..n : i \in S
  <2>. HIDE DEF S
  <2>. QED
    BY <1>4, <1>5, UpTo
<1>. QED
  BY <1>3, <1>6

(* The order of the numbers is memcmp's. *)
LEMMA NumberOrder ==
  ASSUME NEW n \in Nat, NEW a \in [1..n -> Octet], NEW b \in [1..n -> Octet]
  PROVE  ntohl(a) <= ntohl(b) <=> memcmp(a, b) <= 0
<1>1. ntohl(a) \in Nat /\ ntohl(b) \in Nat
  BY NumberNat
<1>2. CASE a = b
  BY <1>1, <1>2, CompareSame
<1>3. CASE a # b
  <2>. DEFINE differ == {i \in 1..n : a[i] # b[i]}
  <2>1. differ # {} /\ differ \in SUBSET Nat
    BY <1>3
  <2>2. PICK d \in differ : \A y \in differ : d <= y
    <3>. HIDE DEF differ
    <3>. QED
      BY <2>1, MinNat
  <2>3. d \in 1..n /\ a[d] # b[d] /\ \A i \in 1..(d - 1) : a[i] = b[i]
    <3>1. ASSUME NEW i \in 1..(d - 1) PROVE a[i] = b[i]
      <4>1. i \in 1..n /\ i \notin differ
        BY <2>2
      <4>. QED
        BY <4>1
    <3>. QED
      BY <2>2, <3>1
  <2>4. a[d] \in Nat /\ b[d] \in Nat
    BY <2>3, ByteRange
  <2>5. memcmp(a, b) = IF a[d] < b[d] THEN -1 ELSE 1
    BY <2>3, CompareIs
  <2>6. CASE a[d] < b[d]
    <3>1. ntohl(a) < ntohl(b)
      BY <2>3, <2>6, NumberLess
    <3>. QED
      BY <1>1, <2>5, <2>6, <3>1
  <2>7. CASE ~(a[d] < b[d])
    <3>1. b[d] < a[d] /\ \A i \in 1..(d - 1) : b[i] = a[i]
      BY <2>3, <2>4, <2>7
    <3>2. ntohl(b) < ntohl(a)
      BY <2>3, <3>1, NumberLess
    <3>. QED
      BY <1>1, <2>5, <2>7, <3>2
  <2>. QED
    BY <2>6, <2>7
<1>. QED
  BY <1>2, <1>3

-----------------------------------------------------------------------------
(* Texts in two parts *)

LEMMA PieceSame ==
  ASSUME NEW r, NEW a \in Nat, NEW s, NEW n \in Nat, IsPiece(s, r, a, n)
  PROVE  SubSeq(r, a + 1, a + n) = s
<1>2. PICK x : x = SubSeq(r, a + 1, a + n)
  OBVIOUS
<1>3. IsPiece(x, r, a, n)
  BY <1>2, PieceIs
<1>5. Alike(x, r, a, s, r, a, n)
  BY <1>3, PiecesEqual
<1>. QED
  BY <1>2, <1>5 DEF Alike

IsJoin(r, s, c, t) ==
  /\ IsText(r) /\ Len(r) = Len(s) + 1 + Len(t)
  /\ \A i \in 1..Len(s) : r[i] = s[i]
  /\ r[Len(s) + 1] = c
  /\ \A i \in 1..Len(t) : r[Len(s) + 1 + i] = t[i]

LEMMA JoinIs ==
  ASSUME NEW s, IsText(s), NEW t, IsText(t), NEW c
  PROVE  IsJoin(s \o <<c>> \o t, s, c, t)
<1>1. PICK S, T : s \in Seq(S) /\ t \in Seq(T)
  BY DEF IsText
<1>2. PICK U : U = S \cup T \cup {c}
  OBVIOUS
<1>3. s \in Seq(U) /\ t \in Seq(U) /\ <<c>> \in Seq(U) /\ Len(<<c>>) = 1 /\ <<c>>[1] = c
  BY <1>1, <1>2
<1>4. PICK q : q = s \o <<c>>
  OBVIOUS
<1>5. q \in Seq(U) /\ Len(q) = Len(s) + 1 /\ (\A i \in 1..Len(s) : q[i] = s[i]) /\ q[Len(s) + 1] = c
  <2>1. q \in Seq(U) /\ Len(q) = Len(s) + 1 /\ Len(s) \in Nat
    BY <1>3, <1>4
  <2>. QED
    BY <1>3, <1>4, <2>1
<1>6. PICK r : r = q \o t
  OBVIOUS
<1>7. r \in Seq(U) /\ Len(r) = Len(q) + Len(t) /\ Len(t) \in Nat /\ Len(s) \in Nat
  <2>1. Len(t) \in Nat /\ Len(s) \in Nat
    BY <1>3
  <2>2. q \o t \in Seq(U) /\ Len(q \o t) = Len(q) + Len(t)
    BY <1>3, <1>5, ConcatProperties
  <2>. QED
    BY <1>6, <2>1, <2>2
<1>8. (\A i \in 1..Len(q) : r[i] = q[i]) /\ (\A i \in 1..Len(t) : r[Len(q) + i] = t[i])
  <2>1. Len(q) \in Nat
    BY <1>5
  <2>. QED
    BY <1>3, <1>5, <1>6, <1>7, <2>1, ConcatProperties
<1>9. IsText(r)
  BY <1>7 DEF IsText
<1>10. r[Len(s) + 1] = c /\ \A i \in 1..Len(s) : r[i] = s[i]
  BY <1>5, <1>7, <1>8
<1>11. IsJoin(r, s, c, t)
  BY <1>5, <1>7, <1>8, <1>9, <1>10 DEF IsJoin
<1>. QED
  BY <1>4, <1>6, <1>11

(* strchr finds the first separator; what is on its sides. *)
LEMMA SplitAt ==
  ASSUME NEW s, IsText(s), NEW t, IsText(t), NEW c, \A i \in 1..Len(s) : s[i] # c,
         NEW r, IsJoin(r, s, c, t)
  PROVE  /\ strchr(r, c) = Len(s) + 1
         /\ SubSeq(r, 1, Len(s)) = s
         /\ From(r, Len(s) + 2) = t
         /\ Len(r) = Len(s) + 1 + Len(t)
<1>2. /\ IsText(r) /\ Len(r) = Len(s) + 1 + Len(t)
      /\ \A i \in 1..Len(s) : r[i] = s[i]
      /\ r[Len(s) + 1] = c
      /\ \A i \in 1..Len(t) : r[Len(s) + 1 + i] = t[i]
  BY DEF IsJoin
<1>3. PICK n \in Nat, m \in Nat : n = Len(s) /\ m = Len(t)
  BY TextLen
<1>4. strchr(r, c) = n + 1
  <2>. DEFINE I == {i \in 1..Len(r) : r[i] = c}
  <2>1. strchr(r, c) = IF I # {} THEN Min(I) ELSE 0
    BY DEF strchr, SelectInSeq
  <2>2. I \in SUBSET Nat /\ n + 1 \in I /\ \A i \in I : i > n
    BY <1>2, <1>3
  <2>. HIDE DEF I
  <2>3. Min(I) \in I /\ Min(I) <= n + 1
    BY <2>2, MinNat
  <2>4. Min(I) \in Nat /\ Min(I) > n
    BY <2>2, <2>3
  <2>. QED
    BY <2>1, <2>2, <2>3, <2>4
<1>5. SubSeq(r, 1, n) = s
  <2>1. IsPiece(s, r, 0, n)
    BY <1>2, <1>3 DEF IsPiece
  <2>2. SubSeq(r, 0 + 1, 0 + n) = s
    BY <1>3, <2>1, PieceSame
  <2>3. 0 + 1 = 1 /\ 0 + n = n
    OBVIOUS
  <2>. QED
    BY <2>2, <2>3
<1>6. From(r, n + 2) = t
  <2>1. PICK a \in Nat : a = n + 1
    OBVIOUS
  <2>2. SubSeq(r, a + 1, a + m) = t
    <3>1. IsPiece(t, r, a, m)
      BY <1>2, <1>3, <2>1 DEF IsPiece
    <3>. QED
      BY <3>1, PieceSame
  <2>3. a + 1 = n + 2 /\ a + m = Len(r)
    BY <1>2, <1>3, <2>1
  <2>. QED
    BY <2>2, <2>3 DEF From
<1>. QED
  BY <1>2, <1>3, <1>4, <1>5, <1>6

-----------------------------------------------------------------------------
(* Ranges *)

LEMMA CompareHighest ==
  ASSUME NEW n \in Nat, NEW a \in [1..n -> Octet]
  PROVE  memcmp(a, [i \in 1..n |-> Full]) <= 0
<1>1. PICK top : top = [i \in 1..n |-> Full]
  OBVIOUS
<1>2. top \in [1..n -> Octet]
  BY <1>1, ByteRange DEF Octet
<1>. DEFINE differ == {i \in 1..n : a[i] # top[i]}
<1>3. CASE differ = {}
  <2>1. a = top
    BY <1>2, <1>3
  <2>. QED
    BY <1>1, <2>1, CompareSame
<1>4. CASE differ # {}
  <2>1. differ \in SUBSET Nat
    OBVIOUS
  <2>2. PICK d \in differ : \A y \in differ : d <= y
    <3>. HIDE DEF differ
    <3>. QED
      BY <1>4, <2>1, MinNat
  <2>3. d \in 1..n /\ a[d] # top[d] /\ \A i \in 1..(d - 1) : a[i] = top[i]
    <3>1. ASSUME NEW i \in 1..(d - 1) PROVE a[i] = top[i]
      <4>1. i \in 1..n /\ i \notin differ
        BY <2>2
      <4>. QED
        BY <4>1
    <3>. QED
      BY <2>2, <3>1
  <2>4. memcmp(a, top) = IF a[d] < top[d] THEN -1 ELSE 1
    BY <1>2, <2>3, CompareIs
  <2>5. top[d] = Full /\ a[d] \in Octet
    BY <1>1, <2>3
  <2>6. a[d] < top[d]
    BY <2>3, <2>5, ByteRange DEF Octet
  <2>. QED
    BY <1>1, <2>4, <2>6
<1>. QED
  BY <1>3, <1>4

LEMMA CompareFamily ==
  ASSUME NEW a, NEW b, a.family = b.family
  PROVE  ip_addr_compare(a, b) = memcmp(a.addr, b.addr)
<1>1. ~(a.family = AF_INET /\ b.family = AF_INET6)
  BY DEF AF_INET, AF_INET6
<1>. QED
  BY <1>1 DEF ip_addr_compare

(* Within IPv4, the order of the addresses is that of their numbers. *)
LEMMA OrderIs ==
  ASSUME NEW a, NEW b, a.family = b.family, a.addr \in [1..N4 -> Octet], b.addr \in [1..N4 -> Octet]
  PROVE  InOrder(a, b) <=> ntohl(a.addr) <= ntohl(b.addr)
<1>1. ip_addr_compare(a, b) = memcmp(a.addr, b.addr)
  BY CompareFamily
<1>2. N4 \in Nat
  BY WidthAssumption
<1>. QED
  BY <1>1, <1>2, NumberOrder DEF InOrder

(* The text of a bound. *)
LEMMA BoundIs ==
  ASSUME NEW t \in Bound
  PROVE  /\ IsText(t) /\ Len(t) \in Nat /\ \A i \in 1..Len(t) : t[i] # DASH
         /\ t = <<>> <=> Len(t) = 0
         /\ t # <<>> => /\ t \in DOMAIN Pton /\ Pton[t].family = AF_INET
                        /\ Pton[t].addr \in [1..N4 -> Octet]
                        /\ ip4_from_str(t) = Pton[t].addr
<1>1. t = <<>> \/ (t \in DOMAIN Pton /\ Pton[t].family = AF_INET)
  BY DEF Bound
<1>2. t # <<>> => t \in Seq({DOT} \cup (48..57)) /\ Pton[t].addr \in [1..N4 -> Octet]
  <2>. SUFFICES ASSUME t # <<>>
                PROVE  t \in Seq({DOT} \cup (48..57)) /\ Pton[t].addr \in [1..N4 -> Octet]
    OBVIOUS
  <2>1. t \in DOMAIN Pton /\ Pton[t] \notin V6
    BY <1>1 DEF V6, AF_INET, AF_INET6
  <2>2. Pton[t] \in V4 /\ t \in Seq({DOT} \cup (48..57))
    BY <2>1, PtonAssumption
  <2>. QED
    BY <2>2 DEF V4
<1>3. t \in Seq({DOT} \cup (48..57))
  <2>1. <<>> \in Seq({DOT} \cup (48..57))
    OBVIOUS
  <2>. QED
    BY <1>2, <2>1
<1>4. \A i \in 1..Len(t) : t[i] # DASH
  BY <1>3 DEF DOT, DASH
<1>5. Len(t) \in Nat /\ (t = <<>> <=> Len(t) = 0)
  BY <1>3
<1>. QED
  BY <1>1, <1>2, <1>3, <1>4, <1>5 DEF IsText, ip4_from_str

LEMMA RangeIs ==
  ASSUME NEW t \in Bound, NEW u \in Bound, NEW ip, ip.family = AF_INET, ip.addr \in [1..N4 -> Octet]
  PROVE  ip4_match_range(ip.addr, t \o <<DASH>> \o u)
           <=> /\ t # <<>> => InOrder(Pton[t], ip)
               /\ u # <<>> => InOrder(ip, Pton[u])
<1>1. PICK r : r = t \o <<DASH>> \o u
  OBVIOUS
<1>2. PICK n \in Nat, m \in Nat : /\ n = Len(t) /\ m = Len(u) /\ (t = <<>> <=> n = 0) /\ (u = <<>> <=> m = 0)
                                  /\ strchr(r, DASH) = n + 1 /\ SubSeq(r, 1, n) = t
                                  /\ From(r, n + 2) = u /\ Len(r) = n + 1 + m
  <2>1. /\ strchr(r, DASH) = Len(t) + 1
        /\ SubSeq(r, 1, Len(t)) = t
        /\ From(r, Len(t) + 2) = u
        /\ Len(r) = Len(t) + 1 + Len(u)
    <3>1. IsText(t) /\ IsText(u) /\ \A i \in 1..Len(t) : t[i] # DASH
      BY BoundIs
    <3>2. IsJoin(r, t, DASH, u)
      BY <1>1, <3>1, JoinIs
    <3>. QED
      BY <3>1, <3>2, SplitAt
  <2>. QED
    BY <2>1, BoundIs
<1>3. PICK lo, hi : /\ lo = IF t = <<>> THEN htonl(0) ELSE ip4_from_str(t)
                    /\ hi = IF u = <<>> THEN [i \in 1..N4 |-> Full] ELSE ip4_from_str(u)
  OBVIOUS
<1>4. ip4_match_range(ip.addr, r) <=> ntohl(lo) <= ntohl(ip.addr) /\ ntohl(ip.addr) <= ntohl(hi)
  <2>1. ip4_match_range(ip.addr, r) <=> MatchRange(ip.addr, r)
    BY <1>2 DEF ip4_match_range
  <2>2. /\ (n + 1 = 1 <=> t = <<>>) /\ (n + 1 = Len(r) <=> u = <<>>)
        /\ (n + 1) - 1 = n /\ (n + 1) + 1 = n + 2
    BY <1>2
  <2>3. MatchRange(ip.addr, r) <=> ip4_in_range(ip.addr, lo, hi)
    BY <1>2, <1>3, <2>2 DEF MatchRange
  <2>4. ntohl(ip.addr) >= ntohl(lo) <=> ntohl(lo) <= ntohl(ip.addr)
    OBVIOUS
  <2>. QED
    BY <2>1, <2>3, <2>4 DEF ip4_in_range
<1>5. N4 \in Nat
  BY WidthAssumption
<1>6. ntohl(lo) <= ntohl(ip.addr) <=> (t # <<>> => InOrder(Pton[t], ip))
  <2>1. CASE t = <<>>
    <3>1. Pow2[Bits4] \in Nat \ {0}
      BY WidthAssumption, Pow2Pos DEF Bits4
    <3>2. ntohl(lo) = 0
      BY <1>3, <2>1, <3>1, NumberOfBytes
    <3>3. ntohl(ip.addr) \in Nat
      BY <1>5, NumberNat
    <3>. QED
      BY <2>1, <3>2, <3>3
  <2>2. CASE t # <<>>
    <3>1. lo = Pton[t].addr /\ Pton[t].family = ip.family /\ Pton[t].addr \in [1..N4 -> Octet]
      BY <1>3, <2>2, BoundIs
    <3>. QED
      BY <2>2, <3>1, OrderIs
  <2>. QED
    BY <2>1, <2>2
<1>7. ntohl(ip.addr) <= ntohl(hi) <=> (u # <<>> => InOrder(ip, Pton[u]))
  <2>1. CASE u = <<>>
    <3>1. memcmp(ip.addr, hi) <= 0 /\ hi \in [1..N4 -> Octet]
      BY <1>3, <1>5, <2>1, CompareHighest, ByteRange DEF Octet
    <3>2. ntohl(ip.addr) <= ntohl(hi)
      BY <1>5, <3>1, NumberOrder
    <3>. QED
      BY <2>1, <3>2
  <2>2. CASE u # <<>>
    <3>1. hi = Pton[u].addr /\ Pton[u].family = ip.family /\ Pton[u].addr \in [1..N4 -> Octet]
      BY <1>3, <2>2, BoundIs
    <3>. QED
      BY <2>2, <3>1, OrderIs
  <2>. QED
    BY <2>1, <2>2
<1>. QED
  BY <1>1, <1>4, <1>6, <1>7

LEMMA CompareSign ==
  ASSUME NEW a, NEW b, \E n \in Nat : n = Len(a) /\ a \in [1..n -> Octet] /\ b \in [1..n -> Octet]
  PROVE  LET differ == {i \in 0..(ByteBits * Len(a) - 1) : Bit(a, i) # Bit(b, i)}
         IN  Sign(memcmp(a, b)) = (IF differ = {} THEN 0 ELSE IF Bit(a, Min(differ)) = 0 THEN -1 ELSE 1)
<1>. DEFINE differ == {i \in 0..(ByteBits * Len(a) - 1) : Bit(a, i) # Bit(b, i)}
<1>1. PICK n \in Nat : n = Len(a) /\ a \in [1..n -> Octet] /\ b \in [1..n -> Octet]
  OBVIOUS
<1>2. differ = {i \in 0..(ByteBits * n - 1) : Bit(a, i) # Bit(b, i)}
  BY <1>1
<1>. HIDE DEF differ
<1>3. memcmp(a, b) = IF differ = {} THEN 0 ELSE IF Bit(a, Min(differ)) = 0 THEN -1 ELSE 1
  BY <1>1, <1>2, CompareBits
<1>4. Sign(memcmp(a, b)) = memcmp(a, b)
  BY <1>3 DEF Sign
<1>. QED
  BY <1>3, <1>4 DEF differ

(* AddressOrder: two addresses of a family are in the order of the first   *)
(* bit they differ in, and a range, with one bound or both, holds the      *)
(* addresses that this order has between them.                             *)
THEOREM AddressOrderHolds == CodecsSpec => []AddressOrder
<1>1. ASSUME Answers, Answered("ip_addr_compare"), in[1].family = in[2].family
      PROVE  LET differ == {i \in 0..(ByteBits * Len(in[1].addr) - 1) : Bit(in[1].addr, i) # Bit(in[2].addr, i)}
             IN  Sign(answer) = (IF differ = {} THEN 0 ELSE IF Bit(in[1].addr, Min(differ)) = 0 THEN -1 ELSE 1)
  <2>1. in \in Ip \X Ip /\ answer = ip_addr_compare(in[1], in[2])
    BY <1>1 DEF Answers, Answered, answer
  <2>2. \E n \in Nat : n = Len(in[1].addr) /\ in[1].addr \in [1..n -> Octet] /\ in[2].addr \in [1..n -> Octet]
    <3>1. in[1] \in {Pton[t] : t \in DOMAIN Pton} /\ in[2] \in {Pton[t] : t \in DOMAIN Pton}
      BY <2>1, IpAssumption
    <3>2. /\ in[1].addr \in [1..Width(in[1].family) -> Octet] /\ Len(in[1].addr) = Width(in[1].family)
          /\ Width(in[1].family) \in Nat \ {0}
      BY <3>1, AddressIs
    <3>3. in[2].addr \in [1..Width(in[2].family) -> Octet]
      BY <3>1, AddressIs
    <3>4. Width(in[1].family) \in Nat /\ Width(in[1].family) = Width(in[2].family)
      BY <1>1, <3>2
    <3>. QED
      BY <3>2, <3>3, <3>4
  <2>3. answer = memcmp(in[1].addr, in[2].addr)
    BY <1>1, <2>1, CompareFamily
  <2>. QED
    BY <2>2, <2>3, CompareSign
<1>2. ASSUME Answers, Answered("ip4_match_range")
      PROVE  answer = {ip \in Ip : /\ ip.family = AF_INET
                                   /\ in[1] # <<>> => InOrder(Pton[in[1]], ip)
                                   /\ in[2] # <<>> => InOrder(ip, Pton[in[2]])}
  <2>1. /\ in \in Bound \X Bound
        /\ answer = {ip \in Ip : /\ ip.family = AF_INET
                                 /\ ip4_match_range(ip.addr, in[1] \o <<DASH>> \o in[2])}
    BY <1>2 DEF Answers, Answered, answer
  <2>2. ASSUME NEW ip \in Ip, ip.family = AF_INET
        PROVE  ip4_match_range(ip.addr, in[1] \o <<DASH>> \o in[2])
                 <=> /\ in[1] # <<>> => InOrder(Pton[in[1]], ip)
                     /\ in[2] # <<>> => InOrder(ip, Pton[in[2]])
    <3>1. ip \in {Pton[t] : t \in DOMAIN Pton}
      BY IpAssumption
    <3>2. ip.addr \in [1..N4 -> Octet]
      BY <2>2, <3>1, AddressIs DEF Width
    <3>. QED
      BY <2>1, <2>2, <3>2, RangeIs
  <2>. QED
    BY <2>1, <2>2
<1>3. Answers => AddressOrder
  BY <1>1, <1>2 DEF AddressOrder
<1>. QED
  BY <1>3, AnswersHolds, PTL

-----------------------------------------------------------------------------
(* Numbers in decimal *)

(* s is a text of digits, and read as a loop reads it, it is k. *)
Numeral(s, k) ==
  /\ s \in Seq(48..57) /\ Len(s) > 0
  /\ \E g : g[0] = 0 /\ g[Len(s)] = k /\ \A i \in 1..Len(s) : g[i] = g[i - 1] * 10 + (s[i] - 48)

LEMMA NumeralRead ==
  ASSUME NEW s, NEW k, Numeral(s, k)
  PROVE  ToNumber(s, 10) = k
<1>1. PICK n \in Nat : n = Len(s) /\ \A i \in 1..n : s[i] \in 48..57
  BY DEF Numeral
<1>2. PICK g : g[0] = 0 /\ g[n] = k /\ \A i \in 1..n : g[i] = g[i - 1] * 10 + (s[i] - 48)
  BY <1>1 DEF Numeral
<1>3. ToNumber(s, 10) = ReadDigits(0, s, 10)
  BY DEF ToNumber, ReadDigits
<1>4. Reads(ReadDigits(0, s, 10), "digits", 0, s, 10, 0)
  BY <1>1, ReadDigitsIs
<1>5. PICK f : Course(f, "digits", 0, s, 10, 0) /\ ReadDigits(0, s, 10) = f[n]
  BY <1>1, <1>4 DEF Reads
<1>6. f[0] = 0 /\ \A i \in 1..n : f[i] = f[i - 1] * 10 + xdigit(s[i])
  BY <1>1, <1>5 DEF Course, Turn
<1>7. \A i \in 1..n : xdigit(s[i]) = s[i] - 48
  BY <1>1 DEF xdigit, isdigit
<1>. DEFINE S == {i \in 0..n : f[i] = g[i]}
<1>8. 0 \in S
  BY <1>2, <1>6
<1>9. ASSUME NEW i \in 0..n, i \in S, i < n PROVE i + 1 \in S
  <2>1. i + 1 \in 1..n /\ (i + 1) - 1 = i
    BY <1>9
  <2>2. f[i + 1] = f[i] * 10 + xdigit(s[i + 1]) /\ g[i + 1] = g[i] * 10 + (s[i + 1] - 48)
    BY <1>2, <1>6, <2>1
  <2>. QED
    BY <1>7, <1>9, <2>1, <2>2
<1>10. \A i \in 0..n : i \in S
  <2>. HIDE DEF S
  <2>. QED
    BY <1>8, <1>9, UpTo
<1>. QED
  BY <1>2, <1>3, <1>5, <1>10

LEMMA NumeralDigit ==
  ASSUME NEW k \in 0..9
  PROVE  Numeral(<<48 + k>>, k)
<1>1. PICK s : s = <<48 + k>> /\ s \in Seq(48..57) /\ Len(s) = 1 /\ s[1] = 48 + k
  <2>1. PICK x : x = 48 + k /\ x \in 48..57
    OBVIOUS
  <2>2. <<x>> \in Seq(48..57) /\ Len(<<x>>) = 1 /\ <<x>>[1] = x
    BY <2>1
  <2>. QED
    BY <2>1, <2>2
<1>2. PICK g : g = [i \in 0..1 |-> IF i = 0 THEN 0 ELSE k]
  OBVIOUS
<1>3. g[0] = 0 /\ g[1] = k
  BY <1>2
<1>4. \A i \in 1..Len(s) : g[i] = g[i - 1] * 10 + (s[i] - 48)
  <2>1. \A i \in 1..1 : i = 1
    OBVIOUS
  <2>. QED
    BY <1>1, <1>3, <2>1
<1>5. Numeral(s, k)
  BY <1>1, <1>3, <1>4 DEF Numeral
<1>. QED
  BY <1>1, <1>5

LEMMA NumeralAppend ==
  ASSUME NEW s, NEW q \in Nat, Numeral(s, q), NEW d \in 0..9
  PROVE  Numeral(Append(s, 48 + d), q * 10 + d)
<1>1. PICK n \in Nat : s \in Seq(48..57) /\ n = Len(s)
  BY DEF Numeral
<1>2. PICK g : g[0] = 0 /\ g[n] = q /\ \A i \in 1..n : g[i] = g[i - 1] * 10 + (s[i] - 48)
  BY <1>1 DEF Numeral
<1>3. PICK t : t = Append(s, 48 + d)
  OBVIOUS
<1>4. t \in Seq(48..57) /\ Len(t) = n + 1 /\ (\A i \in 1..n : t[i] = s[i]) /\ t[n + 1] = 48 + d
  <2>1. 48 + d \in 48..57
    OBVIOUS
  <2>. QED
    BY <1>1, <1>3, <2>1, AppendProperties
<1>5. PICK f : f = [i \in 0..(n + 1) |-> IF i = n + 1 THEN q * 10 + d ELSE g[i]]
  OBVIOUS
<1>6. f[0] = 0 /\ f[n + 1] = q * 10 + d /\ f[n] = q
  BY <1>2, <1>5
<1>7. ASSUME NEW i \in 1..(n + 1) PROVE f[i] = f[i - 1] * 10 + (t[i] - 48)
  <2>1. CASE i = n + 1
    <3>1. i - 1 = n /\ t[i] - 48 = d
      BY <1>4, <2>1
    <3>. QED
      BY <1>6, <2>1, <3>1
  <2>2. CASE i # n + 1
    <3>1. i \in 1..n /\ i - 1 \in 0..n /\ i - 1 # n + 1
      BY <2>2
    <3>2. f[i] = g[i] /\ f[i - 1] = g[i - 1] /\ t[i] = s[i]
      BY <1>4, <1>5, <3>1
    <3>. QED
      BY <1>2, <3>1, <3>2
  <2>. QED
    BY <2>1, <2>2
<1>8. Numeral(t, q * 10 + d)
  BY <1>4, <1>6, <1>7 DEF Numeral
<1>. QED
  BY <1>3, <1>8

LEMMA DecimalIs ==
  ASSUME NEW n \in Nat
  PROVE  Numeral(Decimal(n), n)
<1>. DEFINE Def(f, m) == f = [k \in 0..m |-> IF k < 10 THEN <<48 + k>> ELSE Append(f[k \div 10], 48 + (k % 10))]
            Digits(f, k) == IF k < 10 THEN <<48 + k>> ELSE Append(f[k \div 10], 48 + (k % 10))
            Is(f, m) == f = [k \in 0..m |-> f[k]] /\ \A k \in 0..m : f[k] = Digits(f, k)
            E == {m \in 0..n : \E f : Is(f, m)}
<1>0. ASSUME NEW f, NEW m PROVE Def(f, m) <=> Is(f, m)
  <2>. PICK b : b = f
    OBVIOUS
  <2>. DEFINE X(k) == Digits(b, k)
  <2>1. \A k : X(k) = Digits(f, k)
    OBVIOUS
  <2>2. Def(f, m) <=> f = [k \in 0..m |-> X(k)]
    OBVIOUS
  <2>. HIDE DEF X
  <2>3. Def(f, m) <=> f = [k \in 0..m |-> f[k]] /\ \A k \in 0..m : f[k] = X(k)
    BY <2>2
  <2>. HIDE DEF Def, Digits
  <2>. QED
    BY <2>1, <2>3
<1>1. 0 \in E
  <2>1. PICK f : f = [k \in 0..0 |-> <<48 + k>>]
    OBVIOUS
  <2>2. Is(f, 0)
    <3>1. \A k \in 0..0 : k = 0 /\ f[k] = <<48 + k>>
      BY <2>1
    <3>. QED
      BY <2>1, <3>1
  <2>. QED
    BY <2>2
<1>2. ASSUME NEW m \in 0..n, m \in E, m < n PROVE m + 1 \in E
  <2>1. PICK f : Is(f, m)
    BY <1>2
  <2>. HIDE DEF Digits
  <2>2. PICK g : g = [k \in 0..(m + 1) |-> Digits(f, k)]
    OBVIOUS
  <2>3. ASSUME NEW k \in 0..m PROVE g[k] = f[k]
    BY <2>1, <2>2
  <2>4. ASSUME NEW k \in 0..(m + 1) PROVE Digits(g, k) = Digits(f, k)
    <3>1. CASE k < 10
      BY <3>1 DEF Digits
    <3>2. CASE ~(k < 10)
      <4>1. k \div 10 \in 0..m
        BY <3>2
      <4>2. g[k \div 10] = f[k \div 10]
        BY <2>3, <4>1
      <4>. QED
        BY <4>2 DEF Digits
    <3>. QED
      BY <3>1, <3>2
  <2>5. Is(g, m + 1)
    BY <2>2, <2>4
  <2>. HIDE DEF Is
  <2>. QED
    BY <1>2, <2>5
<1>3. PICK f : f = (CHOOSE g : Def(g, n)) /\ Def(f, n)
  <2>1. \A m \in 0..n : m \in E
    <3>. HIDE DEF E
    <3>. QED
      BY <1>1, <1>2, UpTo
  <2>2. PICK g : Is(g, n)
    BY <2>1
  <2>3. Def(g, n)
    BY <1>0, <2>2
  <2>. HIDE DEF Def
  <2>. QED
    BY <2>3
<1>4. Decimal(n) = f[n]
  BY <1>3 DEF Decimal
<1>. HIDE DEF Def
<1>5. \A k \in 0..n : f[k] = Digits(f, k)
  BY <1>0, <1>3
<1>. HIDE DEF Digits
<1>. DEFINE S == {m \in 0..n : \A k \in 0..m : Numeral(f[k], k)}
<1>6. 0 \in S
  <2>1. f[0] = <<48 + 0>>
    <3>1. f[0] = Digits(f, 0) /\ 0 < 10
      BY <1>5
    <3>. QED
      BY <3>1 DEF Digits
  <2>2. Numeral(f[0], 0)
    BY <2>1, NumeralDigit
  <2>. QED
    BY <2>2
<1>7. ASSUME NEW m \in 0..n, m \in S, m < n PROVE m + 1 \in S
  <2>1. PICK k \in Nat : k = m + 1 /\ k \in 0..n
    BY <1>7
  <2>2. Numeral(f[k], k)
    <3>1. CASE k < 10
      <4>1. f[k] = Digits(f, k) /\ k \in 0..9
        BY <1>5, <2>1, <3>1
      <4>2. Digits(f, k) = <<48 + k>>
        BY <3>1 DEF Digits
      <4>. QED
        BY <4>1, <4>2, NumeralDigit
    <3>2. CASE ~(k < 10)
      <4>1. PICK q \in Nat, d \in 0..9 : q = k \div 10 /\ d = k % 10 /\ k = q * 10 + d /\ q \in 0..m
        BY <2>1, <3>2
      <4>2. f[k] = Append(f[q], 48 + d)
        BY <1>5, <2>1, <3>2, <4>1 DEF Digits
      <4>3. Numeral(f[q], q)
        BY <1>7, <4>1
      <4>. QED
        BY <4>1, <4>2, <4>3, NumeralAppend
    <3>. QED
      BY <3>1, <3>2
  <2>3. \A j \in 0..(m + 1) : j \in 0..m \/ j = k
    BY <2>1
  <2>. QED
    BY <1>7, <2>1, <2>2, <2>3
<1>8. n \in S
  <2>1. \A m \in 0..n : m \in S
    <3>. HIDE DEF S
    <3>. QED
      BY <1>6, <1>7, UpTo
  <2>. QED
    BY <2>1
<1>. QED
  BY <1>4, <1>8

-----------------------------------------------------------------------------
(* Addresses with a port *)

LEMMA StrchrSome ==
  ASSUME NEW s, IsText(s), NEW c, \E i \in 1..Len(s) : s[i] = c
  PROVE  strchr(s, c) > 0
<1>. DEFINE I == {i \in 1..Len(s) : s[i] = c}
<1>1. strchr(s, c) = IF I # {} THEN Min(I) ELSE 0
  BY DEF strchr, SelectInSeq
<1>2. I \in SUBSET Nat /\ I # {} /\ \A i \in I : i > 0
  BY TextLen
<1>. HIDE DEF I
<1>3. Min(I) \in I
  BY <1>2, MinNat
<1>. QED
  BY <1>1, <1>2, <1>3

LEMMA StrchrNone ==
  ASSUME NEW s, NEW c, \A i \in 1..Len(s) : s[i] # c
  PROVE  strchr(s, c) = 0
BY DEF strchr, SelectInSeq

(* The digits of a number, all of them, and what atoi makes of them. *)
LEMMA AtoiIs ==
  ASSUME NEW s, NEW k \in Nat, Numeral(s, k)
  PROVE  atoi(s) = k /\ DigitsOnly(s) /\ NotBlank(s)
<1>1. PICK n \in Nat : /\ n = Len(s) /\ n > 0 /\ s \in Seq(48..57) /\ \A i \in 1..n : s[i] \in 48..57
  BY DEF Numeral
<1>2. \A i \in 1..n : ~isspace(s[i]) /\ isdigit(s[i]) /\ s[i] # DASH /\ s[i] # PLUS
  <2>1. \A x \in 48..57 : ~isspace(x) /\ isdigit(x) /\ x # DASH /\ x # PLUS
    BY DEF isspace, isdigit, SP, DASH, PLUS
  <2>. QED
    BY <1>1, <2>1
<1>3. RunEnd(s, 1, isspace) = 1
  <2>. DEFINE Stop == {j \in 1..Len(s) : ~isspace(s[j])}
  <2>1. RunEnd(s, 1, isspace) = IF Stop = {} THEN Len(s) + 1 ELSE Min(Stop)
    BY DEF RunEnd
  <2>2. 1 \in Stop /\ Stop \in SUBSET Nat /\ \A j \in Stop : j >= 1
    BY <1>1, <1>2
  <2>. HIDE DEF Stop
  <2>3. Min(Stop) \in Stop /\ Min(Stop) <= 1
    BY <2>2, MinNat
  <2>4. Min(Stop) \in Nat /\ Min(Stop) >= 1
    BY <2>2, <2>3
  <2>. QED
    BY <2>1, <2>2, <2>3, <2>4
<1>4. RunEnd(s, 1, isdigit) = n + 1
  BY <1>1, <1>2 DEF RunEnd
<1>5. RunEnd(s, 1, LAMBDA b : ~isspace(b)) = n + 1
  BY <1>1, <1>2 DEF RunEnd
<1>6. SubSeq(s, 1, n) = s
  <2>1. IsPiece(s, s, 0, n)
    BY <1>1 DEF IsPiece, IsText
  <2>2. SubSeq(s, 0 + 1, 0 + n) = s
    BY <2>1, PieceSame
  <2>3. 0 + 1 = 1 /\ 0 + n = n
    OBVIOUS
  <2>. QED
    BY <2>2, <2>3
<1>7. atoi(s) = ToNumber(SubSeq(s, 1, (n + 1) - 1), 10)
  <2>1. 1 <= Len(s) /\ s[1] # DASH /\ s[1] \notin {DASH, PLUS}
    BY <1>1, <1>2
  <2>. QED
    BY <1>3, <1>4, <2>1 DEF atoi
<1>8. atoi(s) = k
  <2>1. (n + 1) - 1 = n
    OBVIOUS
  <2>. QED
    BY <1>6, <1>7, <2>1, NumeralRead
<1>9. DigitsOnly(s)
  <2>1. (n + 1) - 1 = n
    OBVIOUS
  <2>. QED
    BY <1>2, <1>5, <2>1 DEF DigitsOnly
<1>10. NotBlank(s)
  BY <1>1, <1>2 DEF NotBlank
<1>. QED
  BY <1>8, <1>9, <1>10

(* The text of an address is one that inet_pton takes for it. *)
LEMMA NtopIs ==
  ASSUME NEW ip, [family |-> ip.family, addr |-> ip.addr] \in {Pton[t] : t \in DOMAIN Pton}
  PROVE  Ntop(ip) \in DOMAIN Pton /\ Pton[Ntop(ip)] = [family |-> ip.family, addr |-> ip.addr]
BY DEF Ntop

(* Reading such a text *)
LEMMA ReadAddress ==
  ASSUME NEW t \in DOMAIN Pton, NEW ip
  PROVE  ip_addr_from_str(ip, t) = Ok([ip EXCEPT !.family = Pton[t].family, !.addr = Pton[t].addr])
<1>1. \A i \in DOMAIN t : ~isspace(t[i])
  <2>. DEFINE C == {DOT, COLON} \cup (48..57) \cup (65..70) \cup (97..102)
  <2>1. \A x \in C : ~isspace(x)
    <3>1. \A x \in {DOT, COLON} : ~isspace(x)
      BY DEF isspace, SP, DOT, COLON
    <3>2. \A x \in (48..57) \cup (65..70) \cup (97..102) : ~isspace(x)
      BY DEF isspace, SP
    <3>. QED
      BY <3>1, <3>2
  <2>2. t \in Seq({DOT} \cup (48..57)) \/ t \in Seq(C)
    BY <2>1, PtonAssumption
  <2>3. \A i \in DOMAIN t : t[i] \in C
    <3>1. {DOT} \cup (48..57) \subseteq C
      OBVIOUS
    <3>. HIDE DEF C
    <3>. QED
      BY <2>2, <3>1
  <2>. QED
    BY <2>1, <2>3
<1>2. IsText(t)
  BY PtonAssumption DEF IsText
<1>3. Pton[t].family = IF strchr(t, COLON) > 0 THEN AF_INET6 ELSE AF_INET
  <2>1. CASE Pton[t] \in V4 /\ t \in Seq({DOT} \cup (48..57))
    <3>1. \A i \in 1..Len(t) : t[i] # COLON
      BY <2>1 DEF DOT, COLON
    <3>2. strchr(t, COLON) = 0
      BY <3>1, StrchrNone
    <3>. QED
      BY <2>1, <3>2 DEF V4
  <2>2. CASE Pton[t] \in V6 /\ COLON \in ToSet(t)
    <3>1. \E i \in 1..Len(t) : t[i] = COLON
      BY <1>2, <2>2, TextLen DEF ToSet
    <3>2. strchr(t, COLON) > 0
      BY <1>2, <3>1, StrchrSome
    <3>. QED
      BY <2>2, <3>2 DEF V6
  <2>. QED
    BY <2>1, <2>2, PtonAssumption
<1>. QED
  BY <1>1, <1>3 DEF ip_addr_from_str

(* The text ip_port_to_str writes, in its parts: x is p and t, y is a      *)
(* character and d, and r is x, e and y.                                   *)
IsPortText(r, x, y, t, d, e, p) ==
  /\ IsText(x) /\ Len(x) = Len(t) + 1 /\ x[1] = p /\ \A i \in 1..Len(t) : x[1 + i] = t[i]
  /\ IsText(y) /\ IsJoin(r, x, e, y)
  /\ r[1] = p /\ IsPiece(t, r, 1, Len(t))
  /\ IsPiece(d, r, Len(t) + 3, Len(d)) /\ Len(r) = Len(t) + 3 + Len(d)

LEMMA PortTextIs ==
  ASSUME NEW t, IsText(t), NEW d, IsText(d), NEW c, NEW e, NEW p
  PROVE  IsPortText((<<p>> \o t \o <<e>>) \o <<c>> \o d, <<p>> \o t, <<c>> \o d, t, d, e, p)
<1>1. PICK x, y, z, r : /\ x = <<p>> \o t /\ y = <<c>> \o d /\ z = x \o <<e>> /\ r = z \o <<c>> \o d
  OBVIOUS
<1>2. PICK n \in Nat, m \in Nat : n = Len(t) /\ m = Len(d)
  BY TextLen
<1>3. IsText(x) /\ Len(x) = n + 1 /\ x[1] = p /\ \A i \in 1..n : x[1 + i] = t[i]
  <2>1. IsText(<<>>)
    BY DEF IsText
  <2>2. IsJoin(<<>> \o <<p>> \o t, <<>>, p, t)
    BY <2>1, JoinIs
  <2>3. <<>> \o <<p>> = <<p>> /\ Len(<<>>) = 0
    OBVIOUS
  <2>4. IsJoin(x, <<>>, p, t)
    BY <1>1, <2>2, <2>3
  <2>. QED
    BY <1>2, <2>3, <2>4 DEF IsJoin
<1>4. IsText(y) /\ Len(y) = m + 1 /\ y[1] = c /\ \A i \in 1..m : y[1 + i] = d[i]
  <2>1. IsText(<<>>)
    BY DEF IsText
  <2>2. IsJoin(<<>> \o <<c>> \o d, <<>>, c, d)
    BY <2>1, JoinIs
  <2>3. <<>> \o <<c>> = <<c>> /\ Len(<<>>) = 0
    OBVIOUS
  <2>4. IsJoin(y, <<>>, c, d)
    BY <1>1, <2>2, <2>3
  <2>. QED
    BY <1>2, <2>3, <2>4 DEF IsJoin
<1>5. IsText(z) /\ Len(z) = n + 2 /\ z[n + 2] = e /\ \A i \in 1..(n + 1) : z[i] = x[i]
  <2>1. IsText(<<>>)
    BY DEF IsText
  <2>2. IsJoin(x \o <<e>> \o <<>>, x, e, <<>>)
    BY <1>3, <2>1, JoinIs
  <2>3. z \o <<>> = z
    <3>1. PICK S, T : x \in Seq(S) /\ T = S \cup {e}
      BY <1>3 DEF IsText
    <3>2. x \in Seq(T) /\ <<e>> \in Seq(T)
      BY <3>1
    <3>3. z \in Seq(T)
      BY <1>1, <3>2, ConcatProperties
    <3>. QED
      BY <3>3, ConcatEmptySeq
  <2>4. IsJoin(z, x, e, <<>>) /\ Len(<<>>) = 0
    BY <1>1, <2>2, <2>3
  <2>5. Len(z) = n + 1 + 1 + 0 /\ n + 1 + 1 = n + 2 /\ z[n + 1 + 1] = e
    BY <1>2, <1>3, <2>4 DEF IsJoin
  <2>. QED
    BY <1>2, <1>3, <2>4, <2>5 DEF IsJoin
<1>6. IsJoin(r, z, c, d)
  BY <1>1, <1>5, JoinIs
<1>7. /\ IsText(r) /\ Len(r) = n + 3 + m /\ r[n + 3] = c
      /\ \A i \in 1..(n + 2) : r[i] = z[i]
      /\ \A i \in 1..m : r[n + 3 + i] = d[i]
  <2>1. PICK l \in Nat : l = n + 2 /\ l + 1 = n + 3 /\ l = Len(z)
    BY <1>5
  <2>. QED
    BY <1>2, <1>6, <2>1 DEF IsJoin
<1>8. (\A i \in 1..(n + 1) : r[i] = x[i]) /\ r[n + 2] = e
  BY <1>5, <1>7
<1>9. IsJoin(r, x, e, y)
  <2>1. Len(r) = Len(x) + 1 + Len(y)
    BY <1>3, <1>4, <1>7
  <2>2. r[Len(x) + 1] = e /\ \A i \in 1..Len(x) : r[i] = x[i]
    BY <1>3, <1>8
  <2>3. ASSUME NEW i \in 1..(m + 1) PROVE r[n + 2 + i] = y[i]
    <3>1. CASE i = 1
      BY <1>4, <1>7, <3>1
    <3>2. CASE i # 1
      <4>1. PICK j \in 1..m : i = 1 + j /\ n + 2 + i = n + 3 + j
        <5>1. i - 1 \in 1..m /\ i = 1 + (i - 1) /\ n + 2 + i = n + 3 + (i - 1)
          BY <3>2
        <5>. QED
          BY <5>1
      <4>. QED
        BY <1>4, <1>7, <4>1
    <3>. QED
      BY <3>1, <3>2
  <2>4. Len(x) + 1 = n + 2 /\ Len(y) = m + 1
    BY <1>3, <1>4
  <2>5. \A i \in 1..Len(y) : r[Len(x) + 1 + i] = y[i]
    BY <2>3, <2>4
  <2>. QED
    BY <1>7, <2>1, <2>2, <2>5 DEF IsJoin
<1>10. IsPiece(t, r, 1, n)
  <2>1. ASSUME NEW i \in 1..n PROVE t[i] = r[1 + i]
    <3>1. 1 + i \in 1..(n + 1)
      OBVIOUS
    <3>. QED
      BY <1>3, <1>8, <3>1
  <2>. QED
    BY <1>2, <2>1 DEF IsPiece
<1>11. IsPiece(d, r, n + 3, m)
  BY <1>2, <1>7 DEF IsPiece
<1>12. r[1] = p
  <2>1. 1 \in 1..(n + 1)
    OBVIOUS
  <2>. QED
    BY <1>3, <1>8, <2>1
<1>13. IsPortText(r, x, y, t, d, e, p)
  BY <1>2, <1>3, <1>4, <1>7, <1>9, <1>10, <1>11, <1>12 DEF IsPortText
<1>. QED
  BY <1>1, <1>13

LEMMA MaxPortNat == MaxPort \in Nat
BY SMT DEF MaxPort

(* Reading an address, then its port. *)
LEMMA SetPortIs ==
  ASSUME NEW read, NEW d, NEW k \in 0..MaxPort, Numeral(d, k),
         NEW parsed, read = Ok(parsed)
  PROVE  SetPort(read, d, TRUE) = Ok([parsed EXCEPT !.port = k])
<1>1. k \in Nat /\ ~(k < 0 \/ k > MaxPort)
  BY MaxPortNat
<1>3. atoi(d) = k
  BY <1>1, AtoiIs
<1>4. Ok(parsed).ret = 0 /\ Ok(parsed).ip = parsed
  BY DEF Ok
<1>5. SetPort(Ok(parsed), d, TRUE) = Ok([parsed EXCEPT !.port = k])
  <2>2. SetPort(Ok(parsed), d, TRUE)
          = IF Ok(parsed).ret # 0 \/ ~TRUE \/ k < 0 \/ k > MaxPort
            THEN Error(Ok(parsed).ip) ELSE Ok([Ok(parsed).ip EXCEPT !.port = k])
    BY <1>3, Zenon DEF SetPort
  <2>. QED
    BY <1>1, <1>4, <2>2, Zenon
<1>. QED
  BY <1>5

LEMMA ComparePort ==
  ASSUME NEW p, NEW q, p.family = q.family, p.addr = q.addr, p.port = q.port, q.port \in Nat
  PROVE  ip_port_compare(p, q) = 0
<1>1. ip_addr_compare(p, q) = memcmp(p.addr, p.addr)
  BY CompareFamily
<1>2. ip_addr_compare(p, q) = 0
  BY <1>1, CompareSame
<1>. QED
  BY <1>2 DEF ip_port_compare

(* x.x.x.x:port *)
LEMMA ReadPort4 ==
  ASSUME NEW ip, NEW t \in DOMAIN Pton, Pton[t].family = AF_INET,
         NEW d, NEW k \in Nat, Numeral(d, k)
  PROVE  ip_port_from_str(ip, t \o <<COLON>> \o d) = SetPort(ip_addr_from_str(ip, t), d, TRUE)
<1>1. t \in Seq({DOT} \cup (48..57))
  BY PtonAssumption DEF V6, AF_INET, AF_INET6
<1>2. IsText(t) /\ IsText(d)
  BY <1>1 DEF IsText, Numeral
<1>3. \A x \in {DOT} \cup (48..57) : x # COLON /\ x # 91
  BY DEF DOT, COLON
<1>4. \A i \in 1..Len(t) : t[i] # COLON /\ t[i] # 91
  BY <1>1, <1>3
<1>5. PICK r : r = t \o <<COLON>> \o d
  OBVIOUS
<1>6. PICK n \in Nat, m \in Nat : n = Len(t) /\ m = Len(d)
  BY <1>2, TextLen
<1>7. IsJoin(r, t, COLON, d)
  BY <1>2, <1>5, JoinIs
<1>8. strchr(r, COLON) = n + 1 /\ SubSeq(r, 1, n) = t /\ From(r, n + 2) = d
  <2>1. strchr(r, COLON) = Len(t) + 1 /\ SubSeq(r, 1, Len(t)) = t /\ From(r, Len(t) + 2) = d
    BY <1>2, <1>4, <1>7, SplitAt
  <2>. QED
    BY <1>6, <2>1
<1>9. r[1] # 91
  <2>1. CASE n = 0
    <3>1. r[n + 1] = COLON
      BY <1>6, <1>7 DEF IsJoin
    <3>. QED
      BY <2>1, <3>1 DEF COLON
  <2>2. CASE n > 0
    <3>1. r[1] = t[1] /\ 1 \in 1..n
      BY <1>6, <1>7, <2>2 DEF IsJoin
    <3>. QED
      BY <1>4, <1>6, <3>1
  <2>. QED
    BY <2>1, <2>2
<1>10. ip_port_from_str(ip, r) = PortFromStr4(ip, r)
  BY <1>9 DEF ip_port_from_str
<1>11. NotBlank(d) = TRUE
  BY AtoiIs DEF NotBlank
<1>12. PortFromStr4(ip, r) = SetPort(ip_addr_from_str(ip, t), d, NotBlank(d))
  <2>1. n + 1 # 0 /\ (n + 1) - 1 = n /\ (n + 1) + 1 = n + 2
    OBVIOUS
  <2>. QED
    BY <1>8, <2>1 DEF PortFromStr4
<1>. QED
  BY <1>5, <1>10, <1>11, <1>12

(* [x:x:...]:port *)
LEMMA ReadPort6 ==
  ASSUME NEW ip, NEW t \in DOMAIN Pton, Pton[t].family = AF_INET6,
         NEW d, NEW k \in Nat, Numeral(d, k)
  PROVE  ip_port_from_str(ip, (<<91>> \o t \o <<93>>) \o <<COLON>> \o d)
           = SetPort(ip_addr_from_str(ip, t), d, TRUE)
<1>1. t \in Seq({DOT, COLON} \cup (48..57) \cup (65..70) \cup (97..102))
  BY PtonAssumption DEF V4, AF_INET, AF_INET6
<1>2. IsText(t) /\ IsText(d)
  BY <1>1 DEF IsText, Numeral
<1>3. \A x \in {DOT, COLON} \cup (48..57) \cup (65..70) \cup (97..102) : x # 93
  BY DEF DOT, COLON
<1>4. \A i \in 1..Len(t) : t[i] # 93
  <2>1. PICK C : t \in Seq(C) /\ \A x \in C : x # 93
    BY <1>1, <1>3, Zenon
  <2>. QED
    BY <2>1
<1>5. PICK r, x, y : r = (<<91>> \o t \o <<93>>) \o <<COLON>> \o d /\ x = <<91>> \o t /\ y = <<COLON>> \o d
  OBVIOUS
<1>6. PICK n \in Nat, m \in Nat : n = Len(t) /\ m = Len(d)
  BY <1>2, TextLen
<1>7. /\ IsJoin(r, x, 93, y)
      /\ IsPiece(t, r, 1, n)
      /\ IsPiece(d, r, n + 3, m) /\ Len(r) = n + 3 + m
      /\ r[1] = 91 /\ Len(x) = n + 1 /\ IsText(x) /\ IsText(y)
      /\ \A i \in 1..n : x[1 + i] = t[i]
      /\ x[1] = 91
  <2>1. IsPortText(r, x, y, t, d, 93, 91)
    BY <1>2, <1>5, PortTextIs
  <2>. QED
    BY <1>6, <2>1 DEF IsPortText
<1>8. \A i \in 1..Len(x) : x[i] # 93
  <2>1. ASSUME NEW i \in 1..(n + 1) PROVE x[i] # 93
    <3>1. CASE i = 1
      BY <1>7, <3>1
    <3>2. CASE i # 1
      <4>1. PICK j \in 1..n : i = 1 + j
        <5>1. i - 1 \in 1..n /\ i = 1 + (i - 1)
          BY <3>2
        <5>. QED
          BY <5>1
      <4>. QED
        BY <1>4, <1>6, <1>7, <4>1
    <3>. QED
      BY <3>1, <3>2
  <2>. QED
    BY <1>7, <2>1
<1>9. strchr(r, 93) = n + 2
  <2>1. strchr(r, 93) = Len(x) + 1
    BY <1>7, <1>8, SplitAt
  <2>. QED
    BY <1>7, <2>1
<1>10. SubSeq(r, 2, n + 1) = t
  <2>1. SubSeq(r, 1 + 1, 1 + n) = t
    BY <1>7, PieceSame
  <2>2. 1 + 1 = 2 /\ 1 + n = n + 1
    OBVIOUS
  <2>. QED
    BY <2>1, <2>2
<1>11. From(r, n + 4) = d
  <2>1. PICK a \in Nat : a = n + 3
    OBVIOUS
  <2>2. SubSeq(r, a + 1, a + m) = d
    BY <1>7, <2>1, PieceSame
  <2>3. a + 1 = n + 4 /\ a + m = Len(r)
    BY <1>7, <2>1
  <2>. QED
    BY <2>2, <2>3 DEF From
<1>12. ip_port_from_str(ip, r) = PortFromStr6(ip, r)
  <2>1. Len(r) > 0
    BY <1>7
  <2>. QED
    BY <1>7, <2>1 DEF ip_port_from_str
<1>13. DigitsOnly(d) = TRUE
  BY AtoiIs DEF DigitsOnly
<1>14. PortFromStr6(ip, r) = SetPort(ip_addr_from_str(ip, t), d, DigitsOnly(d))
  <2>1. n + 2 # 0 /\ (n + 2) - 1 = n + 1 /\ (n + 2) + 2 = n + 4
    OBVIOUS
  <2>. QED
    BY <1>9, <1>10, <1>11, <2>1 DEF PortFromStr6
<1>. QED
  BY <1>5, <1>12, <1>13, <1>14

(* PortRoundTrip: an address and port of either family is read back from   *)
(* the text that was written of it, for every port and every address that  *)
(* inet_ntop has a text for.                                               *)
THEOREM PortRoundTripHolds == CodecsSpec => []PortRoundTrip
<1>1. ASSUME Answers, Answered("ip_port_to_str")
      PROVE  LET read == ip_port_from_str([family |-> "none", addr |-> <<>>, port |-> 0], answer)
             IN  read.ret = 0 /\ ip_port_compare(read.ip, in) = 0
  <2>1. in \in IpPort /\ answer = ip_port_to_str(in)
    BY <1>1 DEF Answers, Answered, answer
  <2>2. PICK net \in Ip, k \in Port : in.family = net.family /\ in.addr = net.addr /\ in.port = k
    BY <2>1 DEF IpPort
  <2>3. k \in Nat /\ k \in 0..MaxPort
    BY PortAssumption
  <2>4. /\ net \in {Pton[t] : t \in DOMAIN Pton}
        /\ net.family \in {AF_INET, AF_INET6} /\ net = [family |-> net.family, addr |-> net.addr]
    BY AddressIs, IpAssumption
  <2>5. PICK t : t = Ntop(in)
    OBVIOUS
  <2>6. t \in DOMAIN Pton /\ Pton[t].family = in.family /\ Pton[t].addr = in.addr
    <3>1. [family |-> in.family, addr |-> in.addr] \in {Pton[s] : s \in DOMAIN Pton}
      BY <2>2, <2>4
    <3>2. t \in DOMAIN Pton /\ Pton[t] = [family |-> in.family, addr |-> in.addr]
      BY <2>5, <3>1, NtopIs
    <3>. QED
      BY <3>2
  <2>7. PICK d : d = Decimal(in.port) /\ Numeral(d, k)
    BY <2>2, <2>3, DecimalIs
  <2>8. PICK ip : ip = [family |-> "none", addr |-> <<>>, port |-> 0]
    OBVIOUS
  <2>9. ip_port_from_str(ip, answer) = SetPort(ip_addr_from_str(ip, t), d, TRUE)
    <3>1. CASE in.family = AF_INET
      <4>1. answer = t \o <<COLON>> \o d
        BY <2>1, <2>5, <2>7, <3>1 DEF ip_port_to_str, AF_INET, AF_INET6
      <4>. QED
        BY <2>3, <2>6, <2>7, <3>1, <4>1, ReadPort4
    <3>2. CASE in.family = AF_INET6
      <4>1. answer = (<<91>> \o t \o <<93>>) \o <<COLON>> \o d
        BY <2>1, <2>5, <2>7, <3>2 DEF ip_port_to_str
      <4>. QED
        BY <2>3, <2>6, <2>7, <3>2, <4>1, ReadPort6
    <3>. QED
      BY <2>2, <2>4, <3>1, <3>2
  <2>10. PICK q, p : /\ q = [ip EXCEPT !.family = Pton[t].family, !.addr = Pton[t].addr]
                     /\ p = [q EXCEPT !.port = k]
    OBVIOUS
  <2>11. ip_port_from_str(ip, answer).ret = 0 /\ ip_port_from_str(ip, answer).ip = p
    <3>1. SetPort(ip_addr_from_str(ip, t), d, TRUE) = Ok([q EXCEPT !.port = k])
      <4>1. k \in 0..MaxPort /\ Numeral(d, k)
        BY <2>3, <2>7
      <4>2. ip_addr_from_str(ip, t) = Ok(q)
        BY <2>6, <2>10, ReadAddress
      <4>. QED
        BY <4>1, <4>2, SetPortIs
    <3>2. Ok(p).ret = 0 /\ Ok(p).ip = p
      BY DEF Ok
    <3>. QED
      BY <2>9, <2>10, <3>1, <3>2
  <2>12. p.family = in.family /\ p.addr = in.addr /\ p.port = in.port
    BY <2>2, <2>6, <2>8, <2>10
  <2>13. ip_port_compare(p, in) = 0
    BY <2>2, <2>3, <2>12, ComparePort
  <2>. QED
    BY <2>8, <2>11, <2>13
<1>2. Answers => PortRoundTrip
  BY <1>1 DEF PortRoundTrip
<1>. QED
  BY <1>2, AnswersHolds, PTL

=============================================================================
