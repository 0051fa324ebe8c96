--------------------------- MODULE ProcessProofs ---------------------------
(* Proofs about two modules of the process: ConnTable, a worker's table of *)
(* connections, for every size and every set of connections, and           *)
(* Lifecycle, for any number of workers and any configuration files.       *)
EXTENDS Lifecycle, MCConnTable, FiniteSetTheorems, NaturalsInduction, TLAPS

(* The connection table *)

Inv == TypeOK /\ FreeCount /\ OneEntry

(* Freeing an entry adds one free id, giving one removes one: what         *)
(* nfreed++ and nfreed-- in connection_table_del and _add count.           *)
LEMMA IdFinite == IsFiniteSet(Id) /\ Cardinality(Id) = max
BY MaxAssumption, FS_Interval DEF Id

LEMMA FreeFinite == IsFiniteSet(FreeIds) /\ Cardinality(FreeIds) \in 0..max
<1>1. FreeIds \in SUBSET Id
  BY DEF FreeIds
<1>2. IsFiniteSet(FreeIds) /\ Cardinality(FreeIds) <= max
  BY <1>1, IdFinite, FS_Subset
<1>. QED
  BY <1>2, FS_CardinalityType, MaxAssumption

(* The table starts empty and consistent. *)
LEMMA InitInv == Init => Inv
<1>. SUFFICES ASSUME Init PROVE Inv
  OBVIOUS
<1>1. FreeIds = Id
  BY DEF Init, FreeIds
<1>2. FreeCount
  BY <1>1, IdFinite DEF Init, FreeCount
<1>3. TypeOK
  BY MaxAssumption DEF Init, TypeOK
<1>4. OneEntry
  BY NullAssumption DEF Init, OneEntry
<1>. QED
  BY <1>2, <1>3, <1>4 DEF Inv

(* connection_table_add keeps the table consistent. *)
LEMMA AddInv == ASSUME Inv, NEW s \in Conn, Add(s) PROVE Inv'
<1>. USE DEF Inv
<1>1. PICK id \in Id : /\ Found(id)
                       /\ table' = [table EXCEPT ![id] = s]
                       /\ freeid' = id + 1
  BY DEF Add
<1>2. id \in FreeIds /\ table[id] = NULL
  BY <1>1 DEF Found, FreeIds
<1>3. FreeIds' = FreeIds \ {id}
  BY <1>1, <1>2, NullAssumption DEF FreeIds, TypeOK
<1>4. FreeCount'
  BY <1>2, <1>3, FreeFinite, FS_RemoveElement DEF FreeCount, Add
<1>5. TypeOK'
  <2>1. nfreed' \in 0..max
    BY FreeFinite, MaxAssumption DEF Add, FreeCount
  <2>2. freeid' \in 0..max
    BY <1>1, MaxAssumption DEF Id
  <2>. QED
    BY <1>1, <2>1, <2>2 DEF TypeOK, Add
<1>6. OneEntry'
  BY <1>1, <1>2, NullAssumption DEF OneEntry, TypeOK, Add
<1>. QED
  BY <1>4, <1>5, <1>6

(* connection_table_del keeps the table consistent. *)
LEMMA DelInv == ASSUME Inv, NEW id \in Id, Del(id) PROVE Inv'
<1>. USE DEF Inv
<1>1. FreeIds' = FreeIds \cup {id}
  BY DEF FreeIds, TypeOK, Del
<1>2. id \notin FreeIds
  BY DEF FreeIds, Del
<1>3. FreeCount'
  BY <1>1, <1>2, FreeFinite, FS_AddElement DEF FreeCount, Del
<1>4. IsFiniteSet(FreeIds') /\ Cardinality(FreeIds') \in 0..max
  <2>1. FreeIds' \in SUBSET Id
    BY <1>1 DEF FreeIds
  <2>. QED
    BY <2>1, IdFinite, FS_Subset, FS_CardinalityType, MaxAssumption
<1>5. TypeOK'
  BY <1>3, <1>4 DEF TypeOK, Del, FreeCount
<1>6. OneEntry'
  <2>1. \A i \in Id : table'[i] = IF i = id THEN NULL ELSE table[i]
    BY DEF TypeOK, Del
  <2>2. \A s \in Conn : s \in magic' <=> s \in magic /\ s # table[id]
    BY DEF Del
  <2>3. ASSUME NEW s \in Conn PROVE s \in magic' <=> \E i \in Id : table'[i] = s
    <3>1. CASE s = table[id]
      <4>1. s \notin magic'
        BY <2>2, <3>1
      <4>2. \A i \in Id : table'[i] # s
        BY <2>1, <3>1, NullAssumption DEF OneEntry, Del
      <4>. QED
        BY <4>1, <4>2
    <3>2. CASE s # table[id]
      <4>1. (\E i \in Id : table'[i] = s) <=> (\E i \in Id : table[i] = s)
        BY <2>1, <3>2, NullAssumption
      <4>. QED
        BY <2>2, <3>2, <4>1 DEF OneEntry
    <3>. QED
      BY <3>1, <3>2
  <2>4. \A i, j \in Id : table'[i] = table'[j] /\ table'[i] # NULL => i = j
    BY <2>1 DEF OneEntry
  <2>. QED
    BY <2>3, <2>4 DEF OneEntry
<1>. QED
  BY <1>3, <1>5, <1>6

(* The table is consistent in every reachable state. *)
THEOREM InvHolds == Spec => []Inv
<1>1. Inv /\ [Next]_vars => Inv'
  <2>. SUFFICES ASSUME Inv, [Next]_vars PROVE Inv'
    OBVIOUS
  <2>1. ASSUME NEW s \in Conn, Add(s) PROVE Inv'
    BY <2>1, AddInv
  <2>2. ASSUME NEW id \in Id, Del(id) PROVE Inv'
    BY <2>2, DelInv
  <2>3. CASE UNCHANGED vars
    BY <2>3 DEF Inv, TypeOK, FreeCount, OneEntry, FreeIds, vars
  <2>. QED
    BY <2>1, <2>2, <2>3 DEF Next
<1>. QED
  BY <1>1, InitInv, PTL DEF Spec

(* The state has the shape of connection_table_t. *)
THEOREM TypeCorrect == Spec => []TypeOK
BY InvHolds, PTL DEF Inv

(* nfreed, which connection_table_add tests, is the number of NULL entries. *)
THEOREM FreeCountHolds == Spec => []FreeCount
BY InvHolds, PTL DEF Inv

(* find's assertion on the magic number holds, and an id names at most one *)
(* connection, a connection has at most one id.                            *)
THEOREM OneEntryHolds == Spec => []OneEntry
BY InvHolds, PTL DEF Inv

(* A search that starts finds an entry: of the free entries, the one with  *)
(* the least number of steps from freeid exists.                           *)
THEOREM SearchEndsHolds == Spec => []SearchEnds
<1>1. Inv => SearchEnds
  <2>. SUFFICES ASSUME Inv, nfreed >= 1 PROVE \E id \in Id : Found(id)
    BY DEF SearchEnds
  <2>. USE DEF Inv
  <2>1. PICK i \in FreeIds : TRUE
    BY FreeFinite, FS_EmptySet DEF FreeCount
  <2>. DEFINE N == {Steps(j) : j \in FreeIds}
  <2>2. \A j \in FreeIds : Steps(j) \in Nat
    <3>1. \A j \in Id : j - freeid \in Int
      BY MaxAssumption DEF TypeOK, Id
    <3>. QED
      BY <3>1, MaxAssumption DEF FreeIds, Steps
  <2>3. N \in SUBSET Nat /\ Steps(i) \in N
    BY <2>1, <2>2
  <2>4. \E n \in N : \A m \in N : n <= m
    <3>. DEFINE Less == {ss \in Nat \X Nat : ss[1] < ss[2]}
    <3>1. IsWellFoundedOn(Less, Nat)
      BY NatLessThanWellFounded DEF OpToRel
    <3>. HIDE DEF Less
    <3>2. PICK n \in N : \A m \in N : ~ (<<m, n>> \in Less)
      BY <2>3, <3>1, WFMin
    <3>3. ASSUME NEW m \in N PROVE n <= m
      <4>1. m \in Nat /\ n \in Nat
        BY <2>3
      <4>2. ~ (<<m, n>> \in Less)
        BY <3>2
      <4>3. ~ (m < n)
        BY <4>1, <4>2 DEF Less
      <4>. QED
        BY <4>1, <4>3
    <3>. QED
      BY <3>3
  <2>5. PICK id \in FreeIds : \A j \in FreeIds : Steps(id) <= Steps(j)
    BY <2>4
  <2>. QED
    BY <2>5 DEF Found, FreeIds
<1>. QED
  BY <1>1, InvHolds, PTL

-----------------------------------------------------------------------------
(* The remainder Steps takes: a search from freeid passes the entries from *)
(* it on, then those before it.                                            *)
LEMMA StepsAre ==
  ASSUME NEW n \in Nat \ {0}, NEW i \in 0..(n - 1), NEW f \in 0..n
  PROVE  (i - f) % n = IF i >= f THEN i - f ELSE i - f + n
<1>. DEFINE a == i - f
            q == a \div n
            r == a % n
<1>1. q \in Int /\ r \in 0..(n - 1) /\ a = n * q + r
  BY SMT
<1>2. a \in Int /\ a < n /\ a >= 0 - n /\ a = i - f
  OBVIOUS
<1>. SUFFICES r = IF a >= 0 THEN a ELSE a + n
  BY <1>2
<1>. HIDE DEF a, q, r
<1>3. CASE q >= 1
  <2>1. n * q >= n
    BY <1>1, <1>3
  <2>. QED
    BY <2>1, <1>1, <1>2
<1>4. CASE q = 0
  BY <1>1, <1>2, <1>4
<1>5. CASE q = -1
  <2>1. n * q = 0 - n
    BY <1>1, <1>5
  <2>. QED
    BY <2>1, <1>1, <1>2
<1>6. CASE q <= -2
  <2>1. n * (q + 2) <= 0
    BY <1>1, <1>6
  <2>2. n * (q + 2) = n * q + (n + n)
    BY <1>1
  <2>3. n * q \in Int
    BY <1>1
  <2>. QED
    BY <2>1, <2>2, <2>3, <1>1, <1>2
<1>. QED
  BY <1>1, <1>3, <1>4, <1>5, <1>6

(* What has been free since i was given is free, and a search reaches it   *)
(* before i.                                                               *)
Behind ==
  \A i \in Id : stayed[i] \subseteq FreeIds /\ \A j \in stayed[i] : Steps(j) <= Steps(i)

RInv == stayed \in [Id -> SUBSET Id] /\ Behind

(* connection_table_add takes the entry its search reaches first and goes  *)
(* on behind it, which leaves the others in their order.                   *)
LEMMA AddBehind ==
  ASSUME Inv, RInv, NEW s \in Conn, Add(s), MCNext
  PROVE  RInv' /\ \A i \in Id : Given(i) => stayed[i] \subseteq {i}
<1>. USE DEF Inv
<1>1. PICK id \in Id : /\ Found(id)
                       /\ table' = [table EXCEPT ![id] = s]
                       /\ freeid' = id + 1
  BY DEF Add
<1>2. id \in FreeIds /\ table[id] = NULL /\ s # NULL
  BY <1>1, NullAssumption DEF Found, FreeIds
<1>3. FreeIds' = FreeIds \ {id}
  BY <1>1, <1>2 DEF FreeIds, TypeOK
<1>4. \A i \in Id : Given(i) <=> i = id
  BY <1>1, <1>2 DEF Given, TypeOK
<1>5. \A i \in Id : Steps(i) = IF i >= freeid THEN i - freeid ELSE i - freeid + max
  BY StepsAre, MaxAssumption DEF Steps, Id, TypeOK
<1>6. \A i \in Id : Steps(i)' = IF i >= id + 1 THEN i - (id + 1) ELSE i - (id + 1) + max
  <2>1. id + 1 \in 0..max
    BY MaxAssumption DEF Id
  <2>2. ASSUME NEW i \in Id PROVE Steps(i)' = (i - (id + 1)) % max
    BY <1>1 DEF Steps
  <2>. QED
    BY <2>1, <2>2, StepsAre, MaxAssumption DEF Id
<1>7. \A j \in FreeIds : j \in Id /\ Steps(id) <= Steps(j)
  BY <1>1 DEF Found, FreeIds
<1>8. \A i \in Id : stayed'[i] = IF i = id THEN FreeIds' ELSE stayed[i] \cap FreeIds'
  BY <1>4 DEF MCNext
<1>9. \A j \in stayed[id] : j = id
  <2>1. \A j \in stayed[id] : j \in FreeIds /\ Steps(j) <= Steps(id)
    BY DEF RInv, Behind
  <2>2. ASSUME NEW j \in stayed[id] PROVE j = id
    <3>. DEFINE d == Steps(id)
                e == Steps(j)
    <3>1. j \in Id /\ d <= e /\ e <= d
      BY <2>1, <1>7
    <3>2. j \in 0..(max - 1) /\ id \in 0..(max - 1) /\ freeid \in 0..max
      BY <3>1 DEF Id, TypeOK
    <3>3. d = IF id >= freeid THEN id - freeid ELSE id - freeid + max
      BY <1>5
    <3>4. e = IF j >= freeid THEN j - freeid ELSE j - freeid + max
      BY <1>5, <3>1
    <3>. HIDE DEF d, e
    <3>. QED
      BY <3>1, <3>2, <3>3, <3>4, MaxAssumption
  <2>. QED
    BY <2>2
<1>10. stayed' \in [Id -> SUBSET Id]
  <2>1. FreeIds' \subseteq Id
    BY <1>3, <1>7
  <2>. QED
    BY <2>1 DEF MCNext, RInv
<1>11. ASSUME NEW i \in Id, NEW j \in stayed'[i] PROVE j \in FreeIds' /\ Steps(j)' <= Steps(i)'
  <2>1. j \in FreeIds' /\ j \in Id /\ j # id
    BY <1>8, <1>11, <1>3, <1>7
  <2>2. CASE i = id
    BY <2>1, <2>2, <1>6, MaxAssumption DEF Id
  <2>3. CASE i # id
    <3>1. j \in stayed[i] /\ Steps(j) <= Steps(i)
      BY <2>3, <1>8, <1>11 DEF RInv, Behind
    <3>2. Steps(id) <= Steps(j)
      BY <2>1, <1>3, <1>7
    <3>. DEFINE d == Steps(id)
                e == Steps(j)
                g == Steps(i)
                ee == Steps(j)'
                gg == Steps(i)'
    <3>3. d <= e /\ e <= g
      BY <3>1, <3>2
    <3>4. /\ i \in 0..(max - 1) /\ j \in 0..(max - 1) /\ id \in 0..(max - 1)
          /\ freeid \in 0..max
      BY <2>1 DEF Id, TypeOK
    <3>5. /\ d = IF id >= freeid THEN id - freeid ELSE id - freeid + max
          /\ e = IF j >= freeid THEN j - freeid ELSE j - freeid + max
          /\ g = IF i >= freeid THEN i - freeid ELSE i - freeid + max
      BY <1>5, <2>1
    <3>6. /\ ee = IF j >= id + 1 THEN j - (id + 1) ELSE j - (id + 1) + max
          /\ gg = IF i >= id + 1 THEN i - (id + 1) ELSE i - (id + 1) + max
      BY <1>6, <2>1
    <3>. SUFFICES ee <= gg
      BY <2>1
    <3>. HIDE DEF d, e, g, ee, gg
    <3>. QED
      BY <2>1, <2>3, <3>3, <3>4, <3>5, <3>6, MaxAssumption
  <2>. QED
    BY <2>1, <2>2, <2>3
<1>12. Behind'
  BY <1>11 DEF Behind
<1>. QED
  BY <1>4, <1>9, <1>10, <1>12 DEF RInv

(* connection_table_del leaves the search where it was. *)
LEMMA DelBehind ==
  ASSUME Inv, RInv, NEW id \in Id, Del(id), MCNext
  PROVE  RInv' /\ \A i \in Id : ~ Given(i)
<1>. USE DEF Inv
<1>1. \A i \in Id : ~ Given(i)
  BY DEF Given, Del, TypeOK
<1>2. \A i \in Id : stayed'[i] = stayed[i] \cap FreeIds'
  BY <1>1 DEF MCNext
<1>3. \A i \in Id : Steps(i)' = Steps(i)
  BY DEF Steps, Del
<1>4. stayed' \in [Id -> SUBSET Id]
  BY <1>1 DEF MCNext, RInv
<1>5. Behind'
  BY <1>2, <1>3 DEF RInv, Behind
<1>. QED
  BY <1>1, <1>4, <1>5 DEF RInv

(* An id is given again only when all others have been in use since, with  *)
(* any number of entries.                                                  *)
THEOREM RoundRobinHolds == MCSpec => RoundRobin
<1>. DEFINE Once == \A i \in Id : Given(i) => stayed[i] \subseteq {i}
<1>1. MCSpec => Spec
  <2>1. MCInit => Init
    BY DEF MCInit
  <2>2. [MCNext]_<<vars, stayed>> => [Next]_vars
    BY DEF MCNext, vars
  <2>. QED
    BY <2>1, <2>2, PTL DEF MCSpec, Spec
<1>2. MCInit => RInv
  BY DEF MCInit, RInv, Behind
<1>3. Inv /\ RInv /\ [MCNext]_<<vars, stayed>> => RInv' /\ [Once]_vars
  <2>. SUFFICES ASSUME Inv, RInv, [MCNext]_<<vars, stayed>> PROVE RInv' /\ [Once]_vars
    OBVIOUS
  <2>1. ASSUME MCNext, NEW s \in Conn, Add(s) PROVE RInv' /\ Once
    BY <2>1, AddBehind
  <2>2. ASSUME MCNext, NEW id \in Id, Del(id) PROVE RInv' /\ Once
    BY <2>2, DelBehind
  <2>3. CASE UNCHANGED <<vars, stayed>>
    BY <2>3 DEF RInv, Behind, Steps, FreeIds, vars
  <2>. QED
    BY <2>1, <2>2, <2>3 DEF MCNext, Next
<1>. QED
  BY <1>1, <1>2, <1>3, InvHolds, PTL DEF MCSpec, RoundRobin

-----------------------------------------------------------------------------
(* Lifecycle *)

(* Threads exist only from "create" on, and thread CLOCK is the last.      *)
NotYet ==
  /\ main \in {"load", "init"} => created = 0 /\ \A t \in Thread : at[t] = "none"
  /\ main = "create" => created <= CLOCK

(* The accept thread adds a connection to the worker whose work_t it read. *)
Holds == at[ACCEPT] = "add" /\ main # "undefined" => held \in Work

(* The pools are freed by the last thing that the main thread does.        *)
FreedAtEnd ==
  pools = "freed" => main = "exited" /\ \A t \in Work \cup {ACCEPT} : ~Uses(t)

(* A worker frees its work_t only when the process is to stop, and the     *)
(* accept thread meets a freed one only then.                              *)
StopFirst == (main = "undefined" \/ \E w \in Work : priv[w] = "freed") => stop

ProcessInv == ThreadsOK /\ NotYet /\ Holds /\ FreedAtEnd /\ StopFirst

-----------------------------------------------------------------------------
(* The numbers of the threads: workers, then accept, then clock. *)
LEMMA Numbers ==
  /\ Work \subseteq Thread /\ ACCEPT \in Thread /\ CLOCK \in Thread
  /\ ACCEPT \notin Work /\ CLOCK \notin Work /\ ACCEPT # CLOCK
  /\ None \notin Thread
  /\ CLOCK \in Nat
BY ThreadAssumption DEF Work, ACCEPT, CLOCK, Thread, None

LEMMA InitProcessInv == ProcessInit => ProcessInv
<1> SUFFICES ASSUME ProcessInit PROVE ProcessInv
  OBVIOUS
<1>1. ThreadsOK
  <2>1. created \in 0..(CLOCK + 1)
    BY Numbers DEF ProcessInit
  <2>2. at \in [Thread -> Place]
    BY DEF ProcessInit, Place
  <2>3. priv \in [Work -> {"null", "set", "freed"}]
    BY DEF ProcessInit
  <2> QED
    BY <2>1, <2>2, <2>3 DEF ProcessInit, ThreadsOK
<1>2. NotYet
  BY DEF ProcessInit, NotYet
<1>3. Holds /\ FreedAtEnd /\ StopFirst
  BY Numbers DEF ProcessInit, Holds, FreedAtEnd, StopFirst
<1> QED
  BY <1>1, <1>2, <1>3 DEF ProcessInv

-----------------------------------------------------------------------------
(* A thread that exists goes on, the main thread stays or the process is   *)
(* lost: what the main thread relies on is not disturbed.                  *)
LEMMA Moves ==
  ASSUME ProcessInv, ~Ended,
         NEW t \in Thread, at[t] # "none",
         NEW place \in Place, Go(t, place),
         main' = main \/ main' = "undefined", created' = created, pools' = pools
  PROVE  at' \in [Thread -> Place] /\ NotYet' /\ FreedAtEnd'
<1>1. at' \in [Thread -> Place]
  BY DEF ProcessInv, ThreadsOK, Go
<1>2. NotYet'
  BY Numbers DEF ProcessInv, NotYet, Go
<1>3. FreedAtEnd'
  BY DEF ProcessInv, FreedAtEnd, Ended
<1> QED
  BY <1>1, <1>2, <1>3

(* A signal, or a crash: no thread moves. *)
LEMMA Stays ==
  ASSUME ProcessInv, ~Ended,
         main' = main \/ main' = "crashed", UNCHANGED <<created, pools, at, priv, held>>,
         stop => stop'
  PROVE  NotYet' /\ Holds' /\ FreedAtEnd' /\ StopFirst'
<1>1. NotYet'
  BY DEF ProcessInv, NotYet
<1>2. Holds'
  BY DEF ProcessInv, Holds, Ended
<1>3. FreedAtEnd'
  BY DEF ProcessInv, FreedAtEnd, Ended
<1>4. StopFirst'
  BY DEF ProcessInv, StopFirst
<1> QED
  BY <1>1, <1>2, <1>3, <1>4

(* What the main thread does. *)
LEMMA MainStepProcessInv == ASSUME ProcessInv, ~Ended, MainStep PROVE ProcessInv'
<1>1. CASE LoadCfg
  <2>1. ThreadsOK'
    BY <1>1 DEF LoadCfg, ProcessInv, ThreadsOK
  <2>2. NotYet' /\ Holds' /\ FreedAtEnd' /\ StopFirst'
    BY <1>1 DEF LoadCfg, ProcessInv, NotYet, Holds, FreedAtEnd, StopFirst
  <2> QED
    BY <2>1, <2>2 DEF ProcessInv
<1>2. CASE ProxyInit
  <2>1. ThreadsOK'
    BY <1>2 DEF ProxyInit, ProcessInv, ThreadsOK
  <2>2. NotYet' /\ Holds' /\ StopFirst'
    BY <1>2, Numbers DEF ProxyInit, ProcessInv, NotYet, Holds, StopFirst
  <2>3. FreedAtEnd'
    BY <1>2, Numbers DEF ProxyInit, ProcessInv, NotYet, FreedAtEnd, Uses
  <2> QED
    BY <2>1, <2>2, <2>3 DEF ProcessInv
<1>3. CASE Create
  <2>1. created' \in 0..(CLOCK + 1) /\ created \in 0..CLOCK
    BY <1>3, Numbers DEF Create, ProcessInv, NotYet, ThreadsOK
  <2>2. at' \in [Thread -> Place]
    BY <1>3 DEF Create, ProcessInv, ThreadsOK, Place
  <2>3. ThreadsOK'
    BY <1>3, <2>1, <2>2 DEF Create, ProcessInv, ThreadsOK
  <2>4. NotYet'
    BY <1>3, <2>1, Numbers DEF Create, NotYet
  <2>5. Holds'
    BY <1>3, <2>1, <2>2, Numbers DEF Create, ProcessInv, Holds, ThreadsOK
  <2>6. FreedAtEnd' /\ StopFirst'
    BY <1>3 DEF Create, ProcessInv, FreedAtEnd, StopFirst
  <2> QED
    BY <2>3, <2>4, <2>5, <2>6 DEF ProcessInv
<1>4. CASE ProxyLoop
  <2>1. ThreadsOK'
    BY <1>4 DEF ProxyLoop, ProcessInv, ThreadsOK
  <2>2. NotYet' /\ Holds' /\ FreedAtEnd' /\ StopFirst'
    BY <1>4 DEF ProxyLoop, ProcessInv, NotYet, Holds, FreedAtEnd, StopFirst
  <2> QED
    BY <2>1, <2>2 DEF ProcessInv
<1>5. CASE JoinAndFree
  <2>1. ThreadsOK'
    BY <1>5 DEF JoinAndFree, ProcessInv, ThreadsOK
  <2>2. NotYet' /\ Holds' /\ StopFirst'
    BY <1>5 DEF JoinAndFree, ProcessInv, NotYet, Holds, StopFirst
  <2>3. FreedAtEnd'
    BY <1>5 DEF JoinAndFree, FreedAtEnd, Joined, Uses
  <2> QED
    BY <2>1, <2>2, <2>3 DEF ProcessInv
<1> QED
  BY <1>1, <1>2, <1>3, <1>4, <1>5 DEF MainStep

(* A worker, which is not the accept thread. *)
LEMMA WorkStepProcessInv == ASSUME ProcessInv, ~Ended, NEW w \in Work, WorkStep(w) PROVE ProcessInv'
<1> w \in Thread /\ w # ACCEPT
  BY Numbers
<1>1. CASE WorkInit(w)
  <2>1. CASE nwork = 0 /\ Crash
    <3>1. ThreadsOK'
      BY <2>1 DEF Crash, ProcessInv, ThreadsOK
    <3>2. NotYet' /\ Holds' /\ FreedAtEnd' /\ StopFirst'
      BY <2>1, Stays DEF Crash
    <3> QED
      BY <3>1, <3>2 DEF ProcessInv
  <2>2. CASE Go(w, "loop") /\ priv' = [priv EXCEPT ![w] = "set"] /\ UNCHANGED signal
              /\ UNCHANGED <<main, file, cfg, pools, created, stop, held, stat, log>>
    <3>1. at' \in [Thread -> Place] /\ NotYet' /\ FreedAtEnd'
      BY <1>1, <2>2, Moves DEF WorkInit, Place
    <3>2. ThreadsOK'
      BY <2>2, <3>1 DEF ProcessInv, ThreadsOK
    <3>3. Holds' /\ StopFirst'
      BY <2>2, Numbers DEF ProcessInv, ThreadsOK, Holds, StopFirst, Ended, Go
    <3> QED
      BY <3>1, <3>2, <3>3 DEF ProcessInv
  <2>3. CASE GiveUp(w) /\ UNCHANGED priv
              /\ UNCHANGED <<main, file, cfg, pools, created, stop, held, stat, log>>
    <3>1. at' \in [Thread -> Place] /\ NotYet' /\ FreedAtEnd'
      BY <1>1, <2>3, Moves DEF WorkInit, Place, GiveUp
    <3>2. ThreadsOK'
      BY <2>3, <3>1 DEF ProcessInv, ThreadsOK, GiveUp
    <3>3. Holds' /\ StopFirst'
      BY <2>3, Numbers DEF ProcessInv, ThreadsOK, Holds, StopFirst, Ended, Go, GiveUp
    <3> QED
      BY <3>1, <3>2, <3>3 DEF ProcessInv
  <2> QED
    BY <1>1, <2>1, <2>2, <2>3 DEF WorkInit
<1>2. CASE WorkTurn(w)
  <2>1. PICK place \in {"loop", "turn", "stat", "log"} : Go(w, place) /\ at[w] # "none"
    BY <1>2 DEF WorkTurn, TakeStat, GiveStat, TakeLog, GiveLog
  <2>2. {stat', log'} \subseteq Thread \cup {None}
    BY <1>2 DEF WorkTurn, TakeStat, GiveStat, TakeLog, GiveLog, ProcessInv, ThreadsOK
  <2>3. UNCHANGED <<main, file, cfg, pools, created, signal, stop, priv, held>>
    BY <1>2 DEF WorkTurn
  <2>4. at' \in [Thread -> Place] /\ NotYet' /\ FreedAtEnd'
    BY <2>1, <2>3, Moves DEF Place
  <2>5. ThreadsOK'
    BY <2>2, <2>3, <2>4 DEF ProcessInv, ThreadsOK
  <2>6. Holds' /\ StopFirst'
    BY <2>1, <2>3, Numbers DEF ProcessInv, ThreadsOK, Holds, StopFirst, Ended, Go
  <2> QED
    BY <2>4, <2>5, <2>6 DEF ProcessInv
<1>3. CASE WorkEnd(w)
  <2>1. at' \in [Thread -> Place] /\ NotYet' /\ FreedAtEnd'
    BY <1>3, Moves DEF WorkEnd, Place
  <2>2. ThreadsOK'
    BY <1>3, <2>1 DEF WorkEnd, ProcessInv, ThreadsOK
  <2>3. Holds' /\ StopFirst'
    BY <1>3, Numbers DEF WorkEnd, ProcessInv, ThreadsOK, Holds, StopFirst, Ended, Go
  <2> QED
    BY <2>1, <2>2, <2>3 DEF ProcessInv
<1> QED
  BY <1>1, <1>2, <1>3 DEF WorkStep

(* The accept thread: what it holds is a worker, and a freed one only when *)
(* the process is to stop.                                                 *)
LEMMA AcceptStepProcessInv == ASSUME ProcessInv, ~Ended, AcceptStep PROVE ProcessInv'
<1>1. CASE AcceptInit
  <2>1. PICK place \in {"loop", "ended"} : Go(ACCEPT, place)
    BY <1>1 DEF AcceptInit, GiveUp
  <2>2. at' \in [Thread -> Place] /\ NotYet' /\ FreedAtEnd'
    BY <1>1, <2>1, Numbers, Moves DEF AcceptInit, Place
  <2>3. ThreadsOK'
    BY <1>1, <2>2 DEF AcceptInit, GiveUp, ProcessInv, ThreadsOK
  <2>4. Holds' /\ StopFirst'
    BY <1>1, <2>1, Numbers DEF AcceptInit, ProcessInv, ThreadsOK, Holds, StopFirst, Ended, Go
  <2> QED
    BY <2>2, <2>3, <2>4 DEF ProcessInv
<1>2. CASE Poll
  <2>1. PICK place \in {"loop", "add"} : Go(ACCEPT, place) /\ (place = "add" => held' \in Work)
    BY <1>2 DEF Poll
  <2>2. at' \in [Thread -> Place] /\ NotYet' /\ FreedAtEnd'
    BY <1>2, <2>1, Numbers, Moves DEF Poll, Place
  <2>3. ThreadsOK'
    BY <1>2, <2>2 DEF Poll, ProcessInv, ThreadsOK
  <2>4. Holds' /\ StopFirst'
    BY <1>2, <2>1, Numbers DEF Poll, ProcessInv, ThreadsOK, Holds, StopFirst, Ended, Go
  <2> QED
    BY <2>2, <2>3, <2>4 DEF ProcessInv
<1>3. CASE AddConnection
  <2>1. held \in Work
    BY <1>3 DEF AddConnection, ProcessInv, Holds, Ended
  <2>2. CASE priv[held] = "freed"
    <3>1. stop
      BY <2>1, <2>2 DEF ProcessInv, StopFirst
    <3>2. ThreadsOK'
      BY <1>3, <2>2 DEF AddConnection, ProcessInv, ThreadsOK
    <3>3. NotYet' /\ FreedAtEnd' /\ StopFirst'
      BY <1>3, <2>2, <3>1 DEF AddConnection, ProcessInv, NotYet, FreedAtEnd, StopFirst, Ended
    <3>4. Holds'
      BY <1>3, <2>2 DEF AddConnection, Holds
    <3> QED
      BY <3>2, <3>3, <3>4 DEF ProcessInv
  <2>3. CASE priv[held] # "freed"
    <3>1. Go(ACCEPT, "count") /\ main' = main
      BY <1>3, <2>3 DEF AddConnection
    <3>2. at' \in [Thread -> Place] /\ NotYet' /\ FreedAtEnd'
      BY <1>3, <3>1, Numbers, Moves DEF AddConnection, Place
    <3>3. ThreadsOK'
      BY <1>3, <3>1, <3>2 DEF AddConnection, ProcessInv, ThreadsOK
    <3>4. Holds' /\ StopFirst'
      BY <1>3, <3>1, Numbers DEF AddConnection, ProcessInv, ThreadsOK, Holds, StopFirst, Ended, Go
    <3> QED
      BY <3>2, <3>3, <3>4 DEF ProcessInv
  <2> QED
    BY <2>2, <2>3
<1>4. CASE Count \/ AcceptEnd
  <2>1. PICK place \in {"stat", "loop", "ended"} : Go(ACCEPT, place) /\ at[ACCEPT] # "none"
    BY <1>4 DEF Count, AcceptEnd, TakeStat, GiveStat
  <2>2. stat' \in Thread \cup {None}
    BY <1>4, Numbers DEF Count, AcceptEnd, TakeStat, GiveStat, ProcessInv, ThreadsOK
  <2>3. UNCHANGED <<main, file, cfg, pools, created, signal, stop, priv, held, log>>
    BY <1>4 DEF Count, AcceptEnd
  <2>4. at' \in [Thread -> Place] /\ NotYet' /\ FreedAtEnd'
    BY <2>1, <2>3, Numbers, Moves DEF Place
  <2>5. ThreadsOK'
    BY <2>2, <2>3, <2>4 DEF ProcessInv, ThreadsOK
  <2>6. Holds' /\ StopFirst'
    BY <2>1, <2>3, Numbers DEF ProcessInv, ThreadsOK, Holds, StopFirst, Ended, Go
  <2> QED
    BY <2>4, <2>5, <2>6 DEF ProcessInv
<1> QED
  BY <1>1, <1>2, <1>3, <1>4 DEF AcceptStep

LEMMA ClockStepProcessInv == ASSUME ProcessInv, ~Ended, ClockStep PROVE ProcessInv'
<1>1. PICK place \in {"loop", "sleep", "stat", "log", "reset", "ended"} :
        Go(CLOCK, place) /\ at[CLOCK] # "none"
  BY DEF ClockStep, TakeStat, GiveStat, TakeLog, GiveLog
<1>2. {stat', log'} \subseteq Thread \cup {None}
  BY Numbers DEF ClockStep, TakeStat, GiveStat, TakeLog, GiveLog, ProcessInv, ThreadsOK
<1>3. UNCHANGED <<main, file, cfg, pools, created, signal, stop, priv, held>>
  BY DEF ClockStep
<1>4. at' \in [Thread -> Place] /\ NotYet' /\ FreedAtEnd'
  BY <1>1, <1>3, Numbers, Moves DEF Place
<1>5. ThreadsOK'
  BY <1>2, <1>3, <1>4 DEF ProcessInv, ThreadsOK
<1>6. Holds' /\ StopFirst'
  BY <1>1, <1>3, Numbers DEF ProcessInv, ThreadsOK, Holds, StopFirst, Ended, Go
<1> QED
  BY <1>4, <1>5, <1>6 DEF ProcessInv

-----------------------------------------------------------------------------
LEMMA NextProcessInv == ProcessInv /\ [ProcessNext]_processVars => ProcessInv'
<1> SUFFICES ASSUME ProcessInv, [ProcessNext]_processVars PROVE ProcessInv'
  OBVIOUS
<1>1. CASE UNCHANGED processVars
  BY <1>1 DEF processVars, ProcessInv, ThreadsOK, NotYet, Holds, FreedAtEnd, StopFirst, Uses
<1>2. CASE ~Ended /\ MainStep
  BY <1>2, MainStepProcessInv
<1>3. CASE ~Ended /\ (SigInt \/ Interrupt)
  <2>1. ThreadsOK'
    BY <1>3 DEF SigInt, Interrupt, ProcessInv, ThreadsOK
  <2>2. NotYet' /\ Holds' /\ FreedAtEnd' /\ StopFirst'
    BY <1>3, Stays DEF SigInt, Interrupt
  <2> QED
    BY <2>1, <2>2 DEF ProcessInv
<1>4. CASE ~Ended /\ AcceptStep
  BY <1>4, AcceptStepProcessInv
<1>5. CASE ~Ended /\ ClockStep
  BY <1>5, ClockStepProcessInv
<1>6. CASE ~Ended /\ \E w \in Work : WorkStep(w)
  BY <1>6, WorkStepProcessInv
<1> QED
  BY <1>1, <1>2, <1>3, <1>4, <1>5, <1>6 DEF ProcessNext

(* The strengthening of FreedLast holds in every state. *)
THEOREM ProcessInvHolds == ProcessSpec => []ProcessInv
<1>1. ProcessInit => ProcessInv
  BY InitProcessInv
<1>2. ProcessInv /\ [ProcessNext]_processVars => ProcessInv'
  BY NextProcessInv
<1> QED
  BY <1>1, <1>2, PTL DEF ProcessSpec

(* The variables stay in their ranges, for any number of workers.          *)
THEOREM ThreadsOKHolds == ProcessSpec => []ThreadsOK
<1>1. ProcessInv => ThreadsOK
  BY DEF ProcessInv
<1> QED
  BY <1>1, ProcessInvHolds, PTL

(* _proxy_free comes when no worker and not the accept thread is left, and *)
(* _work_free only when the process is to stop (http/proxy2.c,             *)
(* http/work2.c), however many workers run and whatever is configured.     *)
THEOREM FreedLastHolds == ProcessSpec => []FreedLast
<1>1. ProcessInv => FreedLast
  BY DEF ProcessInv, FreedAtEnd, StopFirst, FreedLast
<1> QED
  BY <1>1, ProcessInvHolds, PTL

=============================================================================
