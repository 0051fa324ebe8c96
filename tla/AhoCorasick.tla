----------------------------- MODULE AhoCorasick -----------------------------
(***************************************************************************)
(* The keyword search of http/acsmx.c: patterns are added, compiled into   *)
(* an automaton in three passes (trie, failure links, complete             *)
(* transitions), and a text is searched byte by byte.                      *)
(*                                                                         *)
(* A step of the first pass is one byte of a pattern, of the others one    *)
(* state taken off the queue.  Transitions are kept for folded bytes only: *)
(* no other byte is ever looked up.                                        *)
(***************************************************************************)
EXTENDS Integers, SequencesExt, Bytes

CONSTANTS
  Byte,             \* bytes of patterns and texts
  ALPHABET_SIZE,    \* columns of the table, 256 in the code
  Keyword,          \* records [txt, nocase] that acsmAddPattern may get
  MaxKeywords,      \* bound: patterns of one automaton
  MaxText           \* bound: bytes of the text

ASSUME ByteAssumption == ALPHABET_SIZE \in Nat /\ Byte \subseteq 0..(ALPHABET_SIZE - 1)
ASSUME KeywordAssumption ==
  \A w \in Keyword : w.txt \in Seq(Byte) \ {<<>>} /\ w.nocase \in BOOLEAN
ASSUME BoundAssumption == {MaxKeywords, MaxText} \subseteq Nat

(* acsmSearch copies the text into a buffer of this size, unchecked: of a  *)
(* longer one nothing can be said.                                         *)
ASSUME TextAssumption == MaxText <= 64 * 1024

VARIABLES
  acsmPatterns,     \* the list of patterns, the last one added first
  pc,               \* the pass
  NextState, FailState, MatchList,   \* acsmStateTable, a function per column
  acsmNumStates,    \* the last state given out
  plist, pos,       \* the pattern being added to the trie, bytes of it followed
  queue,            \* states to visit in the pass
  state,            \* where the pattern being added, or the search, has come to
  T,                \* the text searched so far
  found             \* the calls of Match: pattern and index

trie == <<plist, pos>>
search == <<T, found>>

vars == <<acsmPatterns, pc, NextState, FailState, MatchList, acsmNumStates, trie, queue,
          state, search>>

ACSM_FAIL_STATE == -1

Letter == {xlatcase(b) : b \in Byte}

(* Offset[i] is the length of the first i patterns together. *)
Offset ==
  LET sum[i \in 0..Len(acsmPatterns)] ==
        IF i = 0 THEN 0 ELSE sum[i - 1] + Len(acsmPatterns[i].patrn)
  IN sum

acsmMaxStates == 1 + Offset[Len(acsmPatterns)]

State == 0..(acsmMaxStates - 1)

(* The elements of a sequence that are in S, in their order. *)
Chosen(seq, S) ==
  LET some[i \in 0..Len(seq)] ==
        IF i = 0 THEN <<>>
        ELSE IF seq[i] \in S THEN Append(some[i - 1], seq[i]) ELSE some[i - 1]
  IN some[Len(seq)]

-----------------------------------------------------------------------------
Init ==
  /\ acsmPatterns = <<>>
  /\ pc = "add"
  /\ NextState = <<>> /\ FailState = <<>> /\ MatchList = <<>>
  /\ acsmNumStates = 0
  /\ plist = 1 /\ pos = 0
  /\ queue = <<>>
  /\ state = 0 /\ T = <<>> /\ found = <<>>

(* acsmAddPattern *)
AddPattern(w) ==
  /\ pc = "add"
  /\ Len(acsmPatterns) < MaxKeywords
  /\ acsmPatterns' =
       <<[iid |-> Len(acsmPatterns), patrn |-> ConvertCaseEx(w.txt),
          casepatrn |-> w.txt, nocase |-> w.nocase]>> \o acsmPatterns
  /\ UNCHANGED <<pc, NextState, FailState, MatchList, acsmNumStates, trie, queue, state, search>>

(* acsmCompile, as far as the table. *)
Compile ==
  /\ pc = "add"
  /\ NextState' = [s \in State |-> [b \in Letter |-> ACSM_FAIL_STATE]]
  /\ FailState' = [s \in State |-> 0]
  /\ MatchList' = [s \in State |-> <<>>]
  /\ pc' = "trie"
  /\ UNCHANGED <<acsmPatterns, acsmNumStates, trie, queue, state, search>>

(* AddPatternStates, one byte: it follows the transition it finds, or gets *)
(* a new state.                                                            *)
AddPatternStates ==
  /\ pc = "trie"
  /\ plist <= Len(acsmPatterns)
  /\ pos < Len(acsmPatterns[plist].patrn)
  /\ LET b == acsmPatterns[plist].patrn[pos + 1]
         next == NextState[state][b]
     IN \/ /\ next # ACSM_FAIL_STATE
           /\ state' = next
           /\ UNCHANGED <<NextState, acsmNumStates>>
        \/ /\ next = ACSM_FAIL_STATE
           /\ acsmNumStates' = acsmNumStates + 1
           /\ NextState' = [NextState EXCEPT ![state][b] = acsmNumStates']
           /\ state' = acsmNumStates'
  /\ pos' = pos + 1
  /\ UNCHANGED <<acsmPatterns, pc, FailState, MatchList, plist, queue, search>>

(* Its end: the pattern comes first in the list of its last state. *)
AddMatchListEntry ==
  /\ pc = "trie"
  /\ plist <= Len(acsmPatterns)
  /\ pos = Len(acsmPatterns[plist].patrn)
  /\ MatchList' = [MatchList EXCEPT ![state] = <<acsmPatterns[plist]>> \o @]
  /\ plist' = plist + 1
  /\ pos' = 0 /\ state' = 0
  /\ UNCHANGED <<acsmPatterns, pc, NextState, FailState, acsmNumStates, queue, search>>

(* The transitions of a state, in the order of their bytes. *)
Kids(next, s, none) ==
  Chosen([i \in 1..ALPHABET_SIZE |-> IF i - 1 \in Letter THEN next[s][i - 1] ELSE none],
         Int \ {none})

(* State 0 loops on the bytes that start no pattern, and the states after  *)
(* it are queued with failure state 0.                                     *)
TrieEnd ==
  /\ pc = "trie"
  /\ plist > Len(acsmPatterns)
  /\ NextState' = [NextState EXCEPT ![0] =
                    [b \in Letter |-> IF @[b] = ACSM_FAIL_STATE THEN 0 ELSE @[b]]]
  /\ queue' = Kids(NextState', 0, 0)
  /\ pc' = "nfa"
  /\ UNCHANGED <<acsmPatterns, FailState, MatchList, acsmNumStates, trie, state, search>>

(* Faulty: looks at the failure state once, and falls back to state 0. *)
Locate_Once(fs, b) ==
  IF NextState[fs][b] # ACSM_FAIL_STATE THEN NextState[fs][b] ELSE 0

(* The first transition on b along the failure states from fs on. *)
Locate(fs, b) ==
  LET next[s \in State] ==
        IF NextState[s][b] # ACSM_FAIL_STATE THEN NextState[s][b] ELSE next[FailState[s]]
  IN next[fs]

(* Faulty: does not copy the matches of the failure state. *)
Inherit_Nothing(own, other) == own

(* The matches of the failure state are copied to the front one by one. *)
Inherit(own, other) == Reverse(other) \o own

(* Build_NFA, one state: its successors get their failure states. *)
BuildNFA ==
  /\ pc = "nfa"
  /\ queue # <<>>
  /\ LET r == Head(queue)
         bytes == {b \in Letter : NextState[r][b] # ACSM_FAIL_STATE}
         via(s) == CHOOSE b \in bytes : NextState[r][b] = s
         succ == {NextState[r][b] : b \in bytes}
     IN /\ FailState' = [s \in State |->
             IF s \in succ THEN Locate(FailState[r], via(s)) ELSE FailState[s]]
        /\ MatchList' = [s \in State |->
             IF s \in succ THEN Inherit(MatchList[s], MatchList[FailState'[s]])
             ELSE MatchList[s]]
        /\ queue' = Tail(queue) \o Kids(NextState, r, ACSM_FAIL_STATE)
  /\ UNCHANGED <<acsmPatterns, pc, NextState, acsmNumStates, trie, state, search>>

BuildNFAEnd ==
  /\ pc = "nfa"
  /\ queue = <<>>
  /\ queue' = Kids(NextState, 0, 0)
  /\ pc' = "dfa"
  /\ UNCHANGED <<acsmPatterns, NextState, FailState, MatchList, acsmNumStates, trie, state,
                 search>>

(* Where the failure state of r goes. *)
Fallback(r, b) == NextState[FailState[r]][b]

(* Convert_NFA_To_DFA, one state: where it fails, it goes where its        *)
(* failure state goes.                                                     *)
ConvertNFA ==
  /\ pc = "dfa"
  /\ queue # <<>>
  /\ LET r == Head(queue) IN
       /\ NextState' = [NextState EXCEPT ![r] =
            [b \in Letter |-> IF @[b] # ACSM_FAIL_STATE THEN @[b] ELSE Fallback(r, b)]]
       /\ queue' = Tail(queue) \o Kids(NextState, r, ACSM_FAIL_STATE)
  /\ UNCHANGED <<acsmPatterns, pc, FailState, MatchList, acsmNumStates, trie, state, search>>

ConvertNFAEnd ==
  /\ pc = "dfa"
  /\ queue = <<>>
  /\ pc' = "search"
  /\ UNCHANGED <<acsmPatterns, NextState, FailState, MatchList, acsmNumStates, trie, queue,
                 state, search>>

(* What ends at the last byte of the text: index is where it begins.  The  *)
(* patterns with nocase unset are compared again, byte for byte.           *)
Matches(text, list) ==
  LET index(p) == Len(text) - Len(p.patrn)
      ok == Chosen(list, {p \in ToSet(list) :
              p.nocase \/ SubSeq(text, index(p) + 1, Len(text)) = p.casepatrn})
  IN [i \in DOMAIN ok |-> <<ok[i].iid, index(ok[i])>>]

(* acsmSearch, one byte.  Match never asks to stop. *)
Search(b) ==
  /\ pc = "search"
  /\ Len(T) < MaxText
  /\ T' = Append(T, b)
  /\ state' = NextState[state][xlatcase(b)]
  /\ found' = found \o Matches(T', MatchList[state'])
  /\ UNCHANGED <<acsmPatterns, pc, NextState, FailState, MatchList, acsmNumStates, trie, queue>>

Next ==
  \/ \E w \in Keyword : AddPattern(w)
  \/ Compile
  \/ AddPatternStates \/ AddMatchListEntry \/ TrieEnd
  \/ BuildNFA \/ BuildNFAEnd
  \/ ConvertNFA \/ ConvertNFAEnd
  \/ \E b \in Byte : Search(b)

Spec == Init /\ [][Next]_vars

-----------------------------------------------------------------------------
Patterns == ToSet(acsmPatterns)

(* Every state given out lies in the table that was allocated for the sum  *)
(* of the pattern lengths, and a search finds a state for every byte.      *)
TypeOK ==
  /\ pc \in {"add", "trie", "nfa", "dfa", "search"}
  /\ acsmNumStates \in State
  /\ ToSet(queue) \subseteq 1..acsmNumStates
  /\ pc # "add" =>
       /\ \A s \in State, b \in Letter : NextState[s][b] \in ACSM_FAIL_STATE..acsmNumStates
       /\ FailState \in [State -> 0..acsmNumStates]
       /\ \A s \in State : ToSet(MatchList[s]) \subseteq Patterns
  /\ pc = "search" =>
       \A s \in 0..acsmNumStates, b \in Letter : NextState[s][b] # ACSM_FAIL_STATE
  /\ state \in 0..acsmNumStates

(* The strings the automaton may be in the middle of. *)
Stems == UNION {Prefixes(p.patrn) : p \in Patterns}

(* Where a string leads from state 0, without the loops and failures. *)
StateOf(s) ==
  LET at[i \in 0..Len(s)] == IF i = 0 THEN 0 ELSE NextState[at[i - 1]][s[i]]
  IN at[Len(s)]

Longest(S) == CHOOSE s \in S : \A t \in S : Len(t) <= Len(s)

(* A failure state stands for the longest proper suffix of its state's     *)
(* string that begins a pattern: true of a state once it is queued, which  *)
(* is when other failure states are computed from it.                      *)
FailIsLongestSuffix ==
  pc \in {"nfa", "dfa"} =>
    \A s \in Stems \ {<<>>} :
      (pc = "dfa" \/ StateOf(s) \in ToSet(queue)) =>
        FailState[StateOf(s)] = StateOf(Longest((Suffixes(s) \ {s}) \cap Stems))

(* Where the pattern p is in the text. *)
Occurrences(p) ==
  {i \in 0..(Len(T) - Len(p.patrn)) :
     LET t == SubSeq(T, i + 1, i + Len(p.patrn)) IN
     IF p.nocase THEN ConvertCaseEx(t) = p.patrn ELSE t = p.casepatrn}

(* "This algorithm finds all occurrences of all patterns within a body of  *)
(* text": Match is called for each of them once, and for nothing else.     *)
AllOccurrences ==
  /\ ToSet(found) = UNION {{p.iid} \X Occurrences(p) : p \in Patterns}
  /\ IsInjective(found)

=============================================================================
