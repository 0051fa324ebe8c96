----------------------------- MODULE ConnTable -----------------------------
(***************************************************************************)
(* The connection table of http/connection.c: a worker's array of max      *)
(* entries that gives each live connection its id.  The id is the data of  *)
(* the connection's events in both epoll sets of the worker, so a find may *)
(* come with the id of a connection that is gone.                          *)
(*                                                                         *)
(* A free entry is searched from freeid on, so that the ids go round.      *)
(***************************************************************************)
EXTENDS Integers, FiniteSets

CONSTANTS
  max,              \* number of entries
  Conn,             \* connection objects (addresses of connection_t)
  NULL

ASSUME MaxAssumption == max \in Nat \ {0}
ASSUME NullAssumption == NULL \notin Conn

VARIABLES
  table,            \* the entries
  nfreed,           \* counter of the free entries
  freeid,           \* where the next search starts
  magic             \* the connections whose magic number is _connection_MAGIC

vars == <<table, nfreed, freeid, magic>>

Id == 0..(max - 1)

FreeIds == {i \in Id : table[i] = NULL}

-----------------------------------------------------------------------------
Init ==
  /\ table = [i \in Id |-> NULL]
  /\ nfreed = max
  /\ freeid = 0
  /\ magic = {}

(* How many entries _st_get_free_id tests before id: the search begins at  *)
(* freeid, or at 0 when freeid is max, and goes round.                     *)
Steps(id) == (id - freeid) % max

(* Faulty: searches from the first entry. *)
Found_First(id) == id \in FreeIds /\ \A i \in FreeIds : id <= i

(* The id that _st_get_free_id returns. *)
Found(id) == id \in FreeIds /\ \A i \in FreeIds : Steps(id) <= Steps(i)

(* connection_table_add, under the table's lock.  A full table is refused: *)
(* nothing changes.                                                        *)
Add(s) ==
  /\ nfreed >= 1
  /\ s \notin magic
  /\ \E id \in Id :
       /\ Found(id)
       /\ table' = [table EXCEPT ![id] = s]
       /\ freeid' = id + 1
  /\ magic' = magic \cup {s}
  /\ nfreed' = nfreed - 1

(* Faulty: frees the entry without counting it. *)
Del_NoCount(id) ==
  /\ table[id] # NULL
  /\ magic' = magic \ {table[id]}
  /\ table' = [table EXCEPT ![id] = NULL]
  /\ UNCHANGED <<nfreed, freeid>>

(* Faulty: leaves the magic number. *)
Del_KeepMagic(id) ==
  /\ table[id] # NULL
  /\ table' = [table EXCEPT ![id] = NULL]
  /\ nfreed' = nfreed + 1
  /\ UNCHANGED <<freeid, magic>>

(* connection_table_del, under the lock; an empty entry is refused. *)
Del(id) ==
  /\ table[id] # NULL
  /\ magic' = magic \ {table[id]}
  /\ table' = [table EXCEPT ![id] = NULL]
  /\ nfreed' = nfreed + 1
  /\ UNCHANGED freeid

Next ==
  \/ \E s \in Conn : Add(s)
  \/ \E id \in Id : Del(id)

Spec == Init /\ [][Next]_vars

-----------------------------------------------------------------------------
(* The entries, counters and magic numbers of connection.c have their types. *)
TypeOK ==
  /\ table \in [Id -> Conn \cup {NULL}]
  /\ nfreed \in 0..max
  /\ freeid \in 0..max
  /\ magic \subseteq Conn

(* nfreed counts the free entries.  _st_get_free_id relies on it: on a full *)
(* table its loop does not end when freeid is 0, and the test nfreed < 1   *)
(* is all that keeps a full table away from it.                            *)
FreeCount == nfreed = Cardinality(FreeIds)

(* The search that connection_table_add starts has an entry to find.       *)
SearchEnds == nfreed >= 1 => \E id \in Id : Found(id)

(* A connection has the magic number exactly while the table holds it, and *)
(* it holds it once: the assertion in connection_table_find, and no two    *)
(* ids whose events reach one connection.                                  *)
OneEntry ==
  /\ \A s \in Conn : s \in magic <=> \E i \in Id : table[i] = s
  /\ \A i, j \in Id : table[i] = table[j] /\ table[i] # NULL => i = j

=============================================================================
