---------------------------- MODULE MCConnTable ----------------------------
(* The connection table with a history of which entries stayed free.       *)
EXTENDS ConnTable

VARIABLE stayed     \* per id, the ids free ever since that id was last given

Given(id) == table[id] = NULL /\ table'[id] # NULL

MCInit == Init /\ stayed = [i \in Id |-> {}]

MCNext ==
  /\ Next
  /\ stayed' = [i \in Id |-> IF Given(i) THEN FreeIds' ELSE stayed[i] \cap FreeIds']

MCSpec == MCInit /\ [][MCNext]_<<vars, stayed>>

(* An id is given again only when every other id has been in use at some   *)
(* time since: an event or a log line that still carries the id of a       *)
(* closed connection meets a new one as late as the table's size allows.   *)
RoundRobin ==
  [][\A i \in Id : Given(i) => stayed[i] \subseteq {i}]_vars

=============================================================================
