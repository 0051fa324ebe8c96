------------------------------ MODULE ObjPool ------------------------------
(***************************************************************************)
(* What the memory pool of http/mempool.h promises its callers.            *)
(*                                                                         *)
(* An object is a memory unit of the pool.  mempool_get hands out one that *)
(* nobody holds, mempool_put takes a held one back, and the memory of an   *)
(* object that somebody holds stays allocated.  When memory is asked from  *)
(* and given back to malloc is left open, except that get releases none    *)
(* and put asks for none.                                                  *)
(***************************************************************************)

CONSTANT Object     \* addresses at which a memory unit may lie

VARIABLES
  used,             \* the objects the callers hold
  mapped            \* the objects whose memory is allocated

vars == <<used, mapped>>

TypeOK == used \subseteq Object /\ mapped \subseteq Object

Init == used = {} /\ mapped \subseteq Object

Get(o) ==
  /\ o \in Object \ used
  /\ used' = used \cup {o}
  /\ mapped' \in SUBSET Object
  /\ mapped \cup used' \subseteq mapped'

Put(o) ==
  /\ o \in used
  /\ used' = used \ {o}
  /\ mapped' \in SUBSET mapped
  /\ used' \subseteq mapped'

Next == \E o \in Object : Get(o) \/ Put(o)

Spec == Init /\ [][Next]_vars

=============================================================================
