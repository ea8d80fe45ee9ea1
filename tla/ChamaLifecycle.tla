--------------------------- MODULE ChamaLifecycle ---------------------------
(***************************************************************************)
(* What creating a chama promises, whatever the server does in between.    *)
(*                                                                         *)
(* A chama's row is committed before its tenant schema is set up, and its  *)
(* owner's membership after (backend/crud.py, create_chama).  Seen from    *)
(* the database a chama is therefore                                       *)
(*                                                                         *)
(*     "none" --> "registered" --> "owned"                                 *)
(*                      |                                                  *)
(*                      +--------> "abandoned"                             *)
(*                                                                         *)
(* It is abandoned when the request that created it has ended without      *)
(* writing the owner's membership.  Nothing leaves "owned", and nothing    *)
(* leaves "abandoned" either: the name is unique, so the creation cannot   *)
(* be repeated, and no other operation makes an owner for it.              *)
(*                                                                         *)
(* TenantProvisioning implements this specification.                       *)
(***************************************************************************)
CONSTANT Chamas

VARIABLE stage

Stages == {"none", "registered", "owned", "abandoned"}

Move(c, from, to) ==
  /\ stage[c] = from
  /\ stage' = [stage EXCEPT ![c] = to]

Register(c) == Move(c, "none", "registered")
TakeOwnership(c) == Move(c, "registered", "owned")

\* A server crash ends the requests of several chamas at once.
Abandon ==
  \E S \in SUBSET {c \in Chamas : stage[c] = "registered"} :
    stage' = [c \in Chamas |-> IF c \in S THEN "abandoned" ELSE stage[c]]

Init == stage = [c \in Chamas |-> "none"]

Next ==
  \/ Abandon
  \/ \E c \in Chamas : Register(c) \/ TakeOwnership(c)

Spec == Init /\ [][Next]_stage
=============================================================================
