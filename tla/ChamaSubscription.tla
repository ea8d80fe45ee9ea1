-------------------------- MODULE ChamaSubscription --------------------------
(***************************************************************************)
(* What billing promises of a chama's subscription: there is at most one,  *)
(* to a plan on offer; it is changed but never removed, and whether it     *)
(* ends with its period may be changed back and forth.                     *)
(***************************************************************************)
CONSTANTS Chamas, ActivePlans, NoPlan

VARIABLES
  plan,     \* the plan each chama is subscribed to
  ending    \* the chamas whose subscription ends with its period

vars == <<plan, ending>>

Init == plan = [c \in Chamas |-> NoPlan] /\ ending = {}

Subscribe(c) ==
  /\ plan[c] = NoPlan
  /\ \E p \in ActivePlans : plan' = [plan EXCEPT ![c] = p]
  /\ UNCHANGED ending

Change(c) ==
  /\ plan[c] # NoPlan
  /\ \E p \in ActivePlans \cup {plan[c]} : plan' = [plan EXCEPT ![c] = p]
  /\ ending' \in {ending \cup {c}, ending \ {c}}

Next == \E c \in Chamas : Subscribe(c) \/ Change(c)

Spec == Init /\ [][Next]_vars
=============================================================================
