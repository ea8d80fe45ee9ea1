--------------------------- MODULE MCSubscriptions ---------------------------
(* A small instance of Subscriptions: two users and two chamas, so that an  *)
(* email is registered for both; two plans on offer, and one withdrawn.     *)
EXTENDS Subscriptions, TLC

CONSTANTS asha, beko, kilimo, samaki, basic, premium, retired, r1, r2, r3

MCUsers == {asha, beko}
MCChamas == {kilimo, samaki}
MCPlans == {basic, premium, retired}
MCActivePlans == {basic, premium}
MCRequests == {r1, r2, r3}
MCSender == r1 :> asha @@ r2 :> asha @@ r3 :> beko
=============================================================================
