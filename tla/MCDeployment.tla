---------------------------- MODULE MCDeployment ----------------------------
(* A small instance of Deployment: two containers, one operator, two seeders. *)
EXTENDS Deployment, TLC

CONSTANTS c1, c2, o1, s1, s2

MCContainers == {c1, c2}
MCOperators == {o1}
MCSeeders == {s1, s2}
=============================================================================
