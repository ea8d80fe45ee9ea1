--------------------------- MODULE MCChamaLedger ---------------------------
(* A small instance of ChamaLedger: one chama, and four requests, enough to *)
(* register, create, add and contribute, or to let any of these race.       *)
(* Asha is registered from the start; Beko is not, and may be, in any role. *)
EXTENDS ChamaLedger, TLC

CONSTANTS asha, beko, kilimo, r1, r2, r3, r4

MCUsers == {asha, beko}
MCChamas == {kilimo}
MCRequests == {r1, r2, r3, r4}
MCRegistered == asha :> "member" @@ beko :> Nobody

\* No definition tells one request from another.
Interchangeable == Permutations(MCRequests)
=============================================================================
