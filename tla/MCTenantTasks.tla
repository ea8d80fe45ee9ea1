---------------------------- MODULE MCTenantTasks ----------------------------
(* A small instance of TenantTasks: two chamas, whose schemas are set up    *)
(* and dropped; two contributions; one worker, as workers share nothing.    *)
EXTENDS TenantTasks, TLC

CONSTANTS kilimo, samaki, r1, r2, w1

MCChamas == {kilimo, samaki}
MCRequests == {r1, r2}
MCWorkers == {w1}

\* No definition tells one request, or one chama, from another.
Interchangeable == Permutations(MCRequests) \cup Permutations(MCChamas)
=============================================================================
