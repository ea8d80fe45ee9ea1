-------------------------- MODULE MCRequestPipeline --------------------------
(* A small instance of RequestPipeline: three requests, two tenants.        *)
EXTENDS RequestPipeline, TLC

CONSTANTS r1, r2, r3, kilimo, jamii

MCRequests == {r1, r2, r3}
MCTenants == {kilimo, jamii}

\* No definition tells one request, or one tenant, from another.
Interchangeable == Permutations(MCRequests) \cup Permutations(MCTenants)
=============================================================================
