---------------------------- MODULE MCRateLimiter ----------------------------
(* A small instance of RateLimiter: one key, as keys share nothing; two    *)
(* limits on one deque of three; time for the window to pass twice.        *)
EXTENDS RateLimiter, TLC

CONSTANTS r1, r2, r3, r4, r5, ip

MCRequests == {r1, r2, r3, r4, r5}
MCKeys == {ip}
MCLimits == {2, 3}

\* No definition tells one request from another.
Interchangeable == Permutations(MCRequests)
=============================================================================
