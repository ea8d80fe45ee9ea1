---------------------------- MODULE SlidingWindow ----------------------------
(***************************************************************************)
(* What a rate limit promises: a request is let through if and only if,    *)
(* of the requests with its key let through so far, fewer than its limit   *)
(* are no older than the window.  RateLimiter implements it with a bounded *)
(* deque that it cleans up as requests arrive.                             *)
(***************************************************************************)
EXTENDS Integers, FiniteSets, Sequences

CONSTANTS
  Requests, Keys,
  Limits,     \* the limits requests fall under
  Window,
  NoVerdict

VARIABLES
  clock,
  log,        \* for each key, when its requests were let through
  verdict     \* the decision on each request

vars == <<clock, log, verdict>>

Verdict == [key : Keys, limit : Limits, allowed : BOOLEAN]

Init ==
  /\ clock \in Nat
  /\ log = [k \in Keys |-> <<>>]
  /\ verdict = [r \in Requests |-> NoVerdict]

Recent(k) == {i \in 1..Len(log[k]) : log[k][i] >= clock - Window}

Decide(r, k, limit) ==
  LET allowed == Cardinality(Recent(k)) < limit IN
  /\ verdict[r] = NoVerdict
  /\ verdict' = [verdict EXCEPT ![r] = [key |-> k, limit |-> limit, allowed |-> allowed]]
  /\ log' = IF allowed THEN [log EXCEPT ![k] = Append(@, clock)] ELSE log
  /\ UNCHANGED clock

Tick ==
  /\ clock' > clock
  /\ UNCHANGED <<log, verdict>>

Next ==
  \/ Tick
  \/ \E r \in Requests, k \in Keys, limit \in Limits : Decide(r, k, limit)

Spec == Init /\ [][Next]_vars
=============================================================================
