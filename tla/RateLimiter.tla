----------------------------- MODULE RateLimiter -----------------------------
(***************************************************************************)
(* The rate limiter: InMemoryRateLimiter and RateLimitMiddleware           *)
(* (backend/rate_limiting.py).                                             *)
(*                                                                         *)
(* is_allowed does not await, so a decision is one step of the event loop. *)
(* The headers of a request that was let through are computed after the    *)
(* rest of the application has been awaited, from the deque as it is then. *)
(* Time is counted in ticks and assumed not to go back.                    *)
(***************************************************************************)
EXTENDS Integers, FiniteSets, Sequences

CONSTANTS
  Requests,
  Keys,       \* a client, or a client in a chama
  Limits,     \* max_requests, of which a path has one
  Window,     \* window_seconds, in ticks
  Second,     \* the ticks of a second
  MaxLen,     \* of a deque: 1000
  MaxTime,    \* bound of the model: the clock stops there
  NoVerdict, NoHeader

ASSUME LimiterAssumption ==
  /\ Limits \subseteq 1..MaxLen
  /\ Window \in Nat /\ MaxLen \in Nat /\ MaxTime \in Nat /\ Second \in Nat \ {0}
  /\ NoHeader \notin Int
  /\ NoVerdict \notin [key : Keys, limit : Limits, allowed : BOOLEAN]

VARIABLES
  clock,      \* time.time()
  times,      \* InMemoryRateLimiter.requests, an empty deque for an absent key
  verdict,    \* what is_allowed answered each request, and about what
  remaining,  \* the X-RateLimit-Remaining each response carries
  log,        \* history: every time a request was let through, by key
  due         \* history: what the last refused request of a key was told

vars == <<clock, times, verdict, remaining, log, due>>

\* No request is as generous as that, so nothing is promised.
NotTold == [at |-> 0, header |-> 0, limit |-> MaxLen + 1]

Init ==
  /\ clock = 0
  /\ times = [k \in Keys |-> <<>>]
  /\ verdict = [r \in Requests |-> NoVerdict]
  /\ remaining = [r \in Requests |-> NoHeader]
  /\ log = [k \in Keys |-> <<>>]
  /\ due = [k \in Keys |-> NotTold]

Tick ==
  /\ clock < MaxTime
  /\ clock' = clock + 1
  /\ UNCHANGED <<times, verdict, remaining, log, due>>

-----------------------------------------------------------------------------
(* is_allowed *)

\* Mutant: a time on the edge of the window is outside.
OutsideOrEdge(t) == t <= clock - Window

Outside(t) == t < clock - Window

\* The popleft loop removes the first n times of q.
Expired(q, n) ==
  /\ \A i \in 1..n : Outside(q[i])
  /\ n < Len(q) => ~Outside(q[n + 1])

\* Mutant: a deque one element too short.
PushShort(q, t) == IF Len(q) < MaxLen - 1 THEN Append(q, t) ELSE Append(Tail(q), t)

\* A full deque drops its first element for a new last one.
Push(q, t) == IF Len(q) < MaxLen THEN Append(q, t) ELSE Append(Tail(q), t)

RetryAfter(q) == q[1] + Window - clock

\* Mutant: the whole minutes of it, a minute being two seconds.
HeaderInMinutes(q) == (RetryAfter(q) \div (2 * Second)) * (2 * Second)

\* int(retry_after), which Retry-After carries: the whole seconds of it.
Header(q) == (RetryAfter(q) \div Second) * Second

Allow(r, k, limit, fresh) ==
  /\ times' = [times EXCEPT ![k] = Push(fresh, clock)]
  /\ verdict' = [verdict EXCEPT ![r] = [key |-> k, limit |-> limit, allowed |-> TRUE]]
  /\ log' = [log EXCEPT ![k] = Append(@, clock)]
  /\ due' = [due EXCEPT ![k] = NotTold]

\* What retry_after promises, it promises while the deque is no longer than
\* the limit: behind a request with a higher limit it may be longer.
Refuse(r, k, limit, fresh) ==
  /\ times' = [times EXCEPT ![k] = fresh]
  /\ verdict' = [verdict EXCEPT ![r] = [key |-> k, limit |-> limit, allowed |-> FALSE]]
  /\ due' = IF Len(fresh) = limit
            THEN [due EXCEPT ![k] = [at |-> clock + RetryAfter(fresh),
                                     header |-> clock + Header(fresh), limit |-> limit]]
            ELSE due
  /\ UNCHANGED log

\* dispatch up to call_next.  Key and limit are functions of the client and
\* the path; any combination of them occurs.
Dispatch(r, k, limit) ==
  /\ verdict[r] = NoVerdict
  /\ \E n \in 0..Len(times[k]) :
       LET fresh == SubSeq(times[k], n + 1, Len(times[k])) IN
       /\ Expired(times[k], n)
       /\ IF Len(fresh) < limit
          THEN Allow(r, k, limit, fresh) ELSE Refuse(r, k, limit, fresh)
  /\ UNCHANGED <<clock, remaining>>

\* Mutant: without max(0, ...).
RespondNegative(r) ==
  /\ verdict[r] # NoVerdict /\ remaining[r] = NoHeader
  /\ verdict[r].allowed
  /\ LET left == verdict[r].limit - Len(times[verdict[r].key]) IN
     remaining' = [remaining EXCEPT ![r] = left]
  /\ UNCHANGED <<clock, times, verdict, log, due>>

\* The rest of dispatch.  (If the application raises, there is no response
\* to put headers on.)
Respond(r) ==
  /\ verdict[r] # NoVerdict /\ remaining[r] = NoHeader
  /\ verdict[r].allowed
  /\ LET left == verdict[r].limit - Len(times[verdict[r].key]) IN
     remaining' = [remaining EXCEPT ![r] = IF left > 0 THEN left ELSE 0]
  /\ UNCHANGED <<clock, times, verdict, log, due>>

Next ==
  \/ Tick
  \/ \E r \in Requests :
       Respond(r) \/ \E k \in Keys, limit \in Limits : Dispatch(r, k, limit)

Spec == Init /\ [][Next]_vars
-----------------------------------------------------------------------------
(* Properties *)

TypeOK ==
  /\ clock \in 0..MaxTime
  /\ times \in [Keys -> Seq(0..MaxTime)]
  /\ \A k \in Keys : Len(times[k]) <= MaxLen
  /\ verdict \in [Requests ->
       [key : Keys, limit : Limits, allowed : BOOLEAN] \cup {NoVerdict}]
  /\ remaining \in [Requests -> 0..MaxLen \cup {NoHeader}]
  /\ log \in [Keys -> Seq(0..MaxTime)]
  /\ due \in [Keys -> [at : Nat, header : Nat, limit : 1..(MaxLen + 1)]]

Ideal == INSTANCE SlidingWindow

\* The deque, cleaned up only when a request comes, bounded, and shared by
\* paths with different limits, decides each request as the complete log of
\* its key would.
ImplementsWindow == Ideal!Spec

\* Whatever was let through or went out of the window while the response was
\* awaited, the header never promises more requests than are left by then.
HeaderIsSafe ==
  [][\A r \in Requests :
       remaining[r] = NoHeader /\ remaining'[r] \notin {NoHeader, 0} =>
         remaining'[r] <=
           verdict[r].limit - Cardinality(Ideal!Recent(verdict[r].key))]_vars

\* "Try again in ... seconds": once retry_after is over, and also a second after
\* what the truncated header says, a key is refused again only if another of
\* its requests was let through meanwhile, or for a path with a lower limit.
RetrySuffices ==
  [][\A r \in Requests :
       verdict[r] = NoVerdict /\ verdict'[r] # NoVerdict /\ ~verdict'[r].allowed =>
         \/ /\ clock <= due[verdict'[r].key].at
            /\ clock < due[verdict'[r].key].header + Second
         \/ verdict'[r].limit < due[verdict'[r].key].limit]_vars
=============================================================================
