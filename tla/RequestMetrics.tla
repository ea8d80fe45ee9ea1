--------------------------- MODULE RequestMetrics ---------------------------
(***************************************************************************)
(* The per-tenant metrics of requests: TenantContextMiddleware             *)
(* (backend/middleware.py) with MetricsContext (backend/metrics.py) and    *)
(* the rate limiter's violation counter.                                   *)
(*                                                                         *)
(* The middleware is a coroutine.  It calls start_request, awaits the rest *)
(* of the application, and calls end_request; both act on the metrics      *)
(* context of the thread, and the thread is the event loop's: there is one *)
(* context for all the requests in flight.                                 *)
(***************************************************************************)
EXTENDS Integers, FiniteSets, FiniteSetsExt

CONSTANTS Requests, Tenants, NoTenant

ASSUME MetricsAssumption ==
  /\ NoTenant \notin Tenants
  /\ IsFiniteSet(Requests) /\ IsFiniteSet(Tenants)

VARIABLES
  pc,          \* each request: "new", "in_flight", "done"
  path,        \* the tenant its URL names, NoTenant if none
  tenant_id,   \* MetricsContext.tenant_id
  sessions,    \* gauge chama_active_sessions
  counted,     \* counter chama_requests_total
  violations,  \* counter chama_rate_limit_violations_total
  limited,     \* history: the requests the rate limiter turned away
  overlapped,  \* history: have two requests been in flight at once?
  untenanted   \* history: has a request without tenant been received?

vars == <<pc, path, tenant_id, sessions, counted, violations, limited,
          overlapped, untenanted>>

InFlight == {r \in Requests : pc[r] = "in_flight"}
Done == {r \in Requests : pc[r] = "done"}
Of(t, R) == {r \in R : path[r] = t}

Init ==
  /\ pc = [r \in Requests |-> "new"]
  /\ path = [r \in Requests |-> NoTenant]
  /\ tenant_id = NoTenant
  /\ sessions = [t \in Tenants |-> 0]
  /\ counted = [t \in Tenants |-> 0]
  /\ violations = [t \in Tenants |-> 0]
  /\ limited = {}
  /\ overlapped = FALSE /\ untenanted = FALSE

\* Metrics are recorded only for a tenant.
Increase(metric, t, by) ==
  IF t \in Tenants THEN [metric EXCEPT ![t] = @ + by] ELSE metric

\* dispatch up to call_next, with start_request.
Start(r, t) ==
  /\ pc[r] = "new"
  /\ pc' = [pc EXCEPT ![r] = "in_flight"]
  /\ path' = [path EXCEPT ![r] = t]
  /\ tenant_id' = t
  /\ sessions' = Increase(sessions, t, 1)
  /\ overlapped' = (overlapped \/ InFlight # {})
  /\ untenanted' = (untenanted \/ t = NoTenant)
  /\ UNCHANGED <<counted, violations, limited>>

\* RateLimitMiddleware, inside call_next, refuses the request.
LimitExceeded(r) ==
  /\ pc[r] = "in_flight" /\ r \notin limited
  /\ violations' = Increase(violations, tenant_id, 1)
  /\ limited' = limited \cup {r}
  /\ UNCHANGED <<pc, path, tenant_id, sessions, counted, overlapped, untenanted>>

\* Mutant: end_request leaves the gauge as it is.
EndKeepsSession(r) ==
  /\ pc[r] = "in_flight"
  /\ pc' = [pc EXCEPT ![r] = "done"]
  /\ counted' = Increase(counted, tenant_id, 1)
  /\ UNCHANGED <<path, tenant_id, sessions, violations, limited, overlapped, untenanted>>

\* Mutant: the counter and the gauge are swapped.
EndSwapped(r) ==
  /\ pc[r] = "in_flight"
  /\ pc' = [pc EXCEPT ![r] = "done"]
  /\ counted' = Increase(counted, tenant_id, -1)
  /\ sessions' = Increase(sessions, tenant_id, 1)
  /\ UNCHANGED <<path, tenant_id, violations, limited, overlapped, untenanted>>

\* The rest of dispatch, with end_request: on a response, an exception or,
\* for a request with a tenant, a cancellation.
End(r) ==
  /\ pc[r] = "in_flight"
  /\ pc' = [pc EXCEPT ![r] = "done"]
  /\ counted' = Increase(counted, tenant_id, 1)
  /\ sessions' = Increase(sessions, tenant_id, -1)
  /\ UNCHANGED <<path, tenant_id, violations, limited, overlapped, untenanted>>

\* Without a tenant dispatch has no "finally": a cancellation ends it there.
Cancelled(r) ==
  /\ pc[r] = "in_flight" /\ path[r] = NoTenant
  /\ pc' = [pc EXCEPT ![r] = "done"]
  /\ UNCHANGED <<path, tenant_id, sessions, counted, violations, limited,
                 overlapped, untenanted>>

Next ==
  \E r \in Requests :
    \/ \E t \in Tenants \cup {NoTenant} : Start(r, t)
    \/ LimitExceeded(r) \/ End(r) \/ Cancelled(r)

Spec == Init /\ [][Next]_vars

-----------------------------------------------------------------------------
(* Properties *)

TypeOK ==
  /\ pc \in [Requests -> {"new", "in_flight", "done"}]
  /\ path \in [Requests -> Tenants \cup {NoTenant}]
  /\ tenant_id \in Tenants \cup {NoTenant}
  /\ sessions \in [Tenants -> Int]
  /\ counted \in [Tenants -> Nat] /\ violations \in [Tenants -> Nat]
  /\ limited \subseteq Requests
  /\ overlapped \in BOOLEAN /\ untenanted \in BOOLEAN

\* "Thread-local context ensures accurate per-request tracking": it does for
\* requests that never overlap, the sessions, requests and rate limit
\* violations of each tenant.
SerialRequestsAccurate ==
  ~overlapped =>
    \A t \in Tenants :
      /\ sessions[t] = Cardinality(Of(t, InFlight))
      /\ counted[t] = Cardinality(Of(t, Done))
      /\ violations[t] = Cardinality(Of(t, limited))

\* Requests that overlap are credited to the wrong tenants but not lost: as
\* long as all of them have a tenant, the metrics are right in total.
TotalsExact ==
  ~untenanted =>
    /\ MapThenSumSet(LAMBDA t : sessions[t], Tenants) = Cardinality(InFlight)
    /\ MapThenSumSet(LAMBDA t : counted[t], Tenants) = Cardinality(Done)
    /\ MapThenSumSet(LAMBDA t : violations[t], Tenants) = Cardinality(limited)
=============================================================================
