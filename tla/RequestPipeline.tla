--------------------------- MODULE RequestPipeline ---------------------------
(***************************************************************************)
(* The middlewares a request passes (backend/main.py:41-55), around        *)
(* RequestMetrics: the last one added is the first one to be called, so    *)
(*                                                                         *)
(*   tenant context > logging > rate limit > security headers > HTTPS      *)
(*   redirect > the application with its exception handlers                *)
(*                                                                         *)
(* and ServerErrorMiddleware, which turns an exception into a 500, around  *)
(* them all.  A middleware awaits the next one, and only the metrics are   *)
(* shared: what an answer goes through on its way out is one step up to    *)
(* the tenant context, which ends the metrics.                             *)
(***************************************************************************)
EXTENDS RequestMetrics

CONSTANTS
  ForceHTTPS,   \* settings.FORCE_HTTPS_REDIRECT
  NoAnswer

\* 301 redirects to HTTPS, 429 refuses, and 404 stands for every client error.
Statuses == {200, 301, 404, 429, 500}

\* "raised": the status is that of an exception, which no layer has answered.
Answers == [status : Statuses, raised : BOOLEAN, headers : SUBSET {"security", "limit"}]

ASSUME PipelineAssumption == ForceHTTPS \in BOOLEAN /\ NoAnswer \notin Answers

VARIABLES
  place,    \* the layer each request has come to
  answer,   \* what it gets, as it leaves that layer
  lines,    \* what was logged of it: "request", then "response" or "failed"
  labelled  \* chama_api_requests_total by tenant and status_code

pipeline == <<place, answer, lines, labelled>>
pipelineVars == <<vars, pipeline>>

PipelineInit ==
  /\ Init
  /\ place = [r \in Requests |-> "outside"]
  /\ answer = [r \in Requests |-> NoAnswer]
  /\ lines = [r \in Requests |-> {}]
  /\ labelled = [t \in Tenants |-> [s \in Statuses |-> 0]]

-----------------------------------------------------------------------------
(* On the way in *)

Receive(r, t) ==
  /\ Start(r, t)
  /\ place' = [place EXCEPT ![r] = "logging"]
  /\ UNCHANGED <<answer, lines, labelled>>

\* RequestLoggingMiddleware leaves the documentation's URLs out.
LogRequest(r) ==
  /\ place[r] = "logging"
  /\ place' = [place EXCEPT ![r] = "limiter"]
  /\ \/ lines' = [lines EXCEPT ![r] = {"request"}]
     \/ path[r] = NoTenant /\ UNCHANGED lines
  /\ UNCHANGED <<vars, answer, labelled>>

\* RateLimitMiddleware lets the request through, or does not look at it.
Admit(r, p) ==
  /\ place[r] = "limiter"
  /\ place' = [place EXCEPT ![r] = p]
  /\ UNCHANGED <<vars, answer, lines, labelled>>

-----------------------------------------------------------------------------
(* On the way out *)

LogOutcome(r, a) ==
  IF lines[r] = {} THEN lines
  ELSE [lines EXCEPT ![r] = @ \cup {IF a.raised THEN "failed" ELSE "response"}]

Leave(r, a) ==
  /\ place' = [place EXCEPT ![r] = "leaving"]
  /\ answer' = [answer EXCEPT ![r] = a]
  /\ lines' = LogOutcome(r, a)
  /\ UNCHANGED labelled

\* A middleware that raises skips what is left of those inside it, and the
\* application's handlers are inside all of them.
Raise(r, status) == Leave(r, [status |-> status, raised |-> TRUE, headers |-> {}])

\* Mutant: the limiter answers instead of raising.
RefuseWithAnswer(r) ==
  /\ place[r] = "limiter"
  /\ LimitExceeded(r)
  /\ Leave(r, [status |-> 429, raised |-> FALSE, headers |-> {}])

Refuse(r) ==
  /\ place[r] = "limiter"
  /\ LimitExceeded(r)
  /\ Raise(r, 429)

\* SecurityHeadersMiddleware, then RateLimitMiddleware if it looked.
Respond(r, status) ==
  /\ place[r] \in {"admitted", "exempt"}
  /\ Leave(r, [status |-> status, raised |-> FALSE,
               headers |-> {"security"} \cup IF place[r] = "admitted" THEN {"limit"} ELSE {}])
  /\ UNCHANGED vars

Redirect(r) == ForceHTTPS /\ Respond(r, 301)

\* An endpoint's response, or that of the application's handlers to what it
\* raises.
Serve(r) == \E status \in {200, 404, 500} : Respond(r, status)

\* What no handler of the application is for.
Fail(r) ==
  /\ place[r] \in {"admitted", "exempt"}
  /\ Raise(r, 500)
  /\ UNCHANGED vars

\* ServerErrorMiddleware with general_exception_handler.
Client(a) == IF a.raised THEN 500 ELSE a.status

\* Mutant: a client error is a success.
LabelLenient(r, a) ==
  IF path[r] = NoTenant THEN Client(a) ELSE IF Client(a) < 500 THEN 200 ELSE 500

\* The status_code that TenantContextMiddleware gives to end_request.
Label(r, a) ==
  IF path[r] = NoTenant THEN Client(a) ELSE IF Client(a) < 400 THEN 200 ELSE 500

CountAs(status) ==
  labelled' = IF tenant_id \in Tenants
              THEN [labelled EXCEPT ![tenant_id][status] = @ + 1] ELSE labelled

Finish(r) ==
  /\ place[r] = "leaving"
  /\ place' = [place EXCEPT ![r] = "over"]
  /\ End(r) /\ CountAs(Label(r, answer[r]))
  /\ UNCHANGED <<answer, lines>>

\* A cancellation is no Exception: it is neither logged nor answered.
Cancel(r) ==
  /\ pc[r] = "in_flight"
  /\ place' = [place EXCEPT ![r] = "over"]
  /\ answer' = [answer EXCEPT ![r] = NoAnswer]
  /\ IF path[r] = NoTenant
     THEN Cancelled(r) /\ UNCHANGED labelled
     ELSE End(r) /\ CountAs(500)
  /\ UNCHANGED lines

PipelineNext ==
  \E r \in Requests :
    \/ \E t \in Tenants \cup {NoTenant} : Receive(r, t)
    \/ LogRequest(r)
    \/ \E p \in {"admitted", "exempt"} : Admit(r, p)
    \/ Refuse(r) \/ Redirect(r) \/ Serve(r) \/ Fail(r)
    \/ Finish(r) \/ Cancel(r)

PipelineSpec == PipelineInit /\ [][PipelineNext]_pipelineVars

-----------------------------------------------------------------------------
(* Properties *)

PipelineTypeOK ==
  /\ TypeOK
  /\ place \in [Requests ->
       {"outside", "logging", "limiter", "admitted", "exempt", "leaving", "over"}]
  /\ answer \in [Requests -> Answers \cup {NoAnswer}]
  /\ lines \in [Requests -> SUBSET {"request", "response", "failed"}]
  /\ labelled \in [Tenants -> [Statuses -> Nat]]

Outcome(r) ==
  IF answer[r] # NoAnswer /\ Client(answer[r]) < 400 THEN 200 ELSE 500

\* Requests that never overlap are tracked exactly, and counted under the
\* status that their clients got: 200 for a success, 500 for all others.
SerialOutcomesAccurate ==
  /\ SerialRequestsAccurate
  /\ ~overlapped =>
       \A t \in Tenants, status \in {200, 500} :
         labelled[t][status] = Cardinality({r \in Of(t, Done) : Outcome(r) = status})

\* Also requests that overlap are counted under the status their clients got,
\* if for the wrong tenant: as long as all have a tenant, the totals are right.
OutcomesExactInTotal ==
  /\ TotalsExact
  /\ ~untenanted =>
       \A status \in {200, 500} :
         MapThenSumSet(LAMBDA t : labelled[t][status], Tenants) =
           Cardinality({r \in Done : Outcome(r) = status})

\* What leaves the middlewares agrees with what was logged of the request: what
\* the limiter refused has its status, every response has the security headers,
\* and the log has one line of the outcome, of the right kind, for each request
\* it took in.
OutcomesAgree ==
  \A r \in Requests :
    LET a == answer[r] IN
    a # NoAnswer =>
      /\ r \in limited => a.status = 429
      /\ ~a.raised => "security" \in a.headers
      /\ lines[r] \in {{}, {"request", IF a.raised THEN "failed" ELSE "response"}}
      /\ path[r] # NoTenant => lines[r] # {}

\* "Return rate limit exceeded response" (rate_limiting.py:145): a client that
\* the limiter refused is told so, with a 429.
RefusedGet429 ==
  \A r \in limited : answer[r] # NoAnswer => Client(answer[r]) = 429
=============================================================================
