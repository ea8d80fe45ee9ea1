----------------------- MODULE RequestPipeline_proofs -----------------------
(***************************************************************************)
(* Theorems about RequestMetrics and RequestPipeline, for any requests and *)
(* tenants.  The first half is about the metrics alone; the pipeline       *)
(* implements them, so what holds of them holds in it.                     *)
(***************************************************************************)
EXTENDS RequestPipeline, FiniteSetTheorems, WellFoundedInduction, TLAPS

\* TypeOK, the Boolean history variables apart.
Typed ==
  /\ pc \in [Requests -> {"new", "in_flight", "done"}]
  /\ path \in [Requests -> Tenants \cup {NoTenant}]
  /\ tenant_id \in Tenants \cup {NoTenant}
  /\ sessions \in [Tenants -> Int]
  /\ counted \in [Tenants -> Nat] /\ violations \in [Tenants -> Nat]
  /\ limited \subseteq Requests
  /\ \A r \in limited : pc[r] # "new"

Flags == overlapped \in BOOLEAN /\ untenanted \in BOOLEAN

\* While requests have not overlapped, the context of the thread is that of
\* the one request in flight.
ContextIsItsOwn ==
  ~overlapped =>
    /\ \A r \in InFlight : path[r] = tenant_id
    /\ \A r, s \in InFlight : r = s

LEMMA InitTyped == Init => Typed /\ Flags
<1>1. Init => Typed
  BY DEF Init, Typed
<1>2. Init => Flags
  BY Zenon DEF Init, Flags
<1>3. QED
  BY <1>1, <1>2

LEMMA StepTyped == Typed /\ [Next]_vars => Typed'
<1> SUFFICES ASSUME Typed, [Next]_vars PROVE Typed'
  OBVIOUS
<1> USE DEF Typed, Increase
<1>1. ASSUME NEW r \in Requests, NEW t \in Tenants \cup {NoTenant}, Start(r, t)
      PROVE  Typed'
  BY <1>1 DEF Start
<1>2. ASSUME NEW r \in Requests, LimitExceeded(r) PROVE Typed'
  BY <1>2 DEF LimitExceeded
<1>3. ASSUME NEW r \in Requests, End(r) PROVE Typed'
  BY <1>3 DEF End
<1>4. ASSUME NEW r \in Requests, Cancelled(r) PROVE Typed'
  BY <1>4 DEF Cancelled
<1>5. CASE UNCHANGED vars
  BY <1>5 DEF vars
<1>6. QED
  BY <1>1, <1>2, <1>3, <1>4, <1>5 DEF Next

LEMMA StepFlags == Flags /\ [Next]_vars => Flags'
<1> SUFFICES ASSUME Flags, [Next]_vars PROVE Flags'
  OBVIOUS
<1>1. ASSUME NEW r \in Requests, NEW t \in Tenants \cup {NoTenant}, Start(r, t)
      PROVE  Flags'
  BY <1>1, Zenon DEF Start, Flags
<1>2. ASSUME NEW r \in Requests, LimitExceeded(r) \/ End(r) \/ Cancelled(r)
      PROVE  Flags'
  BY <1>2, Zenon DEF LimitExceeded, End, Cancelled, Flags
<1>3. CASE UNCHANGED vars
  BY <1>3, Zenon DEF vars, Flags
<1>4. QED
  BY <1>1, <1>2, <1>3 DEF Next

\* Every reachable state of the metrics is well typed.
THEOREM TypeCorrect == Spec => []TypeOK
<1>1. Spec => [](Typed /\ Flags)
  BY InitTyped, StepTyped, StepFlags, PTL DEF Spec
<1>2. Typed /\ Flags => TypeOK
  BY Zenon DEF Typed, Flags, TypeOK
<1>3. QED
  BY <1>1, <1>2, PTL

-----------------------------------------------------------------------------
(* Requests one after the other *)

LEMMA InitContext == Init => ContextIsItsOwn
  BY DEF Init, ContextIsItsOwn, InFlight

LEMMA StepContext == Typed /\ ContextIsItsOwn /\ [Next]_vars => ContextIsItsOwn'
<1> SUFFICES ASSUME Typed, ContextIsItsOwn, [Next]_vars PROVE ContextIsItsOwn'
  OBVIOUS
<1> USE DEF Typed, ContextIsItsOwn, InFlight
<1>1. ASSUME NEW r \in Requests, NEW t \in Tenants \cup {NoTenant}, Start(r, t)
      PROVE  ContextIsItsOwn'
  BY <1>1 DEF Start
<1>2. ASSUME NEW r \in Requests, LimitExceeded(r) \/ End(r) \/ Cancelled(r)
      PROVE  ContextIsItsOwn'
  BY <1>2 DEF LimitExceeded, End, Cancelled
<1>3. CASE UNCHANGED vars
  BY <1>3 DEF vars
<1>4. QED
  BY <1>1, <1>2, <1>3 DEF Next

\* How a metric that counts a tenant's requests follows one of them.
LEMMA OneMore ==
  ASSUME NEW S \in SUBSET Requests, NEW r \in Requests \ S
  PROVE  /\ Cardinality(S) \in Nat
         /\ Cardinality(S \cup {r}) = Cardinality(S) + 1
BY MetricsAssumption, FS_Subset, FS_AddElement, FS_CardinalityType

LEMMA OneLess ==
  ASSUME NEW S \in SUBSET Requests, NEW r \in S
  PROVE  /\ Cardinality(S) \in Nat
         /\ Cardinality(S \ {r}) = Cardinality(S) - 1
BY MetricsAssumption, FS_Subset, FS_RemoveElement, FS_CardinalityType

LEMMA InitSerial == Init => SerialRequestsAccurate
<1> SUFFICES ASSUME Init, NEW t \in Tenants
             PROVE  /\ sessions[t] = Cardinality(Of(t, InFlight))
                    /\ counted[t] = Cardinality(Of(t, Done))
                    /\ violations[t] = Cardinality(Of(t, limited))
  BY DEF SerialRequestsAccurate
<1>1. Of(t, InFlight) = {} /\ Of(t, Done) = {} /\ Of(t, limited) = {}
  BY DEF Init, Of, InFlight, Done
<1>2. QED
  BY <1>1, FS_EmptySet DEF Init

LEMMA StepSerial ==
  Typed /\ ContextIsItsOwn /\ SerialRequestsAccurate /\ [Next]_vars
  => SerialRequestsAccurate'
<1> SUFFICES ASSUME Typed, ContextIsItsOwn, SerialRequestsAccurate, [Next]_vars,
                    ~overlapped', NEW u \in Tenants
             PROVE  /\ sessions'[u] = Cardinality(Of(u, InFlight)')
                    /\ counted'[u] = Cardinality(Of(u, Done)')
                    /\ violations'[u] = Cardinality(Of(u, limited)')
  BY DEF SerialRequestsAccurate
<1> DEFINE Goal == /\ sessions'[u] = Cardinality(Of(u, InFlight)')
                   /\ counted'[u] = Cardinality(Of(u, Done)')
                   /\ violations'[u] = Cardinality(Of(u, limited)')
<1>0. ~overlapped => /\ sessions[u] = Cardinality(Of(u, InFlight))
                     /\ counted[u] = Cardinality(Of(u, Done))
                     /\ violations[u] = Cardinality(Of(u, limited))
  BY DEF SerialRequestsAccurate
<1>a. /\ Of(u, InFlight) \in SUBSET Requests /\ Of(u, Done) \in SUBSET Requests
      /\ Of(u, limited) \in SUBSET Requests
  BY DEF Of, InFlight, Done, Typed
<1>1. ASSUME NEW r \in Requests, NEW t \in Tenants \cup {NoTenant}, Start(r, t)
      PROVE  Goal
  <2>1. ~overlapped
    BY <1>1, Zenon DEF Start
  <2>2. /\ Of(u, Done)' = Of(u, Done) /\ Of(u, limited)' = Of(u, limited)
        /\ counted' = counted /\ violations' = violations
    BY <1>1 DEF Start, Of, Done, Typed
  <2>3. r \in Requests \ Of(u, InFlight)
    BY <1>1 DEF Start, Of, InFlight
  <2>4. Of(u, InFlight)' = IF u = t THEN Of(u, InFlight) \cup {r} ELSE Of(u, InFlight)
    BY <1>1 DEF Start, Of, InFlight, Typed
  <2>5. sessions'[u] = IF u = t THEN sessions[u] + 1 ELSE sessions[u]
    BY <1>1 DEF Start, Increase, Typed
  <2>6. QED
    BY <2>1, <2>2, <2>3, <2>4, <2>5, <1>0, <1>a, OneMore
<1>2. ASSUME NEW r \in Requests, LimitExceeded(r) PROVE Goal
  <2>1. ~overlapped /\ path[r] = tenant_id
    BY <1>2 DEF LimitExceeded, ContextIsItsOwn, InFlight
  <2>2. /\ Of(u, Done)' = Of(u, Done) /\ Of(u, InFlight)' = Of(u, InFlight)
        /\ counted' = counted /\ sessions' = sessions
    BY <1>2 DEF LimitExceeded, Of, Done, InFlight
  <2>3. r \in Requests \ Of(u, limited)
    BY <1>2 DEF LimitExceeded, Of
  <2>4. Of(u, limited)' = IF u = tenant_id THEN Of(u, limited) \cup {r} ELSE Of(u, limited)
    BY <1>2, <2>1 DEF LimitExceeded, Of
  <2>5. violations'[u] = IF u = tenant_id THEN violations[u] + 1 ELSE violations[u]
    BY <1>2 DEF LimitExceeded, Increase, Typed
  <2>6. QED
    BY <2>1, <2>2, <2>3, <2>4, <2>5, <1>0, <1>a, OneMore
<1>3. ASSUME NEW r \in Requests, End(r) PROVE Goal
  <2>1. ~overlapped /\ path[r] = tenant_id
    BY <1>3 DEF End, ContextIsItsOwn, InFlight
  <2>2. Of(u, limited)' = Of(u, limited) /\ violations' = violations
    BY <1>3 DEF End, Of
  <2>3. /\ u = tenant_id => r \in Of(u, InFlight)
        /\ r \in Requests \ Of(u, Done)
    BY <1>3, <2>1 DEF End, Of, InFlight, Done
  <2>4. Of(u, InFlight)' = IF u = tenant_id THEN Of(u, InFlight) \ {r} ELSE Of(u, InFlight)
    BY <1>3, <2>1 DEF End, Of, InFlight, Typed
  <2>5. Of(u, Done)' = IF u = tenant_id THEN Of(u, Done) \cup {r} ELSE Of(u, Done)
    BY <1>3, <2>1 DEF End, Of, Done, Typed
  <2>6. /\ sessions'[u] = IF u = tenant_id THEN sessions[u] - 1 ELSE sessions[u]
        /\ counted'[u] = IF u = tenant_id THEN counted[u] + 1 ELSE counted[u]
    BY <1>3 DEF End, Increase, Typed
  <2>7. QED
    BY <2>1, <2>2, <2>3, <2>4, <2>5, <2>6, <1>0, <1>a, OneMore, OneLess
<1>4. ASSUME NEW r \in Requests, Cancelled(r) PROVE Goal
  <2>1. /\ ~overlapped /\ UNCHANGED <<sessions, counted, violations>>
        /\ Of(u, InFlight)' = Of(u, InFlight) /\ Of(u, Done)' = Of(u, Done)
        /\ Of(u, limited)' = Of(u, limited)
    BY <1>4, MetricsAssumption DEF Cancelled, Of, InFlight, Done, Typed
  <2>2. QED
    BY <2>1, <1>0
<1>5. CASE UNCHANGED vars
  BY <1>5, <1>0 DEF vars, Of, InFlight, Done
<1>6. QED
  BY <1>1, <1>2, <1>3, <1>4, <1>5 DEF Next

\* Requests that do not overlap are tracked exactly, whatever they are, are
\* answered or have been refused: only sharing the context breaks the metrics.
THEOREM SerialExact == Spec => []SerialRequestsAccurate
<1> QED
  BY InitTyped, StepTyped, InitContext, StepContext, InitSerial, StepSerial, PTL
     DEF Spec

-----------------------------------------------------------------------------
(* The middlewares around the metrics *)

LEMMA StepMetrics == [PipelineNext]_pipelineVars => [Next]_vars
<1> SUFFICES ASSUME [PipelineNext]_pipelineVars PROVE [Next]_vars
  OBVIOUS
<1>1. ASSUME NEW r \in Requests, NEW t \in Tenants \cup {NoTenant}, Receive(r, t)
      PROVE  Next
  BY <1>1 DEF Receive, Next
<1>2. ASSUME NEW r \in Requests,
             LogRequest(r) \/ \E p \in {"admitted", "exempt"} : Admit(r, p)
      PROVE  UNCHANGED vars
  BY <1>2, Zenon DEF LogRequest, Admit
<1>3. ASSUME NEW r \in Requests, Redirect(r) \/ Serve(r) \/ Fail(r)
      PROVE  UNCHANGED vars
  BY <1>3, Zenon DEF Redirect, Serve, Fail, Respond
<1>4. ASSUME NEW r \in Requests, Refuse(r) \/ Finish(r) \/ Cancel(r) PROVE Next
  BY <1>4, Zenon DEF Refuse, Finish, Cancel, Next
<1>5. CASE UNCHANGED pipelineVars
  BY <1>5, Zenon DEF pipelineVars
<1>6. QED
  BY <1>1, <1>2, <1>3, <1>4, <1>5, Zenon DEF PipelineNext

\* Whatever the other middlewares do with a request, the metrics only see what
\* RequestMetrics allows: the pipeline implements it.
THEOREM MetricsImplemented == PipelineSpec => Spec
<1>1. PipelineInit => Init
  BY DEF PipelineInit
<1>2. QED
  BY <1>1, StepMetrics, PTL DEF PipelineSpec, Spec

\* How far a request has come, in the metrics and in the pipeline.
InStep ==
  \A r \in Requests :
    /\ place[r] = "outside" <=> pc[r] = "new"
    /\ place[r] = "over" <=> pc[r] = "done"
    /\ place[r] \in {"outside", "logging", "limiter", "admitted", "exempt"} =>
         answer[r] = NoAnswer /\ r \notin limited
    /\ place[r] \in {"outside", "logging"} => lines[r] = {}
    /\ place[r] \in {"limiter", "admitted", "exempt"} =>
         /\ lines[r] \in {{}, {"request"}}
         /\ path[r] # NoTenant => lines[r] # {}
    /\ place[r] = "leaving" => answer[r] # NoAnswer

Places ==
  place \in [Requests ->
    {"outside", "logging", "limiter", "admitted", "exempt", "leaving", "over"}]
Given == answer \in [Requests -> Answers \cup {NoAnswer}]
Logged ==
  lines \in [Requests -> SUBSET {"request", "response", "failed"}]
Counted == labelled \in [Tenants -> [Statuses -> Nat]]

PipelineInv == Typed /\ Places /\ Given /\ Logged /\ Counted /\ InStep /\ OutcomesAgree
LEMMA InitPipeline == PipelineInit => PipelineInv
<1> SUFFICES ASSUME PipelineInit PROVE PipelineInv
  OBVIOUS
<1>1. Typed
  BY InitTyped DEF PipelineInit
<1>2. Places /\ Given /\ Logged /\ Counted
  BY DEF PipelineInit, Places, Given, Logged, Counted
<1>3. InStep
  BY DEF PipelineInit, Init, InStep
<1>4. OutcomesAgree
  BY DEF PipelineInit, OutcomesAgree
<1>5. QED
  BY <1>1, <1>2, <1>3, <1>4 DEF PipelineInv

\* What is left to show of a step that answers a request, or takes it on.
Kept == Places' /\ Given' /\ Logged' /\ Counted' /\ InStep' /\ OutcomesAgree'

\* An answer on its way out, with what is logged of it.
LEMMA Leaving ==
  ASSUME PipelineInv, NEW r \in Requests, NEW a \in Answers, Leave(r, a),
         place[r] \in {"limiter", "admitted", "exempt"},
         pc' = pc, path' = path,
         limited' = limited \/ (limited' = limited \cup {r} /\ a.status = 429),
         ~a.raised => "security" \in a.headers
  PROVE  Kept
<1> USE DEF PipelineInv, Leave
<1>1. Places' /\ Given' /\ Counted'
  BY DEF Places, Given, Counted
<1>2. lines[r] \in {{}, {"request"}}
  BY DEF InStep
<1>3. lines' = [lines EXCEPT ![r] =
          IF lines[r] = {} THEN {} ELSE {"request", IF a.raised THEN "failed" ELSE "response"}]
  <2> DEFINE outcome == IF a.raised THEN "failed" ELSE "response"
  <2>1. lines' = IF lines[r] = {} THEN lines ELSE [lines EXCEPT ![r] = @ \cup {outcome}]
    BY DEF LogOutcome
  <2> HIDE DEF outcome
  <2>2. lines' = [lines EXCEPT ![r] = IF lines[r] = {} THEN {} ELSE {"request", outcome}]
    <3>1. lines \in [Requests -> SUBSET {"request", "response", "failed"}]
      BY Zenon DEF Logged
    <3>2. CASE lines[r] = {}
      BY <2>1, <3>1, <3>2
    <3>3. CASE lines[r] = {"request"}
      <4>1. lines' = [lines EXCEPT ![r] = {"request"} \cup {outcome}]
        BY <2>1, <3>3
      <4>2. {"request"} \cup {outcome} = {"request", outcome}
        OBVIOUS
      <4>3. QED
        BY <3>3, <4>1, <4>2
    <3>4. QED
      BY <1>2, <3>2, <3>3
  <2>3. QED
    BY <2>2 DEF outcome
<1>4. Logged'
  BY <1>3 DEF Logged
<1>5. InStep'
  BY <1>3, PipelineAssumption DEF InStep, Places, Given, Logged
<1>6. OutcomesAgree'
  <2> SUFFICES ASSUME NEW q \in Requests, answer'[q] # NoAnswer
               PROVE  /\ q \in limited' => answer'[q].status = 429
                      /\ ~answer'[q].raised => "security" \in answer'[q].headers
                      /\ lines'[q] \in {{},
                           {"request", IF answer'[q].raised THEN "failed" ELSE "response"}}
                      /\ path'[q] # NoTenant => lines'[q] # {}
    BY DEF OutcomesAgree
  <2>1. CASE q = r
    <3>1. answer'[r] = a /\ r \notin limited
      BY DEF Given, InStep
    <3>2. path[r] # NoTenant => lines[r] # {}
      BY DEF InStep
    <3>3. QED
      BY <2>1, <1>3, <3>1, <3>2, <1>2 DEF Logged
  <2>2. CASE q # r
    BY <2>2, <1>3 DEF OutcomesAgree, Given, Logged
  <2>3. QED
    BY <2>1, <2>2
<1>7. QED
  BY <1>1, <1>4, <1>5, <1>6 DEF Kept

LEMMA StepPipeline == PipelineInv /\ [PipelineNext]_pipelineVars => PipelineInv'
<1> SUFFICES ASSUME PipelineInv, [PipelineNext]_pipelineVars PROVE PipelineInv'
  OBVIOUS
<1>0. Typed'
  BY StepMetrics, StepTyped DEF PipelineInv
<1> SUFFICES Kept
  BY <1>0 DEF Kept, PipelineInv
<1>1. ASSUME NEW r \in Requests, NEW t \in Tenants \cup {NoTenant}, Receive(r, t)
      PROVE  Kept
  <2>1. Places' /\ Given' /\ Logged' /\ Counted'
    BY <1>1 DEF PipelineInv, Receive, Places, Given, Logged, Counted
  <2>2. InStep'
    BY <1>1 DEF PipelineInv, Receive, Start, InStep, Places, Typed
  <2>3. OutcomesAgree'
    BY <1>1 DEF PipelineInv, Receive, Start, OutcomesAgree, InStep, Typed
  <2>4. QED
    BY <2>1, <2>2, <2>3 DEF Kept
<1>2. ASSUME NEW r \in Requests, LogRequest(r) PROVE Kept
  <2>1. Places' /\ Given' /\ Logged' /\ Counted'
    BY <1>2 DEF PipelineInv, LogRequest, Places, Given, Logged, Counted
  <2>2. InStep'
    BY <1>2 DEF PipelineInv, LogRequest, vars, InStep, Places, Logged
  <2>3. OutcomesAgree'
    BY <1>2 DEF PipelineInv, LogRequest, vars, OutcomesAgree, InStep, Logged
  <2>4. QED
    BY <2>1, <2>2, <2>3 DEF Kept
<1>3. ASSUME NEW r \in Requests, NEW p \in {"admitted", "exempt"}, Admit(r, p)
      PROVE  Kept
  <2>1. Places' /\ Given' /\ Logged' /\ Counted'
    BY <1>3 DEF PipelineInv, Admit, Places, Given, Logged, Counted
  <2>2. InStep' /\ OutcomesAgree'
    BY <1>3 DEF PipelineInv, Admit, vars, InStep, Places, OutcomesAgree
  <2>3. QED
    BY <2>1, <2>2 DEF Kept
<1>4. ASSUME NEW r \in Requests, Refuse(r) PROVE Kept
  BY <1>4, Leaving DEF Refuse, Raise, LimitExceeded, Answers, Statuses
<1>5. ASSUME NEW r \in Requests, Fail(r) PROVE Kept
  <2> DEFINE a == [status |-> 500, raised |-> TRUE, headers |-> {}]
  <2>1. a \in Answers /\ a.raised
    BY DEF Answers, Statuses
  <2>2. /\ place[r] \in {"admitted", "exempt"} /\ Leave(r, a)
        /\ pc' = pc /\ path' = path /\ limited' = limited
    BY <1>5 DEF Fail, Raise, vars
  <2> HIDE DEF a
  <2>3. QED
    BY <2>1, <2>2, Leaving
<1>6. ASSUME NEW r \in Requests, NEW status \in Statuses, Respond(r, status)
      PROVE  Kept
  BY <1>6, Leaving DEF Respond, vars, Answers
<1>7. ASSUME NEW r \in Requests, Finish(r) PROVE Kept
  <2>1. Places' /\ Given' /\ Logged'
    BY <1>7 DEF PipelineInv, Finish, Places, Given, Logged
  <2>2. InStep' /\ OutcomesAgree'
    BY <1>7 DEF PipelineInv, Finish, End, InStep, Places, Typed, OutcomesAgree
  <2>3. Label(r, answer[r]) \in Statuses
    <3>1. answer[r] \in Answers
      BY <1>7 DEF PipelineInv, Finish, InStep, Given
    <3>2. QED
      BY <3>1 DEF Label, Client, Statuses, Answers
  <2>4. Counted'
    BY <1>7, <2>3 DEF PipelineInv, Finish, CountAs, Counted
  <2>5. QED
    BY <2>1, <2>2, <2>4 DEF Kept
<1>8. ASSUME NEW r \in Requests, Cancel(r) PROVE Kept
  <2>0. /\ pc' = [pc EXCEPT ![r] = "done"] /\ UNCHANGED <<path, limited>>
        /\ UNCHANGED labelled \/ CountAs(500)
    BY <1>8 DEF Cancel, End, Cancelled
  <2>1. Places' /\ Given' /\ Logged'
    BY <1>8 DEF PipelineInv, Cancel, Places, Given, Logged
  <2>2. InStep' /\ OutcomesAgree'
    BY <1>8, <2>0 DEF PipelineInv, Cancel, InStep, Places, Given, Typed, OutcomesAgree
  <2>3. Counted'
    BY <2>0 DEF PipelineInv, CountAs, Counted, Statuses
  <2>4. QED
    BY <2>1, <2>2, <2>3 DEF Kept
<1>9. CASE UNCHANGED pipelineVars
  BY <1>9 DEF pipelineVars, pipeline, vars, Kept, PipelineInv, Places, Given, Logged,
              Counted, InStep, OutcomesAgree
<1>10. QED
  BY <1>1, <1>2, <1>3, <1>4, <1>5, <1>6, <1>7, <1>8, <1>9
     DEF PipelineNext, Redirect, Serve, Statuses

\* Every reachable state of the pipeline is well typed.
THEOREM PipelineTypeCorrect == PipelineSpec => []PipelineTypeOK
<1>1. PipelineSpec => []PipelineInv
  BY InitPipeline, StepPipeline, PTL DEF PipelineSpec
<1>2. PipelineSpec => []TypeOK
  BY MetricsImplemented, TypeCorrect, PTL
<1>3. PipelineInv /\ TypeOK => PipelineTypeOK
  BY Zenon DEF PipelineInv, Places, Given, Logged, Counted, PipelineTypeOK
<1>4. QED
  BY <1>1, <1>2, <1>3, PTL

\* Whatever stops a request, what leaves the middlewares and its lines in the
\* log tell the same: a refusal has its status, responses have the security
\* headers, and exceptions are logged failures.
THEOREM OutcomesAlwaysAgree == PipelineSpec => []OutcomesAgree
<1>1. PipelineInv => OutcomesAgree
  BY DEF PipelineInv
<1>2. QED
  BY <1>1, InitPipeline, StepPipeline, PTL DEF PipelineSpec
-----------------------------------------------------------------------------
(* The status codes that are counted *)

Labelled(t, status) == {r \in Of(t, Done) : Outcome(r) = status}

\* The part of SerialOutcomesAccurate about chama_api_requests_total.
SerialLabels ==
  ~overlapped =>
    \A t \in Tenants, status \in {200, 500} :
      labelled[t][status] = Cardinality(Labelled(t, status))

LEMMA InitLabels == PipelineInit => SerialLabels
<1> SUFFICES ASSUME PipelineInit, NEW t \in Tenants, NEW status \in {200, 500}
             PROVE  labelled[t][status] = Cardinality(Labelled(t, status))
  BY DEF SerialLabels
<1>1. Labelled(t, status) = {}
  BY DEF PipelineInit, Init, Labelled, Of, Done
<1>2. QED
  BY <1>1, FS_EmptySet DEF PipelineInit, Statuses

\* A step that ends no request disturbs neither the counter nor what it counts.
LEMMA NoneDone ==
  ASSUME PipelineInv, SerialLabels, ~overlapped' => ~overlapped, labelled' = labelled,
         Done' = Done,
         \A q \in Done : path'[q] = path[q] /\ answer'[q] = answer[q]
  PROVE  SerialLabels'
<1>1. \A t \in Tenants, status \in {200, 500} : Labelled(t, status)' = Labelled(t, status)
  BY DEF Labelled, Of, Outcome, Client
<1>2. QED
  BY <1>1 DEF SerialLabels

\* A step that ends one counts it where it belongs.
LEMMA OneDone ==
  ASSUME PipelineInv, SerialLabels, ~overlapped' => ~overlapped,
         NEW r \in Requests, pc[r] = "in_flight", path[r] = tenant_id,
         pc' = [pc EXCEPT ![r] = "done"], path' = path,
         \A q \in Done : answer'[q] = answer[q],
         NEW code, path[r] \in Tenants => code = Outcome(r)',
         IF path[r] \in Tenants THEN CountAs(code) ELSE labelled' = labelled
  PROVE  SerialLabels'
<1> SUFFICES ASSUME ~overlapped', NEW t \in Tenants, NEW status \in {200, 500}
             PROVE  labelled'[t][status] = Cardinality(Labelled(t, status)')
  BY DEF SerialLabels
<1>1. /\ labelled[t][status] = Cardinality(Labelled(t, status))
      /\ labelled[t][status] \in Nat
  BY DEF SerialLabels, PipelineInv, Counted, Statuses
<1>2. Done' = Done \cup {r} /\ r \notin Done
  BY DEF PipelineInv, Typed, Done
<1>3. /\ Labelled(t, status) \in SUBSET Requests
      /\ r \in Requests \ Labelled(t, status)
  BY <1>2 DEF Labelled, Of, Done
<1>4. \A q \in Done : path'[q] = path[q] /\ Outcome(q)' = Outcome(q)
  BY DEF Outcome, Client
<1>5. Labelled(t, status)' =
        IF path[r] = t /\ Outcome(r)' = status THEN Labelled(t, status) \cup {r}
                                              ELSE Labelled(t, status)
  BY <1>2, <1>4 DEF Labelled, Of
<1>6. labelled'[t][status] =
        IF path[r] = t /\ Outcome(r)' = status THEN labelled[t][status] + 1
                                              ELSE labelled[t][status]
  BY DEF CountAs, PipelineInv, Counted, Statuses
<1>7. QED
  BY <1>1, <1>3, <1>5, <1>6, OneMore

LEMMA StepLabels ==
  PipelineInv /\ ContextIsItsOwn /\ SerialLabels /\ [PipelineNext]_pipelineVars
  => SerialLabels'
<1> SUFFICES ASSUME PipelineInv, ContextIsItsOwn, SerialLabels, [PipelineNext]_pipelineVars
             PROVE  SerialLabels'
  OBVIOUS
<1>0. \A q \in Done : place[q] = "over" /\ pc[q] = "done"
  BY DEF PipelineInv, InStep, Done
<1>1. ASSUME NEW r \in Requests, NEW t \in Tenants \cup {NoTenant}, Receive(r, t)
      PROVE  SerialLabels'
  <2>1. ~overlapped' => ~overlapped
    BY <1>1, Zenon DEF Receive, Start
  <2>2. Done' = Done /\ \A q \in Done : path'[q] = path[q]
    BY <1>1, <1>0 DEF Receive, Start, PipelineInv, Typed, Done
  <2>3. answer' = answer /\ labelled' = labelled
    BY <1>1 DEF Receive
  <2>4. QED
    BY <2>1, <2>2, <2>3, NoneDone
<1>2. ASSUME NEW r \in Requests,
             LogRequest(r) \/ \E p \in {"admitted", "exempt"} : Admit(r, p)
      PROVE  SerialLabels'
  <2>1. /\ overlapped' = overlapped /\ pc' = pc /\ path' = path
        /\ answer' = answer /\ labelled' = labelled
    BY <1>2, Zenon DEF LogRequest, Admit, vars
  <2>2. Done' = Done
    BY <2>1 DEF Done
  <2>3. QED
    BY <2>1, <2>2, NoneDone
<1>3. ASSUME NEW r \in Requests, Refuse(r) \/ Redirect(r) \/ Serve(r) \/ Fail(r)
      PROVE  SerialLabels'
  <2>1. /\ place[r] \in {"limiter", "admitted", "exempt"}
        /\ \E a : Leave(r, a)
        /\ overlapped' = overlapped /\ pc' = pc /\ path' = path
    <3>1. CASE Refuse(r)
      BY <3>1, Zenon DEF Refuse, Raise, LimitExceeded
    <3>2. ASSUME NEW status, Respond(r, status)
          PROVE  /\ place[r] \in {"admitted", "exempt"}
                 /\ \E a : Leave(r, a)
                 /\ overlapped' = overlapped /\ pc' = pc /\ path' = path
      BY <3>2, Zenon DEF Respond, vars
    <3>3. CASE Fail(r)
      BY <3>3, Zenon DEF Fail, Raise, vars
    <3>4. QED
      BY <1>3, <3>1, <3>2, <3>3 DEF Redirect, Serve
  <2>2. labelled' = labelled /\ \A q \in Requests \ {r} : answer'[q] = answer[q]
    BY <2>1 DEF Leave, PipelineInv, Given
  <2>3. Done' = Done /\ r \notin Done /\ Done \subseteq Requests
    BY <2>1, <1>0 DEF Done
  <2>4. QED
    BY <2>1, <2>2, <2>3, NoneDone
<1>4. ASSUME NEW r \in Requests, Finish(r) PROVE SerialLabels'
  <2>1. /\ pc[r] = "in_flight" /\ pc' = [pc EXCEPT ![r] = "done"]
        /\ path' = path /\ answer' = answer /\ overlapped' = overlapped
        /\ place[r] = "leaving" /\ CountAs(Label(r, answer[r]))
    BY <1>4 DEF Finish, End
  <2>2. SUFFICES ASSUME ~overlapped' PROVE SerialLabels'
    BY DEF SerialLabels
  <2>3. path[r] = tenant_id
    BY <2>1, <2>2 DEF ContextIsItsOwn, InFlight
  <2>4. answer[r] # NoAnswer
    BY <2>1 DEF PipelineInv, InStep
  <2>5. path[r] \in Tenants => Label(r, answer[r]) = Outcome(r)'
    BY <2>1, <2>4, MetricsAssumption DEF Label, Outcome, Client
  <2>6. IF path[r] \in Tenants THEN CountAs(Label(r, answer[r])) ELSE labelled' = labelled
    BY <2>1, <2>3 DEF CountAs
  <2> DEFINE code == Label(r, answer[r])
  <2>7. /\ path[r] \in Tenants => code = Outcome(r)'
        /\ IF path[r] \in Tenants THEN CountAs(code) ELSE labelled' = labelled
        /\ ~overlapped' => ~overlapped
        /\ \A q \in Done : answer'[q] = answer[q]
    BY <2>1, <2>5, <2>6, Zenon
  <2> HIDE DEF code
  <2>8. QED
    BY <2>1, <2>3, <2>7, OneDone
<1>5. ASSUME NEW r \in Requests, Cancel(r) PROVE SerialLabels'
  <2>1. /\ pc[r] = "in_flight" /\ pc' = [pc EXCEPT ![r] = "done"]
        /\ path' = path /\ overlapped' = overlapped
        /\ IF path[r] = NoTenant THEN labelled' = labelled ELSE CountAs(500)
    BY <1>5 DEF Cancel, End, Cancelled
  <2>2. SUFFICES ASSUME ~overlapped' PROVE SerialLabels'
    BY DEF SerialLabels
  <2>3. path[r] = tenant_id
    BY <2>1, <2>2 DEF ContextIsItsOwn, InFlight
  <2>4. /\ answer'[r] = NoAnswer
        /\ \A q \in Done : answer'[q] = answer[q]
    BY <1>5, <2>1, <1>0 DEF Cancel, PipelineInv, Given
  <2>5. path[r] \in Tenants => 500 = Outcome(r)'
    BY <2>4 DEF Outcome
  <2>6. IF path[r] \in Tenants THEN CountAs(500) ELSE labelled' = labelled
    BY <2>1, <2>3, MetricsAssumption DEF CountAs, PipelineInv, Typed
  <2>7. QED
    BY <2>1, <2>3, <2>4, <2>5, <2>6, OneDone
<1>6. CASE UNCHANGED pipelineVars
  <2>1. /\ overlapped' = overlapped /\ pc' = pc /\ path' = path
        /\ answer' = answer /\ labelled' = labelled
    BY <1>6 DEF pipelineVars, pipeline, vars
  <2>2. Done' = Done
    BY <2>1 DEF Done
  <2>3. QED
    BY <2>1, <2>2, NoneDone
<1>7. QED
  BY <1>1, <1>2, <1>3, <1>4, <1>5, <1>6 DEF PipelineNext

\* Requests that do not overlap are also counted under the status their clients
\* got, whichever middleware or handler answers them.
THEOREM SerialOutcomes == PipelineSpec => []SerialOutcomesAccurate
<1>1. PipelineSpec => []SerialRequestsAccurate
  BY MetricsImplemented, SerialExact, PTL
<1>2. PipelineInit => ContextIsItsOwn
  BY InitContext DEF PipelineInit
<1>3. PipelineInv /\ ContextIsItsOwn /\ [PipelineNext]_pipelineVars => ContextIsItsOwn'
  BY StepMetrics, StepContext DEF PipelineInv
<1>4. PipelineSpec => []SerialLabels
  BY InitPipeline, StepPipeline, InitLabels, StepLabels, <1>2, <1>3, PTL DEF PipelineSpec
<1>5. SerialRequestsAccurate /\ SerialLabels => SerialOutcomesAccurate
  BY Zenon DEF SerialLabels, SerialOutcomesAccurate, Labelled
<1>6. QED
  BY <1>1, <1>4, <1>5, PTL

-----------------------------------------------------------------------------
(* Sums over the tenants *)

\* The order in which MapThenSumSet takes the elements of a set.
Some(s) == CHOOSE x \in s : TRUE
Rest(s) == s \ {Some(s)}

\* F gives the sum of g over each subset of T, in that order.
Sums(F, g, T) ==
  F = [s \in SUBSET T |-> IF s = {} THEN 0 ELSE g[Some(s)] + F[Rest(s)]]

\* Induction, in the form that names no operator: among the counterexamples to
\* a claim about numbers, or about the subsets of a finite set, one is least.
LEMMA LeastNumber ==
  ASSUME NEW N \in SUBSET Nat, N # {}
  PROVE  \E n \in N : \A m \in N : n =< m
<1> DEFINE R == {ss \in Nat \X Nat : ss[1] < ss[2]}
<1>1. IsWellFoundedOn(R, Nat)
  BY NatLessThanWellFounded DEF OpToRel
<1>2. \E n \in N : \A m \in N : <<m, n>> \notin R
  <2> HIDE DEF R
  <2> QED
    BY <1>1, WFMin
<1>3. \A m, n \in Nat : m < n => <<m, n>> \in R
  OBVIOUS
<1> HIDE DEF R
<1>4. PICK n \in N : \A m \in N : <<m, n>> \notin R
  BY <1>2
<1>5. \A m \in N : ~(m < n)
  BY <1>3, <1>4
<1>6. QED
  BY <1>5

LEMMA LeastSubset ==
  ASSUME NEW T, IsFiniteSet(T), NEW B \in SUBSET (SUBSET T), B # {}
  PROVE  \E s \in B : \A x \in s : s \ {x} \notin B
<1> DEFINE N == {Cardinality(s) : s \in B}
<1>1. \A s \in B : IsFiniteSet(s) /\ Cardinality(s) \in Nat
  BY FS_Subset, FS_CardinalityType
<1>2. PICK n \in N : \A m \in N : n =< m
  <2>1. N \in SUBSET Nat /\ N # {}
    BY <1>1
  <2> HIDE DEF N
  <2>2. QED
    BY <2>1, LeastNumber
<1>3. PICK s \in B : n = Cardinality(s)
  OBVIOUS
<1>4. ASSUME NEW x \in s PROVE s \ {x} \notin B
  <2>1. Cardinality(s \ {x}) = Cardinality(s) - 1
    BY <1>1, FS_RemoveElement
  <2>2. QED
    BY <1>1, <1>2, <1>3, <2>1
<1>5. QED
  BY <1>4

LEMMA SomeOfIt == \A s : s # {} => Some(s) \in s
  BY DEF Some

\* The sums exist: they can be extended from the subsets of n elements to those
\* of n + 1.
LEMMA SumsExist ==
  ASSUME NEW T, IsFiniteSet(T), NEW g
  PROVE  \E F : Sums(F, g, T)
<1> DEFINE Upto(n) == {s \in SUBSET T : Cardinality(s) =< n}
           Partial(F, n) ==
             F = [s \in Upto(n) |-> IF s = {} THEN 0 ELSE g[Some(s)] + F[Rest(s)]]
           Bad == {n \in Nat : ~\E F : Partial(F, n)}
<1>1. \A s \in SUBSET T : /\ Cardinality(s) \in Nat
                          /\ Cardinality(s) =< Cardinality(T)
                          /\ s = {} <=> Cardinality(s) = 0
                          /\ s # {} => /\ Rest(s) \in SUBSET T
                                       /\ Cardinality(Rest(s)) = Cardinality(s) - 1
  <2> TAKE s \in SUBSET T
  <2>1. IsFiniteSet(s) /\ Cardinality(s) \in Nat /\ Cardinality(s) =< Cardinality(T)
    BY FS_Subset, FS_CardinalityType
  <2>2. s = {} <=> Cardinality(s) = 0
    BY <2>1, FS_EmptySet
  <2>3. ASSUME s # {}
        PROVE  Rest(s) \in SUBSET T /\ Cardinality(Rest(s)) = Cardinality(s) - 1
    BY <2>1, <2>3, SomeOfIt, FS_RemoveElement DEF Rest
  <2>4. QED
    BY <2>1, <2>2, <2>3
<1>2. Bad = {}
  <2> SUFFICES ASSUME Bad # {} PROVE FALSE
    OBVIOUS
  <2>1. PICK n \in Bad : \A m \in Bad : n =< m
    <3> Bad \in SUBSET Nat
      OBVIOUS
    <3> HIDE DEF Bad
    <3> QED
      BY LeastNumber
  <2>2. CASE n = 0
    <3>1. Partial([s \in Upto(0) |-> 0], 0)
      BY <1>1
    <3>2. QED
      BY <3>1, <2>2
  <2>3. CASE n # 0
    <3>1. n \in Nat /\ n - 1 \in Nat /\ n - 1 \notin Bad
      <4>1. n \in Nat /\ n - 1 \in Nat
        BY <2>1, <2>3
      <4> HIDE DEF Bad
      <4>2. QED
        BY <4>1, <2>1
    <3>2. PICK F : Partial(F, n - 1)
      BY <3>1
    <3> DEFINE H == [s \in Upto(n) |-> IF s = {} THEN 0 ELSE g[Some(s)] + F[Rest(s)]]
    <3>3. \A s \in Upto(n - 1) : H[s] = F[s]
      BY <3>1, <3>2, <1>1
    <3>4. \A s \in Upto(n) : s # {} => Rest(s) \in Upto(n - 1)
      BY <3>1, <1>1
    <3>5. Partial(H, n)
      BY <3>3, <3>4
    <3>6. QED
      BY <3>5
  <2>4. QED
    BY <2>2, <2>3
<1>3. PICK F : Partial(F, Cardinality(T))
  BY <1>1, <1>2
<1>4. Upto(Cardinality(T)) = SUBSET T
  BY <1>1
<1>5. QED
  BY <1>3, <1>4 DEF Sums

LEMMA SumType ==
  ASSUME NEW T, IsFiniteSet(T), NEW g \in [T -> Int], NEW F, Sums(F, g, T)
  PROVE  \A s \in SUBSET T : F[s] \in Int
<1> DEFINE B == {s \in SUBSET T : F[s] \notin Int}
<1> SUFFICES ASSUME B # {} PROVE FALSE
  OBVIOUS
<1>1. PICK s \in B : \A x \in s : s \ {x} \notin B
  <2> B \in SUBSET (SUBSET T)
    OBVIOUS
  <2> HIDE DEF B
  <2> QED
    BY LeastSubset
<1>2. F[s] = IF s = {} THEN 0 ELSE g[Some(s)] + F[Rest(s)]
  BY DEF Sums
<1>3. s # {}
  BY <1>1, <1>2
<1>4. Some(s) \in T /\ F[Rest(s)] \in Int
  BY <1>1, <1>3, SomeOfIt DEF Rest
<1>5. QED
  BY <1>1, <1>2, <1>3, <1>4

LEMMA SumZero ==
  ASSUME NEW T, IsFiniteSet(T), NEW g, \A t \in T : g[t] = 0, NEW F, Sums(F, g, T)
  PROVE  F[T] = 0
<1> DEFINE B == {s \in SUBSET T : F[s] # 0}
<1> SUFFICES ASSUME B # {} PROVE FALSE
  OBVIOUS
<1>1. PICK s \in B : \A x \in s : s \ {x} \notin B
  <2> B \in SUBSET (SUBSET T)
    OBVIOUS
  <2> HIDE DEF B
  <2> QED
    BY LeastSubset
<1>2. F[s] = IF s = {} THEN 0 ELSE g[Some(s)] + F[Rest(s)]
  BY DEF Sums
<1>3. s # {}
  BY <1>1, <1>2
<1>4. Some(s) \in T /\ F[Rest(s)] = 0
  BY <1>1, <1>3, SomeOfIt DEF Rest
<1>5. QED
  BY <1>1, <1>2, <1>3, <1>4

\* If one summand moves by d, so do the sums it is part of, although the order
\* of the elements does not start or end with it.
Moved(T, h, g, t, d) ==
  \A u \in T : h[u] = IF u = t THEN g[u] + d ELSE g[u]

LEMMA SumMoves ==
  ASSUME NEW T, IsFiniteSet(T), NEW g \in [T -> Int], NEW t \in T, NEW d \in Int,
         NEW h, Moved(T, h, g, t, d), NEW F, Sums(F, g, T), NEW H, Sums(H, h, T)
  PROVE  H[T] = F[T] + d
<1> DEFINE By(s) == IF t \in s THEN d ELSE 0
           B == {s \in SUBSET T : H[s] # F[s] + By(s)}
<1> SUFFICES ASSUME B # {} PROVE FALSE
  OBVIOUS
<1>1. PICK s \in B : \A x \in s : s \ {x} \notin B
  <2> B \in SUBSET (SUBSET T)
    OBVIOUS
  <2> HIDE DEF B
  <2> QED
    BY LeastSubset
<1>2. /\ F[s] = IF s = {} THEN 0 ELSE g[Some(s)] + F[Rest(s)]
      /\ H[s] = IF s = {} THEN 0 ELSE h[Some(s)] + H[Rest(s)]
  BY DEF Sums
<1>3. s # {}
  BY <1>1, <1>2
<1>4. /\ Some(s) \in s /\ Rest(s) \in SUBSET T
      /\ H[Rest(s)] = F[Rest(s)] + By(Rest(s))
  BY <1>1, <1>3, SomeOfIt DEF Rest
<1>5. F[Rest(s)] \in Int
  BY <1>4, SumType
<1>6. /\ h[Some(s)] = g[Some(s)] + IF Some(s) = t THEN d ELSE 0
      /\ g[Some(s)] \in Int
  BY <1>4 DEF Moved
<1>7. /\ By(s) = By(Rest(s)) + IF Some(s) = t THEN d ELSE 0
      /\ By(Rest(s)) \in Int
  BY <1>4 DEF Rest
<1> HIDE DEF By
<1>8. H[s] = F[s] + By(s)
  BY <1>2, <1>3, <1>4, <1>5, <1>6, <1>7
<1>9. QED
  BY <1>8, <1>1

\* The sums of the properties: of a metric, and of one column of a metric.
TotalOver(T, metric) == MapThenSumSet(LAMBDA t : metric[t], T)
TotalOverAt(T, metric, c) == MapThenSumSet(LAMBDA t : metric[t][c], T)

LEMMA SumIs ==
  ASSUME NEW T, IsFiniteSet(T), NEW g
  PROVE  \E F : Sums(F, g, T) /\ TotalOver(T, g) = F[T]
<1> DEFINE F == CHOOSE G : Sums(G, g, T)
<1>1. Sums(F, g, T)
  BY SumsExist
<1>2. TotalOver(T, g) = F[T]
  BY DEF TotalOver, MapThenSumSet, MapThenFoldSet, Sums, Some, Rest
<1>3. QED
  BY <1>1, <1>2

Column(T, g, c) == [t \in T |-> g[t][c]]

LEMMA SumIsAt ==
  ASSUME NEW T, IsFiniteSet(T), NEW g, NEW c
  PROVE  \E F : Sums(F, Column(T, g, c), T) /\ TotalOverAt(T, g, c) = F[T]
<1> DEFINE h == Column(T, g, c)
           Is(G) == G = [s \in SUBSET T |->
                          IF s = {} THEN 0 ELSE g[Some(s)][c] + G[Rest(s)]]
           F == CHOOSE G : Is(G)
<1>1. PICK H : Sums(H, h, T)
  BY SumsExist
<1>2. \A s \in SUBSET T : s # {} => h[Some(s)] = g[Some(s)][c]
  BY SomeOfIt DEF Column
<1>3. \A G : Is(G) <=> Sums(G, h, T)
  BY <1>2 DEF Sums
<1>4. Sums(F, h, T)
  BY <1>1, <1>3
<1>5. TotalOverAt(T, g, c) = F[T]
  BY DEF TotalOverAt, MapThenSumSet, MapThenFoldSet, Some, Rest
<1>6. QED
  BY <1>4, <1>5

Total(metric) == TotalOver(Tenants, metric)
TotalAt(metric, c) == TotalOverAt(Tenants, metric, c)

LEMMA TotalZero ==
  ASSUME NEW g, \A t \in Tenants : g[t] = 0
  PROVE  Total(g) = 0
BY MetricsAssumption, SumIs, SumZero DEF Total

LEMMA TotalMoves ==
  ASSUME NEW g \in [Tenants -> Int], NEW t \in Tenants, NEW d \in Int,
         NEW h, Moved(Tenants, h, g, t, d)
  PROVE  Total(h) = Total(g) + d
<1>1. PICK F : Sums(F, g, Tenants) /\ Total(g) = F[Tenants]
  BY MetricsAssumption, SumIs DEF Total
<1>2. PICK H : Sums(H, h, Tenants) /\ Total(h) = H[Tenants]
  BY MetricsAssumption, SumIs DEF Total
<1>3. QED
  BY <1>1, <1>2, MetricsAssumption, SumMoves

LEMMA TotalAtZero ==
  ASSUME NEW g, NEW c, \A t \in Tenants : g[t][c] = 0
  PROVE  TotalAt(g, c) = 0
<1>1. \A t \in Tenants : Column(Tenants, g, c)[t] = 0
  BY DEF Column
<1>2. QED
  BY <1>1, MetricsAssumption, SumIsAt, SumZero DEF TotalAt

LEMMA TotalAtMoves ==
  ASSUME NEW g, NEW c, \A t \in Tenants : g[t][c] \in Int,
         NEW t \in Tenants, NEW d \in Int,
         NEW h, \A u \in Tenants : h[u][c] = IF u = t THEN g[u][c] + d ELSE g[u][c]
  PROVE  TotalAt(h, c) = TotalAt(g, c) + d
<1> DEFINE gc == Column(Tenants, g, c)
           hc == Column(Tenants, h, c)
<1>1. PICK F : Sums(F, gc, Tenants) /\ TotalAt(g, c) = F[Tenants]
  BY MetricsAssumption, SumIsAt DEF TotalAt
<1>2. PICK H : Sums(H, hc, Tenants) /\ TotalAt(h, c) = H[Tenants]
  BY MetricsAssumption, SumIsAt DEF TotalAt
<1>3. gc \in [Tenants -> Int] /\ Moved(Tenants, hc, gc, t, d)
  BY DEF Column, Moved
<1> HIDE DEF gc, hc
<1>4. QED
  BY <1>1, <1>2, <1>3, MetricsAssumption, SumMoves

-----------------------------------------------------------------------------
(* Requests that overlap *)

\* While all requests have had a tenant, a request that has been received has
\* one and the context of the thread is some tenant's, if not the request's.
AllHaveTenants ==
  ~untenanted =>
    \A r \in Requests : pc[r] # "new" => path[r] \in Tenants /\ tenant_id \in Tenants

LEMMA InitTenanted == Init => AllHaveTenants
  BY DEF Init, AllHaveTenants

LEMMA StepTenanted == Typed /\ AllHaveTenants /\ [Next]_vars => AllHaveTenants'
<1> SUFFICES ASSUME Typed, AllHaveTenants, [Next]_vars PROVE AllHaveTenants'
  OBVIOUS
<1> USE DEF Typed, AllHaveTenants
<1>1. ASSUME NEW r \in Requests, NEW t \in Tenants \cup {NoTenant}, Start(r, t)
      PROVE  AllHaveTenants'
  BY <1>1 DEF Start
<1>2. ASSUME NEW r \in Requests, LimitExceeded(r) \/ End(r) \/ Cancelled(r)
      PROVE  AllHaveTenants'
  BY <1>2 DEF LimitExceeded, End, Cancelled
<1>3. CASE UNCHANGED vars
  BY <1>3 DEF vars
<1>4. QED
  BY <1>1, <1>2, <1>3 DEF Next

LEMMA InitTotals == Init => TotalsExact
<1> SUFFICES ASSUME Init
             PROVE  /\ Total(sessions) = Cardinality(InFlight)
                    /\ Total(counted) = Cardinality(Done)
                    /\ Total(violations) = Cardinality(limited)
  BY DEF TotalsExact, Total, TotalOver
<1>1. InFlight = {} /\ Done = {} /\ limited = {}
  BY DEF Init, InFlight, Done
<1>2. \A t \in Tenants : sessions[t] = 0 /\ counted[t] = 0 /\ violations[t] = 0
  BY DEF Init
<1>3. QED
  BY <1>1, <1>2, TotalZero, FS_EmptySet

LEMMA StepTotals ==
  Typed /\ AllHaveTenants /\ TotalsExact /\ [Next]_vars => TotalsExact'
<1> SUFFICES ASSUME Typed, AllHaveTenants, TotalsExact, [Next]_vars, ~untenanted'
             PROVE  /\ Total(sessions)' = Cardinality(InFlight)'
                    /\ Total(counted)' = Cardinality(Done)'
                    /\ Total(violations)' = Cardinality(limited)'
  BY DEF TotalsExact, Total, TotalOver
<1> DEFINE Goal == /\ Total(sessions)' = Cardinality(InFlight)'
                   /\ Total(counted)' = Cardinality(Done)'
                   /\ Total(violations)' = Cardinality(limited)'
<1>0. ~untenanted => /\ Total(sessions) = Cardinality(InFlight)
                     /\ Total(counted) = Cardinality(Done)
                     /\ Total(violations) = Cardinality(limited)
  BY DEF TotalsExact, Total, TotalOver
<1>a. /\ InFlight \in SUBSET Requests /\ Done \in SUBSET Requests
      /\ limited \in SUBSET Requests
  BY DEF InFlight, Done, Typed
<1>b. /\ sessions \in [Tenants -> Int] /\ counted \in [Tenants -> Int]
      /\ violations \in [Tenants -> Int]
  BY DEF Typed
<1>1. ASSUME NEW r \in Requests, NEW t \in Tenants \cup {NoTenant}, Start(r, t)
      PROVE  Goal
  <2>1. ~untenanted /\ t \in Tenants
    BY <1>1, Zenon DEF Start
  <2>2. Moved(Tenants, sessions', sessions, t, 1)
    BY <1>1, <2>1, <1>b DEF Start, Increase, Moved
  <2>3. /\ Done' = Done /\ InFlight' = InFlight \cup {r} /\ r \in Requests \ InFlight
        /\ UNCHANGED <<counted, violations, limited>>
    BY <1>1 DEF Start, InFlight, Done, Typed
  <2>4. Total(sessions') = Total(sessions) + 1
    BY <2>1, <2>2, <1>b, TotalMoves
  <2>5. QED
    BY <2>1, <2>3, <2>4, <1>0, <1>a, OneMore
<1>2. ASSUME NEW r \in Requests, LimitExceeded(r) PROVE Goal
  <2>1. ~untenanted /\ tenant_id \in Tenants
    BY <1>2 DEF LimitExceeded, AllHaveTenants
  <2>2. Moved(Tenants, violations', violations, tenant_id, 1)
    BY <1>2, <2>1, <1>b DEF LimitExceeded, Increase, Moved
  <2>3. /\ Done' = Done /\ InFlight' = InFlight
        /\ limited' = limited \cup {r} /\ r \in Requests \ limited
        /\ UNCHANGED <<sessions, counted>>
    BY <1>2 DEF LimitExceeded, InFlight, Done
  <2>4. Total(violations') = Total(violations) + 1
    BY <2>1, <2>2, <1>b, TotalMoves
  <2>5. QED
    BY <2>1, <2>3, <2>4, <1>0, <1>a, OneMore
<1>3. ASSUME NEW r \in Requests, End(r) PROVE Goal
  <2>1. ~untenanted /\ tenant_id \in Tenants
    BY <1>3 DEF End, AllHaveTenants
  <2>2. /\ Moved(Tenants, counted', counted, tenant_id, 1)
        /\ Moved(Tenants, sessions', sessions, tenant_id, -1)
    BY <1>3, <2>1, <1>b DEF End, Increase, Moved
  <2>3. /\ Done' = Done \cup {r} /\ r \in Requests \ Done
        /\ InFlight' = InFlight \ {r} /\ r \in InFlight
        /\ UNCHANGED <<violations, limited>>
    BY <1>3 DEF End, InFlight, Done, Typed
  <2>4. /\ Total(counted') = Total(counted) + 1
        /\ Total(sessions') = Total(sessions) + (-1)
    <3>1. -1 \in Int
      OBVIOUS
    <3>2. QED
      BY <2>1, <2>2, <3>1, <1>b, TotalMoves
  <2>5. QED
    BY <2>1, <2>3, <2>4, <1>0, <1>a, OneMore, OneLess
<1>4. ASSUME NEW r \in Requests, Cancelled(r) PROVE Goal
  <2>1. ~untenanted
    BY <1>4 DEF Cancelled
  <2>2. path[r] = NoTenant /\ path[r] \in Tenants
    BY <1>4, <2>1 DEF Cancelled, AllHaveTenants
  <2>3. QED
    BY <2>2, MetricsAssumption
<1>5. CASE UNCHANGED vars
  BY <1>5, <1>0 DEF vars, InFlight, Done
<1>6. QED
  BY <1>1, <1>2, <1>3, <1>4, <1>5 DEF Next

\* Requests that overlap may be credited to each other's tenants, but none is
\* lost or counted twice: whatever the interleaving, the metrics are right in
\* total as long as every request has had a tenant.
THEOREM TotalsAlwaysExact == Spec => []TotalsExact
<1> QED
  BY InitTyped, StepTyped, InitTenanted, StepTenanted, InitTotals, StepTotals, PTL
     DEF Spec

\* The part of OutcomesExactInTotal about chama_api_requests_total.
OutcomeTotals ==
  ~untenanted =>
    \A status \in {200, 500} :
      TotalAt(labelled, status) = Cardinality({r \in Done : Outcome(r) = status})

LEMMA InitOutcomeTotals == PipelineInit => OutcomeTotals
<1> SUFFICES ASSUME PipelineInit, NEW status \in {200, 500}
             PROVE  TotalAt(labelled, status) = Cardinality({r \in Done : Outcome(r) = status})
  BY DEF OutcomeTotals
<1>1. {r \in Done : Outcome(r) = status} = {}
  BY DEF PipelineInit, Init, Done
<1>2. \A t \in Tenants : labelled[t][status] = 0
  BY DEF PipelineInit, Statuses
<1>3. QED
  BY <1>1, <1>2, TotalAtZero, FS_EmptySet

\* A step that ends no request.
LEMMA NoneEnded ==
  ASSUME OutcomeTotals, untenanted => untenanted', labelled' = labelled,
         Done' = Done, \A q \in Done : answer'[q] = answer[q]
  PROVE  OutcomeTotals'
<1>1. \A status \in {200, 500} :
        {r \in Done : Outcome(r) = status}' = {r \in Done : Outcome(r) = status}
  BY DEF Outcome, Client
<1>2. QED
  BY <1>1 DEF OutcomeTotals

\* A step that ends one, and counts it for the tenant of the context.
LEMMA OneEnded ==
  ASSUME PipelineInv, OutcomeTotals, untenanted => untenanted',
         NEW r \in Requests, pc[r] = "in_flight", pc' = [pc EXCEPT ![r] = "done"],
         \A q \in Done : answer'[q] = answer[q],
         ~untenanted => tenant_id \in Tenants /\ CountAs(Outcome(r)')
  PROVE  OutcomeTotals'
<1> SUFFICES ASSUME ~untenanted', NEW status \in {200, 500}
             PROVE  TotalAt(labelled, status)' =
                      Cardinality({q \in Done : Outcome(q) = status})'
  BY DEF OutcomeTotals
<1> DEFINE S == {q \in Done : Outcome(q) = status}
<1>1. TotalAt(labelled, status) = Cardinality(S)
  BY DEF OutcomeTotals
<1>2. Done' = Done \cup {r} /\ r \notin Done
  BY DEF PipelineInv, Typed, Done
<1>3. S \in SUBSET Requests /\ r \in Requests \ S
  BY <1>2 DEF Done
<1>4. \A q \in Done : Outcome(q)' = Outcome(q)
  BY DEF Outcome, Client
<1>5. S' = IF Outcome(r)' = status THEN S \cup {r} ELSE S
  BY <1>2, <1>4
<1>6. \A t \in Tenants : labelled[t][status] \in Int
  BY DEF PipelineInv, Counted, Statuses
<1> DEFINE d == IF Outcome(r)' = status THEN 1 ELSE 0
<1>7. tenant_id \in Tenants /\ d \in Int
  OBVIOUS
<1>8. \A u \in Tenants :
        labelled'[u][status] = IF u = tenant_id THEN labelled[u][status] + d
                                                ELSE labelled[u][status]
  BY <1>6 DEF CountAs, PipelineInv, Counted, Statuses
<1>9. TotalAt(labelled', status) = TotalAt(labelled, status) + d
  <2> HIDE DEF d
  <2> QED
    BY <1>6, <1>7, <1>8, TotalAtMoves
<1>10. TotalAt(labelled', status) = Cardinality(S')
  <2> HIDE DEF S
  <2>1. Cardinality(S) \in Nat /\ Cardinality(S \cup {r}) = Cardinality(S) + 1
    BY <1>3, OneMore
  <2>2. QED
    BY <1>1, <1>5, <1>9, <2>1
<1>11. QED
  BY <1>10

LEMMA StepOutcomeTotals ==
  PipelineInv /\ AllHaveTenants /\ OutcomeTotals /\ [PipelineNext]_pipelineVars
  => OutcomeTotals'
<1> SUFFICES ASSUME PipelineInv, AllHaveTenants, OutcomeTotals,
                    [PipelineNext]_pipelineVars
             PROVE  OutcomeTotals'
  OBVIOUS
<1>0. \A q \in Done : place[q] = "over" /\ pc[q] = "done"
  BY DEF PipelineInv, InStep, Done
<1>1. ASSUME NEW r \in Requests, NEW t \in Tenants \cup {NoTenant}, Receive(r, t)
      PROVE  OutcomeTotals'
  <2>1. untenanted => untenanted'
    BY <1>1, Zenon DEF Receive, Start
  <2>2. Done' = Done /\ answer' = answer /\ labelled' = labelled
    BY <1>1 DEF Receive, Start, PipelineInv, Typed, Done
  <2>3. QED
    BY <2>1, <2>2, NoneEnded
<1>2. ASSUME NEW r \in Requests,
             LogRequest(r) \/ \E p \in {"admitted", "exempt"} : Admit(r, p)
      PROVE  OutcomeTotals'
  <2>1. untenanted' = untenanted /\ pc' = pc /\ answer' = answer /\ labelled' = labelled
    BY <1>2, Zenon DEF LogRequest, Admit, vars
  <2>2. Done' = Done
    BY <2>1 DEF Done
  <2>3. QED
    BY <2>1, <2>2, NoneEnded
<1>3. ASSUME NEW r \in Requests, Refuse(r) \/ Redirect(r) \/ Serve(r) \/ Fail(r)
      PROVE  OutcomeTotals'
  <2>1. /\ place[r] \in {"limiter", "admitted", "exempt"}
        /\ \E a : Leave(r, a)
        /\ untenanted' = untenanted /\ pc' = pc
    <3>1. CASE Refuse(r)
      BY <3>1, Zenon DEF Refuse, Raise, LimitExceeded
    <3>2. ASSUME NEW status, Respond(r, status)
          PROVE  /\ place[r] \in {"admitted", "exempt"}
                 /\ \E a : Leave(r, a)
                 /\ untenanted' = untenanted /\ pc' = pc
      BY <3>2, Zenon DEF Respond, vars
    <3>3. CASE Fail(r)
      BY <3>3, Zenon DEF Fail, Raise, vars
    <3>4. QED
      BY <1>3, <3>1, <3>2, <3>3 DEF Redirect, Serve
  <2>2. labelled' = labelled /\ \A q \in Requests \ {r} : answer'[q] = answer[q]
    BY <2>1 DEF Leave, PipelineInv, Given
  <2>3. Done' = Done /\ r \notin Done /\ Done \subseteq Requests
    BY <2>1, <1>0 DEF Done
  <2>4. QED
    BY <2>1, <2>2, <2>3, NoneEnded
<1>4. ASSUME NEW r \in Requests, Finish(r) PROVE OutcomeTotals'
  <2>1. /\ pc[r] = "in_flight" /\ pc' = [pc EXCEPT ![r] = "done"]
        /\ answer' = answer /\ untenanted' = untenanted
        /\ place[r] = "leaving" /\ CountAs(Label(r, answer[r]))
    BY <1>4 DEF Finish, End
  <2>2. answer[r] # NoAnswer
    BY <2>1 DEF PipelineInv, InStep
  <2>3. ~untenanted => path[r] \in Tenants /\ tenant_id \in Tenants
    BY <2>1 DEF AllHaveTenants
  <2>4. ~untenanted => Label(r, answer[r]) = Outcome(r)'
    BY <2>1, <2>2, <2>3, MetricsAssumption DEF Label, Outcome, Client
  <2>5. ~untenanted => tenant_id \in Tenants /\ CountAs(Outcome(r)')
    BY <2>1, <2>3, <2>4, Zenon
  <2>6. QED
    BY <2>1, <2>5, OneEnded
<1>5. ASSUME NEW r \in Requests, Cancel(r) PROVE OutcomeTotals'
  <2>1. /\ pc[r] = "in_flight" /\ pc' = [pc EXCEPT ![r] = "done"]
        /\ untenanted' = untenanted
        /\ IF path[r] = NoTenant THEN labelled' = labelled ELSE CountAs(500)
    BY <1>5 DEF Cancel, End, Cancelled
  <2>2. /\ answer'[r] = NoAnswer
        /\ \A q \in Done : answer'[q] = answer[q]
    BY <1>5, <2>1, <1>0 DEF Cancel, PipelineInv, Given
  <2>3. Outcome(r)' = 500
    BY <2>2 DEF Outcome
  <2>4. ~untenanted => path[r] # NoTenant /\ tenant_id \in Tenants
    BY <2>1, MetricsAssumption DEF AllHaveTenants
  <2> DEFINE code == Outcome(r)'
  <2>5. 500 = code
    BY <2>3
  <2> HIDE DEF code
  <2>6. ~untenanted => tenant_id \in Tenants /\ CountAs(code)
    <3>1. ~untenanted => tenant_id \in Tenants /\ CountAs(500)
      BY <2>1, <2>4, Zenon
    <3>2. QED
      BY <3>1, <2>5
  <2> USE DEF code
  <2>7. QED
    BY <2>1, <2>2, <2>6, OneEnded
<1>6. CASE UNCHANGED pipelineVars
  <2>1. untenanted' = untenanted /\ pc' = pc /\ answer' = answer /\ labelled' = labelled
    BY <1>6 DEF pipelineVars, pipeline, vars
  <2>2. Done' = Done
    BY <2>1 DEF Done
  <2>3. QED
    BY <2>1, <2>2, NoneEnded
<1>7. QED
  BY <1>1, <1>2, <1>3, <1>4, <1>5, <1>6 DEF PipelineNext

\* However requests overlap and whatever answers them, the pipeline counts each
\* once and under the status its client got: the totals over the tenants are
\* exact as long as every request has had a tenant.
THEOREM OutcomesExact == PipelineSpec => []OutcomesExactInTotal
<1>1. PipelineSpec => []TotalsExact
  BY MetricsImplemented, TotalsAlwaysExact, PTL
<1>2. PipelineInit => AllHaveTenants
  BY InitTenanted DEF PipelineInit
<1>3. PipelineInv /\ AllHaveTenants /\ [PipelineNext]_pipelineVars => AllHaveTenants'
  BY StepMetrics, StepTenanted DEF PipelineInv
<1>4. PipelineSpec => []OutcomeTotals
  BY InitPipeline, StepPipeline, InitOutcomeTotals, StepOutcomeTotals, <1>2, <1>3, PTL
     DEF PipelineSpec
<1>5. TotalsExact /\ OutcomeTotals => OutcomesExactInTotal
  BY DEF OutcomeTotals, OutcomesExactInTotal, TotalAt, TotalOverAt
<1>6. QED
  BY <1>1, <1>4, <1>5, PTL
=============================================================================
