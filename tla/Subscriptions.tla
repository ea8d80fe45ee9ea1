---------------------------- MODULE Subscriptions ----------------------------
(***************************************************************************)
(* Billing: subscriptions, payment methods and payments                    *)
(* (backend/routers/billing.py, models/subscription.py), with the payment  *)
(* provider behind billing/paystack_client.py as the environment.          *)
(*                                                                         *)
(* The endpoints are coroutines of one event loop, and their queries do    *)
(* not await: an endpoint is one step, unless it calls the provider.  Then *)
(* it is two, and anything may happen in between.  The chama c of a        *)
(* request is its tenant context; without one, all endpoints answer 400    *)
(* and change nothing.                                                     *)
(***************************************************************************)
EXTENDS Naturals, FiniteSets

CONSTANTS
  Requests, Users, Chamas, Plans,
  Sender,          \* the user who sends each request
  ActivePlans,     \* the plans with is_active
  NoPlan, NoChama, NoUser, NoCustomer

\* A customer's id: the request it was made for, or in test mode its chama.
CustomerIds == Requests \cup Chamas

ASSUME BillingAssumption ==
  /\ ActivePlans \subseteq Plans
  /\ Sender \in [Requests -> Users]
  /\ NoPlan \notin Plans /\ NoChama \notin Chamas /\ NoUser \notin Users
  /\ NoCustomer \notin CustomerIds
  /\ Requests \cap Chamas = {}

VARIABLES
  test_mode,       \* PaystackClient.is_test_mode
  pc,              \* of a request: "new", "subscribing", "paying" or "done"
  asked,           \* what a request that awaits the provider is about
  answer,          \* of a request, or "none"
  subscriptions,   \* rows, by the request that wrote them
  methods,         \* rows of payment_methods, likewise
  given,           \* the provider's customer for a request, once it has one
  customers,       \* the provider's: under which email each is registered
  payments,        \* the provider's: the requests whose transaction it has
  failed           \* history: requests that were cut off in mid-call

vars == <<test_mode, pc, asked, answer, subscriptions, methods, given,
          customers, payments, failed>>

provider == <<given, customers, payments>>
database == <<subscriptions, methods>>

Init ==
  /\ test_mode \in BOOLEAN
  /\ pc = [r \in Requests |-> "new"]
  /\ asked = [r \in Requests |-> [chama |-> NoChama, plan |-> NoPlan]]
  /\ answer = [r \in Requests |-> "none"]
  /\ subscriptions = {} /\ methods = {}
  /\ given = [r \in Requests |-> NoCustomer]
  /\ customers = [k \in CustomerIds |-> NoUser]
  /\ payments = {} /\ failed = {}

Of(c) == {s \in subscriptions : s.chama = c}

Answer(r, what) ==
  /\ pc' = [pc EXCEPT ![r] = "done"]
  /\ answer' = [answer EXCEPT ![r] = what]

\* An endpoint that answers at once, without a word to the provider.
AtOnce(r, what) ==
  /\ pc[r] = "new"
  /\ Answer(r, what)
  /\ UNCHANGED <<test_mode, asked, provider, failed>>

\* An endpoint that has committed.  The refresh, or reload, after it may still
\* fail.
Committed(r) ==
  \/ Answer(r, "ok") /\ UNCHANGED failed
  \/ Answer(r, "error") /\ failed' = failed \cup {r}

CommitAtOnce(r) ==
  /\ pc[r] = "new"
  /\ Committed(r)
  /\ UNCHANGED <<test_mode, asked, provider>>

\* A query, or the commit, fails.
DatabaseError(r) ==
  /\ AtOnce(r, "error")
  /\ UNCHANGED database

Await(r, what, c, p) ==
  /\ pc[r] = "new"
  /\ pc' = [pc EXCEPT ![r] = what]
  /\ asked' = [asked EXCEPT ![r] = [chama |-> c, plan |-> p]]
  /\ UNCHANGED <<test_mode, answer, database, provider, failed>>

-----------------------------------------------------------------------------
(* create_subscription *)

\* Mutant: without unique=True on chama_id.
ClashesByCustomer(row) == \E s \in subscriptions : s.customer = row.customer

\* Mutant: without unique=True on stripe_customer_id.
ClashesByChama(row) == \E s \in subscriptions : s.chama = row.chama

\* The unique columns of subscriptions.
Clashes(row) ==
  \E s \in subscriptions : s.chama = row.chama \/ s.customer = row.customer

Row(r, c, p, customer) ==
  [by |-> r, chama |-> c, plan |-> p, customer |-> customer, ending |-> FALSE]

AlreadySubscribed(r, c) ==
  /\ Of(c) # {}
  /\ AtOnce(r, "conflict")
  /\ UNCHANGED database

PlanNotFound(r, c, p) ==
  /\ Of(c) = {} /\ p \notin ActivePlans
  /\ AtOnce(r, "not_found")
  /\ UNCHANGED database

\* Mutant: the plan is not looked up.
AskForAnyCustomer(r, c, p) ==
  /\ Of(c) = {} /\ p \in Plans /\ ~test_mode
  /\ Await(r, "subscribing", c, p)

AskForCustomer(r, c, p) ==
  /\ Of(c) = {} /\ p \in ActivePlans /\ ~test_mode
  /\ Await(r, "subscribing", c, p)

\* The rows of a unique chama make the mock customer's id unique too.
SubscribeInTestMode(r, c, p) ==
  /\ Of(c) = {} /\ p \in ActivePlans /\ test_mode
  /\ subscriptions' = subscriptions \cup {Row(r, c, p, c)}
  /\ CommitAtOnce(r)
  /\ UNCHANGED methods

\* Mutant: an IntegrityError is taken for success.
InsertOrIgnore(r) ==
  LET row == Row(r, asked[r].chama, asked[r].plan, given[r]) IN
  /\ pc[r] = "subscribing" /\ given[r] # NoCustomer
  /\ subscriptions' = IF Clashes(row) THEN subscriptions ELSE subscriptions \cup {row}
  /\ Answer(r, "ok")
  /\ UNCHANGED <<test_mode, asked, methods, provider, failed>>

\* The provider has answered.
InsertSubscription(r) ==
  LET row == Row(r, asked[r].chama, asked[r].plan, given[r]) IN
  /\ pc[r] = "subscribing" /\ given[r] # NoCustomer
  /\ IF Clashes(row)
     THEN Answer(r, "error") /\ UNCHANGED <<subscriptions, failed>>
     ELSE subscriptions' = subscriptions \cup {row} /\ Committed(r)
  /\ UNCHANGED <<test_mode, asked, methods, provider>>

Subscribe(r) ==
  \/ \E c \in Chamas, p \in Plans :
       \/ AlreadySubscribed(r, c) \/ PlanNotFound(r, c, p)
       \/ AskForCustomer(r, c, p) \/ SubscribeInTestMode(r, c, p)
  \/ InsertSubscription(r)

-----------------------------------------------------------------------------
(* update_subscription and cancel_subscription *)

NotSubscribed(r, c) ==
  /\ Of(c) = {}
  /\ AtOnce(r, "not_found")
  /\ UNCHANGED database

\* A plan that is not on offer stops the update before it changes anything.
UpdateRejected(r, c, p) ==
  /\ Of(c) # {} /\ p \notin ActivePlans
  /\ AtOnce(r, "not_found")
  /\ UNCHANGED database

\* What the request leaves out keeps its value: for p or e the old one.
UpdateSubscription(r, c, p, e) ==
  /\ p \in ActivePlans
  /\ \E s \in Of(c) :
       subscriptions' = (subscriptions \ {s}) \cup {[s EXCEPT !.plan = p, !.ending = e]}
  /\ CommitAtOnce(r)
  /\ UNCHANGED methods

CancelSubscription(r, c) ==
  /\ \E s \in Of(c) :
       subscriptions' = (subscriptions \ {s}) \cup {[s EXCEPT !.ending = TRUE]}
  /\ CommitAtOnce(r)
  /\ UNCHANGED methods

Manage(r) ==
  \E c \in Chamas :
    \/ NotSubscribed(r, c) \/ CancelSubscription(r, c)
    \/ \E p \in Plans, e \in BOOLEAN :
         UpdateRejected(r, c, p) \/ UpdateSubscription(r, c, p, e)

-----------------------------------------------------------------------------
(* add_payment_method *)

\* No code makes a method inactive, so all of the chama's are counted.
AddPaymentMethod(r, c) ==
  /\ LET existing == Cardinality({m \in methods : m.chama = c}) IN
     methods' = methods \cup {[by |-> r, chama |-> c, default |-> existing = 0]}
  /\ CommitAtOnce(r)
  /\ UNCHANGED subscriptions

-----------------------------------------------------------------------------
(* initialize_payment *)

NothingToPay(r, c) ==
  /\ Of(c) = {}
  /\ AtOnce(r, "refused")
  /\ UNCHANGED database

\* Mutant: without the check for a subscription.
AskForAnyTransaction(r, c) == Await(r, "paying", c, NoPlan)

AskForTransaction(r, c) ==
  /\ Of(c) # {}
  /\ Await(r, "paying", c, NoPlan)

AnswerPayment(r) ==
  /\ pc[r] = "paying" /\ r \in payments
  /\ Answer(r, "ok")
  /\ UNCHANGED <<test_mode, asked, database, provider, failed>>

Pay(r) ==
  \/ \E c \in Chamas : NothingToPay(r, c) \/ AskForTransaction(r, c)
  \/ AnswerPayment(r)

-----------------------------------------------------------------------------
(* The provider, and what may go wrong *)

Asked(r) == asked[r].chama # NoChama

\* It registers an email anew, or finds it registered; the request may have
\* given up by then.
ProviderRegisters(r) ==
  /\ Asked(r) /\ asked[r].plan # NoPlan
  /\ given[r] = NoCustomer
  /\ \E k \in {j \in Requests : customers[j] = Sender[r]}
              \cup (IF customers[r] = NoUser THEN {r} ELSE {}) :
       /\ given' = [given EXCEPT ![r] = k]
       /\ customers' = [customers EXCEPT ![k] = Sender[r]]
  /\ UNCHANGED <<test_mode, pc, asked, answer, database, payments, failed>>

ProviderInitialises(r) ==
  /\ Asked(r) /\ asked[r].plan = NoPlan
  /\ payments' = payments \cup {r}
  /\ UNCHANGED <<test_mode, pc, asked, answer, database, given, customers, failed>>

\* The provider refuses, breaks the connection or lets httpx time out, or the
\* commit fails.
CallFails(r) ==
  /\ pc[r] \in {"subscribing", "paying"}
  /\ Answer(r, "error")
  /\ failed' = failed \cup {r}
  /\ UNCHANGED <<test_mode, asked, database, provider>>

ServerCrash ==
  LET awaiting == {r \in Requests : pc[r] \in {"subscribing", "paying"}} IN
  /\ awaiting # {}
  /\ pc' = [r \in Requests |-> IF r \in awaiting THEN "done" ELSE pc[r]]
  /\ failed' = failed \cup awaiting
  /\ UNCHANGED <<test_mode, asked, answer, database, provider>>

Next ==
  \/ \E r \in Requests :
       \/ Subscribe(r) \/ Manage(r) \/ Pay(r) \/ CallFails(r) \/ DatabaseError(r)
       \/ \E c \in Chamas : AddPaymentMethod(r, c)
       \/ ProviderRegisters(r) \/ ProviderInitialises(r)
  \/ ServerCrash

Spec == Init /\ [][Next]_vars
-----------------------------------------------------------------------------
(* Properties *)

TypeOK ==
  /\ test_mode \in BOOLEAN
  /\ pc \in [Requests -> {"new", "subscribing", "paying", "done"}]
  /\ asked \in [Requests -> [chama : Chamas \cup {NoChama}, plan : Plans \cup {NoPlan}]]
  /\ answer \in [Requests -> {"none", "ok", "conflict", "not_found", "refused", "error"}]
  /\ subscriptions \subseteq
       [by : Requests, chama : Chamas, plan : ActivePlans,
        customer : CustomerIds, ending : BOOLEAN]
  /\ methods \subseteq [by : Requests, chama : Chamas, default : BOOLEAN]
  /\ given \in [Requests -> Requests \cup {NoCustomer}]
  /\ customers \in [CustomerIds -> Users \cup {NoUser}]
  /\ payments \subseteq Requests /\ failed \subseteq Requests

\* The plan of a chama is that of its only subscription: with two it has none.
PlanOf == [c \in Chamas |->
  IF \E s \in Of(c) : Of(c) = {s} THEN (CHOOSE s \in Of(c) : TRUE).plan ELSE NoPlan]
Ending == {c \in Chamas : \E s \in Of(c) : s.ending}

Lifecycle == INSTANCE ChamaSubscription WITH plan <- PlanOf, ending <- Ending

\* Of the requests that found no subscription and then waited for the
\* provider, one at most subscribes the chama, and nothing unsubscribes it.
ImplementsSubscription == Lifecycle!Spec

\* However late the provider answers, a subscription refers to a customer the
\* provider has, under the email of the user who subscribed, and no two
\* subscriptions to the same one.
CustomersApart ==
  \A s \in subscriptions :
    /\ \A t \in subscriptions : s.customer = t.customer => s = t
    /\ test_mode \/ customers[s.customer] = Sender[s.by]

\* Who is told "ok" has a subscription that was not there before; who is told
\* nothing, or something else, has none, unless it was cut off in mid-call.
AnswersTellTheTruth ==
  \A r \in Requests :
    /\ pc[r] = "done" /\ asked[r].plan # NoPlan /\ answer[r] = "ok" =>
         \E s \in subscriptions : s.by = r
    /\ r \notin failed /\ answer[r] # "ok" => \A s \in subscriptions : s.by # r

\* When no call was cut off, no customer is registered in vain: the chama it
\* was for is subscribed by now, or it is another chama's customer as well.
CustomersServe ==
  \A r \in Requests :
    pc[r] = "done" /\ given[r] # NoCustomer /\ r \notin failed =>
      \E s \in subscriptions : s.chama = asked[r].chama \/ s.customer = given[r]

\* The three records of a subscribe request, the answer, the database's and
\* the provider's, agree in every state, whoever raced it and whatever failed.
RecordsAgree == AnswersTellTheTruth /\ CustomersServe

OneDefault ==
  \A m \in methods :
    Cardinality({n \in methods : n.chama = m.chama /\ n.default}) = 1

\* The provider takes payments for subscribed chamas only, though the check is
\* long over when it does, and a chama with payment methods has one default,
\* however many requests add them.
PaymentsBacked ==
  /\ \A r \in payments : Of(asked[r].chama) # {}
  /\ OneDefault
=============================================================================
