------------------------ MODULE Subscriptions_proofs ------------------------
(***************************************************************************)
(* Theorems about Subscriptions, for any requests, users, chamas and plans. *)
(***************************************************************************)
EXTENDS Subscriptions, FiniteSetTheorems, TLAPS

-----------------------------------------------------------------------------
(* What a step can do to the tables *)

\* An endpoint that answers at once and changes nothing.
Quick(r) ==
  /\ \E what \in {"conflict", "not_found", "refused", "error"} : AtOnce(r, what)
  /\ UNCHANGED database

\* A row is changed in place, except for what identifies it.
Changed(s, t) ==
  /\ t \in [by : Requests, chama : Chamas, plan : ActivePlans,
            customer : CustomerIds, ending : BOOLEAN]
  /\ t.by = s.by /\ t.chama = s.chama /\ t.customer = s.customer

Manages(r) ==
  /\ \E s \in subscriptions : \E t :
       /\ Changed(s, t)
       /\ subscriptions' = (subscriptions \ {s}) \cup {t}
  /\ CommitAtOnce(r)
  /\ UNCHANGED methods

\* The insert of a row, once the provider has answered.
Inserts(r) ==
  LET row == Row(r, asked[r].chama, asked[r].plan, given[r]) IN
  /\ pc[r] = "subscribing" /\ given[r] # NoCustomer
  /\ ~Clashes(row)
  /\ subscriptions' = subscriptions \cup {row}
  /\ Committed(r)
  /\ UNCHANGED <<test_mode, asked, methods, provider>>

Clashed(r) ==
  /\ pc[r] = "subscribing" /\ given[r] # NoCustomer
  /\ Clashes(Row(r, asked[r].chama, asked[r].plan, given[r]))
  /\ Answer(r, "error")
  /\ UNCHANGED <<test_mode, asked, database, provider, failed>>

Effect(r) ==
  \/ Quick(r) \/ Manages(r) \/ Inserts(r) \/ Clashed(r) \/ CallFails(r)
  \/ \E c \in Chamas, p \in Plans : AskForCustomer(r, c, p) \/ SubscribeInTestMode(r, c, p)
  \/ \E c \in Chamas : AddPaymentMethod(r, c) \/ AskForTransaction(r, c)
  \/ AnswerPayment(r) \/ ProviderRegisters(r) \/ ProviderInitialises(r)

LEMMA StepEffects ==
  ASSUME TypeOK, [Next]_vars
  PROVE  (\E r \in Requests : Effect(r)) \/ ServerCrash \/ UNCHANGED vars
<1> SUFFICES ASSUME NEW r \in Requests,
                    Subscribe(r) \/ Manage(r) \/ Pay(r) \/ DatabaseError(r)
             PROVE  Effect(r)
  BY DEF Next, Effect
<1>1. ASSUME NEW c \in Chamas, NEW p \in Plans, AlreadySubscribed(r, c) \/ PlanNotFound(r, c, p)
      PROVE  Quick(r)
  BY <1>1 DEF AlreadySubscribed, PlanNotFound, Quick
<1>2. CASE InsertSubscription(r)
  <2>1. CASE Clashes(Row(r, asked[r].chama, asked[r].plan, given[r]))
    BY <1>2, <2>1 DEF InsertSubscription, Clashed, Effect, database
  <2>2. CASE ~Clashes(Row(r, asked[r].chama, asked[r].plan, given[r]))
    BY <1>2, <2>2 DEF InsertSubscription, Inserts, Effect
  <2>3. QED
    BY <2>1, <2>2
<1>3. ASSUME NEW c \in Chamas, NotSubscribed(r, c) \/ \E p \in Plans : UpdateRejected(r, c, p)
      PROVE  Quick(r)
  BY <1>3 DEF NotSubscribed, UpdateRejected, Quick
<1>4. ASSUME NEW c \in Chamas, CancelSubscription(r, c)
      PROVE  Manages(r)
  <2>1. PICK s \in Of(c) :
          subscriptions' = (subscriptions \ {s}) \cup {[s EXCEPT !.ending = TRUE]}
    BY <1>4 DEF CancelSubscription
  <2>2. s \in subscriptions /\ Changed(s, [s EXCEPT !.ending = TRUE])
    BY <2>1 DEF TypeOK, Of, Changed
  <2>3. CommitAtOnce(r) /\ UNCHANGED methods
    BY <1>4 DEF CancelSubscription
  <2>4. QED
    BY <2>1, <2>2, <2>3 DEF Manages
<1>5. ASSUME NEW c \in Chamas, NEW p \in Plans, NEW e \in BOOLEAN,
             UpdateSubscription(r, c, p, e)
      PROVE  Manages(r)
  <2>1. PICK s \in Of(c) :
          subscriptions' = (subscriptions \ {s}) \cup {[s EXCEPT !.plan = p, !.ending = e]}
    BY <1>5 DEF UpdateSubscription
  <2>2. s \in subscriptions /\ Changed(s, [s EXCEPT !.plan = p, !.ending = e])
    BY <1>5, <2>1 DEF TypeOK, Of, Changed, UpdateSubscription
  <2>3. CommitAtOnce(r) /\ UNCHANGED methods
    BY <1>5 DEF UpdateSubscription
  <2>4. QED
    BY <2>1, <2>2, <2>3 DEF Manages
<1>6. ASSUME NEW c \in Chamas, NothingToPay(r, c)
      PROVE  Quick(r)
  BY <1>6 DEF NothingToPay, Quick
<1>7. CASE DatabaseError(r)
  BY <1>7 DEF DatabaseError, Quick, Effect
<1>8. CASE Subscribe(r)
  BY <1>1, <1>2, <1>8, Zenon DEF Subscribe, Effect
<1>9. CASE Manage(r)
  BY <1>3, <1>4, <1>5, <1>9, Zenon DEF Manage, Effect
<1>10. CASE Pay(r)
  BY <1>6, <1>10, Zenon DEF Pay, Effect
<1>11. QED
  BY <1>7, <1>8, <1>9, <1>10

-----------------------------------------------------------------------------
(* Types, and what a request is at *)

\* What a request asked of the provider, and what that tells of it.
Consistent ==
  \A r \in Requests :
    /\ pc[r] = "new" => ~Asked(r)
    /\ ~Asked(r) => asked[r].plan = NoPlan
    /\ pc[r] = "subscribing" => asked[r].plan # NoPlan
    /\ pc[r] = "paying" => Asked(r) /\ asked[r].plan = NoPlan
    /\ asked[r].plan # NoPlan => asked[r].plan \in ActivePlans /\ ~test_mode
    /\ pc[r] # "done" => answer[r] = "none"
    /\ given[r] # NoCustomer => asked[r].plan # NoPlan
    /\ r \in payments => Asked(r) /\ asked[r].plan = NoPlan

Typed == TypeOK /\ Consistent

LEMMA InitTyped == Init => Typed
BY BillingAssumption DEF Init, Typed, TypeOK, Consistent, Asked

\* Each row is of its request, chama and customer, in the types of the model.
LEMMA RowType ==
  ASSUME NEW r \in Requests, NEW c \in Chamas, NEW p \in ActivePlans,
         NEW k \in CustomerIds
  PROVE  /\ Row(r, c, p, k) \in [by : Requests, chama : Chamas, plan : ActivePlans,
                                 customer : CustomerIds, ending : BOOLEAN]
         /\ Row(r, c, p, k).by = r /\ Row(r, c, p, k).chama = c
         /\ Row(r, c, p, k).plan = p /\ Row(r, c, p, k).customer = k
         /\ Row(r, c, p, k).ending = FALSE
BY DEF Row

LEMMA NextTyped == Typed /\ [Next]_vars => Typed'
<1> SUFFICES ASSUME Typed, [Next]_vars
             PROVE  Typed'
  OBVIOUS
<1> USE BillingAssumption DEF Typed
<1>1. ASSUME NEW r \in Requests, Quick(r)
      PROVE  Typed'
  BY <1>1 DEF Quick, AtOnce, Answer, TypeOK, Consistent, Asked, database, provider
<1>2. ASSUME NEW r \in Requests, Manages(r)
      PROVE  Typed'
  <2>1. subscriptions' \subseteq [by : Requests, chama : Chamas, plan : ActivePlans,
                                customer : CustomerIds, ending : BOOLEAN]
    BY <1>2 DEF Manages, Changed, TypeOK
  <2>2. TypeOK'
    BY <1>2, <2>1 DEF Manages, CommitAtOnce, Committed, Answer, TypeOK, provider
  <2>3. Consistent'
    BY <1>2 DEF Manages, CommitAtOnce, Committed, Answer, TypeOK, Consistent, Asked, provider
  <2>4. QED
    BY <2>2, <2>3
<1>3. ASSUME NEW r \in Requests, Inserts(r)
      PROVE  Typed'
  <2>1. asked[r].chama \in Chamas /\ asked[r].plan \in ActivePlans /\ given[r] \in CustomerIds
    BY <1>3 DEF Inserts, TypeOK, Consistent, Asked, CustomerIds
  <2>2. subscriptions' \subseteq [by : Requests, chama : Chamas, plan : ActivePlans,
                                customer : CustomerIds, ending : BOOLEAN]
    <3> DEFINE row == Row(r, asked[r].chama, asked[r].plan, given[r])
    <3>1. row \in [by : Requests, chama : Chamas, plan : ActivePlans,
                   customer : CustomerIds, ending : BOOLEAN]
      BY <2>1, RowType
    <3>2. subscriptions' = subscriptions \cup {row}
      BY <1>3 DEF Inserts
    <3> HIDE DEF row
    <3>3. QED
      BY <3>1, <3>2 DEF TypeOK
  <2>3. TypeOK'
    BY <1>3, <2>2 DEF Inserts, Committed, Answer, TypeOK, provider
  <2>4. Consistent'
    BY <1>3 DEF Inserts, Committed, Answer, TypeOK, Consistent, Asked, provider
  <2>5. QED
    BY <2>3, <2>4
<1>4. ASSUME NEW r \in Requests, Clashed(r) \/ CallFails(r) \/ AnswerPayment(r)
      PROVE  Typed'
  <2>1. \/ Answer(r, "error") /\ failed' \subseteq Requests
        \/ Answer(r, "ok") /\ failed' = failed
    BY <1>4 DEF Clashed, CallFails, AnswerPayment, TypeOK
  <2>2. UNCHANGED <<test_mode, asked, database, provider>>
    BY <1>4 DEF Clashed, CallFails, AnswerPayment
  <2>3. TypeOK'
    BY <2>1, <2>2 DEF Answer, TypeOK, database, provider
  <2>4. Consistent'
    BY <2>1, <2>2 DEF Answer, TypeOK, Consistent, Asked, database, provider
  <2>5. QED
    BY <2>3, <2>4
<1>5. ASSUME NEW r \in Requests, NEW c \in Chamas, NEW p \in Plans, AskForCustomer(r, c, p)
      PROVE  Typed'
  BY <1>5 DEF AskForCustomer, Await, TypeOK, Consistent, Asked, database, provider
<1>6. ASSUME NEW r \in Requests, NEW c \in Chamas, NEW p \in Plans, SubscribeInTestMode(r, c, p)
      PROVE  Typed'
  <2>1. p \in ActivePlans /\ c \in CustomerIds
    BY <1>6 DEF SubscribeInTestMode, CustomerIds
  <2>2. subscriptions' \subseteq [by : Requests, chama : Chamas, plan : ActivePlans,
                                customer : CustomerIds, ending : BOOLEAN]
    <3> DEFINE row == Row(r, c, p, c)
    <3>1. row \in [by : Requests, chama : Chamas, plan : ActivePlans,
                   customer : CustomerIds, ending : BOOLEAN]
      BY <2>1, RowType
    <3>2. subscriptions' = subscriptions \cup {row}
      BY <1>6 DEF SubscribeInTestMode
    <3> HIDE DEF row
    <3>3. QED
      BY <3>1, <3>2 DEF TypeOK
  <2>3. TypeOK'
    BY <1>6, <2>2 DEF SubscribeInTestMode, CommitAtOnce, Committed, Answer, TypeOK, provider
  <2>4. Consistent'
    BY <1>6 DEF SubscribeInTestMode, CommitAtOnce, Committed, Answer, TypeOK, Consistent,
                Asked, provider
  <2>5. QED
    BY <2>3, <2>4
<1>7. ASSUME NEW r \in Requests, NEW c \in Chamas, AddPaymentMethod(r, c)
      PROVE  Typed'
  <2>1. methods' \subseteq [by : Requests, chama : Chamas, default : BOOLEAN]
    <3> DEFINE first == Cardinality({m \in methods : m.chama = c}) = 0
    <3>1. first \in BOOLEAN
      OBVIOUS
    <3>2. methods' = methods \cup {[by |-> r, chama |-> c, default |-> first]}
      BY <1>7 DEF AddPaymentMethod
    <3> HIDE DEF first
    <3>3. QED
      BY <3>1, <3>2 DEF TypeOK
  <2>2. TypeOK'
    BY <1>7, <2>1 DEF AddPaymentMethod, CommitAtOnce, Committed, Answer, TypeOK, provider
  <2>3. Consistent'
    BY <1>7 DEF AddPaymentMethod, CommitAtOnce, Committed, Answer, TypeOK, Consistent,
                Asked, provider
  <2>4. QED
    BY <2>2, <2>3
<1>8. ASSUME NEW r \in Requests, NEW c \in Chamas, AskForTransaction(r, c)
      PROVE  Typed'
  BY <1>8 DEF AskForTransaction, Await, TypeOK, Consistent, Asked, database, provider
<1>9. ASSUME NEW r \in Requests, ProviderRegisters(r)
      PROVE  Typed'
  BY <1>9 DEF ProviderRegisters, TypeOK, Consistent, Asked, database, CustomerIds
<1>10. ASSUME NEW r \in Requests, ProviderInitialises(r)
       PROVE  Typed'
  BY <1>10 DEF ProviderInitialises, TypeOK, Consistent, Asked, database
<1>11. CASE ServerCrash
  BY <1>11 DEF ServerCrash, TypeOK, Consistent, Asked, database, provider
<1>12. CASE UNCHANGED vars
  BY <1>12 DEF vars, TypeOK, Consistent, Asked, database, provider
<1>13. QED
  BY <1>1, <1>2, <1>3, <1>4, <1>5, <1>6, <1>7, <1>8, <1>9, <1>10, <1>11, <1>12,
     StepEffects DEF Effect

\* Every reachable state is well typed.
THEOREM TypeCorrect == Spec => []TypeOK
<1>1. Spec => []Typed
  BY InitTyped, NextTyped, PTL DEF Spec
<1>2. Typed => TypeOK
  BY DEF Typed
<1>3. QED
  BY <1>1, <1>2, PTL

-----------------------------------------------------------------------------
(* What no step takes back *)

\* A request ends once, asks once and is given one customer; a customer keeps
\* the email it was registered under.
Steady ==
  /\ test_mode' = test_mode /\ failed \subseteq failed'
  /\ \A r \in Requests :
       /\ pc[r] = "done" => pc'[r] = "done" /\ answer'[r] = answer[r]
       /\ pc[r] # "new" => asked'[r] = asked[r]
       /\ given[r] # NoCustomer => given'[r] = given[r]
  /\ \A k \in CustomerIds : customers[k] # NoUser => customers'[k] = customers[k]

LEMMA StepsSteady == Typed /\ [Next]_vars => Steady
<1> SUFFICES ASSUME Typed, [Next]_vars
             PROVE  Steady
  OBVIOUS
<1> USE BillingAssumption DEF Typed
<1>1. ASSUME NEW r \in Requests, Quick(r)
      PROVE  Steady
  BY <1>1 DEF Quick, AtOnce, Answer, TypeOK, Steady, provider
<1>2. ASSUME NEW r \in Requests, CommitAtOnce(r)
      PROVE  Steady
  BY <1>2 DEF CommitAtOnce, Committed, Answer, TypeOK, Steady, provider
<1>3. ASSUME NEW r \in Requests,
             Inserts(r) \/ Clashed(r) \/ CallFails(r) \/ AnswerPayment(r)
      PROVE  Steady
  <2>1. /\ pc[r] # "done"
        /\ UNCHANGED <<test_mode, asked, provider>> /\ failed \subseteq failed'
    BY <1>3 DEF Inserts, Clashed, CallFails, AnswerPayment, Committed
  <2>2. Answer(r, "ok") \/ Answer(r, "error")
    BY <1>3 DEF Inserts, Clashed, CallFails, AnswerPayment, Committed
  <2>3. QED
    BY <2>1, <2>2 DEF Answer, TypeOK, Steady, provider
<1>4. ASSUME NEW r \in Requests, NEW c \in Chamas, NEW p \in Plans \cup {NoPlan},
             Await(r, "subscribing", c, p) \/ Await(r, "paying", c, p)
      PROVE  Steady
  BY <1>4 DEF Await, TypeOK, Steady, provider
<1>5. ASSUME NEW r \in Requests, ProviderRegisters(r)
      PROVE  Steady
  BY <1>5 DEF ProviderRegisters, TypeOK, Steady
<1>6. ASSUME NEW r \in Requests, ProviderInitialises(r)
      PROVE  Steady
  BY <1>6 DEF ProviderInitialises, TypeOK, Steady
<1>7. CASE ServerCrash
  BY <1>7 DEF ServerCrash, TypeOK, Steady, provider
<1>8. CASE UNCHANGED vars
  BY <1>8 DEF vars, TypeOK, Steady, provider
<1>9. ASSUME NEW r \in Requests, Effect(r)
      PROVE  Steady
  BY <1>1, <1>2, <1>3, <1>4, <1>5, <1>6, <1>9 DEF Effect, Manages, SubscribeInTestMode,
     AddPaymentMethod, AskForCustomer, AskForTransaction
<1>10. QED
  BY <1>7, <1>8, <1>9, StepEffects

\* The table of subscriptions changes in three ways.
Rewritten ==
  \E s \in subscriptions : \E t :
    Changed(s, t) /\ subscriptions' = (subscriptions \ {s}) \cup {t}

LEMMA TableEffects ==
  ASSUME Typed, [Next]_vars
  PROVE  \/ UNCHANGED subscriptions
         \/ Rewritten
         \/ \E r \in Requests :
              Inserts(r) \/ \E c \in Chamas, p \in Plans : SubscribeInTestMode(r, c, p)
<1>1. ASSUME NEW r \in Requests, Manages(r)
      PROVE  Rewritten
  BY <1>1 DEF Manages, Rewritten
<1>2. ASSUME NEW r \in Requests,
             \/ Quick(r) \/ Clashed(r) \/ CallFails(r) \/ AnswerPayment(r)
             \/ ProviderRegisters(r) \/ ProviderInitialises(r)
      PROVE  UNCHANGED subscriptions
  BY <1>2 DEF Quick, Clashed, CallFails, AnswerPayment, ProviderRegisters,
              ProviderInitialises, database
<1>3. ASSUME NEW r \in Requests, NEW c \in Chamas,
             \/ \E p \in Plans : AskForCustomer(r, c, p)
             \/ AddPaymentMethod(r, c) \/ AskForTransaction(r, c)
      PROVE  UNCHANGED subscriptions
  BY <1>3 DEF AskForCustomer, AddPaymentMethod, AskForTransaction, Await, database
<1>4. CASE ServerCrash \/ UNCHANGED vars
  BY <1>4 DEF ServerCrash, vars, database
<1>5. ASSUME NEW r \in Requests, Effect(r)
      PROVE  \/ UNCHANGED subscriptions
             \/ Rewritten
             \/ Inserts(r) \/ \E c \in Chamas, p \in Plans : SubscribeInTestMode(r, c, p)
  BY <1>1, <1>2, <1>3, <1>5 DEF Effect
<1>6. QED
  BY <1>4, <1>5, StepEffects DEF Typed

-----------------------------------------------------------------------------
(* Rows are unique, and of customers the provider has *)

\* A request that has a customer has one under its sender's email.
Registered == \A r \in Requests : given[r] # NoCustomer => customers[given[r]] = Sender[r]

OnePerChama == \A s, t \in subscriptions : s.chama = t.chama => s = t

\* Rows are written by requests that are over, and in test mode the customer
\* of each is its chama.
Written ==
  \A s \in subscriptions :
    pc[s.by] = "done" /\ (test_mode => s.customer = s.chama)

RowsInv == Typed /\ Registered /\ OnePerChama /\ Written /\ CustomersApart

LEMMA InitRows == Init => RowsInv
<1>1. Init => Registered /\ OnePerChama /\ Written /\ CustomersApart
  BY DEF Init, Registered, OnePerChama, Written, CustomersApart
<1>2. QED
  BY <1>1, InitTyped DEF RowsInv

LEMMA NextRegistered ==
  ASSUME Typed, Registered, [Next]_vars
  PROVE  Registered'
<1> USE BillingAssumption DEF Typed
<1>1. Steady
  BY StepsSteady
<1>2. ASSUME NEW r \in Requests, ProviderRegisters(r)
      PROVE  Registered'
  <2>1. \A k \in CustomerIds : customers[k] # NoUser => customers'[k] = customers[k]
    BY <1>1 DEF Steady
  <2>2. given'[r] \in CustomerIds /\ customers'[given'[r]] = Sender[r]
    BY <1>2 DEF ProviderRegisters, TypeOK, CustomerIds
  <2>3. \A q \in Requests : q # r => given'[q] = given[q]
    BY <1>2 DEF ProviderRegisters, TypeOK
  <2>4. QED
    BY <2>1, <2>2, <2>3 DEF Registered, TypeOK, CustomerIds
<1>3. ASSUME UNCHANGED <<given, customers>>
      PROVE  Registered'
  BY <1>3 DEF Registered
<1>4. ASSUME NEW r \in Requests, Effect(r), ~ProviderRegisters(r)
      PROVE  UNCHANGED <<given, customers>>
  <2>1. CASE Quick(r) \/ Clashed(r) \/ CallFails(r) \/ AnswerPayment(r) \/ ProviderInitialises(r)
    BY <2>1 DEF Quick, AtOnce, Clashed, CallFails, AnswerPayment, ProviderInitialises, provider
  <2>2. CASE Manages(r) \/ Inserts(r)
    BY <2>2 DEF Manages, Inserts, CommitAtOnce, provider
  <2>3. CASE \E c \in Chamas, p \in Plans : AskForCustomer(r, c, p) \/ SubscribeInTestMode(r, c, p)
    BY <2>3 DEF AskForCustomer, Await, SubscribeInTestMode, CommitAtOnce, provider
  <2>4. CASE \E c \in Chamas : AddPaymentMethod(r, c) \/ AskForTransaction(r, c)
    BY <2>4 DEF AddPaymentMethod, AskForTransaction, Await, CommitAtOnce, provider
  <2>5. QED
    BY <1>4, <2>1, <2>2, <2>3, <2>4 DEF Effect
<1>5. CASE ServerCrash \/ UNCHANGED vars
  BY <1>3, <1>5 DEF ServerCrash, vars, provider
<1>6. QED
  BY <1>2, <1>3, <1>4, <1>5, StepEffects

\* A new row that does not clash keeps the rows unique.
LEMMA NewRow ==
  ASSUME RowsInv, Steady,
         NEW row \in [by : Requests, chama : Chamas, plan : ActivePlans,
                      customer : CustomerIds, ending : BOOLEAN],
         \A s \in subscriptions : s.chama # row.chama /\ s.customer # row.customer,
         subscriptions' = subscriptions \cup {row},
         pc'[row.by] = "done",
         IF test_mode THEN row.customer = row.chama
                      ELSE customers[row.customer] = Sender[row.by]
  PROVE  (OnePerChama /\ Written /\ CustomersApart)'
<1> USE BillingAssumption DEF RowsInv, Typed
<1>1. OnePerChama'
  BY DEF OnePerChama
<1>2. Written'
  BY DEF Written, Steady, TypeOK
<1>3. \A s \in subscriptions' : test_mode \/ customers[s.customer] = Sender[s.by]
  BY DEF CustomersApart
<1>4. CustomersApart'
  BY <1>3 DEF CustomersApart, Steady, TypeOK
<1>5. QED
  BY <1>1, <1>2, <1>4

LEMMA NextRows == RowsInv /\ [Next]_vars => RowsInv'
<1> SUFFICES ASSUME RowsInv, [Next]_vars
             PROVE  (OnePerChama /\ Written /\ CustomersApart)'
  BY NextTyped, NextRegistered DEF RowsInv
<1> USE BillingAssumption DEF RowsInv, Typed
<1>1. Steady
  BY StepsSteady
<1>2. CASE UNCHANGED subscriptions
  BY <1>1, <1>2 DEF OnePerChama, Written, CustomersApart, Steady, TypeOK
<1>3. CASE Rewritten
  <2>a. PICK s \in subscriptions :
               \E t : Changed(s, t) /\ subscriptions' = (subscriptions \ {s}) \cup {t}
    BY <1>3 DEF Rewritten
  <2>1. PICK t : Changed(s, t) /\ subscriptions' = (subscriptions \ {s}) \cup {t}
    BY <2>a
  <2>2. OnePerChama'
    BY <2>1 DEF OnePerChama, Changed
  <2>3. Written'
    BY <1>1, <2>1 DEF Written, Changed, Steady, TypeOK
  <2>4. CustomersApart'
    BY <1>1, <2>1 DEF CustomersApart, Changed, Steady, TypeOK
  <2>5. QED
    BY <2>2, <2>3, <2>4
<1>4. ASSUME NEW r \in Requests, Inserts(r)
      PROVE  (OnePerChama /\ Written /\ CustomersApart)'
  <2> DEFINE row == Row(r, asked[r].chama, asked[r].plan, given[r])
  <2>1. asked[r].chama \in Chamas /\ asked[r].plan \in ActivePlans /\ given[r] \in CustomerIds
        /\ ~test_mode
    BY <1>4 DEF Inserts, TypeOK, Consistent, Asked, CustomerIds
  <2>2. /\ row \in [by : Requests, chama : Chamas, plan : ActivePlans,
                   customer : CustomerIds, ending : BOOLEAN]
        /\ row.by = r /\ row.customer = given[r]
    BY <2>1 DEF Row
  <2>3. /\ \A s \in subscriptions : s.chama # row.chama /\ s.customer # row.customer
        /\ subscriptions' = subscriptions \cup {row}
        /\ pc'[r] = "done"
    BY <1>4 DEF Inserts, Clashes, Committed, Answer, TypeOK
  <2>4. customers[given[r]] = Sender[r]
    BY <1>4 DEF Inserts, Registered
  <2> HIDE DEF row
  <2>5. QED
    BY <1>1, <2>1, <2>2, <2>3, <2>4, NewRow
<1>5. ASSUME NEW r \in Requests, NEW c \in Chamas, NEW p \in Plans, SubscribeInTestMode(r, c, p)
      PROVE  (OnePerChama /\ Written /\ CustomersApart)'
  <2> DEFINE row == Row(r, c, p, c)
  <2>1. p \in ActivePlans /\ c \in CustomerIds /\ test_mode
    BY <1>5 DEF SubscribeInTestMode, CustomerIds
  <2>2. /\ row \in [by : Requests, chama : Chamas, plan : ActivePlans,
                   customer : CustomerIds, ending : BOOLEAN]
        /\ row.by = r /\ row.chama = c /\ row.customer = c
    BY <2>1 DEF Row
  <2>3. /\ \A s \in subscriptions : s.chama # c /\ s.customer # c
        /\ subscriptions' = subscriptions \cup {row}
        /\ pc'[r] = "done"
    BY <1>5 DEF SubscribeInTestMode, Of, CommitAtOnce, Committed, Answer, Written, TypeOK
  <2> HIDE DEF row
  <2>4. QED
    BY <1>1, <2>1, <2>2, <2>3, NewRow
<1>6. QED
  BY <1>2, <1>3, <1>4, <1>5, TableEffects

LEMMA RowsInvariant == Spec => []RowsInv
BY InitRows, NextRows, PTL DEF Spec

\* Every subscription refers to a customer the provider has, registered under
\* the email of the user who subscribed, and shares it with no other.
THEOREM CustomersOfTheirOwn == Spec => []CustomersApart
<1>1. RowsInv => CustomersApart
  BY DEF RowsInv
<1>2. QED
  BY <1>1, RowsInvariant, PTL

-----------------------------------------------------------------------------
(* Refinement *)

PlanIsItsRow ==
  \A c \in Chamas :
    /\ Of(c) = {} => PlanOf[c] = NoPlan
    /\ \A s \in Of(c) : PlanOf[c] = s.plan

\* Where rows are unique, a chama's plan is that of its row.
LEMMA PlanOfRow == OnePerChama => PlanIsItsRow
<1> SUFFICES ASSUME OnePerChama, NEW c \in Chamas
             PROVE  (Of(c) = {} => PlanOf[c] = NoPlan) /\ \A s \in Of(c) : PlanOf[c] = s.plan
  BY DEF PlanIsItsRow
<1>1. CASE Of(c) = {}
  BY <1>1 DEF PlanOf
<1>2. ASSUME NEW s \in Of(c)
      PROVE  PlanOf[c] = s.plan
  <2>1. Of(c) = {s}
    BY <1>2 DEF Of, OnePerChama
  <2>2. (CHOOSE t \in Of(c) : TRUE) = s
    BY <2>1
  <2>3. QED
    BY <2>1, <2>2 DEF PlanOf
<1>3. QED
  BY <1>1, <1>2

LEMMA InitImplements == Init => Lifecycle!Init
BY DEF Init, Lifecycle!Init, PlanOf, Ending, Of

\* A step that leaves the rows of all other chamas alone, and gives chama c
\* the row t only, changes the plan and the end of c only.
LEMMA OneChamaChanges ==
  ASSUME RowsInv, RowsInv', NEW c \in Chamas,
         NEW t \in [by : Requests, chama : Chamas, plan : ActivePlans,
                    customer : CustomerIds, ending : BOOLEAN],
         Of(c)' = {t},
         \A d \in Chamas \ {c} : Of(d)' = Of(d)
  PROVE  /\ PlanOf' = [PlanOf EXCEPT ![c] = t.plan]
         /\ Ending' = IF t.ending THEN Ending \cup {c} ELSE Ending \ {c}
<1>1. PlanIsItsRow /\ PlanIsItsRow'
  BY PlanOfRow, PTL DEF RowsInv
<1>2. PlanOf'[c] = t.plan
  BY <1>1 DEF PlanIsItsRow
<1>3. ASSUME NEW d \in Chamas \ {c}
      PROVE  PlanOf'[d] = PlanOf[d]
  BY <1>1, Of(d) = {} \/ \E s \in Of(d) : TRUE DEF PlanIsItsRow
<1>4. PlanOf \in [Chamas -> {PlanOf[d] : d \in Chamas}] /\ PlanOf' = [d \in Chamas |-> PlanOf'[d]]
  BY DEF PlanOf
<1>5. PlanOf' = [PlanOf EXCEPT ![c] = t.plan]
  BY <1>2, <1>3, <1>4
<1>6. Ending' = IF t.ending THEN Ending \cup {c} ELSE Ending \ {c}
  BY DEF Ending
<1>7. QED
  BY <1>5, <1>6

LEMMA NextImplements ==
  ASSUME RowsInv, [Next]_vars
  PROVE  [Lifecycle!Next]_Lifecycle!vars
<1> USE BillingAssumption DEF RowsInv, Typed
<1>1. RowsInv'
  BY NextRows
<1>2. CASE UNCHANGED subscriptions
  BY <1>2 DEF Lifecycle!vars, PlanOf, Ending, Of
<1>3. CASE Rewritten
  <2>a. PICK s \in subscriptions :
               \E t : Changed(s, t) /\ subscriptions' = (subscriptions \ {s}) \cup {t}
    BY <1>3 DEF Rewritten
  <2>1. PICK t : Changed(s, t) /\ subscriptions' = (subscriptions \ {s}) \cup {t}
    BY <2>a
  <2>2. s.chama \in Chamas /\ s.plan \in ActivePlans /\ s \in Of(s.chama)
    BY DEF TypeOK, Of
  <2>3. Of(s.chama)' = {t} /\ \A d \in Chamas \ {s.chama} : Of(d)' = Of(d)
    BY <2>1 DEF Of, OnePerChama, Changed
  <2>4. PlanOf[s.chama] # NoPlan
    BY <2>2, PlanOfRow DEF PlanIsItsRow
  <2>5. t.plan \in ActivePlans /\ t.ending \in BOOLEAN
    BY <2>1 DEF Changed
  <2>6. /\ PlanOf' = [PlanOf EXCEPT ![s.chama] = t.plan]
        /\ Ending' = IF t.ending THEN Ending \cup {s.chama} ELSE Ending \ {s.chama}
    BY <1>1, <2>1, <2>2, <2>3, OneChamaChanges DEF Changed
  <2>7. QED
    BY <2>2, <2>4, <2>5, <2>6 DEF Lifecycle!Next, Lifecycle!Change
<1>4. ASSUME NEW c \in Chamas, Of(c) = {},
             NEW row \in [by : Requests, chama : Chamas, plan : ActivePlans,
                          customer : CustomerIds, ending : BOOLEAN],
             row.chama = c, row.ending = FALSE,
             subscriptions' = subscriptions \cup {row}
      PROVE  Lifecycle!Subscribe(c)
  <2>1. Of(c)' = {row} /\ \A d \in Chamas \ {c} : Of(d)' = Of(d)
    BY <1>4 DEF Of
  <2>2. PlanOf[c] = NoPlan
    BY <1>4, PlanOfRow DEF PlanIsItsRow
  <2>3. /\ PlanOf' = [PlanOf EXCEPT ![c] = row.plan]
        /\ Ending' = Ending \ {c}
    BY <1>1, <1>4, <2>1, OneChamaChanges
  <2>4. c \notin Ending
    BY <1>4 DEF Ending
  <2>5. QED
    BY <2>2, <2>3, <2>4 DEF Lifecycle!Subscribe
<1>5. ASSUME NEW r \in Requests, Inserts(r)
      PROVE  Lifecycle!Next
  <2> DEFINE row == Row(r, asked[r].chama, asked[r].plan, given[r])
  <2>1. asked[r].chama \in Chamas /\ asked[r].plan \in ActivePlans /\ given[r] \in CustomerIds
    BY <1>5 DEF Inserts, TypeOK, Consistent, Asked, CustomerIds
  <2>2. /\ row \in [by : Requests, chama : Chamas, plan : ActivePlans,
                   customer : CustomerIds, ending : BOOLEAN]
        /\ row.chama = asked[r].chama /\ row.ending = FALSE
    BY <2>1 DEF Row
  <2>3. Of(asked[r].chama) = {} /\ subscriptions' = subscriptions \cup {row}
    BY <1>5, <2>2 DEF Inserts, Clashes, Of
  <2> HIDE DEF row
  <2>4. QED
    BY <1>4, <2>1, <2>2, <2>3 DEF Lifecycle!Next
<1>6. ASSUME NEW r \in Requests, NEW c \in Chamas, NEW p \in Plans, SubscribeInTestMode(r, c, p)
      PROVE  Lifecycle!Next
  <2> DEFINE row == Row(r, c, p, c)
  <2>1. p \in ActivePlans /\ c \in CustomerIds /\ Of(c) = {}
    BY <1>6 DEF SubscribeInTestMode, CustomerIds
  <2>2. /\ row \in [by : Requests, chama : Chamas, plan : ActivePlans,
                   customer : CustomerIds, ending : BOOLEAN]
        /\ row.chama = c /\ row.ending = FALSE
    BY <2>1 DEF Row
  <2>3. subscriptions' = subscriptions \cup {row}
    BY <1>6 DEF SubscribeInTestMode
  <2> HIDE DEF row
  <2>4. QED
    BY <1>4, <2>1, <2>2, <2>3 DEF Lifecycle!Next
<1>7. QED
  BY <1>2, <1>3, <1>5, <1>6, TableEffects

\* Billing keeps what it promises of a chama's subscription: of the requests
\* that found none and then waited for the provider, one at most subscribes it.
THEOREM SubscriptionImplemented == Spec => ImplementsSubscription
BY RowsInvariant, InitImplements, NextImplements, PTL
   DEF Spec, ImplementsSubscription, Lifecycle!Spec

-----------------------------------------------------------------------------
(* Payments and answers *)

\* No step takes a row away from its request, its chama or its customer.
RowsStay ==
  \A s \in subscriptions : \E t \in subscriptions' :
    t.by = s.by /\ t.chama = s.chama /\ t.customer = s.customer

LEMMA StepsKeepRows ==
  ASSUME Typed, [Next]_vars
  PROVE  RowsStay
<1>1. CASE UNCHANGED subscriptions
  BY <1>1 DEF RowsStay
<1>2. CASE Rewritten
  BY <1>2 DEF Rewritten, Changed, RowsStay
<1>3. ASSUME NEW r \in Requests, Inserts(r)
      PROVE  RowsStay
  BY <1>3 DEF Inserts, RowsStay
<1>4. ASSUME NEW r \in Requests, NEW c \in Chamas, NEW p \in Plans, SubscribeInTestMode(r, c, p)
      PROVE  RowsStay
  BY <1>4 DEF SubscribeInTestMode, RowsStay
<1>5. QED
  BY <1>1, <1>2, <1>3, <1>4, TableEffects

\* A chama is subscribed already when the provider is asked for a transaction.
PaysSubscribed ==
  \A r \in Requests : Asked(r) /\ asked[r].plan = NoPlan => Of(asked[r].chama) # {}

LEMMA NextPaysSubscribed ==
  ASSUME Typed, PaysSubscribed, [Next]_vars
  PROVE  PaysSubscribed'
<1> USE BillingAssumption DEF Typed
<1>1. RowsStay
  BY StepsKeepRows
<1>2. \A c \in Chamas : Of(c) # {} => Of(c)' # {}
  BY <1>1 DEF RowsStay, Of
<1>3. CASE UNCHANGED asked
  BY <1>2, <1>3 DEF PaysSubscribed, Asked, TypeOK
<1>4. ASSUME NEW r \in Requests, NEW c \in Chamas, NEW p \in Plans, AskForCustomer(r, c, p)
      PROVE  PaysSubscribed'
  BY <1>2, <1>4 DEF AskForCustomer, Await, PaysSubscribed, Asked, TypeOK
<1>5. ASSUME NEW r \in Requests, NEW c \in Chamas, AskForTransaction(r, c)
      PROVE  PaysSubscribed'
  BY <1>2, <1>5 DEF AskForTransaction, Await, PaysSubscribed, Asked, TypeOK
<1>6. ASSUME NEW r \in Requests,
             \/ Quick(r) \/ Manages(r) \/ Inserts(r) \/ Clashed(r) \/ CallFails(r)
             \/ AnswerPayment(r) \/ ProviderRegisters(r) \/ ProviderInitialises(r)
      PROVE  UNCHANGED asked
  BY <1>6 DEF Quick, AtOnce, Manages, CommitAtOnce, Inserts, Clashed, CallFails,
              AnswerPayment, ProviderRegisters, ProviderInitialises
<1>7. ASSUME NEW r \in Requests, NEW c \in Chamas,
             AddPaymentMethod(r, c) \/ \E p \in Plans : SubscribeInTestMode(r, c, p)
      PROVE  UNCHANGED asked
  BY <1>7 DEF AddPaymentMethod, SubscribeInTestMode, CommitAtOnce
<1>8. CASE ServerCrash \/ UNCHANGED vars
  BY <1>3, <1>8 DEF ServerCrash, vars
<1>9. ASSUME NEW r \in Requests, Effect(r)
      PROVE  PaysSubscribed'
  BY <1>3, <1>4, <1>5, <1>6, <1>7, <1>9 DEF Effect
<1>10. QED
  BY <1>3, <1>8, <1>9, StepEffects

\* How a request comes to its end: by an action of its own, or with the server.
Ends(r) ==
  \/ Quick(r) \/ Manages(r) \/ Inserts(r) \/ Clashed(r) \/ CallFails(r)
  \/ AnswerPayment(r) \/ ServerCrash
  \/ \E c \in Chamas : AddPaymentMethod(r, c) \/ \E p \in Plans : SubscribeInTestMode(r, c, p)

LEMMA HowRequestsEnd ==
  ASSUME Typed, [Next]_vars, NEW r \in Requests, pc[r] # "done", pc'[r] = "done"
  PROVE  Ends(r)
<1> USE DEF Typed
<1>1. ASSUME NEW q \in Requests, Effect(q), ~Ends(q)
      PROVE  \/ UNCHANGED pc
             \/ pc' = [pc EXCEPT ![q] = "subscribing"] \/ pc' = [pc EXCEPT ![q] = "paying"]
  BY <1>1 DEF Effect, Ends, AskForCustomer, AskForTransaction, Await, ProviderRegisters,
              ProviderInitialises
<1>2. ASSUME NEW q \in Requests, Effect(q), Ends(q), q # r
      PROVE  pc'[r] = pc[r] \/ ServerCrash
  <2>1. CASE ServerCrash
    BY <2>1
  <2>2. CASE \E what \in {"ok", "conflict", "not_found", "refused", "error"} : Answer(q, what)
    BY <1>2, <2>2 DEF Answer, TypeOK
  <2>3. ASSUME Quick(q) \/ Clashed(q) \/ CallFails(q) \/ AnswerPayment(q)
        PROVE  \E what \in {"ok", "conflict", "not_found", "refused", "error"} : Answer(q, what)
    BY <2>3 DEF Quick, AtOnce, Clashed, CallFails, AnswerPayment
  <2>4. ASSUME NEW c \in Chamas,
               AddPaymentMethod(q, c) \/ \E p \in Plans : SubscribeInTestMode(q, c, p)
        PROVE  \E what \in {"ok", "conflict", "not_found", "refused", "error"} : Answer(q, what)
    BY <2>4 DEF AddPaymentMethod, SubscribeInTestMode, CommitAtOnce, Committed
  <2>5. CASE Manages(q) \/ Inserts(q)
    BY <2>2, <2>5 DEF Manages, Inserts, CommitAtOnce, Committed
  <2>6. QED
    BY <1>2, <2>1, <2>2, <2>3, <2>4, <2>5 DEF Ends
<1>3. CASE UNCHANGED vars
  BY <1>3 DEF vars
<1>4. CASE ServerCrash
  BY <1>4 DEF Ends
<1>5. ASSUME NEW q \in Requests, Effect(q)
      PROVE  Ends(r)
  <2>1. CASE ~Ends(q)
    BY <1>1, <1>5, <2>1 DEF TypeOK
  <2>2. CASE Ends(q) /\ q # r
    BY <1>2, <1>4, <1>5, <2>2
  <2>3. QED
    BY <2>1, <2>2
<1>6. QED
  BY <1>3, <1>4, <1>5, StepEffects

\* A row that is new was written in this step, by a request that was not over.
LEMMA NewRowsBy ==
  ASSUME Typed, [Next]_vars, NEW t \in subscriptions'
  PROVE  (\E s \in subscriptions : s.by = t.by) \/ pc[t.by] # "done"
<1>1. CASE UNCHANGED subscriptions
  BY <1>1
<1>2. CASE Rewritten
  BY <1>2 DEF Rewritten, Changed
<1>3. ASSUME NEW r \in Requests, Inserts(r)
      PROVE  (\E s \in subscriptions : s.by = t.by) \/ pc[t.by] # "done"
  BY <1>3 DEF Inserts, Row
<1>4. ASSUME NEW r \in Requests, NEW c \in Chamas, NEW p \in Plans, SubscribeInTestMode(r, c, p)
      PROVE  (\E s \in subscriptions : s.by = t.by) \/ pc[t.by] # "done"
  BY <1>4 DEF SubscribeInTestMode, CommitAtOnce, Row
<1>5. QED
  BY <1>1, <1>2, <1>3, <1>4, TableEffects

\* A request for a subscription that was not cut off was given a customer, and
\* there is a subscription of its chama or of that customer.
Served ==
  \A r \in Requests :
    pc[r] = "done" /\ asked[r].plan # NoPlan /\ r \notin failed =>
      /\ given[r] # NoCustomer
      /\ \E s \in subscriptions : s.chama = asked[r].chama \/ s.customer = given[r]

AnswerInv == RowsInv /\ AnswersTellTheTruth /\ Served

LEMMA InitAnswer == Init => AnswerInv
<1>1. Init => AnswersTellTheTruth /\ Served
  BY DEF Init, AnswersTellTheTruth, Served
<1>2. QED
  BY <1>1, InitRows DEF AnswerInv

\* What AnswersTellTheTruth and Served say of a request.
Truthful(r) ==
  /\ pc[r] = "done" /\ asked[r].plan # NoPlan /\ answer[r] = "ok" =>
       \E s \in subscriptions : s.by = r
  /\ r \notin failed /\ answer[r] # "ok" => \A s \in subscriptions : s.by # r
  /\ pc[r] = "done" /\ asked[r].plan # NoPlan /\ r \notin failed =>
       /\ given[r] # NoCustomer
       /\ \E s \in subscriptions : s.chama = asked[r].chama \/ s.customer = given[r]

\* A request that ends does so truthfully.
LEMMA EndsTruthfully ==
  ASSUME RowsInv, RowsInv', NEW r \in Requests, pc[r] # "done", Ends(r)
  PROVE  Truthful(r)'
<1> USE BillingAssumption DEF RowsInv, Typed
<1>1. \A s \in subscriptions : s.by # r
  BY DEF Written
<1>2. CASE Quick(r) \/ CallFails(r)
  <2>1. UNCHANGED subscriptions /\ (asked'[r].plan = NoPlan \/ r \in failed') /\ answer'[r] # "ok"
    BY <1>2 DEF Quick, AtOnce, CallFails, Answer, TypeOK, Consistent, database
  <2>2. QED
    BY <1>1, <2>1 DEF Truthful
<1>3. CASE Clashed(r)
  <2>1. given[r] # NoCustomer /\ Clashes(Row(r, asked[r].chama, asked[r].plan, given[r]))
    BY <1>3 DEF Clashed
  <2>2. \E s \in subscriptions : s.chama = asked[r].chama \/ s.customer = given[r]
    BY <2>1 DEF Clashes, Row
  <2>3. UNCHANGED <<subscriptions, asked, given>> /\ answer'[r] # "ok"
    BY <1>3 DEF Clashed, Answer, TypeOK, database, provider
  <2>4. QED
    BY <1>1, <2>1, <2>2, <2>3 DEF Truthful
<1>4. CASE Inserts(r)
  <2> DEFINE row == Row(r, asked[r].chama, asked[r].plan, given[r])
  <2>1. row.by = r /\ row.chama = asked[r].chama
    BY DEF Row
  <2>2. row \in subscriptions' /\ given'[r] # NoCustomer /\ UNCHANGED asked
    BY <1>4 DEF Inserts, provider
  <2>3. answer'[r] = "ok" \/ r \in failed'
    BY <1>4 DEF Inserts, Committed, Answer, TypeOK
  <2> HIDE DEF row
  <2>4. QED
    BY <2>1, <2>2, <2>3 DEF Truthful
<1>5. CASE Manages(r)
  <2>1. asked'[r].plan = NoPlan
    BY <1>5 DEF Manages, CommitAtOnce, Consistent
  <2>2. answer'[r] = "ok" \/ r \in failed'
    BY <1>5 DEF Manages, CommitAtOnce, Committed, Answer, TypeOK
  <2>3. QED
    BY <2>1, <2>2 DEF Truthful
<1>6. ASSUME NEW c \in Chamas,
             AddPaymentMethod(r, c) \/ \E p \in Plans : SubscribeInTestMode(r, c, p)
      PROVE  Truthful(r)'
  <2>1. asked'[r].plan = NoPlan
    BY <1>6 DEF AddPaymentMethod, SubscribeInTestMode, CommitAtOnce, Consistent
  <2>2. answer'[r] = "ok" \/ r \in failed'
    BY <1>6 DEF AddPaymentMethod, SubscribeInTestMode, CommitAtOnce, Committed, Answer, TypeOK
  <2>3. QED
    BY <2>1, <2>2 DEF Truthful
<1>7. CASE AnswerPayment(r)
  <2>1. asked'[r].plan = NoPlan /\ answer'[r] = "ok"
    BY <1>7 DEF AnswerPayment, Answer, Consistent, TypeOK
  <2>2. QED
    BY <2>1 DEF Truthful
<1>8. CASE ServerCrash
  <2>1. UNCHANGED <<subscriptions, asked>> /\ (pc[r] = "new" => pc'[r] = "new")
    BY <1>8 DEF ServerCrash, TypeOK, database
  <2>2. pc'[r] = "done" => r \in failed'
    BY <1>8 DEF ServerCrash, TypeOK
  <2>3. answer'[r] # "ok"
    BY <1>8 DEF ServerCrash, Consistent
  <2>4. QED
    BY <1>1, <2>1, <2>2, <2>3 DEF Truthful
<1>9. QED
  BY <1>2, <1>3, <1>4, <1>5, <1>6, <1>7, <1>8 DEF Ends

LEMMA NextAnswer == AnswerInv /\ [Next]_vars => AnswerInv'
<1> SUFFICES ASSUME AnswerInv, [Next]_vars, NEW r \in Requests
             PROVE  Truthful(r)'
  BY NextRows DEF AnswerInv, AnswersTellTheTruth, Served, Truthful
<1> USE BillingAssumption DEF AnswerInv, RowsInv, Typed
<1>1. Steady /\ RowsStay /\ RowsInv'
  BY StepsSteady, StepsKeepRows, NextRows
<1>2. CASE pc[r] = "done"
  <2>1. Truthful(r)
    BY DEF AnswersTellTheTruth, Served, Truthful
  <2>2. pc'[r] = "done" /\ answer'[r] = answer[r] /\ asked'[r] = asked[r] /\ failed \subseteq failed'
        /\ (given[r] # NoCustomer => given'[r] = given[r])
    BY <1>1, <1>2 DEF Steady
  <2>3. (\A s \in subscriptions : s.by # r) => \A t \in subscriptions' : t.by # r
    BY <1>2, NewRowsBy
  <2>4. QED
    <3>1. \A s \in subscriptions : \E t \in subscriptions' :
            t.by = s.by /\ t.chama = s.chama /\ t.customer = s.customer
      BY <1>1 DEF RowsStay
    <3>2. asked[r].plan # NoPlan /\ answer[r] = "ok" => \E t \in subscriptions' : t.by = r
      BY <1>2, <2>1, <3>1 DEF Truthful
    <3>3. asked[r].plan # NoPlan /\ r \notin failed =>
            /\ given[r] # NoCustomer
            /\ \E t \in subscriptions' : t.chama = asked[r].chama \/ t.customer = given[r]
      BY <1>2, <2>1, <3>1 DEF Truthful
    <3>4. r \notin failed /\ answer[r] # "ok" => \A t \in subscriptions' : t.by # r
      BY <2>1, <2>3 DEF Truthful
    <3>5. QED
      BY <2>2, <3>2, <3>3, <3>4 DEF Truthful
<1>3. CASE pc'[r] # "done"
  BY <1>1, <1>3 DEF Truthful, Written
<1>4. CASE pc[r] # "done" /\ pc'[r] = "done"
  BY <1>1, <1>4, HowRequestsEnd, EndsTruthfully
<1>5. QED
  BY <1>2, <1>3, <1>4

LEMMA AnswerInvariant == Spec => []AnswerInv
BY InitAnswer, NextAnswer, PTL DEF Spec

\* Who is told "ok" subscribed; who is told anything else, or nothing, did
\* not, and no customer was registered in vain: unless the request was cut off
\* in mid-call.
THEOREM RecordsAlwaysAgree == Spec => []RecordsAgree
<1>1. AnswerInv => AnswersTellTheTruth
  BY DEF AnswerInv
<1>2. AnswerInv => CustomersServe
  BY DEF AnswerInv, RowsInv, Typed, Consistent, Served, CustomersServe
<1>3. QED
  BY <1>1, <1>2, AnswerInvariant, PTL DEF RecordsAgree

-----------------------------------------------------------------------------
(* Payment methods *)

DefaultsOf(c) == {m \in methods : m.chama = c /\ m.default}

MethodsInv ==
  /\ Typed
  /\ IsFiniteSet(methods)
  /\ \A m \in methods : \E n : DefaultsOf(m.chama) = {n}

LEMMA NextMethods == MethodsInv /\ [Next]_vars => MethodsInv'
<1> SUFFICES ASSUME MethodsInv, [Next]_vars
             PROVE  (IsFiniteSet(methods) /\ \A m \in methods : \E n : DefaultsOf(m.chama) = {n})'
  BY NextTyped DEF MethodsInv
<1> USE DEF MethodsInv, Typed
<1>1. CASE UNCHANGED methods
  BY <1>1 DEF DefaultsOf
<1>2. ASSUME NEW r \in Requests, NEW c \in Chamas, AddPaymentMethod(r, c)
      PROVE  (IsFiniteSet(methods) /\ \A m \in methods : \E n : DefaultsOf(m.chama) = {n})'
  <2> DEFINE existing == {m \in methods : m.chama = c}
             first == Cardinality(existing) = 0
             new == [by |-> r, chama |-> c, default |-> first]
  <2>1. methods' = methods \cup {new}
    BY <1>2 DEF AddPaymentMethod
  <2>2. IsFiniteSet(methods')
    BY <2>1, FS_AddElement
  <2>3. first <=> existing = {}
    BY FS_Subset, FS_EmptySet
  <2>4. new.chama = c /\ (new.default <=> first)
    OBVIOUS
  <2>5. \A d : d # c => DefaultsOf(d)' = DefaultsOf(d)
    <3> HIDE DEF new
    <3>1. QED
      BY <2>1, <2>4 DEF DefaultsOf
  <2>6. \E n : DefaultsOf(c)' = {n}
    <3>1. CASE first
      <4>1. existing = {}
        BY <2>3, <3>1
      <4> HIDE DEF new, first
      <4>2. DefaultsOf(c)' = {new}
        BY <2>1, <2>4, <3>1, <4>1 DEF DefaultsOf
      <4>3. QED
        BY <4>2
    <3>2. CASE ~first
      <4>1. \E n : DefaultsOf(c) = {n}
        BY <2>3, <3>2
      <4> HIDE DEF new, first
      <4>2. DefaultsOf(c)' = DefaultsOf(c)
        BY <2>1, <2>4, <3>2 DEF DefaultsOf
      <4>3. QED
        BY <4>1, <4>2
    <3>3. QED
      BY <3>1, <3>2
  <2> HIDE DEF new
  <2>7. ASSUME NEW m \in methods'
        PROVE  \E n : DefaultsOf(m.chama)' = {n}
    <3>1. CASE m.chama = c
      BY <2>6, <3>1
    <3>2. CASE m.chama # c
      <4>1. m \in methods
        BY <2>1, <2>4, <3>2
      <4>2. QED
        BY <2>5, <3>2, <4>1
    <3>3. QED
      BY <3>1, <3>2
  <2>8. QED
    BY <2>2, <2>7 DEF DefaultsOf
<1>3. ASSUME NEW r \in Requests, Effect(r), ~(\E c \in Chamas : AddPaymentMethod(r, c))
      PROVE  UNCHANGED methods
  BY <1>3 DEF Effect, Quick, Manages, Inserts, Clashed, CallFails, AskForCustomer, Await,
     SubscribeInTestMode, AskForTransaction, AnswerPayment, ProviderRegisters,
     ProviderInitialises, database
<1>4. CASE ServerCrash \/ UNCHANGED vars
  BY <1>1, <1>4 DEF ServerCrash, vars, database
<1>5. QED
  BY <1>1, <1>2, <1>3, <1>4, StepEffects

\* The provider takes payments for subscribed chamas only, however late, and a
\* chama that has payment methods has one default, however many are added.
THEOREM PaymentsForSubscribed == Spec => []PaymentsBacked
<1>1. Init => MethodsInv /\ PaysSubscribed
  BY InitTyped, FS_EmptySet DEF Init, MethodsInv, PaysSubscribed, Asked
<1>2. MethodsInv => OneDefault
  <2> SUFFICES ASSUME MethodsInv, NEW m \in methods
               PROVE  Cardinality({n \in methods : n.chama = m.chama /\ n.default}) = 1
    BY DEF OneDefault
  <2>1. PICK n : DefaultsOf(m.chama) = {n}
    BY DEF MethodsInv
  <2>2. Cardinality({n}) = 1
    BY FS_Singleton
  <2>3. QED
    BY <2>1, <2>2 DEF DefaultsOf
<1>3. MethodsInv /\ PaysSubscribed => PaymentsBacked
  BY <1>2 DEF MethodsInv, Typed, Consistent, TypeOK, PaysSubscribed, PaymentsBacked
<1>4. MethodsInv /\ PaysSubscribed /\ [Next]_vars => PaysSubscribed'
  BY NextPaysSubscribed DEF MethodsInv
<1>5. QED
  BY <1>1, <1>3, <1>4, NextMethods, PTL DEF Spec
=============================================================================
