-------------------------- MODULE ChamaLedger_proofs --------------------------
(***************************************************************************)
(* Theorems about ChamaLedger, for any users, chamas and requests.         *)
(*                                                                         *)
(* The inductive invariant says what a request knows at each of its steps: *)
(* which operation it carries (Shaped), what the row its role check        *)
(* returned is still good for (Credited), that the rows it has not added   *)
(* yet are missing (Fresh), and what it has recorded and announced (Kept). *)
(***************************************************************************)
EXTENDS ChamaLedger, TLAPS

OpsAt(step) ==
  CASE step \in {"find_user", "insert_user"} -> {"register"}
    [] step \in {"insert_chama", "setup", "insert_owner"} -> {"create"}
    [] step = "check_role" -> {"add", "contribute"}
    [] step \in {"find_member", "insert_member"} -> {"join", "add"}
    [] step \in {"insert_contribution", "recompute"} -> {"contribute"}
    [] step = "notify" -> {"add", "contribute"}
    [] OTHER -> {"register", "create", "join", "add", "contribute"}

\* A request at work carries an operation its step belongs to, for users
\* that are registered.
Shaped ==
  \A r \in Requests : pc[r] # "new" =>
    /\ request[r] \in Operation /\ Op(r) \in OpsAt(pc[r])
    /\ Op(r) # "register" => role[request[r].user] # Nobody
    /\ pc[r] = "insert_member" => role[Subject(r)] # Nobody
    /\ pc[r] = "insert_contribution" => held[r] \in Membership

Typed == TypeOK /\ Shaped

LEMMA OperationFields ==
  ASSUME NEW o \in Operation
  PROVE  /\ o.op \in {"register", "create", "join", "add", "contribute"}
         /\ o.user \in Users
         /\ o.op = "register" => o.role \in Roles
         /\ o.op # "register" => o.chama \in Chamas
         /\ o.op = "add" => o.target \in Users
  BY DEF Operation

LEMMA InitTyped == Init => Typed
  BY LedgerAssumption DEF Init, Typed, TypeOK, Shaped, Steps

LEMMA StepTyped == Typed /\ [Next]_vars => Typed'
<1> SUFFICES ASSUME Typed, [Next]_vars PROVE Typed'
  OBVIOUS
<1> USE DEF Typed, TypeOK, Shaped, Steps, Subject, db, Op, Goto, Answer
<1>1. ASSUME NEW r \in Requests, NEW o \in Operation, Receive(r, o) PROVE Typed'
  BY <1>1, OperationFields DEF Receive, FirstStep, OpsAt
<1>2. ASSUME NEW r \in Requests, FindUser(r) PROVE Typed'
  BY <1>2 DEF FindUser, OpsAt
<1>3. ASSUME NEW r \in Requests, InsertUser(r) PROVE Typed'
  BY <1>3, OperationFields, LedgerAssumption DEF InsertUser, OpsAt
<1>4. ASSUME NEW r \in Requests, InsertChama(r) PROVE Typed'
  BY <1>4, OperationFields DEF InsertChama, OpsAt, StartAdding, Pair
<1>5. ASSUME NEW r \in Requests, SetupTenant(r) PROVE Typed'
  BY <1>5 DEF SetupTenant, OpsAt
<1>6. ASSUME NEW r \in Requests, InsertOwner(r) PROVE Typed'
  BY <1>6, OperationFields DEF InsertOwner, AddMembership, Membership, OpsAt, Roles
<1>7. ASSUME NEW r \in Requests, CheckRole(r) PROVE Typed'
  BY <1>7 DEF CheckRole, RowsOf, OpsAt
<1>8. ASSUME NEW r \in Requests, FindMember(r) PROVE Typed'
  BY <1>8, OperationFields DEF FindMember, StartAdding, Pair, OpsAt
<1>9. ASSUME NEW r \in Requests, InsertMember(r) PROVE Typed'
  BY <1>9, OperationFields DEF InsertMember, AddMembership, Membership, OpsAt, Roles
<1>10. ASSUME NEW r \in Requests, InsertContribution(r) PROVE Typed'
  BY <1>10 DEF InsertContribution, Contribution, Membership, OpsAt
<1>11. ASSUME NEW r \in Requests, Publish(r) PROVE Typed'
  BY <1>11 DEF Publish, Message, Task, NotifyTask, OpsAt
<1>12. ASSUME NEW r \in Requests, BrokerError(r) PROVE Typed'
  BY <1>12 DEF BrokerError, Message, Task, NotifyTask, OpsAt
<1>13. ASSUME NEW r \in Requests, Respond(r) PROVE Typed'
  BY <1>13 DEF Respond, OpsAt
<1>14. ASSUME NEW r \in Requests, DatabaseError(r) PROVE Typed'
  BY <1>14 DEF DatabaseError, InProgress, OpsAt
<1>15. CASE ServerCrash
  BY <1>15 DEF ServerCrash, InProgress, OpsAt
<1>16. CASE UNCHANGED vars
  BY <1>16 DEF vars
<1>17. QED
  BY <1>1, <1>2, <1>3, <1>4, <1>5, <1>6, <1>7, <1>8, <1>9, <1>10, <1>11, <1>12,
     <1>13, <1>14, <1>15, <1>16 DEF Next, Step

\* Every state the ledger reaches is well typed, whatever its constants.
THEOREM TypeCorrect == Spec => []TypeOK
<1>1. Spec => []Typed
  BY InitTyped, StepTyped, PTL DEF Spec
<1>2. QED
  BY <1>1, PTL DEF Typed

-----------------------------------------------------------------------------
(* Each row is written by one request, at one of its steps. *)

Identified ==
  /\ \A m \in memberships :
       pc[m.by] \in {"notify", "respond", "done"} /\ Op(m.by) # "contribute"
  /\ \A m, n \in memberships : m.by = n.by => m = n
  /\ \A k \in contributions : pc[k.by] # "new"

LEMMA InitIdentified == Init => Identified
  BY DEF Init, Identified

LEMMA StepIdentified == Typed /\ Identified /\ [Next]_vars => Identified'
<1> SUFFICES ASSUME Typed, Identified, [Next]_vars PROVE Identified'
  OBVIOUS
<1>0. /\ pc \in [Requests -> Steps]
      /\ request \in [Requests -> Operation \cup {NoRequest}]
      /\ memberships \subseteq Membership /\ contributions \subseteq Contribution
      /\ \A r \in Requests : pc[r] # "new" => Op(r) \in OpsAt(pc[r])
  BY DEF Typed, TypeOK, Shaped
<1> USE <1>0 DEF Identified, Membership, Contribution, Op, db, Goto, Answer
<1>1. ASSUME NEW r \in Requests, NEW o \in Operation, Receive(r, o) PROVE Identified'
  BY <1>1 DEF Receive
<1>2. ASSUME NEW r \in Requests, FindUser(r) PROVE Identified'
  BY <1>2 DEF FindUser
<1>3. ASSUME NEW r \in Requests, InsertUser(r) PROVE Identified'
  BY <1>3 DEF InsertUser
<1>4. ASSUME NEW r \in Requests, InsertChama(r) PROVE Identified'
  BY <1>4 DEF InsertChama
<1>5. ASSUME NEW r \in Requests, SetupTenant(r) PROVE Identified'
  BY <1>5 DEF SetupTenant
<1>6. ASSUME NEW r \in Requests, InsertOwner(r) PROVE Identified'
  BY <1>6 DEF InsertOwner, AddMembership, OpsAt
<1>7. ASSUME NEW r \in Requests, CheckRole(r) PROVE Identified'
  BY <1>7 DEF CheckRole
<1>8. ASSUME NEW r \in Requests, FindMember(r) PROVE Identified'
  BY <1>8 DEF FindMember
<1>9. ASSUME NEW r \in Requests, InsertMember(r) PROVE Identified'
  BY <1>9 DEF InsertMember, AddMembership, OpsAt
<1>10. ASSUME NEW r \in Requests, InsertContribution(r) PROVE Identified'
  BY <1>10 DEF InsertContribution
<1>11. ASSUME NEW r \in Requests, Publish(r) PROVE Identified'
  BY <1>11 DEF Publish
<1>12. ASSUME NEW r \in Requests, BrokerError(r) PROVE Identified'
  BY <1>12 DEF BrokerError
<1>13. ASSUME NEW r \in Requests, Respond(r) PROVE Identified'
  BY <1>13 DEF Respond
<1>14. ASSUME NEW r \in Requests, DatabaseError(r) PROVE Identified'
  BY <1>14 DEF DatabaseError, InProgress
<1>15. CASE ServerCrash
  BY <1>15 DEF ServerCrash, InProgress
<1>16. CASE UNCHANGED vars
  BY <1>16 DEF vars
<1>17. QED
  BY <1>1, <1>2, <1>3, <1>4, <1>5, <1>6, <1>7, <1>8, <1>9, <1>10, <1>11, <1>12,
     <1>13, <1>14, <1>15, <1>16 DEF Next, Step

-----------------------------------------------------------------------------
(* Officers and contributions go back to the owner's row. *)

LEMMA LedgerGrows ==
  ASSUME Typed, [Next]_vars
  PROVE  /\ memberships \subseteq memberships'
         /\ \A c \in Chamas : creator[c] # Nobody => creator'[c] = creator[c]
         /\ \A r \in Requests : pc[r] # "new" => request'[r] = request[r]
<1> USE DEF Typed, TypeOK, db
<1>1. ASSUME NEW r \in Requests, Step(r)
      PROVE  /\ memberships \subseteq memberships'
             /\ \A c \in Chamas : creator[c] # Nobody => creator'[c] = creator[c]
             /\ \A s \in Requests : pc[s] # "new" => request'[s] = request[s]
  BY <1>1 DEF Step, Receive, FindUser, InsertUser, InsertChama, SetupTenant,
     InsertOwner, CheckRole, FindMember, InsertMember, InsertContribution, Publish,
     BrokerError, Respond, DatabaseError, AddMembership
<1>2. QED
  BY <1>1 DEF Next, ServerCrash, vars

LEMMA OwnerStays ==
  ASSUME Typed, [Next]_vars, NEW c \in Chamas, HasOwner(c)
  PROVE  HasOwner(c)'
  BY LedgerGrows, LedgerAssumption DEF HasOwner, Typed, TypeOK, Membership

Vouched ==
  /\ \A m \in memberships : m.role # "member" => HasOwner(m.chama)
  /\ \A r \in Requests :
       /\ pc[r] \in {"find_member", "insert_member"} /\ Op(r) = "add"
            => HasOwner(request[r].chama)
       /\ pc[r] \in {"setup", "insert_owner"}
            => creator[request[r].chama] = request[r].user

LEMMA InitVouched == Init => Vouched
  BY DEF Init, Vouched

LEMMA StepVouched == Typed /\ Vouched /\ [Next]_vars => Vouched'
<1> SUFFICES ASSUME Typed, Vouched, [Next]_vars PROVE Vouched'
  OBVIOUS
<1>0. /\ pc \in [Requests -> Steps]
      /\ creator \in [Chamas -> Users \cup {Nobody}]
      /\ request \in [Requests -> Operation \cup {NoRequest}]
      /\ memberships \subseteq Membership
      /\ \A r \in Requests : pc[r] # "new" =>
           request[r] \in Operation /\ Op(r) \in OpsAt(pc[r])
  BY DEF Typed, TypeOK, Shaped
\* What an unchanged row or request relies on still holds.
<1>a. \A m \in memberships : m.role # "member" => HasOwner(m.chama)'
  BY <1>0, OwnerStays DEF Vouched, Membership
<1>b. \A r \in Requests :
        /\ pc[r] \in {"find_member", "insert_member"} /\ Op(r) = "add"
             => HasOwner(request[r].chama)'
        /\ pc[r] \in {"setup", "insert_owner"}
             => creator'[request[r].chama] = request[r].user
  <2> TAKE r \in Requests
  <2> SUFFICES ASSUME pc[r] \in {"find_member", "insert_member", "setup", "insert_owner"}
               PROVE  /\ pc[r] \in {"find_member", "insert_member"} /\ Op(r) = "add"
                           => HasOwner(request[r].chama)'
                      /\ pc[r] \in {"setup", "insert_owner"}
                           => creator'[request[r].chama] = request[r].user
    OBVIOUS
  <2>1. request[r] \in Operation /\ Op(r) # "register"
    BY <1>0 DEF OpsAt
  <2>2. request[r].chama \in Chamas /\ request[r].user \in Users
    BY <2>1, OperationFields DEF Op
  <2>3. ASSUME HasOwner(request[r].chama) PROVE HasOwner(request[r].chama)'
    <3>1. PICK c \in Chamas : c = request[r].chama
      BY <2>2
    <3>2. HasOwner(c)'
      BY <2>3, <3>1, OwnerStays
    <3>3. QED
      BY <3>1, <3>2, LedgerGrows
  <2>4. QED
    BY <2>2, <2>3, LedgerGrows, LedgerAssumption DEF Vouched
<1> USE <1>0, <1>a, <1>b DEF Op, db, Goto, Answer
<1>1. ASSUME NEW r \in Requests, NEW o \in Operation, Receive(r, o) PROVE Vouched'
  BY <1>1, OperationFields DEF Receive, FirstStep, Vouched
<1>2. ASSUME NEW r \in Requests, FindUser(r) \/ InsertUser(r) PROVE Vouched'
  BY <1>2 DEF FindUser, InsertUser, Vouched
<1>4. ASSUME NEW r \in Requests, InsertChama(r) PROVE Vouched'
  BY <1>4, OperationFields DEF InsertChama, Vouched, OpsAt
<1>5. ASSUME NEW r \in Requests, SetupTenant(r) PROVE Vouched'
  BY <1>5 DEF SetupTenant, Vouched
<1>6. ASSUME NEW r \in Requests, InsertOwner(r) PROVE Vouched'
  <2>1. HasOwner(request[r].chama)'
    BY <1>6 DEF InsertOwner, AddMembership, HasOwner, OpsAt, Subject
  <2>2. QED
    BY <2>1, <1>6 DEF InsertOwner, AddMembership, Vouched
<1>7. ASSUME NEW r \in Requests, CheckRole(r) PROVE Vouched'
  BY <1>7 DEF CheckRole, RowsOf, Officers, OpsAt, Vouched
<1>8. ASSUME NEW r \in Requests, FindMember(r) PROVE Vouched'
  BY <1>8 DEF FindMember, Vouched
<1>9. ASSUME NEW r \in Requests, InsertMember(r) PROVE Vouched'
  BY <1>9 DEF InsertMember, AddMembership, Vouched
<1>10. ASSUME NEW r \in Requests, InsertContribution(r) PROVE Vouched'
  BY <1>10 DEF InsertContribution, Vouched
<1>11. ASSUME NEW r \in Requests, Publish(r) PROVE Vouched'
  BY <1>11 DEF Publish, Vouched
<1>12. ASSUME NEW r \in Requests, BrokerError(r) PROVE Vouched'
  BY <1>12 DEF BrokerError, Vouched
<1>13. ASSUME NEW r \in Requests, Respond(r) \/ DatabaseError(r) PROVE Vouched'
  BY <1>13 DEF Respond, DatabaseError, InProgress, Vouched
<1>15. CASE ServerCrash
  BY <1>15 DEF ServerCrash, InProgress, Vouched
<1>16. CASE UNCHANGED vars
  BY <1>16 DEF vars, Vouched
<1>17. QED
  BY <1>1, <1>2, <1>4, <1>5, <1>6, <1>7, <1>8, <1>9, <1>10, <1>11, <1>12, <1>13,
     <1>15, <1>16 DEF Next, Step

Credited ==
  /\ ContributionsByOfficers
  /\ \A r \in Requests : pc[r] = "insert_contribution" =>
       /\ held[r] \in memberships /\ held[r].role \in {"owner", "treasurer"}
       /\ held[r].user = request[r].user /\ held[r].chama = request[r].chama

LEMMA InitCredited == Init => Credited
  BY DEF Init, Credited, ContributionsByOfficers

LEMMA StepCredited == Typed /\ Identified /\ Credited /\ [Next]_vars => Credited'
<1> SUFFICES ASSUME Typed, Identified, Credited, [Next]_vars PROVE Credited'
  OBVIOUS
<1>0. /\ pc \in [Requests -> Steps]
      /\ request \in [Requests -> Operation \cup {NoRequest}]
      /\ held \in [Requests -> Membership \cup {NoRow}]
      /\ contributions \subseteq Contribution
      /\ memberships \subseteq memberships'
      /\ \A r \in Requests : pc[r] # "new" => Op(r) \in OpsAt(pc[r])
      /\ \A k \in contributions : pc[k.by] # "new"
  BY LedgerGrows DEF Typed, TypeOK, Shaped, Identified
<1> USE <1>0 DEF Credited, ContributionsByOfficers, Contribution, Op, db, Goto, Answer
<1>1. ASSUME NEW r \in Requests, NEW o \in Operation, Receive(r, o) PROVE Credited'
  BY <1>1, OperationFields DEF Receive, FirstStep
<1>2. ASSUME NEW r \in Requests, FindUser(r) \/ InsertUser(r) PROVE Credited'
  BY <1>2 DEF FindUser, InsertUser
<1>4. ASSUME NEW r \in Requests, InsertChama(r) \/ SetupTenant(r) PROVE Credited'
  BY <1>4 DEF InsertChama, SetupTenant
<1>6. ASSUME NEW r \in Requests, InsertOwner(r) PROVE Credited'
  BY <1>6 DEF InsertOwner
<1>7. ASSUME NEW r \in Requests, CheckRole(r) PROVE Credited'
  BY <1>7 DEF CheckRole, RowsOf, Officers, OpsAt
<1>8. ASSUME NEW r \in Requests, FindMember(r) PROVE Credited'
  BY <1>8 DEF FindMember
<1>9. ASSUME NEW r \in Requests, InsertMember(r) PROVE Credited'
  BY <1>9 DEF InsertMember
<1>10. ASSUME NEW r \in Requests, InsertContribution(r) PROVE Credited'
  BY <1>10 DEF InsertContribution
<1>11. ASSUME NEW r \in Requests, Publish(r) PROVE Credited'
  BY <1>11 DEF Publish
<1>12. ASSUME NEW r \in Requests, BrokerError(r) PROVE Credited'
  BY <1>12 DEF BrokerError
<1>13. ASSUME NEW r \in Requests, Respond(r) \/ DatabaseError(r) PROVE Credited'
  BY <1>13 DEF Respond, DatabaseError, InProgress
<1>15. CASE ServerCrash
  BY <1>15 DEF ServerCrash, InProgress
<1>16. CASE UNCHANGED vars
  BY <1>16 DEF vars
<1>17. QED
  BY <1>1, <1>2, <1>4, <1>6, <1>7, <1>8, <1>9, <1>10, <1>11, <1>12, <1>13,
     <1>15, <1>16 DEF Next, Step

\* Officers and contributions exist only in chamas whose creation recorded
\* its owner, and a contribution is credited to the membership of the officer
\* that asked for it.
THEOREM OfficersVouched == Spec => []AuthorityFromOwner
<1>1. Spec => [](Typed /\ Identified /\ Vouched /\ Credited)
  BY InitTyped, StepTyped, InitIdentified, StepIdentified, InitVouched,
     StepVouched, InitCredited, StepCredited, PTL DEF Spec
<1>2. Vouched /\ Credited => AuthorityFromOwner
  BY DEF Vouched, Credited, AuthorityFromOwner
<1>3. QED
  BY <1>1, <1>2, PTL

-----------------------------------------------------------------------------
(* A second membership is the work of a race. *)

Fresh ==
  /\ \A m \in memberships : creator[m.chama] # Nobody
  /\ \A r \in Requests : Adding(r, Pair(r)) /\ Pair(r) \notin raced =>
       /\ \A m \in memberships : <<m.user, m.chama>> # Pair(r)
       /\ \A s \in Requests : Adding(s, Pair(r)) => s = r
  /\ \A m, n \in memberships :
       m.user = n.user /\ m.chama = n.chama /\ <<m.user, m.chama>> \notin raced => m = n

LEMMA InitFresh == Init => Fresh
  BY DEF Init, Fresh, Adding

LEMMA StepFresh ==
  EnforcesForeignKeys /\ Typed /\ Vouched /\ Fresh /\ [Next]_vars => Fresh'
<1> SUFFICES ASSUME EnforcesForeignKeys, Typed, Vouched, Fresh, [Next]_vars
             PROVE  Fresh'
  OBVIOUS
<1>0. /\ pc \in [Requests -> Steps]
      /\ creator \in [Chamas -> Users \cup {Nobody}]
      /\ request \in [Requests -> Operation \cup {NoRequest}]
      /\ memberships \subseteq Membership
      /\ \A r \in Requests : pc[r] # "new" =>
           request[r] \in Operation /\ Op(r) \in OpsAt(pc[r])
      /\ Nobody \notin Users
  BY LedgerAssumption DEF Typed, TypeOK, Shaped
<1> USE <1>0 DEF Fresh, Adding, Pair, Subject, Op, db, Goto, Answer
<1>1. ASSUME NEW r \in Requests, NEW o \in Operation, Receive(r, o) PROVE Fresh'
  BY <1>1, OperationFields DEF Receive, FirstStep
<1>2. ASSUME NEW r \in Requests, FindUser(r) \/ InsertUser(r) PROVE Fresh'
  BY <1>2 DEF FindUser, InsertUser
<1>4. ASSUME NEW r \in Requests, InsertChama(r) PROVE Fresh'
  BY <1>4, OperationFields DEF InsertChama, StartAdding, OpsAt, Membership
<1>5. ASSUME NEW r \in Requests, SetupTenant(r) PROVE Fresh'
  BY <1>5 DEF SetupTenant
<1>6. ASSUME NEW r \in Requests, InsertOwner(r) PROVE Fresh'
  BY <1>6, OperationFields DEF InsertOwner, AddMembership, Vouched, OpsAt, Membership
<1>7. ASSUME NEW r \in Requests, CheckRole(r) PROVE Fresh'
  BY <1>7 DEF CheckRole, Officers
<1>8. ASSUME NEW r \in Requests, FindMember(r) PROVE Fresh'
  BY <1>8 DEF FindMember, StartAdding, RowsOf
<1>9. ASSUME NEW r \in Requests, InsertMember(r) PROVE Fresh'
  BY <1>9 DEF InsertMember, AddMembership, Membership
<1>10. ASSUME NEW r \in Requests, InsertContribution(r) PROVE Fresh'
  BY <1>10 DEF InsertContribution
<1>11. ASSUME NEW r \in Requests, Publish(r) PROVE Fresh'
  BY <1>11 DEF Publish
<1>12. ASSUME NEW r \in Requests, BrokerError(r) PROVE Fresh'
  BY <1>12 DEF BrokerError
<1>13. ASSUME NEW r \in Requests, Respond(r) \/ DatabaseError(r) PROVE Fresh'
  BY <1>13 DEF Respond, DatabaseError, InProgress
<1>15. CASE ServerCrash
  BY <1>15 DEF ServerCrash, InProgress
<1>16. CASE UNCHANGED vars
  BY <1>16 DEF vars
<1>17. QED
  BY <1>1, <1>2, <1>4, <1>5, <1>6, <1>7, <1>8, <1>9, <1>10, <1>11, <1>12, <1>13,
     <1>15, <1>16 DEF Next, Step

\* With foreign keys enforced, only requests that overlapped leave a user
\* with two memberships of a chama.
THEOREM DuplicatesNeedRaces == Spec => []DuplicatesOnlyFromRaces
<1>1. CASE EnforcesForeignKeys
  <2>1. Spec => [](Typed /\ Vouched /\ Fresh)
    BY <1>1, InitTyped, StepTyped, InitVouched, StepVouched, InitFresh, StepFresh,
       PTL DEF Spec
  <2>2. Fresh => DuplicatesOnlyFromRaces
    BY DEF Fresh, DuplicatesOnlyFromRaces
  <2>3. QED
    BY <2>1, <2>2, PTL
<1>2. CASE ~EnforcesForeignKeys
  <2>1. DuplicatesOnlyFromRaces
    BY <1>2 DEF DuplicatesOnlyFromRaces
  <2>2. QED
    BY <2>1, PTL
<1>3. QED
  BY <1>1, <1>2

-----------------------------------------------------------------------------
(* Tasks are published after the commit of what they are about. *)

Committed ==
  /\ MessagesAfterCommit
  /\ \A r \in Requests :
       /\ pc[r] = "notify" /\ Op(r) = "add" => \E m \in memberships : m.by = r
       /\ pc[r] \in {"notify", "recompute"} /\ Op(r) = "contribute"
            => \E k \in contributions : k.by = r

LEMMA InitCommitted == Init => Committed
  BY DEF Init, Committed, MessagesAfterCommit

LEMMA StepCommitted == Typed /\ Committed /\ [Next]_vars => Committed'
<1> SUFFICES ASSUME Typed, Committed, [Next]_vars PROVE Committed'
  OBVIOUS
<1>0. /\ pc \in [Requests -> Steps]
      /\ request \in [Requests -> Operation \cup {NoRequest}]
      /\ published \subseteq Message
      /\ \A r \in Requests : pc[r] # "new" => Op(r) \in OpsAt(pc[r])
  BY DEF Typed, TypeOK, Shaped
<1> USE <1>0 DEF Committed, MessagesAfterCommit, Op, db, Goto, Answer
<1>1. ASSUME NEW r \in Requests, NEW o \in Operation, Receive(r, o) PROVE Committed'
  BY <1>1, OperationFields DEF Receive, FirstStep
<1>2. ASSUME NEW r \in Requests, FindUser(r) \/ InsertUser(r) PROVE Committed'
  BY <1>2 DEF FindUser, InsertUser
<1>4. ASSUME NEW r \in Requests, InsertChama(r) \/ SetupTenant(r) PROVE Committed'
  BY <1>4 DEF InsertChama, SetupTenant
<1>6. ASSUME NEW r \in Requests, InsertOwner(r) PROVE Committed'
  BY <1>6 DEF InsertOwner, AddMembership
<1>7. ASSUME NEW r \in Requests, CheckRole(r) PROVE Committed'
  BY <1>7 DEF CheckRole
<1>8. ASSUME NEW r \in Requests, FindMember(r) PROVE Committed'
  BY <1>8 DEF FindMember
<1>9. ASSUME NEW r \in Requests, InsertMember(r) PROVE Committed'
  <2> DEFINE as == IF Op(r) = "add" THEN role[Subject(r)] ELSE "member"
             row == [by |-> r, user |-> Subject(r), chama |-> request[r].chama, role |-> as]
  <2>1. /\ memberships \subseteq memberships' /\ Op(r) # "contribute"
        /\ pc'[r] = "notify" => row \in memberships'
    BY <1>9 DEF InsertMember, AddMembership, OpsAt
  <2>2. /\ UNCHANGED <<contributions, published, request>>
        /\ \A s \in Requests \ {r} : pc'[s] = pc[s]
    BY <1>9 DEF InsertMember
  <2>3. row.by = r
    OBVIOUS
  <2> HIDE DEF row
  <2>4. QED
    BY <2>1, <2>2, <2>3
<1>10. ASSUME NEW r \in Requests, InsertContribution(r) PROVE Committed'
  <2> DEFINE row == [by |-> r, membership |-> held[r].by]
  <2>1. /\ contributions \subseteq contributions' /\ Op(r) = "contribute"
        /\ row \in contributions'
    BY <1>10 DEF InsertContribution, OpsAt
  <2>2. /\ UNCHANGED <<memberships, published, request>>
        /\ \A s \in Requests \ {r} : pc'[s] = pc[s]
    BY <1>10 DEF InsertContribution
  <2>3. row.by = r
    OBVIOUS
  <2> HIDE DEF row
  <2>4. QED
    BY <2>1, <2>2, <2>3
<1>11. ASSUME NEW r \in Requests, Publish(r) PROVE Committed'
  BY <1>11 DEF Publish, Task, NotifyTask, OpsAt
<1>12. ASSUME NEW r \in Requests, BrokerError(r) PROVE Committed'
  BY <1>12 DEF BrokerError, Task, NotifyTask, OpsAt
<1>13. ASSUME NEW r \in Requests, Respond(r) \/ DatabaseError(r) PROVE Committed'
  BY <1>13 DEF Respond, DatabaseError, InProgress
<1>15. CASE ServerCrash
  BY <1>15 DEF ServerCrash, InProgress
<1>16. CASE UNCHANGED vars
  BY <1>16 DEF vars
<1>17. QED
  BY <1>1, <1>2, <1>4, <1>6, <1>7, <1>8, <1>9, <1>10, <1>11, <1>12, <1>13,
     <1>15, <1>16 DEF Next, Step

\* How far a request has come with what its answer will say.
Kept(r) ==
  /\ pc[r] \in {"notify", "recompute", "respond"} => Recorded(r)
  /\ pc[r] = "recompute" => [task |-> "notify_contribution_created", cause |-> r] \in published
  /\ pc[r] = "respond" => Announced(r)
  /\ reply[r] # "none" => pc[r] = "done"
  /\ reply[r] = "created" => Recorded(r) /\ Announced(r)

AllKept == \A r \in Requests : Kept(r)

LEMMA InitKept == Init => AllKept
  BY DEF Init, AllKept, Kept

\* What is recorded stays recorded, and what is announced announced.
LEMMA RecordsStay ==
  ASSUME Typed, [Next]_vars, NEW r \in Requests, pc[r] # "new"
  PROVE  (Recorded(r) => Recorded(r)') /\ (Announced(r) => Announced(r)')
<1>1. /\ memberships \subseteq memberships' /\ request'[r] = request[r]
  BY LedgerGrows
<1>2. /\ contributions \subseteq contributions' /\ published \subseteq published'
      /\ \A u \in Users : role[u] # Nobody => role'[u] # Nobody
  <2>1. ASSUME NEW s \in Requests, Step(s)
        PROVE  /\ contributions \subseteq contributions' /\ published \subseteq published'
               /\ \A u \in Users : role[u] # Nobody => role'[u] # Nobody
    BY <2>1 DEF Step, Receive, FindUser, InsertUser, InsertChama, SetupTenant,
       InsertOwner, CheckRole, FindMember, InsertMember, InsertContribution, Publish,
       BrokerError, Respond, DatabaseError, db, Typed, TypeOK
  <2>2. QED
    BY <2>1 DEF Next, ServerCrash, vars, db
<1>3. request[r].user \in Users
  BY OperationFields DEF Typed, Shaped
<1>4. Recorded(r) => Recorded(r)'
  BY <1>1, <1>2, <1>3 DEF Recorded, Op, Subject
<1>5. Announced(r) => Announced(r)'
  BY <1>1, <1>2 DEF Announced, TasksOf, Op
<1>6. QED
  BY <1>4, <1>5

\* A step that moves one request leaves the others as far as they were.
LEMMA OthersKept ==
  ASSUME Typed, [Next]_vars, AllKept, NEW s \in Requests,
         pc'[s] = pc[s], reply'[s] = reply[s]
  PROVE  Kept(s)'
<1>1. CASE pc[s] = "new"
  BY <1>1 DEF AllKept, Kept
<1>2. CASE pc[s] # "new"
  <2>1. published \subseteq published'
    <3>1. ASSUME NEW r \in Requests, Step(r) PROVE published \subseteq published'
      BY <3>1 DEF Step, Receive, FindUser, InsertUser, InsertChama, SetupTenant,
         InsertOwner, CheckRole, FindMember, InsertMember, InsertContribution, Publish,
         BrokerError, Respond, DatabaseError
    <3>2. QED
      BY <3>1 DEF Next, ServerCrash, vars
  <2>2. QED
    BY <1>2, <2>1, RecordsStay DEF AllKept, Kept
<1>3. QED
  BY <1>1, <1>2

LEMMA StepKept == Typed /\ AllKept /\ [Next]_vars => AllKept'
<1> SUFFICES ASSUME Typed, AllKept, [Next]_vars PROVE AllKept'
  OBVIOUS
<1>0. /\ pc \in [Requests -> Steps]
      /\ reply \in [Requests -> {"none", "created", "refused", "error"}]
      /\ \A r \in Requests : pc[r] # "new" =>
           request[r] \in Operation /\ Op(r) \in OpsAt(pc[r])
  BY DEF Typed, TypeOK, Shaped
<1>s. \A s \in Requests : pc'[s] = pc[s] /\ reply'[s] = reply[s] => Kept(s)'
  BY OthersKept
<1>k. \A r \in Requests : Kept(r)
  BY DEF AllKept
<1> USE <1>0, <1>k DEF Goto, Answer
\* One request moves, and is kept where it comes to.
<1>m. ASSUME NEW r \in Requests, Kept(r)',
             \A s \in Requests \ {r} : pc'[s] = pc[s] /\ reply'[s] = reply[s]
      PROVE  AllKept'
  BY <1>m, <1>s DEF AllKept
\* Where it stops short of an answer 201, nothing is promised.
<1>n. ASSUME NEW r \in Requests, reply'[r] # "created",
             reply'[r] # "none" => pc'[r] = "done",
             pc'[r] \notin {"notify", "recompute", "respond"}
      PROVE  Kept(r)'
  BY <1>n DEF Kept
<1>1. ASSUME NEW r \in Requests, NEW o \in Operation, Receive(r, o) PROVE AllKept'
  <2>1. FirstStep(o) \in {"find_user", "insert_chama", "find_member", "check_role"}
    BY OperationFields DEF FirstStep
  <2>2. reply'[r] = "none"
    BY <1>1 DEF Receive, Kept
  <2>3. Kept(r)'
    BY <1>1, <2>1, <2>2, <1>n DEF Receive
  <2>4. QED
    BY <1>1, <2>3, <1>m DEF Receive
<1>2. ASSUME NEW r \in Requests, FindUser(r) PROVE AllKept'
  <2>1. Kept(r)'
    BY <1>2, <1>n DEF FindUser, Kept
  <2>2. QED
    BY <1>2, <2>1, <1>m DEF FindUser
<1>3. ASSUME NEW r \in Requests, InsertUser(r) PROVE AllKept'
  <2>1. Op(r) = "register" /\ request[r].user \in Users /\ request[r].role \in Roles
    BY <1>3, OperationFields DEF InsertUser, OpsAt, Op
  <2>2. CASE role[request[r].user] = Nobody
    <3>1. Recorded(r)'
      BY <1>3, <2>1, <2>2, LedgerAssumption
         DEF InsertUser, Recorded, Op, Typed, TypeOK
    <3>2. Announced(r)'
      BY <1>3, <2>1, <2>2 DEF InsertUser, Announced, TasksOf, Op
    <3>3. pc'[r] = "respond" /\ reply'[r] = "none"
      BY <1>3, <2>2 DEF InsertUser, Kept
    <3>4. QED
      BY <1>3, <3>1, <3>2, <3>3, <1>m DEF InsertUser, Kept
  <2>3. CASE role[request[r].user] # Nobody
    BY <1>3, <2>3, <1>n, <1>m DEF InsertUser
  <2>4. QED
    BY <2>2, <2>3
<1>4. ASSUME NEW r \in Requests, InsertChama(r) PROVE AllKept'
  <2>1. Kept(r)'
    BY <1>4, <1>n DEF InsertChama, Kept
  <2>2. QED
    BY <1>4, <2>1, <1>m DEF InsertChama
<1>5. ASSUME NEW r \in Requests, SetupTenant(r) PROVE AllKept'
  <2>1. Kept(r)'
    BY <1>5, <1>n DEF SetupTenant, Kept
  <2>2. QED
    BY <1>5, <2>1, <1>m DEF SetupTenant
<1>6. ASSUME NEW r \in Requests, InsertOwner(r) PROVE AllKept'
  <2>1. Op(r) = "create" /\ request'[r] = request[r]
    BY <1>6 DEF InsertOwner, OpsAt
  <2> DEFINE row == [by |-> r, user |-> Subject(r), chama |-> request[r].chama,
                     role |-> "owner"]
  <2>2. row \in memberships' /\ row.by = r /\ row.user = Subject(r)
    BY <1>6 DEF InsertOwner, AddMembership
  <2>3. Recorded(r)'
    BY <2>1, <2>2 DEF Recorded, Op, Subject
  <2>4. Announced(r)'
    BY <2>1 DEF Announced, TasksOf, Op
  <2>5. pc'[r] = "respond" /\ reply'[r] = "none"
    BY <1>6 DEF InsertOwner, Kept
  <2>6. Kept(r)'
    BY <2>3, <2>4, <2>5 DEF Kept
  <2>7. QED
    BY <1>6, <2>6, <1>m DEF InsertOwner
<1>7. ASSUME NEW r \in Requests, CheckRole(r) PROVE AllKept'
  <2>1. Kept(r)'
    BY <1>7, <1>n DEF CheckRole, Kept
  <2>2. QED
    BY <1>7, <2>1, <1>m DEF CheckRole
<1>8. ASSUME NEW r \in Requests, FindMember(r) PROVE AllKept'
  <2>1. Kept(r)'
    BY <1>8, <1>n DEF FindMember, Kept
  <2>2. QED
    BY <1>8, <2>1, <1>m DEF FindMember
<1>9. ASSUME NEW r \in Requests, InsertMember(r) PROVE AllKept'
  <2>1. Op(r) \in {"join", "add"} /\ request'[r] = request[r] /\ reply[r] = "none"
    BY <1>9 DEF InsertMember, OpsAt, Kept
  <2>2. CASE EnforcesForeignKeys => creator[request[r].chama] # Nobody
    <3> DEFINE as == IF Op(r) = "add" THEN role[Subject(r)] ELSE "member"
               row == [by |-> r, user |-> Subject(r), chama |-> request[r].chama,
                       role |-> as]
    <3>1. row \in memberships' /\ row.by = r /\ row.user = Subject(r)
      BY <1>9, <2>2 DEF InsertMember, AddMembership
    <3>2. Recorded(r)'
      BY <2>1, <3>1 DEF Recorded, Op, Subject
    <3>3. /\ pc'[r] = IF Op(r) = "add" THEN "notify" ELSE "respond"
          /\ reply'[r] = "none"
      BY <1>9, <2>1, <2>2 DEF InsertMember
    <3>4. Op(r) = "join" => Announced(r)'
      BY <2>1 DEF Announced, TasksOf, Op
    <3>5. Kept(r)'
      BY <2>1, <3>2, <3>3, <3>4 DEF Kept
    <3>6. QED
      BY <1>9, <3>5, <1>m, <2>2 DEF InsertMember
  <2>3. CASE ~(EnforcesForeignKeys => creator[request[r].chama] # Nobody)
    BY <1>9, <2>3, <1>n, <1>m DEF InsertMember
  <2>4. QED
    BY <2>2, <2>3
<1>10. ASSUME NEW r \in Requests, InsertContribution(r) PROVE AllKept'
  <2>1. Op(r) = "contribute" /\ request'[r] = request[r]
    BY <1>10 DEF InsertContribution, OpsAt
  <2> DEFINE row == [by |-> r, membership |-> held[r].by]
  <2>2. row \in contributions' /\ row.by = r
    BY <1>10 DEF InsertContribution
  <2>3. Recorded(r)'
    BY <2>1, <2>2 DEF Recorded, Op
  <2>4. pc'[r] = "notify" /\ reply'[r] = "none"
    BY <1>10 DEF InsertContribution, Kept
  <2>5. Kept(r)'
    BY <2>3, <2>4 DEF Kept
  <2>6. QED
    BY <1>10, <2>5, <1>m DEF InsertContribution
<1>11. ASSUME NEW r \in Requests, Publish(r) PROVE AllKept'
  <2>1. /\ request'[r] = request[r] /\ pc[r] # "new" /\ Recorded(r) /\ reply'[r] = "none"
        /\ Op(r) \in {"add", "contribute"} /\ (pc[r] = "recompute" => Op(r) = "contribute")
    BY <1>11 DEF Publish, OpsAt, Kept
  <2>2. Recorded(r)'
    BY <2>1, RecordsStay
  <2>3. published \subseteq published' /\ [task |-> Task(r), cause |-> r] \in published'
    BY <1>11 DEF Publish
  <2>4. pc'[r] = IF pc[r] = "notify" /\ Op(r) = "contribute" THEN "recompute" ELSE "respond"
    BY <1>11 DEF Publish
  <2>5. pc'[r] = "recompute" =>
          [task |-> "notify_contribution_created", cause |-> r] \in published'
    BY <2>3, <2>4 DEF Task, NotifyTask
  <2>6. pc'[r] = "respond" => Announced(r)'
    <3>1. CASE Op(r) = "add"
      BY <1>11, <2>1, <2>3, <3>1 DEF Publish, Announced, TasksOf, Op, Task, NotifyTask
    <3>2. CASE Op(r) = "contribute"
      BY <1>11, <2>1, <2>3, <2>4, <3>2 DEF Publish, Announced, TasksOf, Op, Task, Kept
    <3>3. QED
      BY <2>1, <3>1, <3>2
  <2>7. Kept(r)'
    BY <2>1, <2>2, <2>4, <2>5, <2>6 DEF Kept
  <2>8. QED
    BY <1>11, <2>7, <1>m DEF Publish
<1>12. ASSUME NEW r \in Requests, BrokerError(r) PROVE AllKept'
  BY <1>12, <1>n, <1>m DEF BrokerError
<1>13. ASSUME NEW r \in Requests, Respond(r) PROVE AllKept'
  <2>1. pc[r] # "new" /\ Recorded(r) /\ Announced(r)
    BY <1>13 DEF Respond, Kept
  <2>2. Recorded(r)' /\ Announced(r)'
    BY <2>1, RecordsStay
  <2>3. pc'[r] = "done"
    BY <1>13 DEF Respond
  <2>4. Kept(r)'
    BY <2>2, <2>3 DEF Kept
  <2>5. QED
    BY <1>13, <2>4, <1>m DEF Respond
<1>14. ASSUME NEW r \in Requests, DatabaseError(r) PROVE AllKept'
  BY <1>14, <1>n, <1>m DEF DatabaseError
<1>15. CASE ServerCrash
  <2> SUFFICES ASSUME NEW r \in Requests PROVE Kept(r)'
    BY DEF AllKept
  <2>1. CASE InProgress(r)
    BY <1>15, <2>1, <1>n DEF ServerCrash
  <2>2. CASE ~InProgress(r)
    BY <1>15, <2>2, <1>s DEF ServerCrash
  <2>3. QED
    BY <2>1, <2>2
<1>16. CASE UNCHANGED vars
  BY <1>16, <1>s DEF vars, AllKept
<1>17. QED
  BY <1>1, <1>2, <1>3, <1>4, <1>5, <1>6, <1>7, <1>8, <1>9, <1>10, <1>11, <1>12,
     <1>13, <1>14, <1>15, <1>16 DEF Next, Step

\* No message is ahead of the row it is about, and no answer 201 ahead of
\* the row or of the messages it stands for.
THEOREM ToldWhenDone == Spec => []CommittedBeforeTold
<1>1. Spec => [](Typed /\ Committed /\ AllKept)
  BY InitTyped, StepTyped, InitCommitted, StepCommitted, InitKept, StepKept, PTL DEF Spec
<1>2. Committed /\ AllKept => CommittedBeforeTold
  BY DEF Committed, AllKept, Kept, CommittedBeforeTold
<1>3. QED
  BY <1>1, <1>2, PTL
=============================================================================
