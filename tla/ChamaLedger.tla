----------------------------- MODULE ChamaLedger -----------------------------
(***************************************************************************)
(* Users, chamas, memberships and contributions, and the requests that     *)
(* write them: backend/routers/users.py, chamas.py and members.py with     *)
(* backend/crud.py.                                                        *)
(*                                                                         *)
(* The endpoints are synchronous functions, so each request is a thread    *)
(* with a session of its own.  A query and a commit are a step each:       *)
(* between the query that looks for a row and the commit that adds it,     *)
(* other requests run.  The only constraints the database keeps are those  *)
(* of backend/models: unique emails, unique chama names and, when          *)
(* EnforcesForeignKeys, references to existing rows.                       *)
(*                                                                         *)
(* A request is handled once; a client that repeats it sends another one.  *)
(* It adds at most one membership or contribution, so the request names    *)
(* that row.                                                               *)
(***************************************************************************)
EXTENDS FiniteSets

CONSTANTS
  Users,                \* a user stands for the email address, which is unique
  Chamas,               \* a chama stands for its name, which is unique
  Requests,
  Registered,           \* the users registered from the start, with their roles
  EnforcesForeignKeys,  \* TRUE for PostgreSQL, FALSE for SQLite
  Nobody, NoRequest, NoRow

Roles == {"owner", "treasurer", "member"}

ASSUME LedgerAssumption ==
  /\ Registered \in [Users -> Roles \cup {Nobody}]
  /\ EnforcesForeignKeys \in BOOLEAN
  /\ Nobody \notin Users \cup Roles

VARIABLES
  role,           \* public.users: the global role, Nobody if not registered
  creator,        \* public.chamas: created_by_user_id, Nobody if no such row
  memberships,    \* public.memberships
  contributions,  \* contributions
  published,      \* every message handed to the Celery broker
  request,        \* what each request asks for
  pc,             \* its next step
  held,           \* the membership row its role check returned
  reply,          \* its answer
  raced           \* history: pairs two requests were adding at once

db == <<role, creator, memberships, contributions>>
vars == <<db, published, request, pc, held, reply, raced>>

Membership == [by : Requests, user : Users, chama : Chamas, role : Roles]
Contribution == [by : Requests, membership : Requests]
Message == [task : {"notify_member_added", "notify_contribution_created",
                    "recompute_chama_summaries"}, cause : Requests]

Operation ==
  [op : {"register"}, user : Users, role : Roles]
  \cup [op : {"create", "join", "contribute"}, user : Users, chama : Chamas]
  \cup [op : {"add"}, user : Users, chama : Chamas, target : Users]

Steps ==
  {"new", "find_user", "insert_user", "insert_chama", "setup", "insert_owner",
   "check_role", "find_member", "insert_member", "insert_contribution",
   "notify", "recompute", "respond", "done"}

-----------------------------------------------------------------------------
Op(r) == request[r].op

\* The user and chama of the membership a request is about to add.
Subject(r) == IF Op(r) = "add" THEN request[r].target ELSE request[r].user
Pair(r) == <<Subject(r), request[r].chama>>

RowsOf(u, c) == {m \in memberships : m.user = u /\ m.chama = c}

\* A request that found no row for its pair, or that creates the chama, and
\* has not added the row yet.
Adding(r, pair) ==
  /\ pc[r] \in {"insert_member", "setup", "insert_owner"}
  /\ Pair(r) = pair

StartAdding(r) ==
  raced' = IF \E s \in Requests : Adding(s, Pair(r))
           THEN raced \cup {Pair(r)} ELSE raced

\* Mutant: every role may add members and record contributions.
OfficersAnyRole(r) == Roles

Officers(r) == IF Op(r) = "add" THEN {"owner"} ELSE {"owner", "treasurer"}

Init ==
  /\ role = Registered
  /\ creator = [c \in Chamas |-> Nobody]
  /\ memberships = {} /\ contributions = {} /\ published = {} /\ raced = {}
  /\ request = [r \in Requests |-> NoRequest]
  /\ pc = [r \in Requests |-> "new"]
  /\ held = [r \in Requests |-> NoRow]
  /\ reply = [r \in Requests |-> "none"]

Goto(r, step) == pc' = [pc EXCEPT ![r] = step]

Answer(r, status) ==
  /\ Goto(r, "done")
  /\ reply' = [reply EXCEPT ![r] = status]

-----------------------------------------------------------------------------
FirstStep(operation) ==
  CASE operation.op = "register" -> "find_user"
    [] operation.op = "create" -> "insert_chama"
    [] operation.op = "join" -> "find_member"
    [] operation.op \in {"add", "contribute"} -> "check_role"

\* Everything but registering needs the token of a registered user.
Receive(r, operation) ==
  /\ pc[r] = "new"
  /\ operation.op = "register" \/ role[operation.user] # Nobody
  /\ request' = [request EXCEPT ![r] = operation]
  /\ Goto(r, FirstStep(operation))
  /\ UNCHANGED <<db, published, held, reply, raced>>

-----------------------------------------------------------------------------
(* register_user *)

FindUser(r) ==
  /\ pc[r] = "find_user"
  /\ IF role[request[r].user] = Nobody
     THEN Goto(r, "insert_user") /\ UNCHANGED reply
     ELSE Answer(r, "refused")
  /\ UNCHANGED <<db, published, request, held, raced>>

\* The unique email raises IntegrityError, which is answered 400.
InsertUser(r) ==
  /\ pc[r] = "insert_user"
  /\ IF role[request[r].user] = Nobody
     THEN /\ role' = [role EXCEPT ![request[r].user] = request[r].role]
          /\ Goto(r, "respond") /\ UNCHANGED reply
     ELSE Answer(r, "refused") /\ UNCHANGED role
  /\ UNCHANGED <<creator, memberships, contributions, published, request, held, raced>>

-----------------------------------------------------------------------------
(* create_new_chama *)

InsertChama(r) ==
  /\ pc[r] = "insert_chama"
  /\ IF creator[request[r].chama] = Nobody
     THEN /\ creator' = [creator EXCEPT ![request[r].chama] = request[r].user]
          /\ StartAdding(r)
          /\ Goto(r, "setup") /\ UNCHANGED reply
     ELSE Answer(r, "refused") /\ UNCHANGED <<creator, raced>>
  /\ UNCHANGED <<role, memberships, contributions, published, request, held>>

\* setup_tenant_database returns; DatabaseError stands for its raising.
\* TenantProvisioning is the detail of both.
SetupTenant(r) ==
  /\ pc[r] = "setup"
  /\ Goto(r, "insert_owner")
  /\ UNCHANGED <<db, published, request, held, reply, raced>>

AddMembership(r, as) ==
  memberships' = memberships \cup
    {[by |-> r, user |-> Subject(r), chama |-> request[r].chama, role |-> as]}

InsertOwner(r) ==
  /\ pc[r] = "insert_owner"
  /\ AddMembership(r, "owner")
  /\ Goto(r, "respond")
  /\ UNCHANGED <<role, creator, contributions, published, request, held, reply, raced>>

-----------------------------------------------------------------------------
(* join_chama, add_member_by_owner *)

\* require_chama_role takes the first matching row of an unordered query.
CheckRole(r) ==
  /\ pc[r] = "check_role"
  /\ LET rows == RowsOf(request[r].user, request[r].chama) IN
     \/ /\ rows = {}
        /\ Answer(r, "refused") /\ UNCHANGED held
     \/ \E m \in rows :
          IF m.role \in Officers(r)
          THEN /\ held' = [held EXCEPT ![r] = m]
               /\ Goto(r, IF Op(r) = "add" THEN "find_member" ELSE "insert_contribution")
               /\ UNCHANGED reply
          ELSE Answer(r, "refused") /\ UNCHANGED held
  /\ UNCHANGED <<db, published, request, raced>>

\* Mutant: the user is not looked for.
FindMemberUnregistered(r) ==
  /\ pc[r] = "find_member"
  /\ IF RowsOf(Subject(r), request[r].chama) = {}
     THEN StartAdding(r) /\ Goto(r, "insert_member") /\ UNCHANGED reply
     ELSE Answer(r, "refused") /\ UNCHANGED raced
  /\ UNCHANGED <<db, published, request, held>>

\* Mutant: the existing membership is not looked for.
FindMemberTwice(r) ==
  /\ pc[r] = "find_member"
  /\ IF role[Subject(r)] # Nobody
     THEN StartAdding(r) /\ Goto(r, "insert_member") /\ UNCHANGED reply
     ELSE Answer(r, "refused") /\ UNCHANGED raced
  /\ UNCHANGED <<db, published, request, held>>

\* The user named in the request must exist and have no membership yet.
FindMember(r) ==
  /\ pc[r] = "find_member"
  /\ IF role[Subject(r)] # Nobody /\ RowsOf(Subject(r), request[r].chama) = {}
     THEN StartAdding(r) /\ Goto(r, "insert_member") /\ UNCHANGED reply
     ELSE Answer(r, "refused") /\ UNCHANGED raced
  /\ UNCHANGED <<db, published, request, held>>

\* No constraint on (user_id, chama_id) stops a second row.  An added
\* member's role in the chama is the role the user registered with.
InsertMember(r) ==
  /\ pc[r] = "insert_member"
  /\ IF EnforcesForeignKeys => creator[request[r].chama] # Nobody
     THEN /\ AddMembership(r, IF Op(r) = "add" THEN role[Subject(r)] ELSE "member")
          /\ Goto(r, IF Op(r) = "add" THEN "notify" ELSE "respond")
          /\ UNCHANGED reply
     ELSE Answer(r, "refused") /\ UNCHANGED memberships
  /\ UNCHANGED <<role, creator, contributions, published, request, held, raced>>

-----------------------------------------------------------------------------
(* add_contribution *)

InsertContribution(r) ==
  /\ pc[r] = "insert_contribution"
  /\ contributions' = contributions \cup {[by |-> r, membership |-> held[r].by]}
  /\ Goto(r, "notify")
  /\ UNCHANGED <<role, creator, memberships, published, request, held, reply, raced>>

-----------------------------------------------------------------------------
(* The .delay calls after the commit *)

NotifyTask(r) ==
  IF Op(r) = "add" THEN "notify_member_added" ELSE "notify_contribution_created"
Task(r) == IF pc[r] = "notify" THEN NotifyTask(r) ELSE "recompute_chama_summaries"

Publish(r) ==
  /\ pc[r] \in {"notify", "recompute"}
  /\ published' = published \cup {[task |-> Task(r), cause |-> r]}
  /\ Goto(r, IF pc[r] = "notify" /\ Op(r) = "contribute" THEN "recompute" ELSE "respond")
  /\ UNCHANGED <<db, request, held, reply, raced>>

\* Mutant: a failure to publish is logged and ignored.
BrokerErrorIgnored(r) ==
  /\ pc[r] \in {"notify", "recompute"}
  /\ Goto(r, "respond")
  /\ UNCHANGED <<db, published, request, held, reply, raced>>

\* The broker accepted the message, or did not, and the call raises.
BrokerError(r) ==
  /\ pc[r] \in {"notify", "recompute"}
  /\ published' \in {published, published \cup {[task |-> Task(r), cause |-> r]}}
  /\ Answer(r, "error")
  /\ UNCHANGED <<db, request, held, raced>>

Respond(r) ==
  /\ pc[r] = "respond"
  /\ Answer(r, "created")
  /\ UNCHANGED <<db, published, request, held, raced>>

-----------------------------------------------------------------------------
InProgress(r) == pc[r] \notin {"new", "done"}

\* Any query, commit or refresh may raise: the request is answered 500 and
\* what it has already committed stays.
DatabaseError(r) ==
  /\ InProgress(r)
  /\ Answer(r, "error")
  /\ UNCHANGED <<db, published, request, held, raced>>

\* The server dies and is restarted: its requests are lost.
ServerCrash ==
  /\ pc' = [r \in Requests |-> IF InProgress(r) THEN "done" ELSE pc[r]]
  /\ reply' = [r \in Requests |-> IF InProgress(r) THEN "error" ELSE reply[r]]
  /\ UNCHANGED <<db, published, request, held, raced>>

-----------------------------------------------------------------------------
Step(r) ==
  \/ \E operation \in Operation : Receive(r, operation)
  \/ FindUser(r) \/ InsertUser(r)
  \/ InsertChama(r) \/ SetupTenant(r) \/ InsertOwner(r)
  \/ CheckRole(r) \/ FindMember(r) \/ InsertMember(r)
  \/ InsertContribution(r)
  \/ Publish(r) \/ BrokerError(r) \/ Respond(r)
  \/ DatabaseError(r)

\* The service never stops, also when the instance has no request left.
Next == ServerCrash \/ \E r \in Requests : Step(r)

Spec == Init /\ [][Next]_vars

-----------------------------------------------------------------------------
(* Properties *)

TypeOK ==
  /\ role \in [Users -> Roles \cup {Nobody}]
  /\ creator \in [Chamas -> Users \cup {Nobody}]
  /\ memberships \subseteq Membership
  /\ contributions \subseteq Contribution
  /\ published \subseteq Message
  /\ request \in [Requests -> Operation \cup {NoRequest}]
  /\ pc \in [Requests -> Steps]
  /\ held \in [Requests -> Membership \cup {NoRow}]
  /\ reply \in [Requests -> {"none", "created", "refused", "error"}]
  /\ raced \subseteq Users \X Chamas

\* "User is already a member of this chama" (exceptions.py): one membership
\* per user and chama.
NoDuplicateMembership ==
  \A m, n \in memberships : m.user = n.user /\ m.chama = n.chama => m = n

\* Where the database enforces its foreign keys a second membership is the
\* work of requests that overlapped: between the query of one and its commit
\* another was adding the same pair.  Requests one after the other never
\* make one, whatever their kinds, failures and crashes.
DuplicatesOnlyFromRaces ==
  EnforcesForeignKeys =>
    \A m, n \in memberships :
      m.user = n.user /\ m.chama = n.chama /\ <<m.user, m.chama>> \notin raced => m = n

HasOwner(c) ==
  \E m \in memberships : m.chama = c /\ m.user = creator[c] /\ m.role = "owner"

\* A contribution is credited to the membership of the user and chama its
\* request named, and that membership is an owner's or a treasurer's.
ContributionsByOfficers ==
  \A k \in contributions :
    \E m \in memberships :
      /\ m.by = k.membership /\ m.role \in {"owner", "treasurer"}
      /\ m.user = request[k.by].user /\ m.chama = request[k.by].chama

\* Every officer of a chama, and with the officers every contribution, goes
\* back to the owner its creation recorded: a chama whose creation stopped
\* short of that has plain members for ever and never a contribution.
AuthorityFromOwner ==
  /\ \A m \in memberships : m.role # "member" => HasOwner(m.chama)
  /\ ContributionsByOfficers

\* No message is ahead of the data it is about: when a worker can receive
\* it, the row that caused it is committed.
MessagesAfterCommit ==
  \A msg \in published :
    IF msg.task = "notify_member_added"
    THEN \E m \in memberships : m.by = msg.cause
    ELSE \E k \in contributions : k.by = msg.cause

\* What a request is to write, and the tasks it is to trigger.
Recorded(r) ==
  CASE Op(r) = "register" -> role[request[r].user] # Nobody
    [] Op(r) = "contribute" -> \E k \in contributions : k.by = r
    [] OTHER -> \E m \in memberships : m.by = r /\ m.user = Subject(r)
TasksOf(r) ==
  CASE Op(r) = "contribute" -> {"notify_contribution_created", "recompute_chama_summaries"}
    [] Op(r) = "add" -> {"notify_member_added"}
    [] OTHER -> {}
Announced(r) == \A t \in TasksOf(r) : [task |-> t, cause |-> r] \in published

\* Nobody is told of anything too soon.  A message is about a committed row;
\* an answer 201 means that the row is committed and every task it triggers
\* with the broker.  The failures are on the other side: recorded, not
\* announced, answered 500.
CommittedBeforeTold ==
  /\ MessagesAfterCommit
  /\ \A r \in Requests : reply[r] = "created" => Recorded(r) /\ Announced(r)
=============================================================================
