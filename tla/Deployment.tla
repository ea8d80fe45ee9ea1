----------------------------- MODULE Deployment -----------------------------
(***************************************************************************)
(* Bringing the service up: containers that run "alembic upgrade head" and *)
(* then the API (docker-compose.prod.yml), operators who run Alembic by    *)
(* hand, and the scripts that seed the subscription plans.                 *)
(*                                                                         *)
(* Alembic reads the version, applies each revision's operations and       *)
(* stamps the version after each, in one transaction for all of them       *)
(* (alembic/env.py).  PostgreSQL's schema changes are transactional: they  *)
(* lock what they change until the commit, and an operation on something   *)
(* that another transaction has locked waits.                              *)
(***************************************************************************)
EXTENDS Integers, Sequences, FiniteSets

CONSTANTS
  Containers, Operators, Seeders,
  MaxCommands,   \* bound: the commands that operators run
  MaxFaults      \* bound: crashes

ASSUME DeploymentAssumption ==
  /\ Containers \cap Operators = {}
  /\ IsFiniteSet(Seeders) /\ MaxCommands \in Nat /\ MaxFaults \in Nat

Migrators == Containers \cup Operators

-----------------------------------------------------------------------------
(* The revisions (alembic/versions)                                        *)
(*                                                                         *)
(* An operation needs some objects and makes or drops others, failing if   *)
(* they are there already or not there; it settles others either way.      *)

Create(table, columns, references) ==
  [locks |-> {table} \cup references, needs |-> references,
   makes |-> {table} \cup columns, drops |-> {}, sets |-> {}, clears |-> {}]

Alter(table, references, added, dropped) ==
  [locks |-> {table} \cup references, needs |-> {table},
   makes |-> added, drops |-> dropped, sets |-> {}, clears |-> {}]

Drop(table, columns) ==
  [locks |-> {table}, needs |-> {},
   makes |-> {}, drops |-> {table} \cup columns, sets |-> {}, clears |-> {}]

\* ALTER COLUMN ... TYPE, and Enum.create and Enum.drop with checkfirst=True.
Retype(table, to, from) ==
  [locks |-> {table}, needs |-> {table},
   makes |-> {}, drops |-> {}, sets |-> {to}, clears |-> {from}]
Ensure(type) ==
  [locks |-> {type}, needs |-> {},
   makes |-> {}, drops |-> {}, sets |-> {type}, clears |-> {}]
Clear(type) ==
  [locks |-> {type}, needs |-> {},
   makes |-> {}, drops |-> {}, sets |-> {}, clears |-> {type}]

CreateInitialTables == <<
  Create("members", {}, {}), Create("users", {}, {}),
  Create("contributions", {"member_id"}, {"members"}) >>

ImplementChamas == <<
  Create("chamas", {}, {"users"}),
  Create("memberships", {"role_varchar"}, {"chamas", "users"}),
  Alter("contributions", {"members", "users", "chamas"},
        {"created_at", "user_id", "chama_id"}, {"member_id"}) >>

AddRole == <<
  Ensure("membershiprole"), Retype("memberships", "role_enum", "role_varchar") >>

\* Mutant: the type is created without checkfirst.
AddUserColumnsOnce == <<
  Create("userrole", {}, {}), Alter("users", {}, {"is_active", "user_role"}, {}) >>

AddUserColumns == <<
  Ensure("userrole"), Alter("users", {}, {"is_active", "user_role"}, {}) >>

AddUserNames == << Alter("users", {}, {"first_name", "last_name"}, {}) >>

Upgrade == <<CreateInitialTables, ImplementChamas, AddRole, AddUserColumns, AddUserNames>>
Latest == 5

\* What drop_constraint(None) would drop.
Nameless == "a constraint without a name"

DropInitialTables == <<
  Drop("contributions", {"member_id"}), Drop("users", {}), Drop("members", {}) >>

DropChamas == << Alter("contributions", {}, {"member_id"}, {Nameless}) >>

DropRole == <<
  Retype("memberships", "role_varchar", "role_enum"), Clear("membershiprole") >>

\* Mutant: is_active is forgotten.
DropUserRole == << Alter("users", {}, {}, {"user_role"}) >>

\* The type userrole is left behind.
DropUserColumns == << Alter("users", {}, {}, {"is_active", "user_role"}) >>

DropUserNames == << Alter("users", {}, {}, {"first_name", "last_name"}) >>

Downgrade == <<DropInitialTables, DropChamas, DropRole, DropUserColumns, DropUserNames>>
\* What each version is meant to hold.
When(condition, S) == IF condition THEN S ELSE {}
SchemaOf(v) ==
  When(v >= 1, {"members", "users", "contributions"}) \cup
  When(v = 1, {"member_id"}) \cup
  When(v >= 2, {"chamas", "memberships", "created_at", "user_id", "chama_id"}) \cup
  When(v = 2, {"role_varchar"}) \cup
  When(v >= 3, {"membershiprole", "role_enum"}) \cup
  When(v >= 4, {"userrole", "is_active", "user_role"}) \cup
  When(v = 5, {"first_name", "last_name"})

\* What the models of the API declare (those of the billing have their tables
\* from create_all), and what of it no revision makes: the unique name of a
\* chama, the NOT NULL columns of a membership, and membership_id.
UserModel == {"users", "is_active", "user_role", "first_name", "last_name"}
ChamaModel == {"chamas", "unique_name"}
MembershipModel == {"memberships", "role_enum", "memberships_not_null"}
ContributionModel == {"contributions", "created_at", "chama_id", "membership_id"}

Models == UserModel \cup ChamaModel \cup MembershipModel \cup ContributionModel
Unmigrated == {"unique_name", "memberships_not_null", "membership_id"}

\* A chama's creation queries all but contributions, and constraints are not
\* queried.
QueriedToCreate == (UserModel \cup ChamaModel \cup MembershipModel) \ Unmigrated

-----------------------------------------------------------------------------
VARIABLES
  version,   \* alembic_version, as committed
  schema,    \* the objects of the public schema, as committed
  billing,   \* have the tables of subscriptions and plans been created?
  plans,     \* how many times the three plans are there
  pc,        \* each migrator: "stopped", "migrating", "serving"
  tx,        \* its transaction
  seeder,    \* each seeder: "idle", "found_none", "done"
  commands,  \* commands that operators have run
  faults,    \* crashes so far
  behind,    \* history: containers that a downgrade has overtaken
  raced      \* history: seeders that another one has overtaken

db == <<version, schema, billing, plans>>
histories == <<commands, faults, behind, raced>>
vars == <<db, pc, tx, seeder, histories>>

\* A transaction that found version v and is to reach goal: how far it has
\* come, what it has made and dropped, and what it has locked.
Begun(v, goal) ==
  [from |-> v, at |-> v, op |-> 1, goal |-> goal,
   made |-> {}, gone |-> {}, locks |-> {}]
NoTx == Begun(0, 0)

Init ==
  /\ version \in 0..Latest /\ schema = SchemaOf(version)
  /\ billing \in BOOLEAN /\ (billing => version = Latest)
  /\ plans = 0
  /\ pc = [m \in Migrators |-> "stopped"]
  /\ tx = [m \in Migrators |-> NoTx]
  /\ seeder = [s \in Seeders |-> "idle"]
  /\ commands = 0 /\ faults = 0 /\ behind = {} /\ raced = {}

-----------------------------------------------------------------------------
(* Alembic *)

\* Mutant: a container applies the next revision only ("upgrade +1").
BeginNext(m, goal) ==
  /\ pc[m] = "stopped"
  /\ IF m \in Containers
     THEN goal = (IF version < Latest THEN version + 1 ELSE Latest) /\ UNCHANGED commands
     ELSE /\ commands < MaxCommands /\ commands' = commands + 1
          /\ goal = Latest \/ goal < version
  /\ pc' = [pc EXCEPT ![m] = "migrating"]
  /\ tx' = [tx EXCEPT ![m] = Begun(version, goal)]
  /\ behind' = behind \ {m}
  /\ UNCHANGED <<db, seeder, faults, raced>>

\* A container always goes to the head; an operator goes there or back.
Begin(m, goal) ==
  /\ pc[m] = "stopped"
  /\ IF m \in Containers
     THEN goal = Latest /\ UNCHANGED commands
     ELSE /\ commands < MaxCommands /\ commands' = commands + 1
          /\ goal = Latest \/ goal < version
  /\ pc' = [pc EXCEPT ![m] = "migrating"]
  /\ tx' = [tx EXCEPT ![m] = Begun(version, goal)]
  /\ behind' = behind \ {m}
  /\ UNCHANGED <<db, seeder, faults, raced>>

Upwards(t) == t.at < t.goal
Script(t) == IF Upwards(t) THEN Upgrade[t.at + 1] ELSE Downgrade[t.at]
Scripted(t) == t.at # t.goal /\ t.op \in 1..Len(Script(t))

\* The objects as the transaction sees them.
View(t) == (schema \ t.gone) \cup t.made

\* What it is about to lock, and who has that.
Wanted(t) ==
  IF Scripted(t) THEN Script(t)[t.op].locks
  ELSE IF t.at # t.goal THEN {"alembic_version"} ELSE {}
Holders(m) == {n \in Migrators \ {m} : Wanted(tx[m]) \cap tx[n].locks # {}}

Running(m) == pc[m] = "migrating" /\ Holders(m) = {}

Possible(t, op) ==
  op.needs \cup op.drops \subseteq View(t) /\ op.makes \cap View(t) = {}

Added(op) == op.makes \cup op.sets
Removed(op) == op.drops \cup op.clears

\* One operation of a revision.
Operate(m) ==
  LET t == tx[m]
      op == Script(t)[t.op]
  IN
  /\ Running(m) /\ Scripted(t) /\ Possible(t, op)
  /\ tx' = [tx EXCEPT ![m] =
       [t EXCEPT !.op = @ + 1,
                 !.made = (@ \ Removed(op)) \cup Added(op),
                 !.gone = (@ \ Added(op)) \cup Removed(op),
                 !.locks = @ \cup op.locks]]
  /\ UNCHANGED <<db, pc, seeder, histories>>

\* Mutant: whether the version is still the one that was read is not checked.
StampBlindly(m) ==
  /\ Running(m) /\ tx[m].at # tx[m].goal /\ ~Scripted(tx[m])
  /\ tx' = [tx EXCEPT ![m].at = IF Upwards(tx[m]) THEN @ + 1 ELSE @ - 1,
                      ![m].op = 1, ![m].locks = @ \cup {"alembic_version"}]
  /\ UNCHANGED <<db, pc, seeder, histories>>

\* The end of a revision: UPDATE alembic_version ... WHERE version_num = ...,
\* which must match one row.
Stamp(m) ==
  /\ Running(m) /\ tx[m].at # tx[m].goal /\ ~Scripted(tx[m])
  /\ version = tx[m].from
  /\ tx' = [tx EXCEPT ![m].at = IF Upwards(tx[m]) THEN @ + 1 ELSE @ - 1,
                      ![m].op = 1, ![m].locks = @ \cup {"alembic_version"}]
  /\ UNCHANGED <<db, pc, seeder, histories>>

\* All revisions at once, if there were any.  A container goes on to serve.
Commit(m) ==
  /\ Running(m) /\ tx[m].at = tx[m].goal
  /\ version' = IF tx[m].from = tx[m].goal THEN version ELSE tx[m].goal
  /\ schema' = View(tx[m])
  /\ pc' = [pc EXCEPT ![m] = IF m \in Containers THEN "serving" ELSE "stopped"]
  /\ tx' = [tx EXCEPT ![m] = NoTx]
  /\ behind' = IF tx[m].goal < tx[m].from
               THEN {c \in Containers : pc[c] # "stopped"} ELSE behind
  /\ UNCHANGED <<billing, plans, seeder, commands, faults, raced>>

\* Mutant: a failed transaction stays open.
RollBackLater(m) ==
  /\ pc' = [pc EXCEPT ![m] = "stopped"]
  /\ UNCHANGED <<db, tx, seeder, commands, behind, raced>>

RollBack(m) ==
  /\ pc' = [pc EXCEPT ![m] = "stopped"]
  /\ tx' = [tx EXCEPT ![m] = NoTx]
  /\ UNCHANGED <<db, seeder, commands, behind, raced>>

\* An operation on what is there already or not there, or a stamp that
\* matches no row, ends Alembic and with it the container.
Fail(m) ==
  /\ Running(m) /\ tx[m].at # tx[m].goal
  /\ IF Scripted(tx[m]) THEN ~Possible(tx[m], Script(tx[m])[tx[m].op])
                        ELSE version # tx[m].from
  /\ RollBack(m)
  /\ UNCHANGED faults

\* PostgreSQL ends one of the transactions that wait for each other.
Deadlocked(M) == \A m \in M : Holders(m) \cap M # {}
Victim(m) ==
  /\ \E M \in SUBSET Migrators : m \in M /\ Deadlocked(M)
  /\ RollBack(m)
  /\ UNCHANGED faults

Crash(m) ==
  /\ pc[m] # "stopped" /\ faults < MaxFaults
  /\ faults' = faults + 1
  /\ RollBack(m)

-----------------------------------------------------------------------------
(* The plans *)

\* The first chama that is created: create_all makes the tables that are
\* missing, and takes locks on the ones they refer to.
CreateChama(c) ==
  /\ pc[c] = "serving" /\ QueriedToCreate \subseteq schema /\ ~billing
  /\ \A m \in Migrators : "chamas" \notin tx[m].locks
  /\ billing' = TRUE
  /\ UNCHANGED <<version, schema, plans, pc, tx, seeder, histories>>

\* Mutant: plans that are there already are no reason to stop.
SeedCheckIgnored(s) ==
  /\ seeder[s] = "idle" /\ billing
  /\ seeder' = [seeder EXCEPT ![s] = "found_none"]
  /\ UNCHANGED <<db, pc, tx, histories>>

\* Without its table the query fails, and with it the script.
SeedCheck(s) ==
  /\ seeder[s] = "idle" /\ billing
  /\ seeder' = [seeder EXCEPT ![s] = IF plans > 0 THEN "done" ELSE "found_none"]
  /\ UNCHANGED <<db, pc, tx, histories>>

SeedInsert(s) ==
  /\ seeder[s] = "found_none"
  /\ plans' = plans + 1
  /\ seeder' = [seeder EXCEPT ![s] = "done"]
  /\ raced' = raced \cup {o \in Seeders \ {s} : seeder[o] = "found_none"}
  /\ UNCHANGED <<version, schema, billing, pc, tx, commands, faults, behind>>

\* The script ends before its commit.
SeedInterrupted(s) ==
  /\ seeder[s] = "found_none"
  /\ seeder' = [seeder EXCEPT ![s] = "idle"]
  /\ UNCHANGED <<db, pc, tx, histories>>

-----------------------------------------------------------------------------
Proceed(m) == Operate(m) \/ Stamp(m) \/ Commit(m) \/ Fail(m)

Next ==
  \/ \E m \in Migrators :
       (\E goal \in 0..Latest : Begin(m, goal)) \/ Proceed(m) \/ Victim(m) \/ Crash(m)
  \/ \E c \in Containers : CreateChama(c)
  \/ \E s \in Seeders : SeedCheck(s) \/ SeedInsert(s) \/ SeedInterrupted(s)

\* What has been begun goes on, PostgreSQL grants a lock to those who wait for
\* it in their order and resolves deadlocks, and Docker starts again what has
\* stopped ("restart: unless-stopped").
Fairness ==
  /\ \A m \in Migrators : SF_vars(Proceed(m)) /\ WF_vars(Victim(m))
  /\ \A c \in Containers : WF_vars(Begin(c, Latest))

Spec == Init /\ [][Next]_vars /\ Fairness

-----------------------------------------------------------------------------
(* Properties *)

Objects == UNION {SchemaOf(v) : v \in 0..Latest}

TypeOK ==
  /\ version \in 0..Latest /\ schema \subseteq Objects
  /\ billing \in BOOLEAN /\ plans \in Nat
  /\ pc \in [Migrators -> {"stopped", "migrating", "serving"}]
  /\ \A m \in Migrators :
       /\ tx[m].from \in 0..Latest /\ tx[m].at \in 0..Latest /\ tx[m].goal \in 0..Latest
       /\ tx[m].made \cup tx[m].gone \subseteq Objects
       /\ pc[m] # "migrating" => tx[m] = NoTx
  /\ seeder \in [Seeders -> {"idle", "found_none", "done"}]
  /\ commands \in 0..MaxCommands /\ faults \in 0..MaxFaults
  /\ behind \subseteq Containers /\ raced \subseteq Seeders

\* Whoever upgrades and downgrades at the same time, and wherever they crash:
\* the version names the schema that is there, but for the type that the
\* downgrade of b12345678901 leaves behind.
VersionDescribesSchema ==
  SchemaOf(version) \subseteq schema /\ schema \ SchemaOf(version) \subseteq {"userrole"}

\* Nobody's work is overwritten: the version only changes from the one that
\* the transaction read when it began.
CommitsFollowOn ==
  [][\A m \in Migrators :
       version' # version /\ tx'[m] # tx[m] => version = tx[m].from]_vars

\* A container serves the latest version, unless a downgrade has overtaken it
\* since it looked at the version: of what the models of the API declare there
\* is all that the revisions make, and nothing but the rest is ever missing.
ServesTheHead ==
  \A c \in Containers \ behind :
    pc[c] = "serving" => version = Latest /\ Models \ schema = Unmigrated

\* Every container is up in the end, whatever version the database was at and
\* whatever fails before.
EveryContainerServes == \A c \in Containers : <>[](pc[c] = "serving")

\* "Check if plans already exist": they are there twice only if one seeder
\* committed between the check of another and its insert.
PlansDoubledOnlyByOverlap == plans <= 1 + Cardinality(raced)
=============================================================================
