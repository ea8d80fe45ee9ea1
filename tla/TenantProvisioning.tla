------------------------- MODULE TenantProvisioning -------------------------
(***************************************************************************)
(* The creation of chamas and of their tenant schemas on PostgreSQL:       *)
(* backend/crud.py create_chama, run by request threads, and               *)
(* backend/schema_management.py, run by those threads, by the migration of *)
(* existing chamas and by an administrator.                                *)
(*                                                                         *)
(* Each commit is a step, and so is each read whose answer is used later.  *)
(* Request threads take their connections from one pool (admin_engine,     *)
(* backend/database.py): a thread keeps one from the refresh of the new    *)
(* row to the end of the request, and a second while it looks at the       *)
(* schema.  A migration runs in a process, hence with a pool, of its own.  *)
(***************************************************************************)
EXTENDS Integers, FiniteSets

CONSTANTS
  Chamas,     \* a chama stands for its name, which is unique, and for its id
  Creators,   \* request threads running create_chama
  Migrators,  \* processes running migrate_existing_chamas
  Droppable,  \* the chamas whose schema the administrator may drop
  PoolSize,   \* connections admin_engine may open (pool and overflow)
  Faults,     \* may a database call raise, or a process die?
  NoChama

ASSUME ProvisioningAssumption ==
  /\ IsFiniteSet(Creators)
  /\ Creators \cap Migrators = {}
  /\ Droppable \subseteq Chamas
  /\ PoolSize \in Nat
  /\ Faults \in BOOLEAN
  /\ NoChama \notin Chamas

VARIABLES
  chamas,     \* rows of public.chamas
  owned,      \* chamas with the owner membership create_chama writes
  schema,     \* chamas whose schema exists
  tables,     \* chamas whose schema holds the tables
  pc,         \* what each worker does next
  tenant,     \* the chama each worker is at
  todo,       \* the rows a migration has still to visit
  aborted     \* history: chamas whose initialisation ended before its commit

vars == <<chamas, owned, schema, tables, pc, tenant, todo, aborted>>

Workers == Creators \cup Migrators

-----------------------------------------------------------------------------
(* The connection pool.  "insert": the user is authenticated; "refresh":   *)
(* the row is committed and its connection returned; "setup", "check",     *)
(* "create", "init": setup_tenant_database; "finish": the owner's row is   *)
(* next; "next": a migration between two chamas.                           *)

CreatorSteps == {"insert", "refresh", "setup", "check", "create", "init", "finish"}
MigratorSteps == {"next", "check", "create", "init"}

\* The threads at the request's own session, and at the session of
\* create_tenant_schema on top of it.
HoldsRequestSession(w) ==
  w \in Creators /\ pc[w] \in CreatorSteps \ {"refresh"}
HoldsSchemaSession(w) ==
  w \in Creators /\ pc[w] \in {"check", "create"}

InUse == Cardinality({w \in Creators : HoldsRequestSession(w)})
         + Cardinality({w \in Creators : HoldsSchemaSession(w)})
Free == PoolSize - InUse

\* The request that inserted c is still at work on it.
Creating(w, c) == tenant[w] = c /\ pc[w] \in CreatorSteps \ {"insert"}

Waiting(w) == w \in Creators /\ pc[w] \in {"refresh", "setup"}

-----------------------------------------------------------------------------
Init ==
  /\ chamas = {} /\ owned = {} /\ schema = {} /\ tables = {} /\ aborted = {}
  /\ pc = [w \in Workers |-> "idle"]
  /\ tenant = [w \in Workers |-> NoChama]
  /\ todo = [m \in Migrators |-> {}]

Goto(w, step) == pc' = [pc EXCEPT ![w] = step]

\* Workers that leave their handler: an exception ends the request (its
\* session is rolled back and closed) or the migration.
Stop(W) ==
  /\ pc' = [w \in Workers |-> IF w \in W THEN "idle" ELSE pc[w]]
  /\ tenant' = [w \in Workers |-> IF w \in W THEN NoChama ELSE tenant[w]]
  /\ todo' = [m \in Migrators |-> IF m \in W THEN {} ELSE todo[m]]
  /\ aborted' = aborted \cup {tenant[w] : w \in {x \in W : pc[x] = "init"}}
  /\ UNCHANGED <<chamas, owned, schema, tables>>

-----------------------------------------------------------------------------
(* create_chama *)

\* The request's session checks its first connection out to find the user.
Authenticate(w, c) ==
  /\ pc[w] = "idle" /\ Free > 0
  /\ Goto(w, "insert")
  /\ tenant' = [tenant EXCEPT ![w] = c]
  /\ UNCHANGED <<chamas, owned, schema, tables, todo, aborted>>

\* Mutant: the chama's name is not unique.
InsertChamaAgain(w) ==
  /\ pc[w] = "insert"
  /\ chamas' = chamas \cup {tenant[w]}
  /\ Goto(w, "refresh")
  /\ UNCHANGED <<owned, schema, tables, tenant, todo, aborted>>

InsertChama(w) ==
  /\ pc[w] = "insert" /\ tenant[w] \notin chamas
  /\ chamas' = chamas \cup {tenant[w]}
  /\ Goto(w, "refresh")
  /\ UNCHANGED <<owned, schema, tables, tenant, todo, aborted>>

\* The unique name raises IntegrityError, which is answered 400.
NameTaken(w) ==
  /\ pc[w] = "insert" /\ tenant[w] \in chamas
  /\ Stop({w})

RefreshChama(w) ==
  /\ pc[w] = "refresh" /\ Free > 0
  /\ Goto(w, "setup")
  /\ UNCHANGED <<chamas, owned, schema, tables, tenant, todo, aborted>>

\* create_tenant_schema opens a session of its own.
OpenSchemaSession(w) ==
  /\ pc[w] = "setup" /\ Free > 0
  /\ Goto(w, "check")
  /\ UNCHANGED <<chamas, owned, schema, tables, tenant, todo, aborted>>

\* Mutant: the pool waits without a timeout.
PoolTimeoutNever(w) == FALSE

\* QueuePool gives up after its timeout, and the request ends.  (One that
\* gives up before Authenticate has changed nothing.)
PoolTimeout(w) ==
  /\ Waiting(w) /\ Free = 0
  /\ Stop({w})

CommitOwner(w) ==
  /\ pc[w] = "finish"
  /\ owned' = owned \cup {tenant[w]}
  /\ pc' = [pc EXCEPT ![w] = "idle"]
  /\ tenant' = [tenant EXCEPT ![w] = NoChama]
  /\ UNCHANGED <<chamas, schema, tables, todo, aborted>>

-----------------------------------------------------------------------------
(* setup_tenant_database, in either kind of worker *)

\* Mutant: the migration goes on like a creation.
AfterSetupFinish(w) == "finish"

AfterSetup(w) == IF w \in Creators THEN "finish" ELSE "next"

\* Mutant: a schema that exists is initialised again.
CheckSchemaRepairs(w) ==
  /\ pc[w] = "check"
  /\ Goto(w, IF tenant[w] \in schema THEN "init" ELSE "create")
  /\ UNCHANGED <<chamas, owned, schema, tables, tenant, todo, aborted>>

\* Only a schema this call creates is initialised.
CheckSchema(w) ==
  /\ pc[w] = "check"
  /\ Goto(w, IF tenant[w] \in schema THEN AfterSetup(w) ELSE "create")
  /\ UNCHANGED <<chamas, owned, schema, tables, tenant, todo, aborted>>

\* Mutant: CREATE SCHEMA IF NOT EXISTS.
CreateSchemaIfNotExists(w) ==
  /\ pc[w] = "create"
  /\ schema' = schema \cup {tenant[w]}
  /\ Goto(w, "init")
  /\ UNCHANGED <<chamas, owned, tables, tenant, todo, aborted>>

\* Mutant: create_tenant_schema returns False for the schema it created.
CreateSchemaOnly(w) ==
  /\ pc[w] = "create" /\ tenant[w] \notin schema
  /\ schema' = schema \cup {tenant[w]}
  /\ Goto(w, AfterSetup(w))
  /\ UNCHANGED <<chamas, owned, tables, tenant, todo, aborted>>

CreateSchema(w) ==
  /\ pc[w] = "create" /\ tenant[w] \notin schema
  /\ schema' = schema \cup {tenant[w]}
  /\ Goto(w, "init")
  /\ UNCHANGED <<chamas, owned, tables, tenant, todo, aborted>>

\* Another worker created it since the check: CREATE SCHEMA raises.
SchemaTaken(w) ==
  /\ pc[w] = "create" /\ tenant[w] \in schema
  /\ Stop({w})

\* create_all is one transaction on the tenant's own engine.  Its
\* search_path falls back to public when the schema is gone.
InitTables(w) ==
  /\ pc[w] = "init"
  /\ tables' = tables \cup ({tenant[w]} \cap schema)
  /\ Goto(w, AfterSetup(w))
  /\ UNCHANGED <<chamas, owned, schema, tenant, todo, aborted>>

-----------------------------------------------------------------------------
(* migrate_existing_chamas and drop_tenant_schema *)

ReadChamas(m) ==
  /\ pc[m] = "idle"
  /\ todo' = [todo EXCEPT ![m] = chamas]
  /\ Goto(m, "next")
  /\ UNCHANGED <<chamas, owned, schema, tables, tenant, aborted>>

\* The rows come in no particular order.
MigrateChama(m, c) ==
  /\ pc[m] = "next" /\ c \in todo[m]
  /\ todo' = [todo EXCEPT ![m] = @ \ {c}]
  /\ tenant' = [tenant EXCEPT ![m] = c]
  /\ Goto(m, "check")
  /\ UNCHANGED <<chamas, owned, schema, tables, aborted>>

MigrationDone(m) ==
  /\ pc[m] = "next" /\ todo[m] = {}
  /\ Stop({m})

DropSchema(c) ==
  /\ c \in Droppable \cap schema
  /\ schema' = schema \ {c}
  /\ tables' = tables \ {c}
  /\ UNCHANGED <<chamas, owned, pc, tenant, todo, aborted>>

-----------------------------------------------------------------------------
(* Faults *)

DatabaseError(w) ==
  /\ Faults /\ pc[w] # "idle"
  /\ Stop({w})

ServerCrash ==
  /\ Faults
  /\ Stop(Creators)

-----------------------------------------------------------------------------
Creation(w) ==
  \/ InsertChama(w) \/ NameTaken(w) \/ RefreshChama(w)
  \/ OpenSchemaSession(w) \/ PoolTimeout(w) \/ CommitOwner(w)

Setup(w) ==
  CheckSchema(w) \/ CreateSchema(w) \/ SchemaTaken(w) \/ InitTables(w)

Migration(m) ==
  \/ ReadChamas(m)
  \/ \E c \in Chamas : MigrateChama(m, c)
  \/ MigrationDone(m)

Next ==
  \/ \E w \in Creators : Creation(w) \/ \E c \in Chamas : Authenticate(w, c)
  \/ \E w \in Workers : Setup(w) \/ DatabaseError(w)
  \/ \E m \in Migrators : Migration(m)
  \/ \E c \in Chamas : DropSchema(c)
  \/ ServerCrash

Spec == Init /\ [][Next]_vars

\* The thread pool runs every request it has started to the end of its
\* handler; nothing is assumed of clients, migrations or the administrator.
FairSpec ==
  Spec /\ \A w \in Creators : WF_vars(Creation(w) \/ Setup(w))

-----------------------------------------------------------------------------
(* Properties *)

TypeOK ==
  /\ chamas \subseteq Chamas /\ owned \subseteq Chamas
  /\ schema \subseteq Chamas /\ tables \subseteq Chamas
  /\ aborted \subseteq Chamas \cup {NoChama}
  /\ pc \in [Workers -> {"idle"} \cup CreatorSteps \cup MigratorSteps]
  /\ \A w \in Creators : pc[w] \in {"idle"} \cup CreatorSteps
  /\ \A m \in Migrators : pc[m] \in {"idle"} \cup MigratorSteps
  /\ tenant \in [Workers -> Chamas \cup {NoChama}]
  /\ todo \in [Migrators -> SUBSET Chamas]

\* create_all checks each table and then creates it, so two of them must
\* not run on one schema: however requests and migrations interleave, at
\* most one worker initialises a schema nobody drops.
OneInitialiser ==
  \A v, w \in Workers :
    /\ pc[v] = "init" /\ pc[w] = "init"
    /\ tenant[v] = tenant[w] /\ tenant[v] \notin Droppable
    => v = w

OwnedHasSchema == owned \ Droppable \subseteq schema

BareSchemaExplained ==
  \A c \in (schema \ tables) \ Droppable :
    c \in aborted \/ \E w \in Workers : pc[w] = "init" /\ tenant[w] = c

\* What a chama has got, no schema being dropped: an owner only with a schema,
\* whichever worker created that; and a schema without its tables only while
\* it is initialised or after its initialisation was aborted.
SchemasExplained == OwnedHasSchema /\ BareSchemaExplained

\* What setup_tenant_database does not repair: once initialising a schema
\* has been aborted, no later setup or migration creates its tables.
NeverRepaired == [][\A c \in aborted \ Droppable : c \notin tables']_vars

\* "Create a new Chama with the current user as owner": a chama's row never
\* outlives the request that writes it without the owner's membership.
CreatedWithOwner ==
  \A c \in chamas \ owned : \E w \in Creators : Creating(w, c)

\* Every creation ends, answered or refused, whoever else holds the pool's
\* connections: a thread waiting for one is at worst timed out.
RequestsEnd == \A w \in Creators : pc[w] = "insert" ~> pc[w] = "idle"

-----------------------------------------------------------------------------
(* The chama lifecycle this implements *)

Lifecycle ==
  INSTANCE ChamaLifecycle WITH stage <-
    [c \in Chamas |->
       IF c \notin chamas THEN "none"
       ELSE IF c \in owned THEN "owned"
       ELSE IF \E w \in Creators : Creating(w, c) THEN "registered"
       ELSE "abandoned"]

\* Every history of requests, migrations, drops and faults takes each chama
\* along the lifecycle: none is owned before it is registered, and an
\* abandoned one stays without an owner.
ImplementsLifecycle == Lifecycle!Spec
=============================================================================
