---------------------------- MODULE TenantRouting ----------------------------
(***************************************************************************)
(* Which table a contribution goes to: TenantContextMiddleware             *)
(* (backend/middleware.py), get_db (backend/database.py) and create_all    *)
(* (backend/schema_management.py) on PostgreSQL.                           *)
(*                                                                         *)
(* contributions is the only table the models put in no schema.  A session *)
(* of a tenant has the search path <its schema>, public and an admin       *)
(* session has public, so a name means the first table on the path, and    *)
(* create_all makes a table only if its name means none.                   *)
(*                                                                         *)
(* Every chama here has its officers, as one that is migrated has; who may *)
(* contribute is ChamaLedger's matter, and which setups overlap that of    *)
(* TenantProvisioning.                                                     *)
(***************************************************************************)
CONSTANTS
  Requests,
  Chamas,
  Public,      \* the schema of that name
  NoTenant     \* current_tenant's default

ASSUME RoutingAssumption ==
  Public \notin Chamas /\ NoTenant \notin Chamas \cup {Public}

Schemas == Chamas \cup {Public}

\* Where contributions are recorded: POST .../chamas/{chama_id}/contributions
\* under /api/v1 or under the legacy prefix /api.
URLs == {"v1", "legacy"}

VARIABLES
  schemas,   \* the chamas whose schema exists
  tables,    \* of each schema: no contributions, Alembic's or the model's
  setup,     \* of a chama: "none", "looking", "missing" or "over"
  pc,        \* of a request: "new", "routed", "bound" or "done"
  about,     \* the chama a request is about, and its URL
  context,   \* current_tenant, as each request sees it
  path,      \* the schema each request's session looks into before public
  rows,      \* contributions, by the request that recorded them
  raced      \* history: chamas that missed a table just when public got one

vars == <<schemas, tables, setup, pc, about, context, path, rows, raced>>

database == <<schemas, tables, setup, rows, raced>>
request == <<pc, about, context, path>>

\* What the database has in public: nothing, Alembic's table, or the one that
\* create_all makes of the model.
Prepared == {"none", "alembic", "model"}

Init ==
  /\ schemas = {}
  /\ tables \in {[s \in Schemas |-> IF s = Public THEN t ELSE "none"] : t \in Prepared}
  /\ setup = [c \in Chamas |-> "none"]
  /\ pc = [r \in Requests |-> "new"]
  /\ about \in [Requests -> [chama : Chamas, url : URLs]]
  /\ context = [r \in Requests |-> NoTenant]
  /\ path = [r \in Requests |-> Public]
  /\ rows = {} /\ raced = {}

\* The table an unqualified name means for a session that looks into s first.
\* (No table is in a schema that does not exist.)
Meaning(s) == IF tables[s] # "none" THEN s ELSE Public

-----------------------------------------------------------------------------
(* setup_tenant_database, and the administrator *)

CreateSchema(c) ==
  /\ c \notin schemas /\ setup[c] \in {"none", "over"}
  /\ schemas' = schemas \cup {c}
  /\ setup' = [setup EXCEPT ![c] = "looking"]
  /\ UNCHANGED <<tables, rows, raced, request>>

\* create_all takes a table that is visible for the one it wants.
LookForTables(c) ==
  /\ setup[c] = "looking"
  /\ setup' = [setup EXCEPT ![c] =
                 IF tables[Meaning(c)] = "none" THEN "missing" ELSE "over"]
  /\ UNCHANGED <<schemas, tables, rows, raced, request>>

\* Mutant: create_all gets a connection, and nobody commits.
CreateUncommitted(c) ==
  /\ setup[c] = "missing"
  /\ setup' = [setup EXCEPT ![c] = "over"]
  /\ UNCHANGED <<schemas, tables, rows, raced, request>>

\* CREATE TABLE makes it in the first schema of the path that exists.
CreateTables(c) ==
  LET s == IF c \in schemas THEN c ELSE Public IN
  /\ setup[c] = "missing"
  /\ setup' = [setup EXCEPT ![c] = "over"]
  /\ tables[s] = "none"
  /\ tables' = [tables EXCEPT ![s] = "model"]
  /\ raced' = IF s = Public THEN raced \cup {d \in Chamas : setup[d] = "missing"} ELSE raced
  /\ UNCHANGED <<schemas, rows, request>>

\* The table is there by now, or the database fails.
SetupFails(c) ==
  /\ setup[c] \in {"looking", "missing"}
  /\ setup' = [setup EXCEPT ![c] = "none"]
  /\ UNCHANGED <<schemas, tables, rows, raced, request>>

\* Mutant: DROP SCHEMA leaves the tables.
DropSchemaOnly(c) ==
  /\ c \in schemas
  /\ schemas' = schemas \ {c}
  /\ UNCHANGED <<tables, rows, setup, raced, request>>

DropSchema(c) ==
  /\ c \in schemas
  /\ schemas' = schemas \ {c}
  /\ tables' = [tables EXCEPT ![c] = "none"]
  /\ rows' = {x \in rows : x.place # c}
  /\ UNCHANGED <<setup, raced, request>>

-----------------------------------------------------------------------------
(* A request to record a contribution *)

\* TenantContextMiddleware.dispatch up to call_next: a URL under /api without
\* a version matches neither pattern.
Route(r) ==
  /\ pc[r] = "new"
  /\ pc' = [pc EXCEPT ![r] = "routed"]
  /\ context' = [context EXCEPT ![r] =
                   IF about[r].url = "v1" THEN about[r].chama ELSE NoTenant]
  /\ UNCHANGED <<about, path, database>>

\* Mutant: current_tenant is a global variable.
OpenSessionGlobal(r) ==
  /\ pc[r] = "routed"
  /\ pc' = [pc EXCEPT ![r] = "bound"]
  /\ \E q \in {q \in Requests : pc[q] = "routed"} :
       path' = [path EXCEPT ![r] = IF context[q] = NoTenant THEN Public ELSE context[q]]
  /\ UNCHANGED <<about, context, database>>

\* get_db.
OpenSession(r) ==
  /\ pc[r] = "routed"
  /\ pc' = [pc EXCEPT ![r] = "bound"]
  /\ path' = [path EXCEPT ![r] = IF context[r] = NoTenant THEN Public ELSE context[r]]
  /\ UNCHANGED <<about, context, database>>

\* create_contribution.  A row needs a membership_id, which no migration adds
\* to the table that Alembic made.
InsertContribution(r) ==
  LET place == Meaning(path[r]) IN
  /\ pc[r] = "bound"
  /\ tables[place] = "model"
  /\ pc' = [pc EXCEPT ![r] = "done"]
  /\ rows' = rows \cup {[by |-> r, chama |-> about[r].chama, url |-> about[r].url,
                         place |-> place]}
  /\ UNCHANGED <<about, context, path, schemas, tables, setup, raced>>

\* There is no such table or column, or the database fails.
DatabaseError(r) ==
  /\ pc[r] = "bound"
  /\ pc' = [pc EXCEPT ![r] = "done"]
  /\ UNCHANGED <<about, context, path, database>>

Next ==
  \/ \E c \in Chamas :
       \/ CreateSchema(c) \/ LookForTables(c) \/ CreateTables(c)
       \/ SetupFails(c) \/ DropSchema(c)
  \/ \E r \in Requests :
       Route(r) \/ OpenSession(r) \/ InsertContribution(r) \/ DatabaseError(r)

Spec == Init /\ [][Next]_vars
-----------------------------------------------------------------------------
(* Properties *)

TypeOK ==
  /\ schemas \subseteq Chamas
  /\ tables \in [Schemas -> {"none", "alembic", "model"}]
  /\ \A c \in Chamas : tables[c] # "none" => c \in schemas
  /\ setup \in [Chamas -> {"none", "looking", "missing", "over"}]
  /\ pc \in [Requests -> {"new", "routed", "bound", "done"}]
  /\ about \in [Requests -> [chama : Chamas, url : URLs]]
  /\ context \in [Requests -> Chamas \cup {NoTenant}]
  /\ path \in [Requests -> Schemas]
  /\ rows \subseteq [by : Requests, chama : Chamas, url : URLs, place : Schemas]
  /\ raced \subseteq Chamas

Isolated == \A x \in rows : x.place \in {x.chama, Public}

OneHome ==
  \A x, y \in rows :
    x.chama = y.chama /\ x.url = "v1" /\ y.url = "v1" =>
      x.place = y.place \/ x.chama \in raced

\* "Complete data isolation": however requests of different chamas overlap, a
\* chama's schema has contributions of that chama only; and those a chama
\* makes under /api/v1 are in one table, whatever was set up, failed or was
\* dropped before, unless public got its table at the very moment when the
\* chama was about to get one of its own.
RowsAtHome == Isolated /\ OneHome

\* The setup that created the schema that is there ended without an exception.
SetUp(c) == c \in schemas /\ setup[c] = "over"

\* "Automatically creates: chama_123 schema with tables" (MULTI_TENANT_README.md):
\* a request under /api/v1 about a chama that has been set up finds a table that
\* takes its contribution.
NewChamasCanContribute ==
  \A r \in Requests :
    pc[r] = "bound" /\ about[r].url = "v1" /\ SetUp(about[r].chama) =>
      tables[Meaning(path[r])] = "model"

\* Only the contributions that Alembic made in public break that promise: on any
\* other database, whatever else failed, overlapped or was dropped before, a
\* chama whose setup went through can contribute.
OnlyAlembicPrevents == tables[Public] # "alembic" => NewChamasCanContribute
=============================================================================
