# Chama wallet: TLA+ models and proofs

The chama wallet is a FastAPI service (`src/backend`) for savings groups,
*chamas*.  Users register, create and join chamas, and record contributions;
each chama is a tenant with a PostgreSQL schema of its own; Celery tasks run
behind the requests, and browsers follow a chama over WebSockets.  This
directory holds TLA+ modules of its stateful parts, the TLC configurations
that check them on small instances, and proofs that TLAPS checks for
every instance.  Line numbers refer to the commit the modules were
written from; `PROJECT.json` maps every definition to the lines it models.

## 1. The system

| part | state it keeps | operations | what is hard about it | module |
|---|---|---|---|---|
| Chama creation and tenant schemas: `crud.py` `create_chama`, `schema_management.py`, `database.py` | rows of `public.chamas`, the owner's membership, PostgreSQL schemas and their tables, connections of `admin_engine` | create a chama; set up, migrate, drop a schema | three commits on two sessions with no transaction around them; threads that hold one pooled connection and wait for another; migration and administrator at the same time; crashes | `TenantProvisioning` |
| Members and contributions: `routers/users.py`, `chamas.py`, `members.py`, `crud.py`, `models/` | users, chamas, memberships, contributions, messages given to Celery | register, create, join, add a member, contribute | check and insert are separate statements of concurrent threads; a broker call after the commit | `ChamaLedger` |
| WebSocket updates: `routers/websockets.py` | `active_connections`, a dictionary of lists | connect, disconnect, broadcast | a broadcast awaits in the middle of iterating over a list that others change; two parties unlist a connection | `ConnectionManager` |
| Request metrics: `metrics.py`, `middleware.py` `TenantContextMiddleware` | a metrics context per thread, counters and gauges per tenant | start and end of a request, a rate limit violation | all requests share the event loop's one context | `RequestMetrics` |
| The middlewares: `middleware.py`, `rate_limiting.py`, `main.py` | what each request has got so far; the log | admit, refuse, redirect, answer, raise | five layers around each request, each with its own view of an exception, in the reverse of the order they are added in | `RequestPipeline` (with `RequestMetrics` inside) |
| Authentication and roles: `security.py` | none of its own | find the user of a token; check a role in a chama | the role check reads one of possibly several rows, in a query before the change it allows | steps of `ChamaLedger` |
| Rate limiter: `rate_limiting.py` | a deque of times per key, at most 1000 long | admit or refuse | window edges, the deque's limit, headers computed after an await | `RateLimiter` |
| Tenant routing: `middleware.py`, `database.py`, `schema_management.py`, `main.py` | `current_tenant`, a search path per session, the tables of each schema | choose the table a request reads and writes | a name means the first table on a path that setups and drops change; one endpoint under several URLs, of which some have no tenant | `TenantRouting` |
| Billing: `routers/billing.py`, `models/subscription.py`, `billing/paystack_client.py` | subscriptions, payment methods; customers at the provider | subscribe, update, cancel, add a method, pay | an external call between query and insert | `Subscriptions` |
| Background tasks: `tasks/`, `celery_*.py` | a worker's `current_tenant`, queues | recompute a summary, analyse, report, notify | one process runs the tasks of all tenants, and any of them may fail or die half-way | `TenantTasks` (the publishing side is in `ChamaLedger`) |
| Summary cache: `cache_utils.py` | Redis keys with a lifetime | store, read, forget a summary | | not modelled: nothing reaches it (see `TenantTasks` below) |
| Migrations and start: `alembic/`, `docker-compose.prod.yml`, `seed_billing_data.py` | the version and the objects of the public schema, the subscription plans | upgrade and downgrade, start and restart a container, seed | several Alembic processes on one database, in transactions that wait for each other, fail and are started again; plans are looked for and then inserted | `Deployment` |
| API versions, configuration, request schemas, monitoring, demos, safety checks | none shared between requests | | | not modelled |

How they interact.  A container applies Alembic's migrations, then serves.  A
request passes `TenantContextMiddleware` (which starts the metrics and sets the
tenant), logging, the rate limiter, the security headers and the HTTPS redirect,
and comes to an endpoint, a synchronous function that Starlette runs in a pool
of 40 threads.  The
endpoint opens a session (`get_db`), authenticates, and works through
`crud.py`; creating a chama calls `schema_management.py` on a session of its
own from the same pool; members' endpoints end with `.delay` calls to Celery's
broker.  Celery workers and the migration script are processes of their own on
the same database.  WebSocket endpoints and broadcasts are coroutines of one
event loop.

For each part, what makes it correct:

- *Creation.* A chama gets its owner or the request fails without a trace (it
  does not: see the findings); one worker initialises a schema; a chama with an
  owner has a schema; what an interruption leaves behind is known.
- *Ledger.* One membership per user and chama; authority comes from the owner;
  a contribution is credited to who was allowed to make it; answers and
  messages agree with what is committed.
- *WebSockets.* The registry holds the live connections, once each; a broadcast
  reaches those that stay, once; those that have gone are unlisted.
- *Metrics and middlewares.* Each tenant's numbers are its own; what a client
  gets (it should be a 429 for a refusal: see the findings), what is counted and
  what is logged of a request agree.
- *Rate limiter.* Each decision is the one the complete history of its key would
  give; the headers promise nothing that is not kept.
- *Routing and tasks.* A tenant's schema holds that tenant's data only, and the
  contributions of a chama are in one place, where its requests and tasks
  look for them.
- *Billing.* A chama has one subscription, to a plan on offer and with a
  customer of its own, and one default payment method; answers agree with what
  is stored.
- *Deployment.* Alembic's version tells the truth about the schema; every
  container comes up, on the latest version; plans are there once.

## 2. Modules

| module | role |
|---|---|
| `ChamaLifecycle` | abstract specification: a chama goes from none to registered, then to owned or to abandoned, for good |
| `TenantProvisioning` | creation, schemas, pool, migration, administrator, faults; implements `ChamaLifecycle` |
| `ChamaLedger` | the requests that write users, chamas, memberships and contributions |
| `SocketRegistry` | abstract specification: a socket joins one chama, once, and leaves for good |
| `ConnectionManager` | endpoints and broadcasts over the dictionary of lists; implements `SocketRegistry` |
| `RequestMetrics` | requests of several tenants on one metrics context |
| `RequestPipeline` | composes the middlewares and exception handlers with `RequestMetrics` |
| `SlidingWindow` | abstract specification: a limit on the complete log of a key |
| `RateLimiter` | the bounded deques and the responses' headers; implements `SlidingWindow` |
| `ChamaSubscription` | abstract specification: a chama subscribes once and for good, to a plan on offer |
| `Subscriptions` | the billing endpoints and the payment provider; implements `ChamaSubscription` |
| `TenantRouting` | the tables of each schema, and which of them a contribution goes to |
| `TenantTasks` | composes Celery's workers with `TenantRouting`, whose tables they read |
| `Deployment` | Alembic's revisions, the containers and operators that run them, the seeders |
| `MC*` | the constants of the small instances |
| `*_proofs` | theorems and proofs about the module they extend |

In every module the definitions that start with the comment `Mutant:` are what
a plausible slip in the code next to them would do.  No specification uses
them; replacing the original by one must break the property `PROJECT.json`
pairs it with, which is how each property is known to say something.

### TenantProvisioning

A step is a commit, or a read whose answer is used later.  `pc[w]` is the place
of a request thread in `create_chama` (`crud.py:33-48`) or of a migration in
`migrate_existing_chamas` (`schema_management.py:128-156`); both run
`setup_tenant_database`:

| `pc` | the next thing to happen |
|---|---|
| `insert` | the row's `INSERT` and commit, `crud.py:34-36` (`InsertChama`, or `NameTaken`) |
| `refresh` | `db.refresh`, which checks a connection out again, `crud.py:37` |
| `setup` | the second session, `schema_management.py:23-32` |
| `check` | the look at `information_schema`, `schema_management.py:33-41` |
| `create` | `CREATE SCHEMA` and commit, `schema_management.py:43-48` |
| `init` | `create_all` in the schema, `schema_management.py:55-74` |
| `finish` | the owner's membership, `crud.py:43-48` |
| `next` | the migration's next row |

A commit returns the session's connection to the pool and the next statement
takes one again, so at `refresh` a thread holds nothing, from `setup` on it
holds one, and at `check` and `create` two; `Free` counts what is left of
`PoolSize`.  `PoolTimeout` is SQLAlchemy's `QueuePool` giving up: it is enabled
while a thread waits and nothing is free.  `create_all` runs on an engine of
the tenant, outside that pool.  `DatabaseError` ends any handler at any place,
`ServerCrash` all request threads at once; both leave what is committed.
`DropSchema` is the administrator's `drop_tenant_schema`, for the chamas of
`Droppable` only, so that properties can say what holds of the others.
`aborted` is a history variable.

A chama stands for its unique name and for its id alike.  What the model
leaves out: the tables `create_all` makes in `public` when the schema it names
has been dropped; connections the migration uses (its process has a pool of its
own); SQLite, where schemas do not exist and setup does nothing.  A schema is
in `tables` once `create_all` has been run for it; in which schema `create_all`
then makes a table is the subject of `TenantRouting`.

### ChamaLedger

A request is a thread; `pc[r]` names its next query, commit or message.  Rows
carry the request that wrote them as identity.  `raced` is a history variable:
the pairs of user and chama that two requests were adding at the same time.
Roles are those of `models/membership.py`; an added member gets the global role
the user registered with (`members.py:92`), which is why a second owner is
possible.  Foreign keys are enforced or not (`EnforcesForeignKeys`): SQLite,
which the tests use, does not.  `SetupTenant` and `DatabaseError` at `setup`
summarise what `TenantProvisioning` details.

`DatabaseError` may happen at every step.  That also covers a defect of the
models themselves: on PostgreSQL some foreign keys name tables without their
schema, and whether SQLAlchemy resolves them depends on the tables around; the
model takes either outcome at each statement.  Endpoints that only read change
nothing and are left out, and so are a contribution's amount and `chama_id`
(which no code sets).

### ConnectionManager

Code between two awaits runs alone, which `LoopIsFree` says: while a broadcast
has control (phases `looping` and `cleanup`) no other coroutine moves; while it
awaits `send_json` (phase `sending`) anything may.  The iterator of the `for`
loop is an index into the list, as CPython's is.  `disconnect` deletes the key
of an empty list, and a later `connect` makes a new list; a broadcast still
holding the old one has `live = FALSE` (`Orphan`) and finds no next element.
A message with a `datetime` raises in `json.dumps`, before anything is awaited;
one without raises only if the peer has gone.  A failed send is taken for a
disconnection (`websockets.py:43`), so the broadcast of a message that does not
serialise unlists every live client of the chama, which goes on receiving
nothing: `spoiled` are the chamas where that happened, and `ListsAreExact`
says that it happens nowhere else.  `history` and `spoiled` are history
variables.

The router that holds the endpoint is at present not mounted
(`main.py:71-72` leaves it out "for CI/CD testing").  The module models the
component as it is when mounted, as `tests/` use it.

### RequestMetrics

`MetricsContext` is kept in a `threading.local`, and the middleware is a
coroutine: every request of a process shares one.  `Start` is
`TenantContextMiddleware.dispatch` up to `call_next`, `End` the rest of it.
A request without tenant that is cancelled is not ended, as its branch has no
`finally` (`Cancelled`).

### RateLimiter

`is_allowed` does not await, so all of `Dispatch` up to `call_next` is one step,
and `Respond`, which computes the headers after the application has been
awaited, is another.  `times` is the deque of each key, cleaned up only when a
request with that key comes.  Which key and which limit a path has is a table
(`rate_limiting.py:94-126`); the model lets any request come with any key and
any limit, as paths with different limits do share a key.  Time is assumed not
to go back, and limits not to exceed the deque's length (limits are 10 to 500,
the deque's length is 1000, and every window is 60 seconds); the theorems assume
both.  `log` and `due` are history variables: when requests were let through,
and what the last refused request of a key was told.

`Header` is the `Retry-After` header, `retry_after` cut off to whole seconds of
`Second` ticks: a client that waits as long as it says may be refused again, but
not one that waits a second longer (`RetrySuffices`).  That the client of a
refused request never sees the header is the subject of `RequestPipeline`.

### RequestPipeline

Starlette calls the middleware first that is added last, so the order of
`main.py:50-55` is: tenant context, logging, rate limit, security headers, HTTPS
redirect, Prometheus, CORS, application.  (The comment at `main.py:49` lists them
the other way round; Prometheus and CORS change nothing that is modelled.)
`place[r]` is the layer a request has come to on its way in.  A middleware only
awaits the next one, and the metrics are all that requests share, so a
response's way out is one step (`Respond`, `Raise`) as far as the tenant
context, and a second one, `Finish`, for what that does to the metrics after
others may have changed the context.

`raised` is an exception that no layer has answered.  `RateLimitMiddleware` raises
an `HTTPException` (`rate_limiting.py:146`); the application's exception handlers
are inside it and do not see it, logging takes it for a failure, and
`ServerErrorMiddleware`, outside of all, answers 500 with
`general_exception_handler`.  So a refused client sees no 429 (`RefusedGet429`,
finding 3) and no `Retry-After`, and neither it nor the client of any unhandled
exception gets the headers that `middleware.py:38` adds "to all responses".
`OutcomesAgree` is about what leaves the middlewares, before that handler: a
refusal has its status, every response the security headers, and the log one
line of the outcome, of the right kind.  `Label` is the `status_code` that the metrics are
given: for a request with a tenant 200 or 500, never what the client got.

The security headers are enabled (their default), a 404 stands for any client
error, and the values of headers are left out.

### Subscriptions

The endpoints of `routers/billing.py` are coroutines whose queries do not
await.  So an endpoint is one step unless it calls the provider; then it is
`Ask...` with its query before the call, and a second step with its insert
after it.  Other requests, a timeout (`CallFails`) and `ServerCrash` come in
between, and the provider's own steps may come later than any of them.  That a
request which waits for the provider ends is not claimed: `paystack_client.py:48`
leaves httpx its default timeout, five seconds for each read and not for the
call, so a provider that sends a byte now and then can keep it waiting.
`Clashes` stands for the unique columns of `subscriptions`, whose
`IntegrityError` is a 500; `Committed` for a commit after which the refresh, or
the reload of an attribute (`billing.py:286`), may fail.  In test mode the client makes a customer's id of the chama's and
calls nobody.

One server process is modelled; with several, the query and the insert of one
`add_payment_method` would also be apart, and `OneDefault`, a part of
`PaymentsBacked`, would not hold.
Payments of the provider are ids, amounts and currencies are left out, and so
are endpoints that only read and the webhook, which only logs.  The chama of a
request is its tenant context.  None of the billing URLs matches a pattern of
`TenantContextMiddleware`, so as deployed every billing endpoint
answers 400; the model takes the context as set, as the tests set it.

### TenantRouting and TenantTasks

A name without a schema means the first table on the session's search path,
`Meaning`.  `contributions` is the table the models leave unqualified.
`create_all` looks for each table on the same path, public included, and makes
what it does not find in the first schema that exists: `LookForTables` and
`CreateTables` are two steps, since another setup may come between them.  What
public holds before the service starts is one of `Prepared`: nothing, the
model's table, or the one the Alembic migrations leave, which has no
`membership_id` (`alembic/versions/3d353c840601...py:45-51`) and so can neither
take a contribution nor be counted.  `Route` is the middleware: a URL under the
legacy prefix `/api` (`main.py:66`) matches no pattern and has no tenant, so its
session works in public.  `OneHome`, a part of `RowsAtHome`, is therefore about `/api/v1`: a contribution
made under `/api` may be in another table than the rest of its chama's.
`raced` is a history variable for the one case in which `/api/v1` too has two
tables: a chama had missed its table when public got one, and makes its own
after contributions have gone to public's.  Every chama has officers here, as a
migrated one has; roles are `ChamaLedger`'s subject.

`TenantTasks` adds workers to that system.  A worker is a process with one
`current_tenant`, which `recompute_chama_summaries` sets "for this entire
background task" (`tasks/analytics.py:13`) and restores in `finally` (`EndTask`);
the other tasks set none.  `db.close()` comes before the reset there and may
raise: on a connection that was lost since the last query, or with an
`UnboundLocalError` when `get_db` raised.  Then the tenant stays (`CloseFails`),
and the worker's next tasks without a tenant read from that chama's schema
until its process dies.  `left` is a history variable for the tenant that stayed;
`TasksReadTheirOwn` allows exactly this case, and a later recomputation still reads
its own chama's.  Queues are not modelled: a worker may be
given any task at any time, so late, lost and repeated tasks are included.

What the two modules show of the code, or take from it as it is:

- On a database that Alembic has prepared, public's table hides the missing ones
  from `create_all`, and a chama whose setup went through has no table that takes
  a contribution: `NewChamasCanContribute` is violated (finding 4).
  `OnlyAlembicPrevents` says that nothing but Alembic's table does this.
- A contribution under the legacy URL goes to public whatever table its chama
  has.
- Analyses and reports name no tenant and read from public, where a chama with
  tables of its own has nothing under `/api/v1`.
- `recompute_chama_summaries` fails at `tasks/analytics.py:51`, as
  `Contribution` has no `user_id`; the analysis fails at :141 on `func.interval`.
  The endpoints that read the cache pass `db=None` to the role check
  (`routers/chamas.py:122`) and fail before they ask for it.  No code reaches
  the cache with a summary, which is why there is no model of it.
- `celery_config.py:16` routes tasks to queues that the worker of
  `docker-compose.yml:46` does not consume.  The model is about tasks that a worker has, as the tests
  call them.

### Deployment

A migrator is a container of `docker-compose.prod.yml`, which upgrades to the
head and then serves, or an operator who runs Alembic by hand
(`README.md:241`), in either direction.  `alembic/env.py:64-67` runs all
revisions in one transaction, and PostgreSQL's schema changes are
transactional: `tx[m]` is what the transaction has made and dropped, as only it
sees (`View`), and the objects it has locked; an operation on what another has
locked waits (`Running`).  `Upgrade` and `Downgrade` are the revisions' scripts as
sequences of operations, each with what it needs, makes and drops; an
operation on what is there already or not there fails (`Fail`), and with it the
transaction and the container.  `Stamp` is Alembic's update of its version at the
end of each revision, which fails unless the row still has the version that was
read.  That row, and not a lock, is what keeps two migrators apart that began
together.  `Victim` is PostgreSQL's deadlock detection, `Crash` a process that
ends in the middle.

`CreateChama` is here for the tables of subscriptions and plans, which no
revision makes: the first chama's `create_all` does.  So the seeder, which
"Run this after setting up the database" (`seed_billing_data.py:4`) is for, fails on a
database that Alembic has just set up.  `behind` and `raced` are history
variables: containers that a downgrade has overtaken, seeders that another one
has overtaken between their query and their commit.

What the module shows of the revisions, or takes from them as it is:

- The downgrade of `3d353c840601` drops a constraint without a name
  (`drop_constraint(None)`), which always fails (`Nameless`): nobody gets below
  that version.
- The downgrade of `b12345678901` leaves the type `userrole`; `checkfirst=True` in
  its upgrade is what gets the next upgrade past it.  The mutant
  `AddUserColumnsOnce` leaves that out, and no container starts any more.
- An upgrade and a downgrade lock tables in opposite orders and can deadlock.

Left out: the creation of `alembic_version` itself (the version 0 is an empty
table); indexes; the values that a change of type casts; and that the type an
enum column refers to may be in a tenant's schema.  The development containers
(`docker-compose.yml`, without a restart policy) and Railway's image (which
starts without Alembic) are not modelled.

What the models of the API declare is in `UserModel` to `ContributionModel`, and
what of it no revision makes in `Unmigrated`: the unique name of a chama
(`3d353c840601...py:34` has `unique=False`), the `NOT NULL` columns of a
membership, and `membership_id` of `contributions`.  `ServesTheHead` says that a
container serves without these and with everything else, billing's tables
apart; what the lack of `membership_id` leads to is finding 4.

## 3. What is checked

Bounds are in the `MC` modules and the `.cfg` files.  Every run finishes within
three minutes on two cores, most of them in less than one.

| run | instance | question |
|---|---|---|
| `provisioning` | 2 chamas (one droppable), 2 request threads, 1 migration, pool of 2, faults | `OneInitialiser`, `SchemasExplained`, `NeverRepaired`: who initialises a schema and what stays behind an interruption; `RequestsEnd`: no creation waits for ever; `ImplementsLifecycle` |
| `pool` | as above, without faults and migration | violates `CreatedWithOwner` (finding 1) |
| `ledger` | 2 users (1 registered from the start), 1 chama, 4 requests of any kind, crashes | `DuplicatesOnlyFromRaces`; `AuthorityFromOwner`: who may add members and contribute; `CommittedBeforeTold`: what answers and messages mean |
| `duplicates` | the same | violates `NoDuplicateMembership` (finding 2) |
| `sockets` | 3 sockets, 1 chama, 2 broadcasts at a time, both kinds of message | `ListsAreExact`, `MissedAtMostDepartures`, `NoRepeatedSend`, `GoneAreUnlisted`, `ImplementsRegistry` |
| `metrics` | 3 requests, 2 tenants or none, HTTPS forced, every way through the middlewares | `SerialOutcomesAccurate`, `OutcomesExactInTotal`: what is counted; `OutcomesAgree`: what leaves the middlewares and what is logged |
| `refused` | the same | violates `RefusedGet429` (finding 3) |
| `rate_limit` | 5 requests, 1 key, limits 2 and 3, a deque of 3, a window of 2 ticks in 5, a second of 2 ticks | `ImplementsWindow`, `HeaderIsSafe`, `RetrySuffices`: decisions and promises of a lazily cleaned, bounded deque that paths share |
| `subscriptions` | 3 requests, 2 users, 2 chamas, 3 plans (1 withdrawn), faults | `ImplementsSubscription`, `CustomersApart`, `RecordsAgree`, `PaymentsBacked`: what late answers can do |
| `routing` | 2 requests, 2 chamas, 1 worker, each kind of prepared database | `RowsAtHome`: where contributions go; `OnlyAlembicPrevents`: who can make them; `TasksReadTheirOwn`: where tasks look for them |
| `alembic_first` | the same | violates `NewChamasCanContribute` (finding 4) |
| `deployment` | 2 containers, 1 operator with 1 command, 2 crashes, 2 seeders, a database of any version | `VersionDescribesSchema`, `CommitsFollowOn`, `ServesTheHead`: what overlapping migrations leave; `EveryContainerServes`; `PlansDoubledOnlyByOverlap` |

Why the bounds are enough.  Provisioning: the pool of 15 connections (5 and an
overflow of 10) against 40 threads is a pool of 2 against 2 threads, since what
matters is that as many threads hold one connection as there are connections;
a migration and a thread suffice for each race on a schema, and the theorems
below lift the safety properties to any number of both.  Ledger: the longest
causal chain is register, create, add, contribute, four requests; a race needs
two.  Two users are the officer and the one added.  Sockets: to skip one, a
broadcast needs one socket in front that leaves and one behind that stays; the
third is one that joins or leaves meanwhile, and each broadcast may be followed
by another.  One chama keeps the run small; that chamas do not disturb each
other is part of `RegistryExact`, proved for any number.  Metrics: two
requests of two tenants overlap in every way, and the third drifts away from
both; with the redirect on, every layer can be the one that answers.  Rate limiter: keys share nothing; the deque is as long as the higher
limit, so that it overflows if anything lets it; the window passes twice, and
five requests fill it, are refused, and fill it again.  Subscriptions: two
requests race for one chama, or one user subscribes two; the third is the
payment or the change that follows.  Routing: a contribution in each of
two places needs two requests; two chamas, as one's setup may hide the other's
tables; workers share nothing.  Deployment: two migrators that begin together
are two containers or a container and an operator; one command can take the
database back or forth at any moment of theirs, and two crashes hit both
containers or one of them twice.

The requests of `RequestMetrics`, `RequestPipeline`, `RateLimiter` and
`Subscriptions` end, the clock of `RateLimiter` stops at its bound, so may all
that goes on in `TenantTasks`, and in `Deployment` all containers serve; the runs of these modules do not check deadlock, and the others
do.  `ledger`, `duplicates`, `metrics`, `refused`, `rate_limit`, `routing` and
`alembic_first` use the symmetry of values that no definition tells apart, and
check safety only.

Fairness.  `TenantProvisioning!FairSpec` assumes that a thread the server has
started goes on (`WF` of its own steps, `PoolTimeout` included): the operating
system schedules threads, the pool has a timeout, and PostgreSQL answers or
raises.  Nothing is assumed of clients, of the migration or of the
administrator.  `ConnectionManager!FairSpec` assumes that the event loop runs
the coroutine that has control (`WF`), and that an endpoint whose peer has gone
is run some time (`SF`, since other coroutines take control from it again and
again, and the loop serves ready coroutines in order).  A send is not assumed
to end: a slow client may keep its broadcast for ever, and `GoneAreUnlisted`
holds nevertheless.  Nothing is assumed of the payment provider, and so
`Subscriptions` has no liveness property.
`Deployment!Spec` assumes that Docker starts a container that has stopped (`WF` of
`Begin`: `restart: unless-stopped`), that PostgreSQL resolves deadlocks (`WF` of
`Victim`), and that a migrator that can go on again and again does (`SF` of
`Proceed`: others take locks it waits for, and PostgreSQL grants a lock in the order
of the queue).  Operators and seeders need not do anything.

## 4. What the code does that its documentation does not say

1. `CreatedWithOwner` (run `pool`): `create_chama` holds one connection and
   waits for a second from the same pool.  Enough creations at once exhaust it;
   they time out after the chama's commit, so the chama exists, nobody owns it,
   and its name is taken.  `routers/chamas.py:26`: "Create a new Chama with the
   current user as owner."
2. `NoDuplicateMembership` (run `duplicates`): two requests both find no
   membership and both add one.  `exceptions.py:67`: "User is already a member
   of this chama".
3. `RefusedGet429` (run `refused`): the rate limiter raises its refusal outside of
   the application's exception handlers, and the client gets a 500 without
   `Retry-After` and without security headers.  `rate_limiting.py:145`: "Return
   rate limit exceeded response", and the test at :259 asserts a 429.
4. `NewChamasCanContribute` (run `alembic_first`): where Alembic made
   `contributions` in public, as `README.md:241` has it ("alembic upgrade head"),
   `create_all` finds that table and makes none for the chama; the insert then
   fails on `membership_id`, which no revision adds.  `MULTI_TENANT_README.md:82`:
   "Automatically creates: chama_123 schema with tables", of which :39 names
   `contributions`.

The first one takes the models as they are without `DATABASE_URL` in the
process's environment (the setting then comes from the `.env` file): with the
variable there, `models/chama.py:15` refers to "users.id" while the table is
`public.users`, and whether anything can be created depends on the tables around
(see `ChamaLedger`).

Two more disagreements have no run of their own, as the properties that hold
bound them exactly.  A connection that leaves during a broadcast shifts the list
under the iterator, and one that stays is skipped (`routers/websockets.py:37`:
"Broadcast message to all connections for a specific chama"): where nobody
leaves nobody is missed (`BroadcastComplete`).  And overlapping requests are
ended for each other's tenants (`elevation_status.md:60`: "Thread-local context
ensures accurate per-request tracking"): the numbers of each tenant are right
for requests that do not overlap (`SerialOutcomesAccurate`).

Each of the six comes with a property that holds and says how far the damage goes:
an ownerless chama stays so (`ImplementsLifecycle`) and never has a contribution
(`AuthorityFromOwner`), duplicates come from overlapping requests only
(`DuplicatesOnlyFromRaces`), a refusal is a refusal up to the last handler
(`OutcomesAgree`), nothing but Alembic's table keeps a chama from its
contributions (`OnlyAlembicPrevents`) and with it nothing is ever recorded
(`AlembicStopsContributions`), a broadcast misses no more connections than have
left (`MissedAtMostDepartures`), and the metrics stay right in total
(`OutcomesExactInTotal`).

## 5. What is proved

The theorems hold for every value of the constants that satisfies the module's
`ASSUME`: finitely many threads, sockets and seeders (and, in `RequestMetrics`,
requests and tenants), limits no larger than the deque, containers that are not
operators, and null values outside the sets they complete.  Each safety property
of a passing run is proved.

`TenantProvisioning_proofs`.  `Typed` is the type invariant with the fact
that a worker in the middle of a setup has a chama.  `SchemaInv` is inductive
on top of it: to show that no two workers initialise one schema one needs that
whoever initialises has created it (`Initialising`), and to show that owned
chamas have schemas one needs that this holds already at `finish`
(`FinishHasSchema`); that an aborted schema stays without tables follows from
`AbortedStayBare`, as nobody else initialises it.  From it:
`SingleInitialiser`, `SchemasAccountedFor`, `AbortedNeverRepaired`.
`CreationInv` (at most one request creates a chama, and
only while it has no owner) yields the refinement `LifecycleImplemented`, step
by step.  `OwnerWhenCalm` is the counterpart of finding 1: with two connections
for each thread, no faults and no migration, every chama gets its owner; the
proof counts connections (`NoPoolTimeout`).  Where there are faults,
`AbandonedForGood` says what the refinement means for a chama whose creation
stopped half-way: nothing ever repairs it.  `PoolNeverOverdrawn` counts the
connections out; with it nobody waits for one that is neither there nor timed
out (`NobodyIsStuck`), each step of a thread leaves it less of the seven it has
(`GoingOn`), and so `CreationsEnd`, one place after the other (`OneStepOn`).

`ChamaLedger_proofs`.  `Identified` (a row's `by` names the request that wrote
it, and only requests past their insert have rows), `Vouched` (officers,
additions an owner has been let through to, and creations under way all go
back to the chama's creator),
`Credited` (the membership a request holds is a row of its user and chama) and
`Fresh` (while a pair has not raced, who is adding it has found no row)
are the strengthenings behind `OfficersVouched` and `DuplicatesNeedRaces`.
For `ToldWhenDone`, `Committed` says which rows a request that is to publish has
committed, and `Kept` which rows and messages a request has left behind at each
of its later places; nothing takes them back (`RecordsStay`, `OthersKept`).

`RequestPipeline_proofs`.  `ContextIsItsOwn`: while requests have not
overlapped, the metrics' context is that of the one request in flight.  With it
`SerialExact` follows for `RequestMetrics`, by the cardinalities of `OneMore` and
`OneLess`.  `MetricsImplemented` carries that over to the pipeline.  `InStep` ties
the place of a request to its state in the metrics, and with it
`OutcomesAgree` is inductive (`OutcomesAlwaysAgree`); `SerialLabels` counts the
requests that are over by their outcome (`SerialOutcomes`).
For requests that do overlap, `TotalsAlwaysExact` and `OutcomesExact` count over
all tenants: `AllHaveTenants` says that the context, whosever it is, names a
tenant while any request is in flight, so that each start and end adds one to
some tenant's number and hence one to the total.  The totals are folds over the tenants;
what adding one does to such a sum is shown by a smallest set of tenants for
which it would fail, as induction itself is not available.

`ConnectionManager_proofs`.  `RegistryInv` adds to `NoLeak` the types it needs;
`RemoveAtProperties` says what `list.remove` leaves of a list, `UnlistRemoves`
and `AppendAdds` what that means for who is listed where.  That live clients stay
listed needs `Justified`: whom a broadcast is going to unlist has gone, or its
chama is spoiled.  Together they are `RegistryExact`; the refinement
`RegistryImplemented` follows by the actions.  The broadcast's index is the
subject of `OnCourse`: those it still owes a message are ahead of the index or
one of as many as were removed, and nobody it has sent to is ahead of it.
A removal moves at most one connection from ahead of the index to behind it
(`PassedShifts`, `CourseAfterRemoval`); one that joins is appended ahead of
it and owed nothing (`CourseAfterAppend`).  From that `MissesBounded` and
`NeverSentTwice`; and `BroadcastComplete`: where
nobody leaves, nobody is missed.  That a broadcast does not keep the event loop
is `LoopNeverHeld`: two never have control at once (`OneInControl`), and what
the one that has it can still do is bounded by `Work`, which every step of it
lowers.  `GoneForGood` is the end of a connection: if the loop comes free and
the end of an endpoint is noticed, it is unlisted and never listed again.

`RateLimiter_proofs`.  `DequeEndsLog` is the argument: the deque is the end of
the complete log, what has left it is outside the window for good, and the log
is in order.  `PopKeepsEnd` and
`PushKeepsEnd` show that the cleanup and the bounded append keep it so.  With it
the deque after the cleanup counts what `SlidingWindow` counts
(`FreshIsRecent`), from which `WindowImplemented` and `HeaderNeverPromisesMore`
follow; `RetryAfterSuffices` needs `DueIsFirst` besides, which ties what a
refused request was told to the first of the times it waits for.
`NeverOverLimit` is what the limiter is for, seen from outside: at most the limit
in any stretch as long as the window, wherever it begins, and at most the
highest where several limits share a key (the lower one does not hold then: a
request under the higher limit may come after it was used up).

`Subscriptions_proofs`.  `StepEffects` and `TableEffects` say once what a step
can do to each variable, so that the invariants need not repeat the actions;
`Steady` collects what no step takes back.  `RowsInv` strengthens `CustomersApart` by
`Registered` (who has a customer, has one under its email), `OnePerChama` and
`Written`; it gives the refinement `SubscriptionImplemented`.  That rows stay
(`RowsStay`), with `MethodsInv` for the one default, gives
`PaymentsForSubscribed`.  `Served` (who asked for a subscription and was not
cut off has a customer, and its chama or that customer is subscribed) yields
`RecordsAlwaysAgree`.

`TenantTasks_proofs`, of `TenantRouting` first and then of the composition.
`OwnContext` (a request's
context and path are those of its URL), `Placed`, `RacedWhenMissing`,
`HomeIsPublic` (a chama that contributed to public has no table, and will get
none but by the race), `AlembicBlocks` and `SetUpFinds` (a chama that is set up
finds a table of the models, on any other database) together are inductive, and
imply `EveryRowAtHome`, `SetUpChamasContribute` and, about the same database as
finding 4, `AlembicStopsContributions`.
`RoutingUndisturbed` shows that the composition with the workers implements
`TenantRouting`, so that these theorems carry over; `OwnTenant` and `OwnPath`
(a worker's tenant is that of its own task, or the one that the last failed
close left behind) then give `TasksReadRight`.

`Deployment_proofs`.  `UpgradeLeadsOn` and `DowngradeLeadsBack` are about the
revisions alone: whatever follows from a version's schema by its script is that
of the next version, but for `userrole`.  `Exclusive` (no two transactions have a
lock on one object) and `Stamped` (who has stamped has the lock on the version, and
read the version that is there) give `VersionsFollow`.  `Sound` says that what
a transaction has made and dropped leads from the schema of the version it read
to the one its scripts have at its place; as a commit that changes anything
finds that version still there (`Stamped`), the schema is then the right one.
`NamelessNever` closes the way below `3d353c840601`.  From these,
`VersionsTellTheTruth`; with `OnCourse` (a container that no downgrade has
overtaken is going to the head, or is there) `ServesAllButUnmigrated`.  `Counted` (who
found no plans saw none, or has been overtaken since) gives `PlansOnce`.
`UpgradesFailOnlyIfOvertaken` uses `Sound` once more: on the schema that is there
each operation of an upgrade is possible, the type that a downgrade leaves
behind included (`FitsWhenClose`), unless the version has moved under it.
`NeverStuckOnLocks`: only who is migrating holds locks, so if nobody can go on,
those that migrate wait for each other and PostgreSQL ends one.

Fairness in these theorems.  TLAPS does not reason about `ENABLED`, and so not
about `WF_` and `SF_`.  `CreationsEnd` and `GoneForGood` state the fairness of
the runs with the actions' guards in the place of `ENABLED`
(`GoesOn`, `IsNoticed`); that the guards are what enables the actions
is read off their definitions and not proved, and the runs check
`RequestsEnd` and `GoneAreUnlisted` under `WF_` and `SF_` themselves.

What stays with TLC.  That step from `WF_` and `SF_` to the guards; and two
liveness properties.  `GoneAreUnlisted` follows from `GoneForGood` once the loop
comes free, which `LoopNeverHeld` shows for one broadcast at a time; putting
them together is an induction on `Work` in temporal logic.
`EveryContainerServes` needs one on the restarts and the operations that are
left, over all containers.

## 6. Plan

The modules were written in the order of section 2.  What is left:

1. `ChamaLedger` composed with `TenantRouting`: whose memberships a contribution
   finds in which schema, and `TenantProvisioning`'s overlapping setups there.
2. The summary cache, when the code reaches it: a summary is of its own tenant
   and no older than its lifetime.
3. Several server processes: the registry, the metrics and the limiter of each
   are its own, and billing's queries and inserts come apart.
4. `Deployment` with the tenants' schemas: a migration between the setups of
   chamas that see public's tables.

Not modelled, and why: `cache_utils.py` (nothing of the service reaches it);
request schemas and configuration (declarations); the rest of the Paystack
client (no endpoint calls it); hashing and tokens (cryptography without state);
`safety_checks.py`, the demo and the monitoring files (they read, or call the
endpoints).  The hazards that no property covers are in `PROJECT.json` with a
note that says why.

## 7. Running

    tlc -config TenantProvisioning.cfg MCTenantProvisioning.tla
    tlapm TenantProvisioning_proofs.tla

and likewise for the other runs of `PROJECT.json` and the other `*_proofs`
modules.
