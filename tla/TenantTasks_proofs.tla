------------------------- MODULE TenantTasks_proofs -------------------------
(***************************************************************************)
(* Theorems about TenantRouting and TenantTasks, for any requests, chamas  *)
(* and workers.  The first half is about requests and setups alone; tasks  *)
(* leave those as they are, so what holds of them holds beside tasks.      *)
(***************************************************************************)
EXTENDS TenantTasks, TLAPS

\* The context of a request, and the path of its session, are those of its
\* own chama, or of none under a legacy URL.
OwnContext ==
  \A r \in Requests :
    /\ pc[r] = "routed" =>
         context[r] = IF about[r].url = "v1" THEN about[r].chama ELSE NoTenant
    /\ pc[r] = "bound" =>
         path[r] = IF about[r].url = "v1" THEN about[r].chama ELSE Public

\* Each row is in a table of the models, of its own chama or of public.
Placed ==
  \A x \in rows : tables[x.place] = "model" /\ x.place \in {x.chama, Public}

\* While public has no table no row is there, and once it has one, a chama
\* that is about to make its own is one of those that raced.
RacedWhenMissing ==
  tables[Public] # "none" =>
    \A c \in Chamas : setup[c] = "missing" => c \in raced

\* A chama that contributed to public under /api/v1 has no table, and will not.
HomeIsPublic ==
  \A x \in rows :
    x.place = Public /\ x.url = "v1" => tables[x.chama] = "none" \/ x.chama \in raced

AlembicBlocks ==
  tables[Public] = "alembic" =>
    /\ rows = {}
    /\ \A c \in Chamas : tables[c] = "none" /\ setup[c] # "missing"

\* Elsewhere, a chama that is set up finds a table of the models.
SetUpFinds ==
  /\ \A c \in Chamas : tables[c] # "alembic"
  /\ tables[Public] # "alembic" => \A c \in Chamas : SetUp(c) => tables[Meaning(c)] = "model"

Inv == /\ TypeOK /\ OwnContext /\ Placed /\ RacedWhenMissing /\ HomeIsPublic
       /\ AlembicBlocks /\ SetUpFinds

LEMMA InitInv == Init => Inv
BY RoutingAssumption
   DEF Init, Inv, TypeOK, OwnContext, Placed, RacedWhenMissing, HomeIsPublic,
       AlembicBlocks, SetUpFinds, SetUp, Schemas, URLs, Prepared

\* Setups leave requests alone, requests leave all but the rows alone.
LEMMA SetupKeepsContext ==
  ASSUME OwnContext, UNCHANGED request
  PROVE  OwnContext'
BY DEF OwnContext, request

LEMMA RequestKeepsTables ==
  ASSUME Placed, RacedWhenMissing, HomeIsPublic, AlembicBlocks, SetUpFinds,
         UNCHANGED database
  PROVE  (Placed /\ RacedWhenMissing /\ HomeIsPublic /\ AlembicBlocks /\ SetUpFinds)'
BY DEF Placed, RacedWhenMissing, HomeIsPublic, AlembicBlocks, SetUpFinds, SetUp, Meaning,
       database

LEMMA NextInv == Inv /\ [Next]_vars => Inv'
<1> SUFFICES ASSUME Inv, [Next]_vars
             PROVE  Inv'
  OBVIOUS
<1> USE RoutingAssumption DEF Inv
<1> DEFINE Tables == Placed /\ RacedWhenMissing /\ HomeIsPublic /\ AlembicBlocks
<1>1. ASSUME NEW c \in Chamas, CreateSchema(c)
      PROVE  Inv'
  <2>1. TypeOK'
    BY <1>1 DEF CreateSchema, TypeOK, request
  <2>2. Tables'
    BY <1>1 DEF CreateSchema, TypeOK, Placed, RacedWhenMissing, HomeIsPublic, AlembicBlocks
  <2>3. SetUpFinds'
    BY <1>1 DEF CreateSchema, TypeOK, SetUpFinds, SetUp, Meaning
  <2>4. QED
    BY <1>1, <2>1, <2>2, <2>3, SetupKeepsContext DEF CreateSchema
<1>2. ASSUME NEW c \in Chamas, LookForTables(c)
      PROVE  Inv'
  <2>1. TypeOK'
    BY <1>2 DEF LookForTables, TypeOK, request
  <2>2. tables[Public] # "none" => setup'[c] = "over"
    BY <1>2 DEF LookForTables, Meaning, TypeOK
  <2>3. \A d \in Chamas : d # c => setup'[d] = setup[d]
    BY <1>2 DEF LookForTables, TypeOK
  <2>4. UNCHANGED <<tables, rows, raced>>
    BY <1>2 DEF LookForTables
  <2>5. Tables'
    BY <2>2, <2>3, <2>4 DEF Placed, RacedWhenMissing, HomeIsPublic, AlembicBlocks
  <2>6. SetUpFinds'
    <3>1. Meaning(c) \in {c, Public}
      BY DEF Meaning
    <3>2. tables[Meaning(c)] \in {"none", "alembic", "model"}
      BY <3>1 DEF TypeOK, Schemas
    <3>3. setup'[c] = "over" /\ tables[Public] # "alembic" => tables[Meaning(c)] = "model"
      BY <1>2, <3>1, <3>2 DEF LookForTables, TypeOK, SetUpFinds
    <3>4. schemas' = schemas
      BY <1>2 DEF LookForTables
    <3>5. QED
      BY <2>3, <2>4, <3>3, <3>4 DEF SetUpFinds, SetUp, Meaning
  <2>7. QED
    BY <1>2, <2>1, <2>5, <2>6, SetupKeepsContext DEF LookForTables
<1>3. ASSUME NEW c \in Chamas, CreateTables(c)
      PROVE  Inv'
  <2>1. TypeOK'
    BY <1>3 DEF CreateTables, TypeOK, Schemas, request
  <2>2. CASE c \in schemas
    <3>1. /\ tables' = [tables EXCEPT ![c] = "model"] /\ tables[c] = "none"
          /\ setup' = [setup EXCEPT ![c] = "over"] /\ setup[c] = "missing"
          /\ UNCHANGED <<rows, raced>>
      BY <1>3, <2>2 DEF CreateTables
    <3>2. tables'[Public] = tables[Public]
      BY <3>1 DEF TypeOK, Schemas
    <3>3. Placed'
      BY <3>1 DEF Placed, TypeOK, Schemas
    <3>4. RacedWhenMissing' /\ AlembicBlocks'
      BY <3>1, <3>2 DEF RacedWhenMissing, AlembicBlocks, TypeOK, Schemas
    <3>5. HomeIsPublic'
      BY <3>1, <3>2 DEF HomeIsPublic, RacedWhenMissing, Placed, TypeOK, Schemas
    <3>6. SetUpFinds'
      BY <1>3, <3>1, <3>2 DEF CreateTables, SetUpFinds, SetUp, Meaning, TypeOK, Schemas
    <3>7. QED
      BY <1>3, <2>1, <3>3, <3>4, <3>5, <3>6, SetupKeepsContext DEF CreateTables
  <2>3. CASE c \notin schemas
    <3>1. /\ tables' = [tables EXCEPT ![Public] = "model"] /\ tables[Public] = "none"
          /\ setup' = [setup EXCEPT ![c] = "over"]
          /\ raced' = raced \cup {d \in Chamas : setup[d] = "missing"}
          /\ UNCHANGED rows
      BY <1>3, <2>3 DEF CreateTables
    <3>2. Placed' /\ RacedWhenMissing' /\ AlembicBlocks'
      BY <3>1 DEF Placed, RacedWhenMissing, AlembicBlocks, TypeOK, Schemas
    <3>3. HomeIsPublic'
      BY <3>1 DEF HomeIsPublic, TypeOK, Schemas
    <3>4. SetUpFinds'
      BY <1>3, <3>1 DEF CreateTables, SetUpFinds, SetUp, Meaning, TypeOK, Schemas
    <3>5. QED
      BY <1>3, <2>1, <3>2, <3>3, <3>4, SetupKeepsContext DEF CreateTables
  <2>4. QED
    BY <2>2, <2>3
<1>4. ASSUME NEW c \in Chamas, SetupFails(c)
      PROVE  Inv'
  <2>1. TypeOK'
    BY <1>4 DEF SetupFails, TypeOK, request
  <2>2. Tables'
    BY <1>4 DEF SetupFails, TypeOK, Placed, RacedWhenMissing, HomeIsPublic, AlembicBlocks
  <2>3. SetUpFinds'
    BY <1>4 DEF SetupFails, TypeOK, SetUpFinds, SetUp, Meaning
  <2>4. QED
    BY <1>4, <2>1, <2>2, <2>3, SetupKeepsContext DEF SetupFails
<1>5. ASSUME NEW c \in Chamas, DropSchema(c)
      PROVE  Inv'
  <2>1. TypeOK'
    BY <1>5 DEF DropSchema, TypeOK, Schemas, request
  <2>2. Tables'
    BY <1>5 DEF DropSchema, TypeOK, Schemas, Placed, RacedWhenMissing, HomeIsPublic,
       AlembicBlocks
  <2>3. SetUpFinds'
    BY <1>5 DEF DropSchema, TypeOK, Schemas, SetUpFinds, SetUp, Meaning
  <2>4. QED
    BY <1>5, <2>1, <2>2, <2>3, SetupKeepsContext DEF DropSchema
<1>6. ASSUME NEW r \in Requests, Route(r)
      PROVE  Inv'
  <2>1. TypeOK'
    BY <1>6 DEF Route, TypeOK, database
  <2>2. OwnContext'
    BY <1>6 DEF Route, TypeOK, OwnContext
  <2>3. QED
    BY <1>6, <2>1, <2>2, RequestKeepsTables DEF Route
<1>7. ASSUME NEW r \in Requests, OpenSession(r)
      PROVE  Inv'
  <2>1. TypeOK'
    BY <1>7 DEF OpenSession, TypeOK, Schemas, database
  <2>2. OwnContext'
    BY <1>7 DEF OpenSession, TypeOK, OwnContext
  <2>3. QED
    BY <1>7, <2>1, <2>2, RequestKeepsTables DEF OpenSession
<1>8. ASSUME NEW r \in Requests, InsertContribution(r)
      PROVE  Inv'
  <2> DEFINE place == Meaning(path[r])
             x == [by |-> r, chama |-> about[r].chama, url |-> about[r].url, place |-> place]
  <2>1. /\ tables[place] = "model" /\ rows' = rows \cup {x}
        /\ pc' = [pc EXCEPT ![r] = "done"]
        /\ UNCHANGED <<about, context, path, schemas, tables, setup, raced>>
    BY <1>8 DEF InsertContribution
  <2>2. place \in {about[r].chama, Public}
    BY <1>8 DEF InsertContribution, OwnContext, Meaning, TypeOK, URLs
  <2>3. place = Public /\ about[r].url = "v1" => tables[about[r].chama] = "none"
    BY <1>8 DEF InsertContribution, OwnContext, Meaning, TypeOK, URLs
  <2>4. about[r].chama \in Chamas /\ about[r].url \in URLs /\ place \in Schemas
    BY <2>2 DEF TypeOK, Schemas
  <2> HIDE DEF place
  <2>5. x.by = r /\ x.chama = about[r].chama /\ x.url = about[r].url /\ x.place = place
    OBVIOUS
  <2>6. x \in [by : Requests, chama : Chamas, url : URLs, place : Schemas]
    BY <2>4
  <2> HIDE DEF x
  <2>7. TypeOK'
    BY <2>1, <2>6 DEF TypeOK
  <2>8. OwnContext'
    BY <2>1 DEF OwnContext, TypeOK
  <2>9. Placed' /\ HomeIsPublic'
    BY <2>1, <2>2, <2>3, <2>5 DEF Placed, HomeIsPublic
  <2>10. RacedWhenMissing' /\ AlembicBlocks'
    BY <2>1, <2>2, <2>4 DEF RacedWhenMissing, AlembicBlocks
  <2>11. SetUpFinds'
    BY <2>1 DEF SetUpFinds, SetUp, Meaning
  <2>12. QED
    BY <2>7, <2>8, <2>9, <2>10, <2>11
<1>9. ASSUME NEW r \in Requests, DatabaseError(r)
      PROVE  Inv'
  <2>1. TypeOK'
    BY <1>9 DEF DatabaseError, TypeOK, database
  <2>2. OwnContext'
    BY <1>9 DEF DatabaseError, TypeOK, OwnContext
  <2>3. QED
    BY <1>9, <2>1, <2>2, RequestKeepsTables DEF DatabaseError
<1>10. CASE UNCHANGED vars
  <2>1. TypeOK'
    BY <1>10 DEF vars, TypeOK
  <2>2. UNCHANGED request /\ UNCHANGED database
    BY <1>10 DEF vars, request, database
  <2>3. QED
    BY <2>1, <2>2, SetupKeepsContext, RequestKeepsTables
<1>11. QED
  BY <1>1, <1>2, <1>3, <1>4, <1>5, <1>6, <1>7, <1>8, <1>9, <1>10 DEF Next

LEMMA Invariant == Spec => []Inv
BY InitInv, NextInv, PTL DEF Spec

\* Every reachable state is well typed, and no table is in a schema that does
\* not exist.
THEOREM TypeCorrect == Spec => []TypeOK
<1>1. Inv => TypeOK
  BY DEF Inv
<1>2. QED
  BY <1>1, Invariant, PTL

\* A chama that has been set up can contribute under /api/v1, however setups,
\* failures and dropped schemas overlap, unless Alembic made contributions.
THEOREM SetUpChamasContribute == Spec => []OnlyAlembicPrevents
<1>1. Inv => OnlyAlembicPrevents
  <2> SUFFICES ASSUME Inv, tables[Public] # "alembic", NEW r \in Requests,
                      pc[r] = "bound", about[r].url = "v1", SetUp(about[r].chama)
               PROVE  tables[Meaning(path[r])] = "model"
    BY DEF OnlyAlembicPrevents, NewChamasCanContribute
  <2>1. path[r] = about[r].chama /\ about[r].chama \in Chamas
    BY DEF Inv, OwnContext, TypeOK
  <2>2. QED
    BY <2>1 DEF Inv, SetUpFinds
<1>2. QED
  BY <1>1, Invariant, PTL

\* How far the disagreement that NewChamasCanContribute shows goes: with
\* Alembic's contributions in public no chama ever gets a table of its own, and
\* nothing is ever recorded.
NothingAfterAlembic ==
  tables[Public] = "alembic" => rows = {} /\ \A c \in Chamas : tables[c] = "none"

\* After "alembic upgrade head" on an empty database, no setup, request or
\* retry in any order ever records a contribution.
THEOREM AlembicStopsContributions == Spec => []NothingAfterAlembic
<1>1. Inv => NothingAfterAlembic
  BY DEF Inv, AlembicBlocks, NothingAfterAlembic
<1>2. QED
  BY <1>1, Invariant, PTL

\* However many requests of however many chamas overlap, none writes into
\* another chama's schema, and the contributions a chama makes under /api/v1
\* stay in one table, unless its own was being made when public got one.
THEOREM EveryRowAtHome == Spec => []RowsAtHome
<1>1. Inv => OneHome
  <2> SUFFICES ASSUME Inv, NEW x \in rows, NEW y \in rows, x.chama = y.chama,
                      x.url = "v1", y.url = "v1", x.place # y.place
               PROVE  x.chama \in raced
    BY DEF OneHome
  <2>1. \/ x.place = Public /\ y.place = y.chama
        \/ y.place = Public /\ x.place = x.chama
    BY DEF Inv, Placed
  <2>2. tables[x.place] = "model" /\ tables[y.place] = "model"
    BY DEF Inv, Placed
  <2>3. QED
    BY <2>1, <2>2 DEF Inv, HomeIsPublic
<1>2. Inv => Isolated
  BY DEF Inv, Placed, Isolated
<1>3. QED
  BY <1>1, <1>2, Invariant, PTL DEF RowsAtHome

-----------------------------------------------------------------------------
(* What tasks add *)

Recomputes(w) == task[w].kind = "recompute"

\* A recomputation has its own chama for a tenant, and all else what the last
\* failed close left behind.
OwnTenant ==
  \A w \in Workers :
    IF at[w] # "idle" /\ Recomputes(w)
    THEN current[w] = task[w].chama /\ token[w] = left[w]
    ELSE current[w] = left[w]

\* The session of a task looks into the schema of that tenant, if there is one.
OwnPath ==
  \A w \in Workers :
    at[w] \in {"bound", "read"} =>
      taskPath[w] = IF Recomputes(w) THEN task[w].chama
                    ELSE IF left[w] = NoTenant THEN Public ELSE left[w]

TasksInv == TasksTypeOK /\ OwnTenant /\ OwnPath

-----------------------------------------------------------------------------
(* Tasks leave what requests and setups work on alone. *)

LEMMA StepsAreRouting == [TasksNext]_allVars => [Next]_vars
BY DEF TasksNext, allVars, Begin, OpenTaskSession, CountForSummary, CountForAnalysis,
       CountForReport, FindRecipients, Read, Idle, EndTask, CloseFails, WorkerDies

\* The requests and setups of TenantTasks are those of TenantRouting: whatever
\* is proved of the one holds of the other.
THEOREM RoutingUndisturbed == TasksSpec => Spec
<1>1. TasksInit => Init
  BY DEF TasksInit
<1>2. QED
  BY <1>1, StepsAreRouting, PTL DEF TasksSpec, Spec

-----------------------------------------------------------------------------
(* What a worker carries from one task to the next *)

LEMMA InitTasks == TasksInit /\ TypeOK => TasksInv
BY RoutingAssumption, TasksAssumption
   DEF TasksInit, TasksInv, TasksTypeOK, OwnTenant, OwnPath, Recomputes, Schemas, Tasks

LEMMA NextTasks == TasksInv /\ TypeOK' /\ [TasksNext]_allVars => TasksInv'
<1> SUFFICES ASSUME TasksInv, TypeOK', [TasksNext]_allVars
             PROVE  TasksInv'
  OBVIOUS
<1> USE RoutingAssumption, TasksAssumption DEF TasksInv
<1>1. CASE UNCHANGED worker
  BY <1>1 DEF TasksTypeOK, OwnTenant, OwnPath, Recomputes, worker
<1>2. ASSUME NEW w \in Workers, NEW t \in Tasks, Begin(w, t)
      PROVE  TasksInv'
  <2>1. TasksTypeOK'
    BY <1>2 DEF Begin, TasksTypeOK, Tasks
  <2>2. OwnTenant'
    BY <1>2 DEF Begin, TasksTypeOK, OwnTenant, Recomputes
  <2>3. OwnPath'
    BY <1>2 DEF Begin, TasksTypeOK, OwnPath, Recomputes
  <2>4. QED
    BY <2>1, <2>2, <2>3
<1>3. ASSUME NEW w \in Workers, OpenTaskSession(w)
      PROVE  TasksInv'
  <2>1. TasksTypeOK'
    BY <1>3 DEF OpenTaskSession, TasksTypeOK, Schemas
  <2>2. OwnTenant'
    BY <1>3 DEF OpenTaskSession, TasksTypeOK, OwnTenant, Recomputes
  <2>3. task[w] \in Tasks /\ task[w].chama # NoTenant
    BY <1>3 DEF OpenTaskSession, TasksTypeOK, Tasks
  <2>4. OwnPath'
    BY <1>3, <2>3 DEF OpenTaskSession, TasksTypeOK, OwnTenant, OwnPath, Recomputes
  <2>5. QED
    BY <2>1, <2>2, <2>4
<1>4. ASSUME NEW w \in Workers, \E kind \in Kinds : Read(w, kind)
      PROVE  TasksInv'
  <2>1. TasksTypeOK'
    BY <1>4 DEF Read, TasksTypeOK
  <2>2. OwnTenant'
    BY <1>4 DEF Read, TasksTypeOK, OwnTenant, Recomputes
  <2>3. OwnPath'
    BY <1>4 DEF Read, TasksTypeOK, OwnPath, Recomputes
  <2>4. QED
    BY <2>1, <2>2, <2>3
<1>5. ASSUME NEW w \in Workers, at[w] # "idle", Idle(w),
             EndTask(w) \/ CloseFails(w) \/ WorkerDies(w)
      PROVE  TasksInv'
  <2>1. TasksTypeOK'
    BY <1>5 DEF Idle, EndTask, CloseFails, WorkerDies, TasksTypeOK, Tasks, Schemas
  <2>2. OwnTenant'
    <3>1. \A v \in Workers : v # w =>
            /\ at'[v] = at[v] /\ task'[v] = task[v] /\ current'[v] = current[v]
            /\ token'[v] = token[v] /\ left'[v] = left[v]
      BY <1>5 DEF Idle, EndTask, CloseFails, WorkerDies, TasksTypeOK
    <3>2. at'[w] = "idle" /\ current'[w] = left'[w]
      BY <1>5 DEF Idle, EndTask, CloseFails, WorkerDies, TasksTypeOK, OwnTenant, Recomputes
    <3>3. QED
      BY <3>1, <3>2 DEF OwnTenant, Recomputes
  <2>3. OwnPath'
    BY <1>5 DEF Idle, EndTask, CloseFails, WorkerDies, TasksTypeOK, OwnPath, Recomputes
  <2>4. QED
    BY <2>1, <2>2, <2>3
<1>6. QED
  BY <1>1, <1>2, <1>3, <1>4, <1>5
  DEF TasksNext, allVars, worker, Kinds, CountForSummary, CountForAnalysis, CountForReport,
      FindRecipients, EndTask, CloseFails, WorkerDies

LEMMA TasksInvariant == TasksSpec => [](Inv /\ TasksInv)
<1>1. TasksSpec => []Inv
  BY RoutingUndisturbed, Invariant
<1>2. Inv => TypeOK
  BY DEF Inv
<1>3. Inv' => TypeOK'
  BY DEF Inv
<1>4. QED
  BY <1>1, <1>2, <1>3, InitTasks, NextTasks, PTL DEF TasksSpec

\* Every reachable state of the requests, setups and tasks is well typed.
THEOREM TasksTypeCorrect == TasksSpec => []TasksTypeOK
<1>1. TasksInv => TasksTypeOK
  BY DEF TasksInv
<1>2. QED
  BY <1>1, TasksInvariant, PTL

-----------------------------------------------------------------------------
(* What a task reads *)

\* Contributions under /api/v1 are where their chama's name for them leads.
LEMMA RowsAreVisible ==
  ASSUME Inv, NEW x \in rows, x.url = "v1", x.chama \notin raced
  PROVE  x.place = Meaning(x.chama)
BY DEF Inv, TypeOK, Placed, HomeIsPublic, Meaning

LEMMA StepReads ==
  ASSUME Inv, TasksInv, [TasksNext]_allVars, NEW w \in Workers, Reads(w)
  PROVE  IF Recomputes(w)
         THEN \A x \in rows :
                x.chama = task[w].chama /\ x.url = "v1" =>
                  x.place = Meaning(taskPath[w]) \/ x.chama \in raced
         ELSE Meaning(taskPath[w]) = Public \/ taskPath[w] = left[w]
<1>1. taskPath[w] = IF Recomputes(w) THEN task[w].chama
                    ELSE IF left[w] = NoTenant THEN Public ELSE left[w]
  BY DEF TasksInv, OwnPath, Reads
<1>2. Meaning(Public) = Public
  BY DEF Meaning
<1>3. QED
  BY <1>1, <1>2, RowsAreVisible

\* A recomputation counts every contribution its chama has by then under
\* /api/v1, and a task without a tenant reads from public, whatever its worker
\* has done before, unless the close of an earlier recomputation failed.
THEOREM TasksReadRight == TasksSpec => TasksReadTheirOwn
<1>1. Inv /\ TasksInv /\ [TasksNext]_allVars =>
        [\A w \in Workers :
           Reads(w) =>
             IF task[w].kind = "recompute"
             THEN \A x \in rows :
                    x.chama = task[w].chama /\ x.url = "v1" =>
                      x.place = Meaning(taskPath[w]) \/ x.chama \in raced
             ELSE Meaning(taskPath[w]) = Public \/ taskPath[w] = left[w]]_allVars
  BY StepReads DEF Recomputes
<1>2. QED
  BY <1>1, TasksInvariant, PTL DEF TasksSpec, TasksReadTheirOwn
=============================================================================
