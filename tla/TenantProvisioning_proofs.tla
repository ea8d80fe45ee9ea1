---------------------- MODULE TenantProvisioning_proofs ----------------------
(***************************************************************************)
(* Theorems about TenantProvisioning, for any chamas, threads, migrations, *)
(* administrators and pool.                                                *)
(***************************************************************************)
EXTENDS TenantProvisioning, FiniteSetTheorems, TLAPS

\* A worker is at a chama, but before and between its visits.
Typed ==
  /\ TypeOK
  /\ \A w \in Workers : pc[w] \notin {"idle", "next"} => tenant[w] \in Chamas

\* Next, with the ways to end a handler early put together.
LEMMA NextCases ==
  ASSUME Typed, [Next]_vars
  PROVE  \/ \E w \in Creators, c \in Chamas : Authenticate(w, c)
         \/ \E w \in Creators : InsertChama(w) \/ RefreshChama(w)
                                \/ OpenSchemaSession(w) \/ CommitOwner(w)
         \/ \E w \in Workers : CheckSchema(w) \/ CreateSchema(w) \/ InitTables(w)
         \/ \E W \in SUBSET Workers : Stop(W)
         \/ \E m \in Migrators : ReadChamas(m)
         \/ \E m \in Migrators, c \in Chamas : MigrateChama(m, c)
         \/ \E c \in Chamas : DropSchema(c)
         \/ UNCHANGED vars
<1>1. \A w \in Workers : {w} \in SUBSET Workers
  OBVIOUS
<1>2. Creators \in SUBSET Workers /\ Migrators \in SUBSET Workers
  BY DEF Workers
<1>3. ASSUME NEW w \in Workers, NameTaken(w) \/ PoolTimeout(w) \/ SchemaTaken(w)
                                \/ DatabaseError(w) \/ MigrationDone(w)
      PROVE  \E W \in SUBSET Workers : Stop(W)
  <2>1. Stop({w})
    BY <1>3 DEF NameTaken, PoolTimeout, SchemaTaken, DatabaseError, MigrationDone
  <2>2. QED
    BY <2>1, <1>1
<1>4. ASSUME ServerCrash PROVE \E W \in SUBSET Workers : Stop(W)
  BY <1>2, <1>4 DEF ServerCrash
<1>5. QED
  BY <1>2, <1>3, <1>4 DEF Next, Creation, Setup, Migration

LEMMA InitTyped == Init => Typed
  BY DEF Init, Typed, TypeOK, Workers

LEMMA StepTyped == Typed /\ [Next]_vars => Typed'
<1> SUFFICES ASSUME Typed, [Next]_vars PROVE Typed'
  OBVIOUS
<1>0. Creators \cap Migrators = {} /\ NoChama \notin Chamas
  BY ProvisioningAssumption
<1> USE <1>0 DEF Typed, TypeOK, CreatorSteps,
    MigratorSteps, Workers, Goto, AfterSetup
<1>1. ASSUME NEW w \in Creators, NEW c \in Chamas, Authenticate(w, c) PROVE Typed'
  BY <1>1 DEF Authenticate
<1>2. ASSUME NEW w \in Creators, InsertChama(w) PROVE Typed'
  BY <1>2 DEF InsertChama
<1>3. ASSUME NEW w \in Creators, RefreshChama(w) PROVE Typed'
  BY <1>3 DEF RefreshChama
<1>4. ASSUME NEW w \in Creators, OpenSchemaSession(w) PROVE Typed'
  BY <1>4 DEF OpenSchemaSession
<1>5. ASSUME NEW w \in Creators, CommitOwner(w) PROVE Typed'
  BY <1>5 DEF CommitOwner
<1>6. ASSUME NEW w \in Workers, CheckSchema(w) PROVE Typed'
  BY <1>6 DEF CheckSchema
<1>7. ASSUME NEW w \in Workers, CreateSchema(w) PROVE Typed'
  BY <1>7 DEF CreateSchema
<1>8. ASSUME NEW w \in Workers, InitTables(w) PROVE Typed'
  BY <1>8 DEF InitTables
<1>9. ASSUME NEW W \in SUBSET Workers, Stop(W) PROVE Typed'
  BY <1>9 DEF Stop
<1>10. ASSUME NEW m \in Migrators, ReadChamas(m) PROVE Typed'
  BY <1>10 DEF ReadChamas
<1>11. ASSUME NEW m \in Migrators, NEW c \in Chamas, MigrateChama(m, c) PROVE Typed'
  BY <1>11 DEF MigrateChama
<1>12. ASSUME NEW c \in Chamas, DropSchema(c) PROVE Typed'
  BY <1>12 DEF DropSchema
<1>13. CASE UNCHANGED vars
  BY <1>13 DEF vars
<1>14. QED
  BY <1>1, <1>2, <1>3, <1>4, <1>5, <1>6, <1>7, <1>8, <1>9, <1>10, <1>11, <1>12,
     <1>13, NextCases

\* Every state the provisioning of tenants reaches is well typed.
THEOREM TypeCorrect == Spec => []TypeOK
<1>1. Spec => []Typed
  BY InitTyped, StepTyped, PTL DEF Spec
<1>2. QED
  BY <1>1, PTL DEF Typed

-----------------------------------------------------------------------------
(* Schemas and their initialisation.  What the safety properties say of a   *)
(* schema nobody drops follows from what holds while a worker initialises   *)
(* one: it is the only one, the schema exists, it holds no tables yet, and  *)
(* no earlier initialisation of it was aborted.                             *)

Kept(c) == c \notin Droppable

Initialising ==
  \A w \in Workers : pc[w] = "init" /\ Kept(tenant[w]) =>
    /\ tenant[w] \in schema \ tables
    /\ tenant[w] \notin aborted

AbortedStayBare == aborted \ Droppable \subseteq schema \ tables

FinishHasSchema ==
  \A w \in Workers : pc[w] = "finish" /\ Kept(tenant[w]) => tenant[w] \in schema

SchemaInv ==
  /\ tables \subseteq schema
  /\ OneInitialiser
  /\ Initialising
  /\ AbortedStayBare
  /\ FinishHasSchema
  /\ OwnedHasSchema
  /\ BareSchemaExplained

LEMMA InitSchemaInv == Init => SchemaInv
  BY DEF Init, SchemaInv, OneInitialiser, Initialising, AbortedStayBare,
     FinishHasSchema, OwnedHasSchema, BareSchemaExplained

LEMMA StepSchemaInv == Typed /\ SchemaInv /\ [Next]_vars => SchemaInv'
<1> SUFFICES ASSUME Typed, SchemaInv, [Next]_vars PROVE SchemaInv'
  OBVIOUS
<1>0. Creators \cap Migrators = {} /\ NoChama \notin Chamas
  BY ProvisioningAssumption
<1> USE <1>0 DEF Typed, TypeOK, Workers, Goto, Kept, SchemaInv, OneInitialiser,
    Initialising, AbortedStayBare, FinishHasSchema, OwnedHasSchema,
    BareSchemaExplained
<1>1. ASSUME NEW w \in Creators, NEW c \in Chamas, Authenticate(w, c) PROVE SchemaInv'
  BY <1>1 DEF Authenticate
<1>2. ASSUME NEW w \in Creators, InsertChama(w) \/ RefreshChama(w) \/ OpenSchemaSession(w)
      PROVE  SchemaInv'
  BY <1>2 DEF InsertChama, RefreshChama, OpenSchemaSession
<1>5. ASSUME NEW w \in Creators, CommitOwner(w) PROVE SchemaInv'
  BY <1>5 DEF CommitOwner
<1>6. ASSUME NEW w \in Workers, CheckSchema(w) PROVE SchemaInv'
  BY <1>6 DEF CheckSchema, AfterSetup
<1>7. ASSUME NEW w \in Workers, CreateSchema(w) PROVE SchemaInv'
  BY <1>7 DEF CreateSchema
<1>8. ASSUME NEW w \in Workers, InitTables(w) PROVE SchemaInv'
  BY <1>8 DEF InitTables, AfterSetup
<1>9. ASSUME NEW W \in SUBSET Workers, Stop(W) PROVE SchemaInv'
  BY <1>9 DEF Stop
<1>10. ASSUME NEW m \in Migrators, ReadChamas(m) PROVE SchemaInv'
  BY <1>10 DEF ReadChamas
<1>11. ASSUME NEW m \in Migrators, NEW c \in Chamas, MigrateChama(m, c) PROVE SchemaInv'
  BY <1>11 DEF MigrateChama
<1>12. ASSUME NEW c \in Chamas, DropSchema(c) PROVE SchemaInv'
  BY <1>12 DEF DropSchema
<1>13. CASE UNCHANGED vars
  BY <1>13 DEF vars
<1>14. QED
  BY <1>1, <1>2, <1>5, <1>6, <1>7, <1>8, <1>9, <1>10, <1>11, <1>12,
     <1>13, NextCases

LEMMA SchemaSafe == Spec => [](Typed /\ SchemaInv)
<1> QED
  BY InitTyped, StepTyped, InitSchemaInv, StepSchemaInv, PTL DEF Spec

\* However many requests and migrations run create_all, no two of them run
\* it on one schema.
THEOREM SingleInitialiser == Spec => []OneInitialiser
<1> QED
  BY SchemaSafe, PTL DEF SchemaInv

\* An owner's membership is only ever written for a chama with a schema, and a
\* schema is left without its tables by an aborted initialisation only.
THEOREM SchemasAccountedFor == Spec => []SchemasExplained
<1>1. SchemaInv => SchemasExplained
  BY DEF SchemaInv, SchemasExplained
<1>2. QED
  BY SchemaSafe, <1>1, PTL

\* Neither a later request nor a migration gives tables to a schema whose
\* initialisation was aborted.
THEOREM AbortedNeverRepaired == Spec => NeverRepaired
<1>1. ASSUME Typed, SchemaInv, Typed', SchemaInv', [Next]_vars
      PROVE  [\A c \in aborted \ Droppable : c \notin tables']_vars
  <2>1. aborted \subseteq aborted' \/ UNCHANGED vars
    BY <1>1, NextCases DEF Authenticate, InsertChama, RefreshChama, vars,
       OpenSchemaSession, CommitOwner, CheckSchema, CreateSchema, InitTables,
       Stop, ReadChamas, MigrateChama, DropSchema
  <2>2. QED
    BY <1>1, <2>1 DEF SchemaInv, AbortedStayBare
<1>2. QED
  BY <1>1, SchemaSafe, PTL DEF Spec, NeverRepaired

-----------------------------------------------------------------------------
(* The lifecycle of a chama.  The unique name gives each chama at most one  *)
(* request that creates it, and that request alone writes its owner: this   *)
(* is what maps every step to a step of ChamaLifecycle, or to none.         *)

OneCreator ==
  \A v, w \in Creators, c \in Chamas : Creating(v, c) /\ Creating(w, c) => v = w

CreatingUnowned ==
  \A w \in Creators, c \in Chamas : Creating(w, c) => c \in chamas \ owned

CreationInv ==
  /\ owned \subseteq chamas
  /\ OneCreator
  /\ CreatingUnowned

LEMMA InitCreationInv == Init => CreationInv
  BY DEF Init, CreationInv, OneCreator, CreatingUnowned, Creating, CreatorSteps,
     Workers

LEMMA StepCreationInv == Typed /\ CreationInv /\ [Next]_vars => CreationInv'
<1> SUFFICES ASSUME Typed, CreationInv, [Next]_vars PROVE CreationInv'
  OBVIOUS
<1>0. Creators \cap Migrators = {} /\ NoChama \notin Chamas
  BY ProvisioningAssumption
<1> USE <1>0 DEF Typed, TypeOK, Workers, Goto, CreationInv, OneCreator,
    CreatingUnowned, Creating, CreatorSteps
<1>1. ASSUME NEW w \in Creators, NEW c \in Chamas, Authenticate(w, c)
      PROVE  CreationInv'
  BY <1>1 DEF Authenticate
<1>2. ASSUME NEW w \in Creators, InsertChama(w) PROVE CreationInv'
  BY <1>2 DEF InsertChama
<1>3. ASSUME NEW w \in Creators, RefreshChama(w) \/ OpenSchemaSession(w)
      PROVE  CreationInv'
  BY <1>3 DEF RefreshChama, OpenSchemaSession
<1>5. ASSUME NEW w \in Creators, CommitOwner(w) PROVE CreationInv'
  BY <1>5 DEF CommitOwner
<1>6. ASSUME NEW w \in Workers, CheckSchema(w) \/ CreateSchema(w) \/ InitTables(w)
      PROVE  CreationInv'
  BY <1>6 DEF CheckSchema, CreateSchema, InitTables, AfterSetup
<1>9. ASSUME NEW W \in SUBSET Workers, Stop(W) PROVE CreationInv'
  BY <1>9 DEF Stop
<1>10. ASSUME NEW m \in Migrators, ReadChamas(m) PROVE CreationInv'
  BY <1>10 DEF ReadChamas
<1>11. ASSUME NEW m \in Migrators, NEW c \in Chamas, MigrateChama(m, c)
       PROVE  CreationInv'
  BY <1>11 DEF MigrateChama
<1>12. ASSUME NEW c \in Chamas, DropSchema(c) PROVE CreationInv'
  BY <1>12 DEF DropSchema
<1>13. CASE UNCHANGED vars
  BY <1>13 DEF vars
<1>14. QED
  BY <1>1, <1>2, <1>3, <1>5, <1>6, <1>9, <1>10, <1>11, <1>12, <1>13, NextCases

\* The refinement mapping, named to be expanded where it is needed only.
Stage ==
  [c \in Chamas |->
     IF c \notin chamas THEN "none"
     ELSE IF c \in owned THEN "owned"
     ELSE IF \E w \in Creators : Creating(w, c) THEN "registered"
     ELSE "abandoned"]

LEMMA InitLifecycle == Init => Lifecycle!Init
  BY DEF Init, Lifecycle!Init

LEMMA StepLifecycle ==
  ASSUME Typed, CreationInv, CreationInv', [Next]_vars
  PROVE  [Lifecycle!Next]_Stage
<1>0. Creators \cap Migrators = {} /\ NoChama \notin Chamas
  BY ProvisioningAssumption
<1> USE <1>0 DEF Typed, TypeOK, Workers, Goto
\* A step that neither writes a chama or an owner nor moves a request
\* across the ends of its creation leaves every stage as it was.
<1>a. ASSUME UNCHANGED <<chamas, owned>>,
             \A w \in Creators, c \in Chamas : Creating(w, c)' = Creating(w, c)
      PROVE  UNCHANGED Stage
  BY <1>a DEF Stage
<1>b. ASSUME NEW c \in Chamas, NEW from, NEW to,
             Stage[c] = from, Stage'[c] = to,
             \A d \in Chamas \ {c} : Stage'[d] = Stage[d]
      PROVE  Lifecycle!Move(c, from, to)
  <2>1. \A d \in Chamas : Stage'[d] = [Stage EXCEPT ![c] = to][d]
    BY <1>b DEF Stage
  <2>2. Stage' = [Stage EXCEPT ![c] = to]
    BY <2>1 DEF Stage
  <2>3. QED
    BY <1>b, <2>2 DEF Lifecycle!Move, Stage
<1>1. ASSUME NEW w \in Creators, NEW c \in Chamas, Authenticate(w, c)
      PROVE  UNCHANGED Stage
  BY <1>1, <1>a DEF Authenticate, Creating, CreatorSteps
<1>2. ASSUME NEW w \in Creators, InsertChama(w) PROVE Lifecycle!Next
  <2>0. PICK c \in Chamas : c = tenant[w]
    BY <1>2 DEF InsertChama, CreatorSteps
  <2>1. /\ c \notin chamas /\ Creating(w, c)'
        /\ chamas' = chamas \cup {c} /\ owned' = owned
        /\ \A v \in Creators, d \in Chamas \ {c} : Creating(v, d)' = Creating(v, d)
    BY <1>2, <2>0 DEF InsertChama, Creating, CreatorSteps
  <2>2. /\ Stage[c] = "none" /\ Stage'[c] = "registered"
        /\ \A d \in Chamas \ {c} : Stage'[d] = Stage[d]
    BY <2>1 DEF Stage, CreationInv
  <2>3. Lifecycle!Register(c)
    BY <2>2, <1>b DEF Lifecycle!Register
  <2>4. QED
    BY <2>3 DEF Lifecycle!Next
<1>3. ASSUME NEW w \in Creators, RefreshChama(w) \/ OpenSchemaSession(w)
      PROVE  UNCHANGED Stage
  BY <1>3, <1>a DEF RefreshChama, OpenSchemaSession, Creating, CreatorSteps
<1>5. ASSUME NEW w \in Creators, CommitOwner(w) PROVE Lifecycle!Next
  <2>0. PICK c \in Chamas : c = tenant[w]
    BY <1>5 DEF CommitOwner, CreatorSteps
  <2>1. /\ c \in chamas \ owned /\ Creating(w, c)
        /\ chamas' = chamas /\ owned' = owned \cup {c}
        /\ \A v \in Creators, d \in Chamas \ {c} : Creating(v, d)' = Creating(v, d)
    BY <1>5, <2>0 DEF CommitOwner, Creating, CreatorSteps, CreationInv, CreatingUnowned
  <2>2. /\ Stage[c] = "registered" /\ Stage'[c] = "owned"
        /\ \A d \in Chamas \ {c} : Stage'[d] = Stage[d]
    BY <2>1 DEF Stage
  <2>3. Lifecycle!TakeOwnership(c)
    BY <2>2, <1>b DEF Lifecycle!TakeOwnership
  <2>4. QED
    BY <2>3 DEF Lifecycle!Next
<1>6. ASSUME NEW w \in Workers, CheckSchema(w) \/ CreateSchema(w) \/ InitTables(w)
      PROVE  UNCHANGED Stage
  BY <1>6, <1>a DEF CheckSchema, CreateSchema, InitTables, AfterSetup, Creating,
     CreatorSteps
<1>9. ASSUME NEW W \in SUBSET Workers, Stop(W) PROVE Lifecycle!Next
  <2> DEFINE S == {c \in Chamas : Stage[c] = "registered" /\ Stage'[c] # "registered"}
  <2>1. /\ UNCHANGED <<chamas, owned>>
        /\ \A w \in Creators, c \in Chamas : Creating(w, c)' => Creating(w, c)
    BY <1>9 DEF Stop, Creating, CreatorSteps
  <2>2. S \in SUBSET {c \in Chamas : Stage[c] = "registered"}
    OBVIOUS
  <2>3. \A c \in Chamas : Stage'[c] = IF c \in S THEN "abandoned" ELSE Stage[c]
    BY <2>1 DEF Stage
  <2>4. Stage' = [c \in Chamas |-> IF c \in S THEN "abandoned" ELSE Stage[c]]
    <3> HIDE DEF S
    <3> QED BY <2>3 DEF Stage
  <2>5. Lifecycle!Abandon
    <3> HIDE DEF S
    <3> QED BY <2>2, <2>4 DEF Lifecycle!Abandon, Stage
  <2>6. QED
    BY <2>5 DEF Lifecycle!Next
<1>10. ASSUME NEW m \in Migrators, ReadChamas(m) PROVE UNCHANGED Stage
  BY <1>10, <1>a DEF ReadChamas, Creating, CreatorSteps
<1>11. ASSUME NEW m \in Migrators, NEW c \in Chamas, MigrateChama(m, c)
       PROVE  UNCHANGED Stage
  BY <1>11, <1>a DEF MigrateChama, Creating, CreatorSteps
<1>12. ASSUME NEW c \in Chamas, DropSchema(c) PROVE UNCHANGED Stage
  BY <1>12, <1>a DEF DropSchema, Creating
<1>13. ASSUME UNCHANGED vars PROVE UNCHANGED Stage
  BY <1>13, <1>a DEF vars, Creating
<1>14. QED
  BY <1>1, <1>2, <1>3, <1>5, <1>6, <1>9, <1>10, <1>11, <1>12, <1>13, NextCases

\* Whatever requests, migrations, drops and faults do, a chama is owned only
\* after it is registered, and once abandoned it never gets an owner.
THEOREM LifecycleImplemented == Spec => ImplementsLifecycle
<1>1. Spec => [](Typed /\ CreationInv)
  BY InitTyped, StepTyped, InitCreationInv, StepCreationInv, PTL DEF Spec
<1>2. QED
  BY <1>1, InitLifecycle, StepLifecycle, PTL
     DEF Spec, ImplementsLifecycle, Lifecycle!Spec, Stage

\* A chama whose creation ended without an owner never gets one: neither a
\* request for the same name, which is taken, nor a migration repairs it.
THEOREM AbandonedForGood ==
  Spec => [][\A c \in chamas \ owned :
               (\A w \in Creators : ~Creating(w, c)) => c \notin owned']_vars
<1>1. ASSUME Typed, CreationInv, CreationInv', [Next]_vars, NEW c \in chamas \ owned,
             \A w \in Creators : ~Creating(w, c)
      PROVE  c \notin owned'
  <2>0. c \in Chamas
    BY <1>1 DEF Typed, TypeOK
  <2>1. [Lifecycle!Next]_Stage
    BY <1>1, StepLifecycle
  <2>2. Stage[c] = "abandoned"
    BY <1>1, <2>0 DEF Stage
  <2>3. Stage'[c] = "abandoned"
    <3>1. \A d \in Chamas : Lifecycle!Register(d) \/ Lifecycle!TakeOwnership(d) =>
            d # c /\ \E to : Stage' = [Stage EXCEPT ![d] = to]
      BY <2>2 DEF Lifecycle!Register, Lifecycle!TakeOwnership, Lifecycle!Move, Stage
    <3>2. Lifecycle!Abandon => Stage'[c] = "abandoned"
      BY <2>0, <2>2 DEF Lifecycle!Abandon, Stage
    <3>3. QED
      BY <2>0, <2>1, <2>2, <3>1, <3>2 DEF Lifecycle!Next, Stage
  <2>4. QED
    BY <2>0, <2>3 DEF Stage, CreationInv
<1>2. Spec => [](Typed /\ CreationInv)
  BY InitTyped, StepTyped, InitCreationInv, StepCreationInv, PTL DEF Spec
<1>3. Typed /\ CreationInv /\ CreationInv' /\ [Next]_vars =>
        [\A c \in chamas \ owned :
           (\A w \in Creators : ~Creating(w, c)) => c \notin owned']_vars
  BY <1>1
<1>4. QED
  BY <1>2, <1>3, PTL DEF Spec

-----------------------------------------------------------------------------
(* When the docstring of create_chama is right.  Twice as many connections  *)
(* as request threads leave none of them waiting on a pool that the others  *)
(* hold; with no fault and no migration, nothing else ends a creation.      *)

Calm ==
  /\ Faults = FALSE
  /\ Migrators = {}
  /\ 2 * Cardinality(Creators) <= PoolSize

\* Until a creation has made the schema of its chama, nobody has.
Untouched ==
  /\ schema \subseteq chamas
  /\ \A w \in Creators :
       pc[w] \in {"refresh", "setup", "check", "create"} => tenant[w] \notin schema

CalmInv == Untouched /\ CreatedWithOwner

LEMMA NoPoolTimeout ==
  ASSUME Typed, Calm, NEW w \in Creators
  PROVE  ~PoolTimeout(w)
<1> DEFINE A == {v \in Creators : HoldsRequestSession(v)}
           B == {v \in Creators : HoldsSchemaSession(v)}
           N == Cardinality(Creators)
<1>0. IsFiniteSet(Creators) /\ PoolSize \in Nat
  BY ProvisioningAssumption
<1> SUFFICES ASSUME Waiting(w), Free = 0 PROVE FALSE
  BY DEF PoolTimeout
<1>1. A \subseteq Creators /\ B \subseteq Creators /\ w \notin B
  BY DEF Waiting, HoldsSchemaSession
<1>2. /\ Cardinality(A) \in Nat /\ Cardinality(B) \in Nat /\ N \in Nat
      /\ Cardinality(A) <= N /\ Cardinality(B) <= N
      /\ Cardinality(B) = N => B = Creators
  BY <1>0, <1>1, FS_Subset, FS_CardinalityType
<1>3. Cardinality(B) < N
  <2> HIDE DEF B, N
  <2>1. QED BY <1>1, <1>2
<1>4. PoolSize = Cardinality(A) + Cardinality(B)
  <2>1. PoolSize - (Cardinality(A) + Cardinality(B)) = 0
    BY DEF Free, InUse
  <2> HIDE DEF A, B
  <2>2. QED BY <2>1, <1>0, <1>2
<1>5. QED
  <2> HIDE DEF A, B
  <2>1. 2 * N <= PoolSize
    BY DEF Calm
  <2> HIDE DEF N
  <2>2. QED BY <2>1, <1>0, <1>2, <1>3, <1>4

LEMMA InitCalmInv == Init => CalmInv
  BY DEF Init, CalmInv, Untouched, CreatedWithOwner, Workers

LEMMA StepCalmInv ==
  ASSUME Calm, Typed, CreationInv, CalmInv, [Next]_vars
  PROVE  CalmInv'
<1>0. /\ Faults = FALSE /\ Migrators = {} /\ Workers = Creators
      /\ NoChama \notin Chamas
  BY ProvisioningAssumption DEF Calm, Workers
<1> USE <1>0 DEF Typed, TypeOK, Goto, CalmInv, Untouched, CreatedWithOwner,
    CreationInv, OneCreator, CreatingUnowned, Creating, CreatorSteps
<1>1. ASSUME NEW w \in Creators, NEW c \in Chamas, Authenticate(w, c) PROVE CalmInv'
  BY <1>1 DEF Authenticate
<1>2. ASSUME NEW w \in Creators, InsertChama(w) PROVE CalmInv'
  BY <1>2 DEF InsertChama
<1>3. ASSUME NEW w \in Creators, RefreshChama(w) \/ OpenSchemaSession(w) PROVE CalmInv'
  BY <1>3 DEF RefreshChama, OpenSchemaSession
<1>4. ASSUME NEW w \in Creators, NameTaken(w) PROVE CalmInv'
  BY <1>4 DEF NameTaken, Stop
<1>5. ASSUME NEW w \in Creators, CommitOwner(w) PROVE CalmInv'
  BY <1>5 DEF CommitOwner
<1>6. ASSUME NEW w \in Creators, CheckSchema(w) PROVE CalmInv'
  BY <1>6 DEF CheckSchema, AfterSetup
<1>7. ASSUME NEW w \in Creators, CreateSchema(w) PROVE CalmInv'
  BY <1>7 DEF CreateSchema
<1>8. ASSUME NEW w \in Creators, InitTables(w) PROVE CalmInv'
  BY <1>8 DEF InitTables, AfterSetup
<1>9. \A w \in Creators : ~SchemaTaken(w)
  BY DEF SchemaTaken
<1>10. \A w \in Creators : ~PoolTimeout(w)
  BY NoPoolTimeout, Calm
<1>12. ASSUME NEW c \in Chamas, DropSchema(c) PROVE CalmInv'
  BY <1>12 DEF DropSchema
<1>13. CASE UNCHANGED vars
  BY <1>13 DEF vars
<1>14. QED
  BY <1>1, <1>2, <1>3, <1>4, <1>5, <1>6, <1>7, <1>8, <1>9, <1>10, <1>12, <1>13
     DEF Next, Creation, Setup, DatabaseError, ServerCrash

\* A server whose pool holds two connections for each request thread, which
\* meets no fault and shares the database with no migration, leaves no chama
\* without its owner.
THEOREM OwnerWhenCalm == Calm => (Spec => []CreatedWithOwner)
<1> SUFFICES ASSUME Calm PROVE Spec => []CreatedWithOwner
  OBVIOUS
<1>1. Spec => [](Typed /\ CreationInv)
  BY InitTyped, StepTyped, InitCreationInv, StepCreationInv, PTL DEF Spec
<1>2. Typed /\ CreationInv /\ CalmInv /\ [Next]_vars => CalmInv'
  BY StepCalmInv
<1>3. QED
  BY <1>1, <1>2, InitCalmInv, PTL DEF Spec, CalmInv

-----------------------------------------------------------------------------
(* The pool is never overdrawn: whoever opens a session saw a free          *)
(* connection.  So a thread that waits for one has either a free one, or    *)
(* none, and then a timeout.                                                *)

Requesting == {w \in Creators : HoldsRequestSession(w)}
Checking == {w \in Creators : HoldsSchemaSession(w)}

PoolRespected == Free >= 0

LEMMA FewThreads ==
  ASSUME NEW S \in SUBSET Creators
  PROVE  IsFiniteSet(S) /\ Cardinality(S) \in Nat
  BY ProvisioningAssumption, FS_Subset, FS_CardinalityType

\* The sessions open after a step: no more, or one more for a thread that saw
\* a free connection.
LEMMA SessionsBounded ==
  ASSUME PoolRespected, NEW w \in Creators,
         \/ Requesting' \subseteq Requesting /\ Checking' \subseteq Checking
         \/ /\ Free > 0
            /\ \/ Requesting' \subseteq Requesting \cup {w} /\ Checking' \subseteq Checking
               \/ Requesting' \subseteq Requesting /\ Checking' \subseteq Checking \cup {w}
  PROVE  PoolRespected'
<1>1. /\ Requesting \in SUBSET Creators /\ Checking \in SUBSET Creators
      /\ Requesting' \in SUBSET Creators /\ Checking' \in SUBSET Creators
  BY DEF Requesting, Checking
<1>2. /\ Cardinality(Requesting) \in Nat /\ Cardinality(Checking) \in Nat
      /\ Cardinality(Requesting') \in Nat /\ Cardinality(Checking') \in Nat
  BY <1>1, FewThreads
<1>3. \A S, T \in SUBSET Creators :
        /\ S \subseteq T => Cardinality(S) <= Cardinality(T)
        /\ S \subseteq T \cup {w} => Cardinality(S) <= Cardinality(T) + 1
  <2> TAKE S, T \in SUBSET Creators
  <2>1. IsFiniteSet(S) /\ IsFiniteSet(T) /\ Cardinality(S) \in Nat /\ Cardinality(T) \in Nat
    BY FewThreads
  <2>2. T \cup {w} \in SUBSET Creators /\ Cardinality(T \cup {w}) <= Cardinality(T) + 1
        /\ IsFiniteSet(T \cup {w}) /\ Cardinality(T \cup {w}) \in Nat
    <3>1. Cardinality(T \cup {w}) = IF w \in T THEN Cardinality(T) ELSE Cardinality(T) + 1
      BY <2>1, FS_AddElement
    <3>2. T \cup {w} \in SUBSET Creators
      OBVIOUS
    <3>3. QED
      BY <2>1, <3>1, <3>2, FewThreads
  <2>3. S \subseteq T => Cardinality(S) <= Cardinality(T)
    BY <2>1, FS_Subset
  <2>4. S \subseteq T \cup {w} => Cardinality(S) <= Cardinality(T \cup {w})
    BY <2>2, FS_Subset
  <2>5. QED
    BY <2>1, <2>2, <2>3, <2>4
<1>4. /\ Free = PoolSize - (Cardinality(Requesting) + Cardinality(Checking))
      /\ Free' = PoolSize - (Cardinality(Requesting') + Cardinality(Checking'))
      /\ PoolSize \in Nat
  BY ProvisioningAssumption DEF Free, InUse, Requesting, Checking
<1>5. QED
  BY <1>1, <1>2, <1>3, <1>4 DEF PoolRespected

LEMMA InitPoolRespected == Init => PoolRespected
<1> SUFFICES ASSUME Init PROVE PoolRespected
  OBVIOUS
<1>1. Requesting = {} /\ Checking = {}
  BY DEF Init, Requesting, Checking, HoldsRequestSession, HoldsSchemaSession,
         CreatorSteps, Workers
<1>2. Cardinality(Requesting) = 0 /\ Cardinality(Checking) = 0
  BY <1>1, FS_EmptySet
<1>3. QED
  BY <1>2, ProvisioningAssumption DEF PoolRespected, Free, InUse, Requesting, Checking

LEMMA StepPoolRespected == Typed /\ PoolRespected /\ [Next]_vars => PoolRespected'
<1> SUFFICES ASSUME Typed, PoolRespected, [Next]_vars PROVE PoolRespected'
  OBVIOUS
<1> USE DEF Typed, TypeOK, Workers, Goto
<1>a. CASE Requesting' \subseteq Requesting /\ Checking' \subseteq Checking
  <2>1. CASE Creators = {}
    <3>1. Requesting' = Requesting /\ Checking' = Checking
      BY <2>1 DEF Requesting, Checking
    <3>2. QED
      BY <3>1 DEF PoolRespected, Free, InUse, Requesting, Checking
  <2>2. QED
    BY <1>a, <2>1, SessionsBounded
<1>1. ASSUME NEW w \in Creators, NEW c \in Chamas, Authenticate(w, c)
      PROVE  PoolRespected'
  <2>1. /\ Free > 0
        /\ Requesting' \subseteq Requesting \cup {w} /\ Checking' \subseteq Checking
    BY <1>1 DEF Authenticate, Requesting, Checking, HoldsRequestSession, HoldsSchemaSession,
                CreatorSteps
  <2>2. QED
    BY <2>1, SessionsBounded
<1>2. ASSUME NEW w \in Creators, RefreshChama(w) PROVE PoolRespected'
  <2>1. /\ Free > 0
        /\ Requesting' \subseteq Requesting \cup {w} /\ Checking' \subseteq Checking
    BY <1>2 DEF RefreshChama, Requesting, Checking, HoldsRequestSession, HoldsSchemaSession,
                CreatorSteps
  <2>2. QED
    BY <2>1, SessionsBounded
<1>3. ASSUME NEW w \in Creators, OpenSchemaSession(w) PROVE PoolRespected'
  <2>1. /\ Free > 0
        /\ Requesting' \subseteq Requesting /\ Checking' \subseteq Checking \cup {w}
    BY <1>3 DEF OpenSchemaSession, Requesting, Checking, HoldsRequestSession,
                HoldsSchemaSession, CreatorSteps
  <2>2. QED
    BY <2>1, SessionsBounded
<1> USE DEF Requesting, Checking, HoldsRequestSession, HoldsSchemaSession, CreatorSteps
<1>4. ASSUME NEW w \in Creators, InsertChama(w) \/ CommitOwner(w) PROVE PoolRespected'
  BY <1>4, <1>a DEF InsertChama, CommitOwner
<1>5. ASSUME NEW w \in Workers, CheckSchema(w) \/ CreateSchema(w) \/ InitTables(w)
      PROVE  PoolRespected'
  BY <1>5, <1>a DEF CheckSchema, CreateSchema, InitTables, AfterSetup
<1>6. ASSUME NEW W \in SUBSET Workers, Stop(W) PROVE PoolRespected'
  BY <1>6, <1>a DEF Stop
<1>7. ASSUME NEW m \in Migrators, ReadChamas(m) PROVE PoolRespected'
  BY <1>7, <1>a, ProvisioningAssumption DEF ReadChamas
<1>8. ASSUME NEW m \in Migrators, NEW c \in Chamas, MigrateChama(m, c) PROVE PoolRespected'
  BY <1>8, <1>a, ProvisioningAssumption DEF MigrateChama
<1>9. ASSUME NEW c \in Chamas, DropSchema(c) PROVE PoolRespected'
  BY <1>9, <1>a DEF DropSchema
<1>10. CASE UNCHANGED vars
  BY <1>10, <1>a DEF vars
<1>11. QED
  BY <1>1, <1>2, <1>3, <1>4, <1>5, <1>6, <1>7, <1>8, <1>9, <1>10, NextCases

\* However many threads share it, the pool never has more connections out than
\* it may open: the sessions of requests and the ones on top of them included.
THEOREM PoolNeverOverdrawn == Spec => []PoolRespected
  BY InitTyped, StepTyped, InitPoolRespected, StepPoolRespected, PTL DEF Spec

-----------------------------------------------------------------------------
(* Every creation ends.  A thread in its handler can always go on; whichever *)
(* way it does, it has fewer steps left.                                     *)

\* When some action of Creation(w) \/ Setup(w) may be taken, by the guards of
\* the actions at each place; at "insert" and "create" one of two always may.
CanGoOn(w) ==
  \/ pc[w] = "insert"
  \/ pc[w] = "refresh" /\ Free > 0
  \/ pc[w] = "setup" /\ Free > 0
  \/ Waiting(w) /\ Free = 0
  \/ pc[w] = "check"
  \/ pc[w] = "create"
  \/ pc[w] = "init"
  \/ pc[w] = "finish"

\* Weak fairness of the actions of w, with their guards for ENABLED.
GoesOn(w) == []<>(~CanGoOn(w)) \/ []<><<Creation(w) \/ Setup(w)>>_vars

StepsLeft(w) ==
  CASE pc[w] = "insert" -> 7 [] pc[w] = "refresh" -> 6 [] pc[w] = "setup" -> 5
    [] pc[w] = "check" -> 4 [] pc[w] = "create" -> 3 [] pc[w] = "init" -> 2
    [] pc[w] = "finish" -> 1 [] OTHER -> 0

\* No thread waits for a connection that is neither there nor timed out.
LEMMA NobodyIsStuck ==
  ASSUME Typed, PoolRespected, NEW w \in Creators, StepsLeft(w) > 0
  PROVE  CanGoOn(w)
<1>1. Free > 0 \/ Free = 0
  <2>1. /\ Cardinality(Requesting) \in Nat /\ Cardinality(Checking) \in Nat
    BY FewThreads DEF Requesting, Checking
  <2>2. Free \in Int
    BY <2>1, ProvisioningAssumption DEF Free, InUse, Requesting, Checking
  <2>3. QED
    BY <2>2 DEF PoolRespected
<1>2. QED
  BY <1>1 DEF CanGoOn, Waiting, StepsLeft

LEMMA StepsType ==
  ASSUME NEW w \in Creators
  PROVE  StepsLeft(w) \in 0..7 /\ (pc[w] = "idle" => StepsLeft(w) = 0)
  BY DEF StepsLeft

\* What a thread's own step does to the steps it has left.
LEMMA GoingOn ==
  ASSUME Typed, NEW w \in Creators, Creation(w) \/ Setup(w)
  PROVE  StepsLeft(w)' < StepsLeft(w)
<1> USE DEF Typed, TypeOK, Workers, Goto, StepsLeft
<1>1. CASE InsertChama(w) \/ RefreshChama(w) \/ OpenSchemaSession(w) \/ CommitOwner(w)
  BY <1>1 DEF InsertChama, RefreshChama, OpenSchemaSession, CommitOwner
<1>2. CASE CheckSchema(w) \/ CreateSchema(w) \/ InitTables(w)
  BY <1>2 DEF CheckSchema, CreateSchema, InitTables, AfterSetup
<1>3. CASE NameTaken(w) \/ PoolTimeout(w) \/ SchemaTaken(w)
  BY <1>3 DEF NameTaken, PoolTimeout, SchemaTaken, Waiting, Stop
<1>4. QED
  BY <1>1, <1>2, <1>3 DEF Creation, Setup

\* No step but its own moves a thread in its handler, except to end it.
LEMMA NobodyIsSetBack ==
  ASSUME Typed, NEW w \in Creators, StepsLeft(w) > 0, [Next]_vars
  PROVE  StepsLeft(w)' <= StepsLeft(w)
<1>0. Creators \cap Migrators = {}
  BY ProvisioningAssumption
<1> USE <1>0 DEF Typed, TypeOK, Workers, Goto
<1>1. pc'[w] = pc[w] \/ pc'[w] = "idle" \/ Creation(w) \/ Setup(w)
  <2> USE DEF StepsLeft
  <2>1. ASSUME NEW v \in Creators, NEW c \in Chamas, Authenticate(v, c)
        PROVE  pc'[w] = pc[w]
    BY <2>1 DEF Authenticate
  <2>2. ASSUME NEW v \in Creators, InsertChama(v) \/ RefreshChama(v) \/ OpenSchemaSession(v)
                                   \/ CommitOwner(v)
        PROVE  pc'[w] = pc[w] \/ Creation(w)
    BY <2>2 DEF InsertChama, RefreshChama, OpenSchemaSession, CommitOwner, Creation
  <2>3. ASSUME NEW v \in Workers, CheckSchema(v) \/ CreateSchema(v) \/ InitTables(v)
        PROVE  pc'[w] = pc[w] \/ Setup(w)
    BY <2>3 DEF CheckSchema, CreateSchema, InitTables, Setup
  <2>4. ASSUME NEW W \in SUBSET Workers, Stop(W) PROVE pc'[w] \in {pc[w], "idle"}
    BY <2>4 DEF Stop
  <2>5. ASSUME NEW m \in Migrators, ReadChamas(m) PROVE pc'[w] = pc[w]
    BY <2>5 DEF ReadChamas
  <2>6. ASSUME NEW m \in Migrators, NEW c \in Chamas, MigrateChama(m, c) PROVE pc'[w] = pc[w]
    BY <2>6 DEF MigrateChama
  <2>7. ASSUME NEW c \in Chamas, DropSchema(c) PROVE pc'[w] = pc[w]
    BY <2>7 DEF DropSchema
  <2>8. CASE UNCHANGED vars
    BY <2>8 DEF vars
  <2>9. QED
    BY <2>1, <2>2, <2>3, <2>4, <2>5, <2>6, <2>7, <2>8, NextCases
<1>2. CASE pc'[w] = pc[w] \/ pc'[w] = "idle"
  BY <1>2 DEF StepsLeft
<1>3. CASE Creation(w) \/ Setup(w)
  <2>1. StepsLeft(w) \in 0..7 /\ StepsLeft(w)' \in 0..7
    BY DEF StepsLeft
  <2>2. QED
    BY <1>3, <2>1, GoingOn
<1>4. QED
  BY <1>1, <1>2, <1>3

ComesDown(w, k, n) == StepsLeft(w) <= k ~> StepsLeft(w) <= n

\* A thread with at most n + 1 steps left comes to have at most n.
LEMMA OneStepOn ==
  ASSUME NEW w \in Creators, NEW n \in 0..6, NEW k \in 1..7, k = n + 1
  PROVE  Spec /\ GoesOn(w) => ComesDown(w, k, n)
<1>1. Typed /\ PoolRespected /\ StepsLeft(w) <= k => StepsLeft(w) <= n \/ CanGoOn(w)
  BY StepsType, NobodyIsStuck
<1>2. Typed /\ [Next]_vars /\ StepsLeft(w) <= k => StepsLeft(w) <= n \/ (StepsLeft(w) <= k)'
  <2> SUFFICES ASSUME Typed, [Next]_vars, StepsLeft(w) <= k, ~(StepsLeft(w) <= n)
               PROVE  StepsLeft(w)' <= k
    OBVIOUS
  <2>1. StepsLeft(w) \in 0..7 /\ StepsLeft(w)' \in 0..7
    BY DEF StepsLeft
  <2>2. StepsLeft(w)' <= StepsLeft(w)
    BY <2>1, NobodyIsSetBack
  <2>3. QED
    BY <2>1, <2>2
<1>3. Typed /\ <<Creation(w) \/ Setup(w)>>_vars /\ StepsLeft(w) <= k => (StepsLeft(w) <= n)'
  <2> SUFFICES ASSUME Typed, Creation(w) \/ Setup(w), StepsLeft(w) <= k
               PROVE  StepsLeft(w)' <= n
    OBVIOUS
  <2>1. StepsLeft(w) \in 0..7 /\ StepsLeft(w)' \in 0..7
    BY DEF StepsLeft
  <2>2. QED
    BY <2>1, GoingOn
<1>4. Spec => [](Typed /\ PoolRespected)
  BY InitTyped, StepTyped, InitPoolRespected, StepPoolRespected, PTL DEF Spec
<1>5. QED
  BY <1>1, <1>2, <1>3, <1>4, PTL DEF Spec, GoesOn, ComesDown

\* Every creation ends, however long the pool is exhausted and whatever other
\* requests, migrations, drops and faults do.
THEOREM CreationsEnd == Spec /\ (\A w \in Creators : GoesOn(w)) => RequestsEnd
<1>1. ASSUME NEW w \in Creators
      PROVE  Spec /\ GoesOn(w) => (pc[w] = "insert" ~> pc[w] = "idle")
  <2>1. Spec /\ GoesOn(w) => ComesDown(w, 1, 0)
    BY OneStepOn
  <2>2. Spec /\ GoesOn(w) => ComesDown(w, 2, 1)
    BY OneStepOn
  <2>3. Spec /\ GoesOn(w) => ComesDown(w, 3, 2)
    BY OneStepOn
  <2>4. Spec /\ GoesOn(w) => ComesDown(w, 4, 3)
    BY OneStepOn
  <2>5. Spec /\ GoesOn(w) => ComesDown(w, 5, 4)
    BY OneStepOn
  <2>6. Spec /\ GoesOn(w) => ComesDown(w, 6, 5)
    BY OneStepOn
  <2>7. Spec /\ GoesOn(w) => ComesDown(w, 7, 6)
    BY OneStepOn
  <2>8. pc[w] = "insert" => StepsLeft(w) <= 7
    BY DEF StepsLeft
  <2>9. Typed /\ StepsLeft(w) <= 0 => pc[w] = "idle"
    BY DEF Typed, TypeOK, CreatorSteps, StepsLeft
  <2>10. Spec => []Typed
    BY InitTyped, StepTyped, PTL DEF Spec
  <2>11. QED
    BY <2>1, <2>2, <2>3, <2>4, <2>5, <2>6, <2>7, <2>8, <2>9, <2>10, PTL
       DEF ComesDown
<1>2. ASSUME NEW w \in Creators
      PROVE  Spec /\ (\A v \in Creators : GoesOn(v)) => (pc[w] = "insert" ~> pc[w] = "idle")
  BY <1>1
<1>3. QED
  BY <1>2, Zenon DEF RequestsEnd
=============================================================================
