----------------------------- MODULE TenantTasks -----------------------------
(***************************************************************************)
(* Celery's tasks (backend/tasks/analytics.py, notifications.py) on the    *)
(* tables that TenantRouting's requests write.                             *)
(*                                                                         *)
(* A worker process runs one task after another with one current_tenant.   *)
(* recompute_chama_summaries sets it for itself; the other tasks name no   *)
(* tenant.  A worker may be given any task at any time, for another chama  *)
(* each: who publishes which is ChamaLedger's matter.  Tasks only read,    *)
(* and no task's result reaches the cache: a recomputation fails on        *)
(* Contribution.user_id, which is not a column, and an analysis on         *)
(* func.interval, which PostgreSQL does not parse.                         *)
(***************************************************************************)
EXTENDS TenantRouting

CONSTANTS
  Workers,
  NoTask

Kinds == {"recompute", "analytics", "report", "notify"}

Tasks == [kind : Kinds, chama : Chamas]

ASSUME TasksAssumption == NoTask \notin Tasks

VARIABLES
  task,       \* what each worker is doing
  at,         \* how far it is: "idle", "begun", "bound" or "read"
  current,    \* current_tenant of its process
  token,      \* what current_tenant.reset will restore
  taskPath,   \* the schema its session looks into before public
  left        \* history: the tenant that tasks whose close failed left behind

worker == <<task, at, current, token, taskPath, left>>
allVars == <<vars, worker>>

TasksInit ==
  /\ Init
  /\ task = [w \in Workers |-> NoTask]
  /\ at = [w \in Workers |-> "idle"]
  /\ current = [w \in Workers |-> NoTenant]
  /\ token = [w \in Workers |-> NoTenant]
  /\ taskPath = [w \in Workers |-> Public]
  /\ left = [w \in Workers |-> NoTenant]

-----------------------------------------------------------------------------

Begin(w, t) ==
  /\ at[w] = "idle"
  /\ at' = [at EXCEPT ![w] = "begun"]
  /\ task' = [task EXCEPT ![w] = t]
  /\ IF t.kind = "recompute"
     THEN /\ current' = [current EXCEPT ![w] = t.chama]
          /\ token' = [token EXCEPT ![w] = current[w]]
     ELSE UNCHANGED <<current, token>>
  /\ UNCHANGED <<taskPath, left, vars>>

\* next(get_db()).
OpenTaskSession(w) ==
  /\ at[w] = "begun"
  /\ at' = [at EXCEPT ![w] = "bound"]
  /\ taskPath' = [taskPath EXCEPT ![w] =
                    IF current[w] = NoTenant THEN Public ELSE current[w]]
  /\ UNCHANGED <<task, current, token, left, vars>>

Read(w, kind) ==
  /\ at[w] = "bound" /\ task[w].kind = kind
  /\ at' = [at EXCEPT ![w] = "read"]
  /\ UNCHANGED <<task, current, token, taskPath, left, vars>>

\* A query for the models' membership_id, in the table the session finds.
CanCount(w) == tables[Meaning(taskPath[w])] = "model"

CountForSummary(w) == CanCount(w) /\ Read(w, "recompute")

CountForAnalysis(w) == CanCount(w) /\ Read(w, "analytics")

CountForReport(w) == CanCount(w) /\ Read(w, "report")

\* The chama and the users to notify, which are in public for every session.
FindRecipients(w) == Read(w, "notify")

\* The token and the session are the task's, and go with it.
Idle(w) ==
  /\ at' = [at EXCEPT ![w] = "idle"]
  /\ task' = [task EXCEPT ![w] = NoTask]
  /\ token' = [token EXCEPT ![w] = NoTenant]
  /\ taskPath' = [taskPath EXCEPT ![w] = Public]
  /\ UNCHANGED vars

\* Mutant: current_tenant is reset at the end of the try block only.
EndTaskEarly(w) ==
  /\ at[w] \in {"bound", "read"}
  /\ Idle(w)
  /\ current' = [current EXCEPT ![w] =
       IF task[w].kind = "recompute" /\ at[w] = "read" THEN token[w] ELSE @]
  /\ UNCHANGED left

\* The task returns because it has done its work or because its chama is
\* gone, or an exception ends it, which is logged; "finally" comes after all.
EndTask(w) ==
  /\ at[w] \in {"bound", "read"}
  /\ Idle(w)
  /\ current' = [current EXCEPT ![w] =
       IF task[w].kind = "recompute" THEN token[w] ELSE @]
  /\ UNCHANGED left

\* "finally" begins with db.close(), which raises when it cannot roll back on a
\* connection that was lost, or because db is unbound when get_db raised: then
\* recompute_chama_summaries does not come to current_tenant.reset(token).
CloseFails(w) ==
  /\ at[w] # "idle"
  /\ Idle(w)
  /\ left' = [left EXCEPT ![w] = IF task[w].kind = "recompute" THEN task[w].chama ELSE @]
  /\ UNCHANGED current

\* The pool of workers replaces a process that dies, and its task is lost.
WorkerDies(w) ==
  /\ at[w] # "idle"
  /\ Idle(w)
  /\ current' = [current EXCEPT ![w] = NoTenant]
  /\ left' = [left EXCEPT ![w] = NoTenant]

TasksNext ==
  \/ Next /\ UNCHANGED worker
  \/ \E w \in Workers :
       \/ \E t \in Tasks : Begin(w, t)
       \/ OpenTaskSession(w)
       \/ CountForSummary(w) \/ CountForAnalysis(w) \/ CountForReport(w) \/ FindRecipients(w)
       \/ EndTask(w) \/ CloseFails(w) \/ WorkerDies(w)

TasksSpec == TasksInit /\ [][TasksNext]_allVars
-----------------------------------------------------------------------------
(* Properties *)

TasksTypeOK ==
  /\ TypeOK
  /\ task \in [Workers -> Tasks \cup {NoTask}]
  /\ at \in [Workers -> {"idle", "begun", "bound", "read"}]
  /\ \A w \in Workers : at[w] # "idle" <=> task[w] # NoTask
  /\ current \in [Workers -> Chamas \cup {NoTenant}]
  /\ token \in [Workers -> Chamas \cup {NoTenant}]
  /\ taskPath \in [Workers -> Schemas]
  /\ left \in [Workers -> Chamas \cup {NoTenant}]

Reads(w) == at[w] = "bound" /\ at'[w] = "read"

\* "Set tenant context for this entire background task": whatever a worker has
\* done before, and however it ended, a recomputation counts every contribution
\* its chama has by then under /api/v1 (unless public got its table just when
\* the chama was to get one).  A task without a tenant reads from public, or
\* from the schema of the last recomputation whose db.close() failed.
TasksReadTheirOwn ==
  [][\A w \in Workers :
       Reads(w) =>
         IF task[w].kind = "recompute"
         THEN \A x \in rows :
                x.chama = task[w].chama /\ x.url = "v1" =>
                  x.place = Meaning(taskPath[w]) \/ x.chama \in raced
         ELSE Meaning(taskPath[w]) = Public \/ taskPath[w] = left[w]]_allVars
=============================================================================
