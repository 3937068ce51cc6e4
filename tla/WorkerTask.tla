----------------------------- MODULE WorkerTask -----------------------------
(***************************************************************************)
(* The tasks of workers/celery_app.py for jobs of several tenants, as far  *)
(* as run_ingestion depends on what the jobs share: the tenant setting of  *)
(* the worker's database connection, which decides whether the except      *)
(* clause finds the job it has to mark failed, and the one Qdrant          *)
(* collection, which the first tasks create at the same time. What a job   *)
(* does to its own document is in Ingestion.                               *)
(*                                                                         *)
(* A definition followed by one of the same parameters under its plain     *)
(* name is a fault of that code; no action uses one.                       *)
(***************************************************************************)
EXTENDS CollectionSetup, TenantSetting

CONSTANTS
    Jobs, Tenants,
    JobTenant,    \* ingestion_jobs.tenant_id, which the message repeats
    MaxRetries,   \* max_retries of the task (3 in the code)
    MaxFailures   \* bound on the calls that fail for reasons of their own

ASSUME JobAssumption ==
    /\ JobTenant \in [Jobs -> Tenants]
    /\ None \notin Tenants /\ None \notin Jobs
ASSUME CountAssumption == MaxRetries \in Nat /\ MaxFailures \in Nat

VARIABLES
    status,       \* job -> ingestion_jobs.status
    retry_count,  \* job -> ingestion_jobs.retry_count
    unpublished,  \* jobs committed whose upload has not reached delay()
    queue,        \* messages in the broker, waiting retries included
    task,         \* worker -> the task it runs
    setting,      \* worker -> the setting of its task's connection
    failures,     \* calls that have failed so far (for the bound)
    lost,         \* jobs whose publication, retry message or process was lost
    unrecorded    \* jobs with a failure that the code records nowhere

shared == <<collection_exists, payload_schema, setup>>
jobs == <<status, retry_count, unpublished, queue>>
vars == <<shared, jobs, task, setting, failures, lost, unrecorded>>

Stages == {"parsing", "chunking", "embedding", "indexing"}
Statuses == Stages \cup {"queued", "ready", "failed"}
PCs == Stages \cup {"idle", "opened", "scoped", "loaded", "upserted", "failing", "retrying", "committed"}

Messages == [job : Jobs, attempt : 0..MaxRetries]
Tasks == [pc : PCs, job : Jobs \cup {None}, attempt : 0..MaxRetries]
NoTask == [pc |-> "idle", job |-> None, attempt |-> 0]

TypeOK ==
    /\ SetupTypeOK
    /\ status \in [Jobs -> Statuses]
    /\ retry_count \in [Jobs -> 0..(MaxRetries + 1)]
    /\ unpublished \subseteq Jobs
    /\ queue \subseteq Messages
    /\ task \in [Workers -> Tasks]
    /\ setting \in [Workers -> Settings(Tenants)]
    /\ failures \in 0..MaxFailures
    /\ lost \subseteq Jobs
    /\ unrecorded \subseteq Jobs

\* upload_document has committed the jobs.
Init ==
    /\ SetupInit
    /\ status = [j \in Jobs |-> "queued"]
    /\ retry_count = [j \in Jobs |-> 0]
    /\ unpublished = Jobs
    /\ queue = {}
    /\ task = [w \in Workers |-> NoTask]
    /\ setting = [w \in Workers |-> Unset]
    /\ failures = 0
    /\ lost = {} /\ unrecorded = {}

\* Policy tenant_isolation: the row of its job is visible to the task.
SeesJob(w) == Admits(setting[w], JobTenant[task[w].job])

Go(w, pc) == task' = [task EXCEPT ![w].pc = pc]
Sets(w, s) == setting' = [setting EXCEPT ![w] = s]

-----------------------------------------------------------------------------
(* Up to the first commit                                                  *)

PublishJob(j) ==
    /\ j \in unpublished
    /\ unpublished' = unpublished \ {j}
    /\ queue' = queue \cup {[job |-> j, attempt |-> 0]}
    /\ UNCHANGED <<shared, status, retry_count, task, setting, failures, lost, unrecorded>>

\* The message is acknowledged before its task runs.
StartTask(w, m) ==
    /\ task[w] = NoTask
    /\ m \in queue
    /\ queue' = queue \ {m}
    /\ task' = [task EXCEPT ![w] = [pc |-> "opened", job |-> m.job, attempt |-> m.attempt]]
    /\ UNCHANGED <<shared, status, retry_count, unpublished, setting, failures, lost, unrecorded>>

\* The end of the task: its engine, made for it alone, goes with it.
EndTask(w) ==
    /\ task' = [task EXCEPT ![w] = NoTask]
    /\ setup' = [setup EXCEPT ![w] = NoSetup]
    /\ Sets(w, Unset)
    /\ UNCHANGED qdrant

RetriesUnbounded(t) == {[job |-> t.job, attempt |-> t.attempt + 1]}
Retries(t) ==
    IF t.attempt < MaxRetries
    THEN {[job |-> t.job, attempt |-> t.attempt + 1]}
    ELSE {}

\* The call with the default, local=True.
SetTenantScopeLocal(w) ==
    /\ task[w].pc = "opened"
    /\ Sets(w, SetLocal(setting[w], JobTenant[task[w].job]))
    /\ Go(w, "scoped")
    /\ UNCHANGED <<shared, jobs, failures, lost, unrecorded>>

\* local=False.
SetTenantScope(w) ==
    /\ task[w].pc = "opened"
    /\ Sets(w, SetSession(setting[w], JobTenant[task[w].job]))
    /\ Go(w, "scoped")
    /\ UNCHANGED <<shared, jobs, failures, lost, unrecorded>>

\* "not found (or not visible for this tenant)" is an IngestionError raised
\* before the try: retried and not recorded.
LoadJob(w) ==
    /\ task[w].pc = "scoped"
    /\ IF SeesJob(w)
       THEN Go(w, "loaded") /\ UNCHANGED setting
       ELSE Go(w, "retrying") /\ Sets(w, Unset)
    /\ UNCHANGED <<shared, jobs, failures, lost, unrecorded>>

NextStage == [loaded |-> "parsing", parsing |-> "chunking", chunking |-> "embedding",
              embedding |-> "indexing"]

Raises(w) ==
    /\ Go(w, "failing")
    /\ setup' = [setup EXCEPT ![w] = NoSetup]
    /\ Sets(w, AfterRollback(setting[w]))
    /\ UNCHANGED qdrant

\* A stage done, the next one committed. An UPDATE that finds no row raises
\* (StaleDataError).
AdvanceStage(w) ==
    LET t == task[w]
    IN  /\ t.pc \in DOMAIN NextStage
        /\ IF SeesJob(w)
           THEN /\ status' = [status EXCEPT ![t.job] = NextStage[t.pc]]
                /\ Go(w, NextStage[t.pc])
                /\ Sets(w, AfterCommit(setting[w]))
                /\ UNCHANGED shared
           ELSE /\ Raises(w)
                /\ UNCHANGED status
        /\ UNCHANGED <<retry_count, unpublished, queue, failures, lost, unrecorded>>

-----------------------------------------------------------------------------
(* Stage "indexing"                                                        *)

\* The images are uploaded; ensure_collection is called.
CallSetup(w) ==
    /\ task[w].pc = "indexing" /\ setup[w].pc = "none"
    /\ Calls(w, "called")
    /\ UNCHANGED <<qdrant, jobs, task, setting, failures, lost, unrecorded>>

EnsureCollection(w) ==
    /\ SetupStep(w)
    /\ UNCHANGED <<jobs, task, setting, failures, lost, unrecorded>>

\* The collection is there by now: ensure_collection wraps the refusal in an
\* IngestionError.
LoseCreation(w) ==
    /\ LosesCreation(w)
    /\ Raises(w)
    /\ UNCHANGED <<jobs, failures, lost, unrecorded>>

UpsertPoints(w) ==
    /\ task[w].pc = "indexing" /\ setup[w].pc = "done"
    /\ Go(w, "upserted")
    /\ UNCHANGED <<shared, jobs, setting, failures, lost, unrecorded>>

CommitReady(w) ==
    /\ task[w].pc = "upserted"
    /\ IF SeesJob(w)
       THEN /\ status' = [status EXCEPT ![task[w].job] = "ready"]
            /\ Go(w, "committed")
            /\ Sets(w, AfterCommit(setting[w]))
            /\ UNCHANGED shared
       ELSE /\ Raises(w)
            /\ UNCHANGED status
    /\ UNCHANGED <<retry_count, unpublished, queue, failures, lost, unrecorded>>

FinishTask(w) ==
    /\ task[w].pc = "committed"
    /\ EndTask(w)
    /\ UNCHANGED <<jobs, failures, lost, unrecorded>>

-----------------------------------------------------------------------------
(* What goes wrong                                                         *)

\* Storage, the parser, OpenAI or Qdrant raise in some stage, or the removal of
\* the temporary directory after the last commit.
FailCall(w) ==
    /\ task[w].pc \in Stages \cup {"upserted", "committed"}
    /\ failures < MaxFailures
    /\ failures' = failures + 1
    /\ Raises(w)
    /\ UNCHANGED <<jobs, lost, unrecorded>>

\* The first commit raises: the rollback undoes the setting with it.
FailFirstCommit(w) ==
    /\ task[w].pc = "loaded"
    /\ unrecorded' = unrecorded \cup {task[w].job}
    /\ Raises(w)
    /\ UNCHANGED <<jobs, failures, lost>>

\* Outside the try (the clients, the setting, the loads) or in the except
\* clause: no clause catches it, and autoretry_for does not name it.
FailUncaught(w) ==
    /\ task[w].pc \in {"opened", "scoped", "failing"}
    /\ unrecorded' = unrecorded \cup {task[w].job}
    /\ EndTask(w)
    /\ UNCHANGED <<jobs, failures, lost>>

\* The except clause with the exception swallowed at its end.
RecordFailureSilently(w) ==
    LET t == task[w]
    IN  /\ t.pc = "failing"
        /\ SeesJob(w)
        /\ status' = [status EXCEPT ![t.job] = "failed"]
        /\ retry_count' = [retry_count EXCEPT ![t.job] = @ + 1]
        /\ EndTask(w)
        /\ UNCHANGED <<unpublished, queue, failures, lost, unrecorded>>

\* The except clause marks the job failed, commits and raises; the session is
\* closed on the way to Celery.
RecordFailure(w) ==
    LET t == task[w]
    IN  /\ t.pc = "failing"
        /\ SeesJob(w)
        /\ status' = [status EXCEPT ![t.job] = "failed"]
        /\ retry_count' = [retry_count EXCEPT ![t.job] = @ + 1]
        /\ IF Retries(t) = {}
           THEN EndTask(w)
           ELSE Go(w, "retrying") /\ Sets(w, Unset) /\ UNCHANGED shared
        /\ UNCHANGED <<unpublished, queue, failures, lost, unrecorded>>

\* Celery publishes the retry.
PublishRetry(w) ==
    /\ task[w].pc = "retrying"
    /\ queue' = queue \cup Retries(task[w])
    /\ EndTask(w)
    /\ UNCHANGED <<status, retry_count, unpublished, failures, lost, unrecorded>>

\* The broker refuses the retry: Celery rejects the message of this attempt,
\* which is acknowledged already.
LoseRetry(w) ==
    /\ task[w].pc = "retrying"
    /\ lost' = lost \cup {task[w].job}
    /\ EndTask(w)
    /\ UNCHANGED <<jobs, failures, unrecorded>>

\* session.get finds no row and the clause itself raises: an AttributeError,
\* which autoretry_for does not name.
MissJob(w) ==
    /\ task[w].pc = "failing"
    /\ ~SeesJob(w)
    /\ EndTask(w)
    /\ UNCHANGED <<jobs, failures, lost, unrecorded>>

\* The server or the network drops the connection and the next statement
\* raises inside the try: the except clause goes on with a new connection,
\* which has no setting. (Elsewhere: FailUncaught.)
LoseConnection(w) ==
    /\ task[w].pc \in Stages \cup {"loaded", "upserted"}
    /\ unrecorded' = unrecorded \cup {task[w].job}
    /\ Go(w, "failing")
    /\ Sets(w, Unset)
    /\ setup' = [setup EXCEPT ![w] = NoSetup]
    /\ UNCHANGED <<qdrant, jobs, failures, lost>>

\* The broker refuses the message, or the API process dies before delay().
LosePublish(j) ==
    /\ j \in unpublished
    /\ unpublished' = unpublished \ {j}
    /\ lost' = lost \cup {j}
    /\ UNCHANGED <<shared, status, retry_count, queue, task, setting, failures, unrecorded>>

\* The process is killed.
CrashTask(w) ==
    /\ task[w] # NoTask
    /\ lost' = lost \cup {task[w].job}
    /\ EndTask(w)
    /\ UNCHANGED <<jobs, failures, unrecorded>>

-----------------------------------------------------------------------------

TaskStep(w) ==
    \/ SetTenantScope(w)
    \/ LoadJob(w)
    \/ AdvanceStage(w)
    \/ CallSetup(w)
    \/ EnsureCollection(w)
    \/ LoseCreation(w)
    \/ UpsertPoints(w)
    \/ CommitReady(w)
    \/ FinishTask(w)
    \/ RecordFailure(w)
    \/ PublishRetry(w)
    \/ MissJob(w)

WorkerStep(w) ==
    \/ \E m \in queue : StartTask(w, m)
    \/ TaskStep(w)
    \/ FailCall(w)
    \/ FailFirstCommit(w)
    \/ FailUncaught(w)
    \/ LoseRetry(w)
    \/ LoseConnection(w)
    \/ CrashTask(w)

Next ==
    \/ \E j \in Jobs : PublishJob(j) \/ LosePublish(j)
    \/ \E w \in Workers : WorkerStep(w)

Spec == Init /\ [][Next]_vars

\* A handler past its commit goes on to delay(), an idle worker takes a message
\* that waits, and a task that runs goes on.
Fairness ==
    /\ \A j \in Jobs : WF_vars(PublishJob(j))
    /\ \A w \in Workers :
          /\ WF_vars(\E m \in queue : StartTask(w, m))
          /\ WF_vars(TaskStep(w))

FairSpec == Spec /\ Fairness

-----------------------------------------------------------------------------

\* The except clause can do its work: an attempt that raises after its first
\* commit, on the connection it started with, still sees its job row, however
\* many commits and rollbacks lie between.
FailureCanBeRecorded ==
    \A w \in Workers :
        /\ task[w].pc = "failing"
        /\ status[task[w].job] \in Stages \cup {"ready"}
        /\ task[w].job \notin unrecorded
        => SeesJob(w)

\* Points are written only into a collection that has all its indexes, whoever
\* created which of them and whatever stopped in between.
UpsertFindsIndexes ==
    \A w \in Workers : task[w].pc \in {"upserted", "committed"} =>
        collection_exists /\ payload_schema = Fields

\* Somebody still has to do with the job.
InFlight(j) ==
    \/ j \in unpublished
    \/ \E m \in queue : m.job = j
    \/ \E w \in Workers : task[w].job = j

Carried == {j \in Jobs : InFlight(j)}

Excused == lost \cup unrecorded

\* A job nothing carries any more is ready or has used up its retries: what
\* Celery counts and what the row counts never part. Excepted are the jobs whose
\* message or process was lost and those with a failure nothing records (before
\* the first commit, in the except clause, or of the connection).
NoJobIsForgotten ==
    \A j \in Jobs \ Excused :
        \/ status[j] = "ready"
        \/ status[j] = "failed" /\ retry_count[j] = MaxRetries + 1
        \/ InFlight(j)

\* The jobs implement JobLifecycle, although a task that cannot see its row,
\* loses its connection or is killed leaves the row to nobody.
JobContract == INSTANCE JobLifecycle WITH
    carried <- Carried

JobContractSpec == JobContract!Spec

\* The race for the collection costs a job one attempt at most: as long as
\* fewer calls fail than there are retries, every job gets ready, with the
\* exceptions of NoJobIsForgotten.
JobsGetReady ==
    \A j \in Jobs :
        <>(status[j] = "ready" \/ j \in Excused \/ failures >= MaxRetries)
=============================================================================
