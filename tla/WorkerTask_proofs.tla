-------------------------- MODULE WorkerTask_proofs --------------------------
(***************************************************************************)
(* Safety of WorkerTask for every number of workers, jobs, payload indexes *)
(* and retries.                                                            *)
(*                                                                         *)
(* Three arguments that hardly touch. The setting of a task follows from   *)
(* where the task is: committed once, it survives every commit and         *)
(* rollback. What a worker knows of the collection only becomes truer,     *)
(* because nothing is ever removed from it. And a job has one carrier at a *)
(* time (the upload, a message or a task), whose attempt number is         *)
(* retry_count: so the carrier that gives up is the last one.              *)
(***************************************************************************)
EXTENDS WorkerTask, TLAPS

Of(t) == [seen |-> t, pending |-> t, kept |-> t]
Running == Stages \cup {"upserted", "committed"}

\* What is known of a task t with setting s; d are the jobs with an unrecorded failure.
TaskFine(t, s, d) ==
    /\ t.pc = "idle" => t = NoTask
    /\ t.pc # "idle" => t.job \in Jobs
    /\ t.pc \in {"idle", "opened", "retrying"} => s = Unset
    /\ t.pc \in {"scoped", "loaded"} => s = SetSession(Unset, JobTenant[t.job])
    /\ t.pc \in Running => s = Of(JobTenant[t.job])
    /\ t.pc = "failing" => s = Of(JobTenant[t.job]) \/ (s = Unset /\ t.job \in d)

\* What is known of a task t whose call of ensure_collection is at u; ce and ps
\* are collection_exists and payload_schema.
SetupFine(t, u, ce, ps) ==
    /\ u.pc # "none" => t.pc \in {"indexing", "upserted", "committed"}
    /\ t.pc \in {"upserted", "committed"} => u.pc = "done"
    /\ u.pc = "describing" => ce
    /\ u.pc = "indexing" => ce /\ Fields \ ps \subseteq u.missing
    /\ u.pc = "done" => ce /\ Fields \subseteq ps

WorkerTypes ==
    /\ SetupTypeOK
    /\ task \in [Workers -> Tasks]
    /\ setting \in [Workers -> Settings(Tenants)]
    /\ unrecorded \subseteq Jobs

WorkerInv ==
    /\ WorkerTypes
    /\ \A w \in Workers :
          /\ TaskFine(task[w], setting[w], unrecorded)
          /\ SetupFine(task[w], setup[w], collection_exists, payload_schema)

JobTypes ==
    /\ status \in [Jobs -> Statuses]
    /\ retry_count \in [Jobs -> 0..(MaxRetries + 1)]
    /\ unpublished \subseteq Jobs
    /\ queue \subseteq Messages
    /\ failures \in 0..MaxFailures
    /\ lost \subseteq Jobs

\* A job has one carrier, and retry_count is its attempt number; of a task that
\* is about to publish the retry, the number of that.
CarrierInv ==
    /\ \A j \in unpublished :
          /\ retry_count[j] = 0
          /\ \A m \in queue : m.job # j
          /\ \A w \in Workers : task[w].job # j
    /\ \A m \in queue :
          /\ retry_count[m.job] = m.attempt
          /\ \A w \in Workers : task[w].job # m.job
    /\ \A w \in Workers : task[w].job # None =>
          /\ task[w].pc # "retrying" => retry_count[task[w].job] = task[w].attempt
          /\ task[w].pc = "retrying" =>
                /\ retry_count[task[w].job] = task[w].attempt + 1
                /\ task[w].attempt < MaxRetries
          /\ task[w].pc = "committed" => status[task[w].job] = "ready"
          /\ \A v \in Workers \ {w} : task[v].job # task[w].job

IInv == WorkerInv /\ JobTypes /\ CarrierInv /\ NoJobIsForgotten

-----------------------------------------------------------------------------

LEMMA InitInv == Init => IInv
<1>1. SUFFICES ASSUME Init PROVE IInv
  OBVIOUS
<1>2. /\ task = [w \in Workers |-> NoTask] /\ NoTask \in Tasks
      /\ NoTask.pc = "idle" /\ NoTask.job = None
  BY <1>1, CountAssumption DEF Init, NoTask, Tasks, PCs
<1>3. /\ setup = [w \in Workers |-> NoSetup] /\ NoSetup \in SetupStates /\ NoSetup.pc = "none"
      /\ collection_exists = FALSE /\ payload_schema = {}
  BY <1>1 DEF Init, SetupInit, NoSetup, SetupStates
<1>4. setting = [w \in Workers |-> Unset] /\ Unset \in Settings(Tenants)
  BY <1>1 DEF Init, Settings, Unset
<1>5. WorkerTypes
  BY <1>1, <1>2, <1>3, <1>4 DEF Init, WorkerTypes, SetupTypeOK
<1>6. ASSUME NEW w \in Workers
      PROVE  /\ TaskFine(task[w], setting[w], unrecorded)
             /\ SetupFine(task[w], setup[w], collection_exists, payload_schema)
  BY <1>2, <1>3, <1>4 DEF TaskFine, SetupFine, Running, Stages
<1>7. JobTypes
  BY <1>1, CountAssumption DEF Init, JobTypes, Statuses, Messages
<1>8. CarrierInv
  BY <1>1, <1>2, JobAssumption DEF Init, CarrierInv
<1>9. NoJobIsForgotten
  BY <1>1 DEF Init, NoJobIsForgotten, InFlight
<1>10. QED
  BY <1>5, <1>6, <1>7, <1>8, <1>9 DEF IInv, WorkerInv

-----------------------------------------------------------------------------
(* Tasks, their connections and the collection                             *)

LEMMA SettingFacts ==
    ASSUME NEW t \in Tenants
    PROVE  /\ Of(t) \in Settings(Tenants) /\ Unset \in Settings(Tenants)
           /\ SetSession(Unset, t) \in Settings(Tenants)
           /\ AfterCommit(SetSession(Unset, t)) = Of(t)
           /\ AfterCommit(Of(t)) = Of(t)
           /\ AfterRollback(Of(t)) = Of(t)
           /\ AfterRollback(SetSession(Unset, t)) = Unset
           /\ Admits(Of(t), t) /\ Admits(SetSession(Unset, t), t)
           /\ ~Admits(Unset, t)
BY JobAssumption DEF Of, Unset, Settings, SetSession, AfterCommit, AfterRollback, Admits

\* Worker w moves; what others know stays true while nothing is removed.
LEMMA WorkerMoves ==
    ASSUME WorkerInv, WorkerTypes', NEW w \in Workers,
           \A v \in Workers \ {w} :
               task'[v] = task[v] /\ setting'[v] = setting[v] /\ setup'[v] = setup[v],
           collection_exists => collection_exists',
           payload_schema \subseteq payload_schema',
           unrecorded \subseteq unrecorded',
           TaskFine(task'[w], setting'[w], unrecorded'),
           SetupFine(task'[w], setup'[w], collection_exists', payload_schema')
    PROVE  WorkerInv'
<1>1. ASSUME NEW v \in Workers \ {w}
      PROVE  /\ TaskFine(task'[v], setting'[v], unrecorded')
             /\ SetupFine(task'[v], setup'[v], collection_exists', payload_schema')
  <2>1. /\ TaskFine(task[v], setting[v], unrecorded)
        /\ SetupFine(task[v], setup[v], collection_exists, payload_schema)
    BY DEF WorkerInv
  <2>2. TaskFine(task[v], setting[v], unrecorded')
    BY <2>1 DEF TaskFine
  <2>3. SetupFine(task[v], setup[v], collection_exists', payload_schema')
    BY <2>1 DEF SetupFine
  <2>4. QED
    BY <2>2, <2>3
<1>2. QED
  BY <1>1 DEF WorkerInv

\* The end of a task clears all that its worker has.
LEMMA EndTaskWorker ==
    ASSUME WorkerInv, NEW w \in Workers, EndTask(w),
           unrecorded \subseteq unrecorded', unrecorded' \subseteq Jobs
    PROVE  WorkerInv'
<1>1. /\ task' = [task EXCEPT ![w] = NoTask] /\ setup' = [setup EXCEPT ![w] = NoSetup]
      /\ setting' = [setting EXCEPT ![w] = Unset]
      /\ UNCHANGED <<collection_exists, payload_schema>>
  BY DEF EndTask, Sets, qdrant
<1>2. /\ NoTask \in Tasks /\ NoTask.pc = "idle"
      /\ NoSetup \in SetupStates /\ NoSetup.pc = "none" /\ Unset \in Settings(Tenants)
  BY CountAssumption DEF NoTask, Tasks, PCs, NoSetup, SetupStates, Unset, Settings
<1>3. WorkerTypes'
  BY <1>1, <1>2 DEF WorkerInv, WorkerTypes, SetupTypeOK
<1>4. task'[w] = NoTask /\ setting'[w] = Unset /\ setup'[w] = NoSetup
  BY <1>1 DEF WorkerInv, WorkerTypes, SetupTypeOK
<1>5. TaskFine(task'[w], setting'[w], unrecorded')
  BY <1>2, <1>4 DEF TaskFine, Running, Stages
<1>6. SetupFine(task'[w], setup'[w], collection_exists', payload_schema')
  BY <1>2, <1>4 DEF SetupFine
<1>7. QED
  BY <1>1, <1>3, <1>5, <1>6, WorkerMoves DEF WorkerInv, WorkerTypes, SetupTypeOK

\* The except clause, with the setting s.
LEMMA FailingWorker ==
    ASSUME WorkerInv, NEW w \in Workers, NEW s \in Settings(Tenants),
           Go(w, "failing"), Sets(w, s), setup' = [setup EXCEPT ![w] = NoSetup],
           UNCHANGED qdrant,
           unrecorded \subseteq unrecorded', unrecorded' \subseteq Jobs,
           task[w].job \in Jobs,
           s = Of(JobTenant[task[w].job]) \/ (s = Unset /\ task[w].job \in unrecorded')
    PROVE  WorkerInv'
<1>1. /\ task' = [task EXCEPT ![w].pc = "failing"] /\ setup' = [setup EXCEPT ![w] = NoSetup]
      /\ setting' = [setting EXCEPT ![w] = s]
      /\ UNCHANGED <<collection_exists, payload_schema>>
  BY DEF Go, Sets, qdrant
<1>2. task[w] \in Tasks /\ NoSetup \in SetupStates /\ NoSetup.pc = "none"
  BY DEF WorkerInv, WorkerTypes, NoSetup, SetupStates
<1>3. /\ task'[w] = [task[w] EXCEPT !.pc = "failing"] /\ setting'[w] = s /\ setup'[w] = NoSetup
      /\ \A v \in Workers \ {w} :
            task'[v] = task[v] /\ setting'[v] = setting[v] /\ setup'[v] = setup[v]
  BY <1>1 DEF WorkerInv, WorkerTypes, SetupTypeOK
<1>4. task'[w] \in Tasks /\ task'[w].pc = "failing" /\ task'[w].job = task[w].job
  BY <1>2, <1>3 DEF Tasks, PCs
<1>5. WorkerTypes'
  BY <1>1, <1>2, <1>3, <1>4 DEF WorkerInv, WorkerTypes, SetupTypeOK
<1>6. TaskFine(task'[w], setting'[w], unrecorded')
  BY <1>3, <1>4 DEF TaskFine, Running, Stages
<1>7. SetupFine(task'[w], setup'[w], collection_exists', payload_schema')
  BY <1>2, <1>3, <1>4 DEF SetupFine
<1>8. QED
  BY <1>1, <1>3, <1>5, <1>6, <1>7, WorkerMoves

\* A task moves to pc, its connection to s; the collection is not asked.
LEMMA TaskMoves ==
    ASSUME WorkerInv, NEW w \in Workers, NEW t \in Tasks, NEW s \in Settings(Tenants),
           task' = [task EXCEPT ![w] = t], setting' = [setting EXCEPT ![w] = s],
           UNCHANGED <<collection_exists, payload_schema, setup, unrecorded>>,
           TaskFine(t, s, unrecorded),
           SetupFine(t, setup[w], collection_exists, payload_schema)
    PROVE  WorkerInv'
<1>1. /\ task'[w] = t /\ setting'[w] = s
      /\ \A v \in Workers \ {w} :
            task'[v] = task[v] /\ setting'[v] = setting[v] /\ setup'[v] = setup[v]
  BY DEF WorkerInv, WorkerTypes
<1>2. WorkerTypes'
  BY DEF WorkerInv, WorkerTypes, SetupTypeOK
<1>3. SetupFine(task'[w], setup'[w], collection_exists', payload_schema')
  BY <1>1
<1>4. TaskFine(task'[w], setting'[w], unrecorded')
  BY <1>1
<1>5. QED
  BY <1>1, <1>2, <1>3, <1>4, WorkerMoves

\* A raise inside the try, on a connection that has committed before, or of the
\* first commit.
LEMMA RaisesWorker ==
    ASSUME WorkerInv, NEW w \in Workers, Raises(w),
           \/ task[w].pc \in Running /\ unrecorded' = unrecorded
           \/ task[w].pc = "loaded" /\ unrecorded' = unrecorded \cup {task[w].job}
    PROVE  WorkerInv'
<1>1. TaskFine(task[w], setting[w], unrecorded) /\ unrecorded \subseteq Jobs
  BY DEF WorkerInv, WorkerTypes
<1>2. task[w].job \in Jobs
  BY <1>1 DEF TaskFine, Running, Stages
<1>3. JobTenant[task[w].job] \in Tenants
  BY <1>2, JobAssumption
<1>4. /\ Go(w, "failing") /\ setup' = [setup EXCEPT ![w] = NoSetup]
      /\ Sets(w, AfterRollback(setting[w])) /\ UNCHANGED qdrant
  BY DEF Raises
<1>5. unrecorded \subseteq unrecorded' /\ unrecorded' \subseteq Jobs
  BY <1>1, <1>2
<1>6. CASE task[w].pc \in Running
  <2>1. setting[w] = Of(JobTenant[task[w].job])
    BY <1>1, <1>6 DEF TaskFine
  <2>2. /\ AfterRollback(setting[w]) = Of(JobTenant[task[w].job])
        /\ AfterRollback(setting[w]) \in Settings(Tenants)
    BY <1>3, <2>1, SettingFacts
  <2>3. QED
    BY <1>2, <1>4, <1>5, <2>2, FailingWorker
<1>7. CASE task[w].pc = "loaded"
  <2>1. setting[w] = SetSession(Unset, JobTenant[task[w].job])
    BY <1>1, <1>7 DEF TaskFine
  <2>2. AfterRollback(setting[w]) = Unset /\ Unset \in Settings(Tenants)
    BY <1>3, <2>1, SettingFacts
  <2>3. task[w].job \in unrecorded'
    BY <1>7 DEF Running, Stages
  <2>4. QED
    BY <1>2, <1>4, <1>5, <2>2, <2>3, FailingWorker
<1>8. QED
  BY <1>6, <1>7

\* A task between its first commit and its end sees its job.
LEMMA TaskSeesJob ==
    ASSUME WorkerInv, NEW w \in Workers,
           task[w].pc \in Running \cup {"scoped", "loaded"}
    PROVE  SeesJob(w) /\ task[w].job \in Jobs /\ JobTenant[task[w].job] \in Tenants
<1>1. TaskFine(task[w], setting[w], unrecorded)
  BY DEF WorkerInv
<1>2. task[w].job \in Jobs
  BY <1>1 DEF TaskFine, Running, Stages
<1>3. JobTenant[task[w].job] \in Tenants
  BY <1>2, JobAssumption
<1>4. setting[w] \in {Of(JobTenant[task[w].job]), SetSession(Unset, JobTenant[task[w].job])}
  BY <1>1 DEF TaskFine, Running, Stages
<1>5. QED
  BY <1>2, <1>3, <1>4, SettingFacts DEF SeesJob

LEMMA StartTaskWorker ==
    ASSUME IInv, NEW w \in Workers, NEW m \in queue, StartTask(w, m)
    PROVE  WorkerInv'
<1> DEFINE t == [pc |-> "opened", job |-> m.job, attempt |-> m.attempt]
<1>1. m \in Messages /\ WorkerInv
  BY DEF IInv, JobTypes
<1>2. t \in Tasks /\ t.pc = "opened" /\ t.job \in Jobs
  BY <1>1 DEF Messages, Tasks, PCs
<1>3. task[w].pc = "idle" /\ TaskFine(task[w], setting[w], unrecorded)
      /\ SetupFine(task[w], setup[w], collection_exists, payload_schema)
  BY <1>1 DEF StartTask, NoTask, WorkerInv
<1>4. setting[w] = Unset /\ setup[w].pc = "none"
  BY <1>3 DEF TaskFine, SetupFine
<1>5. Unset \in Settings(Tenants)
  BY DEF Unset, Settings
<1>6. TaskFine(t, Unset, unrecorded) /\ SetupFine(t, setup[w], collection_exists, payload_schema)
  BY <1>2, <1>4 DEF TaskFine, SetupFine, Running, Stages
<1>7. task' = [task EXCEPT ![w] = t]
      /\ UNCHANGED <<collection_exists, payload_schema, setup, setting, unrecorded>>
  BY DEF StartTask, shared
<1>8. setting' = [setting EXCEPT ![w] = Unset]
  BY <1>1, <1>4, <1>7 DEF WorkerInv, WorkerTypes
<1> HIDE DEF t
<1>9. QED
  BY <1>1, <1>2, <1>5, <1>6, <1>7, <1>8, TaskMoves

LEMMA SetTenantScopeWorker ==
    ASSUME WorkerInv, NEW w \in Workers, SetTenantScope(w)
    PROVE  WorkerInv'
<1> DEFINE t == [task[w] EXCEPT !.pc = "scoped"]
           s == SetSession(Unset, JobTenant[task[w].job])
<1>1. task[w].pc = "opened" /\ task[w] \in Tasks /\ TaskFine(task[w], setting[w], unrecorded)
      /\ SetupFine(task[w], setup[w], collection_exists, payload_schema)
  BY DEF SetTenantScope, WorkerInv, WorkerTypes
<1>2. task[w].job \in Jobs /\ setting[w] = Unset /\ setup[w].pc = "none"
  BY <1>1 DEF TaskFine, SetupFine
<1>3. t \in Tasks /\ t.pc = "scoped" /\ t.job = task[w].job
  BY <1>1 DEF Tasks, PCs
<1>4. s \in Settings(Tenants)
  BY <1>2, JobAssumption, SettingFacts
<1>5. TaskFine(t, s, unrecorded) /\ SetupFine(t, setup[w], collection_exists, payload_schema)
  BY <1>2, <1>3 DEF TaskFine, SetupFine, Running, Stages
<1>6. /\ task' = [task EXCEPT ![w] = t] /\ setting' = [setting EXCEPT ![w] = s]
      /\ UNCHANGED <<collection_exists, payload_schema, setup, unrecorded>>
  BY <1>2 DEF SetTenantScope, Go, Sets, shared
<1> HIDE DEF t, s
<1>7. QED
  BY <1>3, <1>4, <1>5, <1>6, TaskMoves

LEMMA LoadJobWorker ==
    ASSUME WorkerInv, NEW w \in Workers, LoadJob(w)
    PROVE  WorkerInv'
<1> DEFINE t == [task[w] EXCEPT !.pc = "loaded"]
<1>1. task[w].pc = "scoped" /\ task[w] \in Tasks /\ TaskFine(task[w], setting[w], unrecorded)
      /\ setting[w] \in Settings(Tenants)
      /\ SetupFine(task[w], setup[w], collection_exists, payload_schema)
  BY DEF LoadJob, WorkerInv, WorkerTypes
<1>2. SeesJob(w)
  BY <1>1, TaskSeesJob
<1>3. t \in Tasks /\ t.pc = "loaded" /\ t.job = task[w].job
  BY <1>1 DEF Tasks, PCs
<1>4. TaskFine(t, setting[w], unrecorded)
      /\ SetupFine(t, setup[w], collection_exists, payload_schema)
  BY <1>1, <1>3 DEF TaskFine, SetupFine, Running, Stages
<1>5. /\ task' = [task EXCEPT ![w] = t] /\ setting' = setting
      /\ UNCHANGED <<collection_exists, payload_schema, setup, unrecorded>>
  BY <1>2 DEF LoadJob, Go, shared
<1>6. setting' = [setting EXCEPT ![w] = setting[w]]
  BY <1>5 DEF WorkerInv, WorkerTypes
<1> HIDE DEF t
<1>7. QED
  BY <1>1, <1>3, <1>4, <1>5, <1>6, TaskMoves

\* A commit of the task, from a stage or from the loaded job.
LEMMA CommitWorker ==
    ASSUME WorkerInv, NEW w \in Workers, NEW pc \in Running,
           task[w].pc \in Running \cup {"loaded"},
           Go(w, pc), Sets(w, AfterCommit(setting[w])), UNCHANGED <<shared, unrecorded>>,
           setup[w].pc # "none" => pc \in {"indexing", "upserted", "committed"},
           pc \in {"upserted", "committed"} => setup[w].pc = "done"
    PROVE  WorkerInv'
<1> DEFINE t == [task[w] EXCEPT !.pc = pc]
           s == Of(JobTenant[task[w].job])
<1>1. task[w] \in Tasks /\ TaskFine(task[w], setting[w], unrecorded)
      /\ SetupFine(task[w], setup[w], collection_exists, payload_schema)
  BY DEF WorkerInv, WorkerTypes
<1>2. task[w].job \in Jobs /\ JobTenant[task[w].job] \in Tenants
  BY TaskSeesJob
<1>3. t \in Tasks /\ t.pc = pc /\ t.job = task[w].job
  BY <1>1 DEF Tasks, PCs, Running
<1>4. setting[w] \in {s, SetSession(Unset, JobTenant[task[w].job])}
  BY <1>1 DEF TaskFine
<1>5. s \in Settings(Tenants) /\ AfterCommit(setting[w]) = s
  BY <1>2, <1>4, SettingFacts
<1>6. TaskFine(t, s, unrecorded)
  BY <1>2, <1>3 DEF TaskFine, Running, Stages
<1>7. SetupFine(t, setup[w], collection_exists, payload_schema)
  BY <1>1, <1>3 DEF SetupFine
<1>8. /\ task' = [task EXCEPT ![w] = t] /\ setting' = [setting EXCEPT ![w] = s]
      /\ UNCHANGED <<collection_exists, payload_schema, setup, unrecorded>>
  BY <1>5 DEF Go, Sets, shared
<1> HIDE DEF t, s
<1>9. QED
  BY <1>3, <1>5, <1>6, <1>7, <1>8, TaskMoves

LEMMA AdvanceStageWorker ==
    ASSUME WorkerInv, NEW w \in Workers, AdvanceStage(w)
    PROVE  WorkerInv'
<1>1. task[w].pc \in {"loaded", "parsing", "chunking", "embedding"}
  BY DEF AdvanceStage, NextStage
<1>2. NextStage[task[w].pc] \in Stages
  BY <1>1 DEF NextStage, Stages
<1>3. SeesJob(w)
  BY <1>1, TaskSeesJob DEF Running, Stages
<1>4. /\ Go(w, NextStage[task[w].pc]) /\ Sets(w, AfterCommit(setting[w]))
      /\ UNCHANGED <<shared, unrecorded>>
  BY <1>3 DEF AdvanceStage
<1>5. setup[w].pc = "none"
  BY <1>1 DEF WorkerInv, SetupFine
<1>6. NextStage[task[w].pc] \in Running /\ NextStage[task[w].pc] \notin {"upserted", "committed"}
  BY <1>2 DEF Running, Stages
<1>7. task[w].pc \in Running \cup {"loaded"}
  BY <1>1 DEF Running, Stages
<1>8. QED
  BY <1>4, <1>5, <1>6, <1>7, CommitWorker

LEMMA CommitReadyWorker ==
    ASSUME WorkerInv, NEW w \in Workers, CommitReady(w)
    PROVE  WorkerInv'
<1>1. task[w].pc = "upserted" /\ "committed" \in Running /\ task[w].pc \in Running
  BY DEF CommitReady, Running
<1>2. SeesJob(w)
  BY <1>1, TaskSeesJob
<1>3. /\ Go(w, "committed") /\ Sets(w, AfterCommit(setting[w])) /\ UNCHANGED <<shared, unrecorded>>
  BY <1>2 DEF CommitReady
<1>4. setup[w].pc = "done"
  BY <1>1 DEF WorkerInv, SetupFine
<1>5. QED
  BY <1>1, <1>3, <1>4, CommitWorker

\* ensure_collection.
LEMMA SetupMoves ==
    ASSUME WorkerInv, NEW w \in Workers, NEW u \in SetupStates,
           setup' = [setup EXCEPT ![w] = u],
           UNCHANGED <<task, setting, unrecorded>>,
           collection_exists' \in BOOLEAN, collection_exists => collection_exists',
           payload_schema \subseteq payload_schema', payload_schema' \subseteq Fields,
           SetupFine(task[w], u, collection_exists', payload_schema')
    PROVE  WorkerInv'
<1>1. /\ setup'[w] = u
      /\ \A v \in Workers \ {w} :
            task'[v] = task[v] /\ setting'[v] = setting[v] /\ setup'[v] = setup[v]
  BY DEF WorkerInv, WorkerTypes, SetupTypeOK
<1>2. WorkerTypes'
  BY DEF WorkerInv, WorkerTypes, SetupTypeOK
<1>3. SetupFine(task'[w], setup'[w], collection_exists', payload_schema')
  BY <1>1
<1>4. TaskFine(task'[w], setting'[w], unrecorded')
  BY DEF WorkerInv
<1>5. QED
  BY <1>1, <1>2, <1>3, <1>4, WorkerMoves

LEMMA SetupStepWorker ==
    ASSUME WorkerInv, NEW w \in Workers, SetupStep(w), UNCHANGED <<task, setting, unrecorded>>
    PROVE  WorkerInv'
<1>1. /\ setup[w] \in SetupStates /\ SetupFine(task[w], setup[w], collection_exists, payload_schema)
      /\ collection_exists \in BOOLEAN /\ payload_schema \subseteq Fields
  BY DEF WorkerInv, WorkerTypes, SetupTypeOK
<1>2. ASSUME NEW pc \in {"creating", "describing", "done"}, Calls(w, pc)
      PROVE  \E u \in SetupStates : /\ setup' = [setup EXCEPT ![w] = u]
                                    /\ u.pc = pc
  <2> DEFINE u == [setup[w] EXCEPT !.pc = pc]
  <2>1. u \in SetupStates /\ u.pc = pc
    BY <1>1 DEF SetupStates
  <2>2. setup' = [setup EXCEPT ![w] = u]
    BY <1>2 DEF Calls
  <2> HIDE DEF u
  <2>3. QED
    BY <2>1, <2>2
<1>3. CASE CheckCollection(w)
  <2>1. PICK u \in SetupStates :
            /\ setup' = [setup EXCEPT ![w] = u]
            /\ u.pc = IF collection_exists THEN "describing" ELSE "creating"
    BY <1>2, <1>3 DEF CheckCollection
  <2>2. UNCHANGED <<collection_exists, payload_schema>> /\ setup[w].pc = "called"
    BY <1>3 DEF CheckCollection, qdrant
  <2>3. SetupFine(task[w], u, collection_exists', payload_schema')
    BY <1>1, <2>1, <2>2 DEF SetupFine
  <2>4. QED
    BY <1>1, <2>1, <2>2, <2>3, SetupMoves
<1>4. CASE CreateCollection(w)
  <2>1. PICK u \in SetupStates : setup' = [setup EXCEPT ![w] = u] /\ u.pc = "describing"
    BY <1>2, <1>4 DEF CreateCollection
  <2>2. collection_exists' = TRUE /\ payload_schema' = payload_schema /\ setup[w].pc = "creating"
    BY <1>4 DEF CreateCollection
  <2>3. SetupFine(task[w], u, collection_exists', payload_schema')
    BY <1>1, <2>1, <2>2 DEF SetupFine
  <2>4. QED
    BY <1>1, <2>1, <2>2, <2>3, SetupMoves
<1>5. CASE DescribeCollection(w)
  <2> DEFINE u == [pc |-> "indexing", missing |-> Fields \ payload_schema]
  <2>1. u \in SetupStates /\ u.pc = "indexing" /\ u.missing = Fields \ payload_schema
    BY DEF SetupStates
  <2>2. /\ UNCHANGED <<collection_exists, payload_schema>> /\ setup[w].pc = "describing"
        /\ setup' = [setup EXCEPT ![w] = u]
    BY <1>5 DEF DescribeCollection, qdrant
  <2> HIDE DEF u
  <2>3. SetupFine(task[w], u, collection_exists', payload_schema')
    BY <1>1, <2>1, <2>2 DEF SetupFine
  <2>4. QED
    BY <1>1, <2>1, <2>2, <2>3, SetupMoves
<1>6. ASSUME NEW f \in Fields, CreatePayloadIndex(w, f) PROVE WorkerInv'
  <2> DEFINE u == [setup[w] EXCEPT !.missing = @ \ {f}]
  <2>1. u \in SetupStates /\ u.pc = setup[w].pc /\ u.missing = setup[w].missing \ {f}
    BY <1>1 DEF SetupStates
  <2>2. /\ collection_exists' = collection_exists /\ payload_schema' = payload_schema \cup {f}
        /\ setup[w].pc = "indexing"
        /\ setup' = [setup EXCEPT ![w] = u]
    BY <1>6 DEF CreatePayloadIndex
  <2> HIDE DEF u
  <2>3. SetupFine(task[w], u, collection_exists', payload_schema')
    BY <1>1, <2>1, <2>2 DEF SetupFine
  <2>4. payload_schema' \subseteq Fields
    BY <1>1, <2>2
  <2>5. QED
    BY <1>1, <2>1, <2>2, <2>3, <2>4, SetupMoves
<1>7. CASE ReturnSetup(w)
  <2>1. PICK u \in SetupStates : setup' = [setup EXCEPT ![w] = u] /\ u.pc = "done"
    BY <1>2, <1>7 DEF ReturnSetup
  <2>2. /\ UNCHANGED <<collection_exists, payload_schema>> /\ setup[w].pc = "indexing"
        /\ setup[w].missing = {}
    BY <1>7 DEF ReturnSetup, qdrant
  <2>3. SetupFine(task[w], u, collection_exists', payload_schema')
    BY <1>1, <2>1, <2>2 DEF SetupFine
  <2>4. QED
    BY <1>1, <2>1, <2>2, <2>3, SetupMoves
<1>8. QED
  BY <1>3, <1>4, <1>5, <1>6, <1>7 DEF SetupStep

LEMMA CallSetupWorker ==
    ASSUME WorkerInv, NEW w \in Workers, CallSetup(w)
    PROVE  WorkerInv'
<1> DEFINE u == [setup[w] EXCEPT !.pc = "called"]
<1>1. /\ setup[w] \in SetupStates
      /\ collection_exists \in BOOLEAN /\ payload_schema \subseteq Fields
  BY DEF WorkerInv, WorkerTypes, SetupTypeOK
<1>2. u \in SetupStates /\ u.pc = "called"
  BY <1>1 DEF SetupStates
<1>3. /\ UNCHANGED <<collection_exists, payload_schema, task, setting, unrecorded>>
      /\ setup' = [setup EXCEPT ![w] = u] /\ task[w].pc = "indexing"
  BY DEF CallSetup, Calls, qdrant
<1> HIDE DEF u
<1>4. SetupFine(task[w], u, collection_exists', payload_schema')
  BY <1>2, <1>3 DEF SetupFine
<1>5. QED
  BY <1>1, <1>2, <1>3, <1>4, SetupMoves

LEMMA UpsertPointsWorker ==
    ASSUME WorkerInv, NEW w \in Workers, UpsertPoints(w)
    PROVE  WorkerInv'
<1> DEFINE t == [task[w] EXCEPT !.pc = "upserted"]
<1>1. /\ task[w].pc = "indexing" /\ setup[w].pc = "done"
      /\ task[w] \in Tasks /\ TaskFine(task[w], setting[w], unrecorded)
      /\ setting[w] \in Settings(Tenants)
      /\ SetupFine(task[w], setup[w], collection_exists, payload_schema)
  BY DEF UpsertPoints, WorkerInv, WorkerTypes
<1>2. t \in Tasks /\ t.pc = "upserted" /\ t.job = task[w].job
  BY <1>1 DEF Tasks, PCs
<1>3. /\ task' = [task EXCEPT ![w] = t] /\ setting' = setting
      /\ UNCHANGED <<collection_exists, payload_schema, setup, unrecorded>>
  BY DEF UpsertPoints, Go, shared
<1>4. setting' = [setting EXCEPT ![w] = setting[w]]
  BY <1>3 DEF WorkerInv, WorkerTypes
<1> HIDE DEF t
<1>5. TaskFine(t, setting[w], unrecorded)
  BY <1>1, <1>2 DEF TaskFine, Running, Stages
<1>6. SetupFine(t, setup[w], collection_exists, payload_schema)
  BY <1>1, <1>2 DEF SetupFine
<1>7. QED
  BY <1>1, <1>2, <1>3, <1>4, <1>5, <1>6, TaskMoves

LEMMA LoseConnectionWorker ==
    ASSUME WorkerInv, NEW w \in Workers, LoseConnection(w)
    PROVE  WorkerInv'
<1>1. task[w].pc # "idle" /\ TaskFine(task[w], setting[w], unrecorded)
  BY DEF LoseConnection, WorkerInv, Stages
<1>2. task[w].job \in Jobs
  BY <1>1 DEF TaskFine
<1>3. unrecorded' = unrecorded \cup {task[w].job}
  BY DEF LoseConnection
<1>4. unrecorded \subseteq unrecorded' /\ unrecorded' \subseteq Jobs
      /\ task[w].job \in unrecorded'
  BY <1>2, <1>3 DEF WorkerInv, WorkerTypes
<1>5. /\ Go(w, "failing") /\ Sets(w, Unset) /\ setup' = [setup EXCEPT ![w] = NoSetup]
      /\ UNCHANGED qdrant
  BY DEF LoseConnection
<1>6. Unset \in Settings(Tenants)
  BY DEF Unset, Settings
<1>7. QED
  BY <1>2, <1>4, <1>5, <1>6, FailingWorker

\* The failure is committed and the session closed; the retry is still to come.
LEMMA RetryingWorker ==
    ASSUME WorkerInv, NEW w \in Workers, task[w].pc = "failing",
           Go(w, "retrying"), Sets(w, Unset), UNCHANGED <<shared, unrecorded>>
    PROVE  WorkerInv'
<1> DEFINE t == [task[w] EXCEPT !.pc = "retrying"]
<1>1. /\ task[w] \in Tasks /\ TaskFine(task[w], setting[w], unrecorded)
      /\ SetupFine(task[w], setup[w], collection_exists, payload_schema)
  BY DEF WorkerInv, WorkerTypes
<1>2. t \in Tasks /\ t.pc = "retrying" /\ t.job = task[w].job
  BY <1>1 DEF Tasks, PCs
<1>3. Unset \in Settings(Tenants)
  BY DEF Unset, Settings
<1>4. TaskFine(t, Unset, unrecorded) /\ SetupFine(t, setup[w], collection_exists, payload_schema)
  BY <1>1, <1>2 DEF TaskFine, SetupFine, Running, Stages
<1>5. /\ task' = [task EXCEPT ![w] = t] /\ setting' = [setting EXCEPT ![w] = Unset]
      /\ UNCHANGED <<collection_exists, payload_schema, setup, unrecorded>>
  BY DEF Go, Sets, shared
<1> HIDE DEF t
<1>6. QED
  BY <1>2, <1>3, <1>4, <1>5, TaskMoves

-----------------------------------------------------------------------------
(* Jobs and their carriers                                                 *)

CarriersKept == CarrierInv /\ NoJobIsForgotten

\* What was lost, or failed unrecorded, stays so.
GhostsGrow ==
    /\ lost \subseteq lost' /\ lost' \subseteq Jobs
    /\ unrecorded \subseteq unrecorded' /\ unrecorded' \subseteq Jobs

LEMMA GhostFacts ==
    ASSUME IInv
    PROVE  /\ lost \subseteq Jobs /\ unrecorded \subseteq Jobs
           /\ UNCHANGED <<lost, unrecorded>> => GhostsGrow
           /\ GhostsGrow => Excused \subseteq Excused'
BY DEF IInv, JobTypes, WorkerInv, WorkerTypes, GhostsGrow, Excused

\* What a task knows of its retry, apart from its row.
CountFine(x, n) ==
    /\ x.pc # "retrying" => n = x.attempt
    /\ x.pc = "retrying" => n = x.attempt + 1 /\ x.attempt < MaxRetries

\* The tasks keep their jobs; only the job of w changes its status.
LEMMA CarriersStay ==
    ASSUME IInv, NEW w \in Workers, NEW pc \in PCs \ {"idle", "retrying"},
           task[w].job \in Jobs, task[w].pc # "retrying", Go(w, pc),
           UNCHANGED <<retry_count, unpublished, queue>>,
           \A j \in Jobs : status'[j] = status[j] \/ task[w].job = j,
           pc = "committed" => status'[task[w].job] = "ready",
           Excused \subseteq Excused'
    PROVE  CarriersKept'
<1>1. task \in [Workers -> Tasks] /\ task' = [task EXCEPT ![w].pc = pc]
  BY DEF IInv, WorkerInv, WorkerTypes, Go
<1>2. /\ \A v \in Workers : task'[v].job = task[v].job /\ task'[v].attempt = task[v].attempt
      /\ \A v \in Workers \ {w} : task'[v] = task[v]
      /\ task'[w].pc = pc
  BY <1>1 DEF Tasks
<1>3. \A v \in Workers : task[v].job \in Jobs \cup {None}
  BY <1>1 DEF Tasks
<1>4. CarrierInv'
  <2>1. CarrierInv
    BY DEF IInv
  <2>2. \A v \in Workers : task'[v].job # None =>
            /\ CountFine(task'[v], retry_count'[task'[v].job])
            /\ \A x \in Workers \ {v} : task'[x].job # task'[v].job
    BY <1>2, <2>1 DEF CarrierInv, CountFine
  <2>3. \A v \in Workers : task'[v].job # None /\ task'[v].pc = "committed" =>
            status'[task'[v].job] = "ready"
    BY <1>2, <1>3, <2>1 DEF CarrierInv
  <2>4. QED
    BY <1>2, <2>1, <2>2, <2>3 DEF CarrierInv, CountFine
<1>5. NoJobIsForgotten'
  <2>1. SUFFICES ASSUME NEW j \in Jobs \ Excused'
                 PROVE  \/ status'[j] = "ready"
                        \/ status'[j] = "failed" /\ retry_count'[j] = MaxRetries + 1
                        \/ j \in unpublished'
                        \/ \E m \in queue' : m.job = j
                        \/ \E v \in Workers : task'[v].job = j
    BY DEF NoJobIsForgotten, InFlight
  <2>2. \/ status[j] = "ready"
        \/ status[j] = "failed" /\ retry_count[j] = MaxRetries + 1
        \/ j \in unpublished
        \/ \E m \in queue : m.job = j
        \/ \E v \in Workers : task[v].job = j
    BY DEF IInv, NoJobIsForgotten, InFlight
  <2>3. CASE task[w].job = j
    BY <1>2, <2>3
  <2>4. CASE task[w].job # j
    BY <1>2, <2>2, <2>4
  <2>5. QED
    BY <2>3, <2>4
<1>6. QED
  BY <1>4, <1>5 DEF CarriersKept

\* A step that no job and no task notices.
LEMMA CarriersUnseen ==
    ASSUME IInv, UNCHANGED <<jobs, task>>, Excused \subseteq Excused'
    PROVE  CarriersKept'
<1>1. UNCHANGED <<status, retry_count, unpublished, queue, task>>
  BY DEF jobs
<1>2. QED
  BY <1>1 DEF IInv, CarriersKept, CarrierInv, NoJobIsForgotten, InFlight

\* A task ends that is excused or has made its job ready.
LEMMA CarriersEnd ==
    ASSUME IInv, NEW w \in Workers, EndTask(w), UNCHANGED jobs,
           Excused \subseteq Excused',
           task[w].job \in Excused' \/ (task[w].pc = "committed" /\ task[w].job # None)
    PROVE  CarriersKept'
<1>1. UNCHANGED <<status, retry_count, unpublished, queue>>
  BY DEF jobs
<1>2. /\ task'[w] = NoTask /\ NoTask.job = None /\ NoTask.pc = "idle"
      /\ \A v \in Workers \ {w} : task'[v] = task[v]
  BY DEF EndTask, IInv, WorkerInv, WorkerTypes, NoTask
<1>3. CarrierInv /\ queue \subseteq Messages /\ unpublished \subseteq Jobs
  BY DEF IInv, JobTypes
<1>4. /\ \A m \in queue : m.job # None
      /\ \A j \in unpublished : j # None
  BY <1>3, JobAssumption DEF Messages
<1>5. CarrierInv'
  <2>1. \A v \in Workers : task'[v].job # None =>
            /\ v # w
            /\ CountFine(task'[v], retry_count'[task'[v].job])
            /\ task'[v].pc = "committed" => status'[task'[v].job] = "ready"
    BY <1>1, <1>2, <1>3 DEF CarrierInv, CountFine
  <2>2. \A v \in Workers : task'[v].job # None =>
            \A x \in Workers \ {v} : task'[x].job # task'[v].job
    BY <1>2, <1>3 DEF CarrierInv
  <2>3. QED
    BY <1>1, <1>2, <1>3, <1>4, <2>1, <2>2 DEF CarrierInv, CountFine
<1>6. task[w].pc = "committed" /\ task[w].job # None => status[task[w].job] = "ready"
  BY <1>3 DEF CarrierInv
<1>7. NoJobIsForgotten'
  BY <1>1, <1>2, <1>6 DEF IInv, NoJobIsForgotten, InFlight
<1>8. QED
  BY <1>5, <1>7 DEF CarriersKept

LEMMA PublishCarried ==
    ASSUME IInv, NEW j \in Jobs, PublishJob(j) \/ LosePublish(j)
    PROVE  CarriersKept'
<1>1. /\ j \in unpublished /\ unpublished' = unpublished \ {j}
      /\ UNCHANGED <<status, retry_count, task>>
  BY DEF PublishJob, LosePublish
<1>2. \/ queue' = queue /\ Excused' = Excused \cup {j}
      \/ queue' = queue \cup {[job |-> j, attempt |-> 0]} /\ Excused' = Excused
  BY DEF PublishJob, LosePublish, Excused
<1>3. CarrierInv /\ NoJobIsForgotten
  BY DEF IInv
<1>4. retry_count[j] = 0 /\ (\A m \in queue : m.job # j) /\ (\A w \in Workers : task[w].job # j)
  BY <1>1, <1>3 DEF CarrierInv
<1>5. CarrierInv'
  BY <1>1, <1>2, <1>3, <1>4 DEF CarrierInv
<1>6. NoJobIsForgotten'
  <2>1. SUFFICES ASSUME NEW x \in Jobs \ Excused'
                 PROVE  \/ status'[x] = "ready"
                        \/ status'[x] = "failed" /\ retry_count'[x] = MaxRetries + 1
                        \/ x \in unpublished'
                        \/ \E m \in queue' : m.job = x
                        \/ \E v \in Workers : task'[v].job = x
    BY DEF NoJobIsForgotten, InFlight
  <2>2. \/ status[x] = "ready"
        \/ status[x] = "failed" /\ retry_count[x] = MaxRetries + 1
        \/ x \in unpublished
        \/ \E m \in queue : m.job = x
        \/ \E v \in Workers : task[v].job = x
    BY <1>2, <1>3 DEF NoJobIsForgotten, InFlight
  <2>3. CASE x = j
    <3> DEFINE m == [job |-> j, attempt |-> 0]
    <3>1. m.job = j
      OBVIOUS
    <3>2. m \in queue'
      BY <1>2, <2>3
    <3> HIDE DEF m
    <3>3. QED
      BY <2>3, <3>1, <3>2
  <2>4. CASE x # j
    BY <1>1, <1>2, <2>2, <2>4
  <2>5. QED
    BY <2>3, <2>4
<1>7. QED
  BY <1>5, <1>6 DEF CarriersKept

LEMMA StartTaskCarried ==
    ASSUME IInv, NEW w \in Workers, NEW m \in queue, StartTask(w, m)
    PROVE  CarriersKept'
<1>1. /\ task[w] = NoTask /\ queue' = queue \ {m}
      /\ UNCHANGED <<status, retry_count, unpublished, Excused>>
  BY DEF StartTask, Excused
<1>2. /\ task'[w].job = m.job /\ task'[w].attempt = m.attempt /\ task'[w].pc = "opened"
      /\ \A v \in Workers \ {w} : task'[v] = task[v]
  BY DEF StartTask, IInv, WorkerInv, WorkerTypes
<1>3. CarrierInv /\ NoJobIsForgotten /\ queue \subseteq Messages
  BY DEF IInv, JobTypes
<1>4. \A n \in queue : n.job = m.job => n = m
  BY <1>3 DEF CarrierInv, Messages
<1>5. CarrierInv'
  <2>1. \A v \in Workers : task'[v].job # None =>
            /\ CountFine(task'[v], retry_count'[task'[v].job])
            /\ task'[v].pc = "committed" => status'[task'[v].job] = "ready"
    BY <1>1, <1>2, <1>3 DEF CarrierInv, CountFine
  <2>2. \A v \in Workers : task'[v].job # None =>
            \A x \in Workers \ {v} : task'[x].job # task'[v].job
    BY <1>2, <1>3 DEF CarrierInv
  <2>3. \A n \in queue' : \A v \in Workers : task'[v].job # n.job
    BY <1>1, <1>2, <1>3, <1>4 DEF CarrierInv
  <2>4. \A j \in unpublished' : \A v \in Workers : task'[v].job # j
    BY <1>1, <1>2, <1>3 DEF CarrierInv
  <2>5. QED
    BY <1>1, <1>3, <2>1, <2>2, <2>3, <2>4 DEF CarrierInv, CountFine
<1>6. NoJobIsForgotten'
  <2>1. NoTask.job = None
    BY DEF NoTask
  <2>2. \A j \in Jobs : j # None
    BY JobAssumption
  <2>3. QED
    BY <1>1, <1>2, <1>3, <2>1, <2>2 DEF NoJobIsForgotten, InFlight
<1>7. QED
  BY <1>5, <1>6 DEF CarriersKept

\* The failure is counted: the retry is still to come, or there is none.
LEMMA RecordFailureInv ==
    ASSUME IInv, NEW w \in Workers, RecordFailure(w)
    PROVE  CarriersKept' /\ JobTypes'
<1> DEFINE j == task[w].job
           a == task[w].attempt
<1>1. /\ task[w] \in Tasks /\ task[w].pc = "failing" /\ TaskFine(task[w], setting[w], unrecorded)
      /\ CarrierInv /\ NoJobIsForgotten /\ JobTypes
  BY DEF IInv, WorkerInv, WorkerTypes, RecordFailure
<1>2. j \in Jobs /\ j # None /\ a \in 0..MaxRetries
  BY <1>1, JobAssumption DEF TaskFine, Tasks
<1>3. retry_count[j] = a /\ \A v \in Workers \ {w} : task[v].job # j
  BY <1>1, <1>2 DEF CarrierInv
<1>4. /\ j \notin unpublished
      /\ \A m \in queue : m.job # j
  BY <1>1 DEF CarrierInv
<1>5. /\ status' = [status EXCEPT ![j] = "failed"]
      /\ retry_count' = [retry_count EXCEPT ![j] = a + 1]
      /\ UNCHANGED <<unpublished, queue, failures, lost, Excused>>
  BY <1>3 DEF RecordFailure, Excused
<1>6. \/ a < MaxRetries /\ task'[w] = [task[w] EXCEPT !.pc = "retrying"]
      \/ a = MaxRetries /\ task'[w] = NoTask
  <2>1. task \in [Workers -> Tasks]
    BY DEF IInv, WorkerInv, WorkerTypes
  <2>2. Retries(task[w]) = {} => task'[w] = NoTask
    BY <2>1 DEF RecordFailure, EndTask
  <2>3. Retries(task[w]) # {} => task'[w] = [task[w] EXCEPT !.pc = "retrying"]
    BY <2>1 DEF RecordFailure, Go
  <2>4. Retries(task[w]) = {} <=> ~(a < MaxRetries)
    BY DEF Retries
  <2>5. a < MaxRetries \/ a = MaxRetries
    BY <1>2, CountAssumption
  <2>6. QED
    BY <2>2, <2>3, <2>4, <2>5
<1>7. /\ NoTask.job = None /\ NoTask.pc = "idle"
      /\ \A v \in Workers \ {w} : task'[v] = task[v]
  BY DEF RecordFailure, EndTask, Go, IInv, WorkerInv, WorkerTypes, NoTask
<1>8. a < MaxRetries => task'[w].job = j /\ task'[w].attempt = a /\ task'[w].pc = "retrying"
  BY <1>1, <1>2, <1>6, CountAssumption DEF Tasks
<1>9. a = MaxRetries => task'[w].job = None
  BY <1>2, <1>6, <1>7, CountAssumption
<1> HIDE DEF j, a
<1>10. \A x \in Jobs : x # j => status'[x] = status[x] /\ retry_count'[x] = retry_count[x]
  BY <1>1, <1>2, <1>5 DEF JobTypes
<1>11. status'[j] = "failed" /\ retry_count'[j] = a + 1
  BY <1>1, <1>2, <1>5 DEF JobTypes
<1>12. JobTypes'
  <2>1. status' \in [Jobs -> Statuses]
    BY <1>1, <1>2, <1>5 DEF JobTypes, Statuses
  <2>2. a + 1 \in 0..(MaxRetries + 1)
    BY <1>2, CountAssumption
  <2>3. retry_count' \in [Jobs -> 0..(MaxRetries + 1)]
    BY <1>1, <1>2, <1>5, <2>2 DEF JobTypes
  <2>4. QED
    BY <1>1, <1>5, <2>1, <2>3 DEF JobTypes
<1>13. /\ \A m \in queue : m.job \in Jobs /\ m.job # None
       /\ unpublished \subseteq Jobs /\ None \notin Jobs
       /\ \A v \in Workers : task[v].job \in Jobs \cup {None}
  BY <1>1, JobAssumption DEF JobTypes, Messages, IInv, WorkerInv, WorkerTypes, Tasks
<1>14. a < MaxRetries \/ a = MaxRetries
  BY <1>2, CountAssumption
<1>15. CarrierInv'
  <2>1. \A x \in unpublished' :
            /\ retry_count'[x] = 0
            /\ \A m \in queue' : m.job # x
            /\ \A v \in Workers : task'[v].job # x
    BY <1>1, <1>4, <1>5, <1>7, <1>8, <1>9, <1>10, <1>13, <1>14 DEF CarrierInv
  <2>2. \A m \in queue' :
            /\ retry_count'[m.job] = m.attempt
            /\ \A v \in Workers : task'[v].job # m.job
    BY <1>1, <1>2, <1>3, <1>4, <1>5, <1>7, <1>8, <1>9, <1>10, <1>13, <1>14 DEF CarrierInv
  <2>3. \A v \in Workers : task'[v].job # None =>
            /\ CountFine(task'[v], retry_count'[task'[v].job])
            /\ task'[v].pc = "committed" => status'[task'[v].job] = "ready"
            /\ \A x \in Workers \ {v} : task'[x].job # task'[v].job
    <3>1. ASSUME NEW v \in Workers, v # w, task'[v].job # None
          PROVE  /\ CountFine(task'[v], retry_count'[task'[v].job])
                 /\ task'[v].pc = "committed" => status'[task'[v].job] = "ready"
                 /\ \A x \in Workers \ {v} : task'[x].job # task'[v].job
      <4>1. task[v].job \in Jobs /\ task[v].job # j
        BY <1>3, <1>7, <1>13, <3>1
      <4>2. task'[w].job # task'[v].job
        BY <1>7, <1>8, <1>9, <1>14, <3>1, <4>1
      <4>3. QED
        BY <1>1, <1>7, <1>10, <3>1, <4>1, <4>2 DEF CarrierInv, CountFine
    <3>2. CASE a < MaxRetries
      <4>1. CountFine(task'[w], retry_count'[j]) /\ task'[w].pc # "committed"
        BY <1>8, <1>11, <3>2 DEF CountFine
      <4>2. \A x \in Workers \ {w} : task'[x].job # task'[w].job
        BY <1>3, <1>7, <1>8, <3>2
      <4>3. QED
        BY <1>8, <3>1, <3>2, <4>1, <4>2
    <3>3. CASE a = MaxRetries
      BY <1>9, <3>1, <3>3
    <3>4. QED
      BY <1>14, <3>2, <3>3
  <2>4. QED
    BY <2>1, <2>2, <2>3 DEF CarrierInv, CountFine
<1>16. NoJobIsForgotten'
  <2>1. SUFFICES ASSUME NEW x \in Jobs \ Excused'
                 PROVE  \/ status'[x] = "ready"
                        \/ status'[x] = "failed" /\ retry_count'[x] = MaxRetries + 1
                        \/ x \in unpublished'
                        \/ \E m \in queue' : m.job = x
                        \/ \E v \in Workers : task'[v].job = x
    BY DEF NoJobIsForgotten, InFlight
  <2>2. CASE x = j
    BY <1>8, <1>11, <1>14, <2>2
  <2>3. CASE x # j
    <3>1. \/ status[x] = "ready"
          \/ status[x] = "failed" /\ retry_count[x] = MaxRetries + 1
          \/ x \in unpublished
          \/ \E m \in queue : m.job = x
          \/ \E v \in Workers : task[v].job = x
      BY <1>1, <1>5 DEF NoJobIsForgotten, InFlight
    <3>2. task[w].job # x
      BY <2>3 DEF j
    <3>3. QED
      BY <1>5, <1>7, <1>10, <2>3, <3>1, <3>2
  <2>4. QED
    BY <2>2, <2>3
<1>17. QED
  BY <1>12, <1>15, <1>16 DEF CarriersKept

\* The job goes on as the next message.
LEMMA PublishRetryInv ==
    ASSUME IInv, NEW w \in Workers, PublishRetry(w)
    PROVE  CarriersKept' /\ JobTypes'
<1> DEFINE m == [job |-> task[w].job, attempt |-> task[w].attempt + 1]
<1>1. /\ task[w] \in Tasks /\ task[w].pc = "retrying" /\ task[w].job \in Jobs
      /\ CarrierInv /\ NoJobIsForgotten /\ JobTypes
  BY DEF IInv, WorkerInv, WorkerTypes, PublishRetry, TaskFine
<1>2. task[w].job # None
  BY <1>1, JobAssumption
<1>3. /\ retry_count[task[w].job] = m.attempt /\ m.job = task[w].job
      /\ task[w].attempt < MaxRetries
      /\ \A v \in Workers \ {w} : task[v].job # m.job
      /\ m.job \notin unpublished /\ \A n \in queue : n.job # m.job
  BY <1>1, <1>2 DEF CarrierInv
<1>4. /\ queue' = queue \cup {m}
      /\ UNCHANGED <<status, retry_count, unpublished, failures, lost, Excused>>
  BY <1>3 DEF PublishRetry, Retries, Excused
<1>5. /\ task'[w] = NoTask /\ NoTask.job = None /\ NoTask.pc = "idle"
      /\ \A v \in Workers \ {w} : task'[v] = task[v]
  BY DEF PublishRetry, EndTask, IInv, WorkerInv, WorkerTypes, NoTask
<1>6. m \in Messages
  BY <1>1, <1>3, CountAssumption DEF Messages, Tasks
<1>7. m.job = task[w].job /\ m.job \in Jobs
  BY <1>1
<1> HIDE DEF m
<1>8. /\ \A n \in queue : n.job \in Jobs /\ n.job # None
      /\ unpublished \subseteq Jobs /\ None \notin Jobs
  BY <1>1, JobAssumption DEF JobTypes, Messages
<1>9. JobTypes'
  BY <1>1, <1>4, <1>6 DEF JobTypes
<1>10. CarrierInv'
  <2>1. \A x \in unpublished' :
            /\ retry_count'[x] = 0
            /\ \A n \in queue' : n.job # x
            /\ \A v \in Workers : task'[v].job # x
    BY <1>1, <1>3, <1>4, <1>5, <1>8 DEF CarrierInv
  <2>2. \A n \in queue' :
            /\ retry_count'[n.job] = n.attempt
            /\ \A v \in Workers : task'[v].job # n.job
    BY <1>1, <1>2, <1>3, <1>4, <1>5, <1>8 DEF CarrierInv
  <2>3. \A v \in Workers : task'[v].job # None =>
            /\ CountFine(task'[v], retry_count'[task'[v].job])
            /\ task'[v].pc = "committed" => status'[task'[v].job] = "ready"
            /\ \A x \in Workers \ {v} : task'[x].job # task'[v].job
    BY <1>1, <1>4, <1>5 DEF CarrierInv, CountFine
  <2>4. QED
    BY <2>1, <2>2, <2>3 DEF CarrierInv, CountFine
<1>11. NoJobIsForgotten'
  <2>1. SUFFICES ASSUME NEW x \in Jobs \ Excused'
                 PROVE  \/ status'[x] = "ready"
                        \/ status'[x] = "failed" /\ retry_count'[x] = MaxRetries + 1
                        \/ x \in unpublished'
                        \/ \E n \in queue' : n.job = x
                        \/ \E v \in Workers : task'[v].job = x
    BY DEF NoJobIsForgotten, InFlight
  <2>2. CASE x = m.job
    BY <1>4, <2>2
  <2>3. CASE x # m.job
    <3>1. \/ status[x] = "ready"
          \/ status[x] = "failed" /\ retry_count[x] = MaxRetries + 1
          \/ x \in unpublished
          \/ \E n \in queue : n.job = x
          \/ \E v \in Workers : task[v].job = x
      BY <1>1, <1>4 DEF NoJobIsForgotten, InFlight
    <3>2. QED
      BY <1>4, <1>5, <1>7, <2>3, <3>1
  <2>4. QED
    BY <2>2, <2>3
<1>12. QED
  BY <1>9, <1>10, <1>11 DEF CarriersKept

-----------------------------------------------------------------------------
(* Every step                                                              *)

Kept == WorkerInv /\ JobTypes /\ CarriersKept

LEMMA TypesStay ==
    ASSUME IInv, UNCHANGED jobs, failures' \in 0..MaxFailures, lost' \subseteq Jobs
    PROVE  JobTypes'
BY DEF IInv, JobTypes, jobs

LEMMA PublishKept ==
    ASSUME IInv, NEW j \in Jobs, PublishJob(j) \/ LosePublish(j)
    PROVE  Kept'
<1>1. WorkerInv'
  <2>1. UNCHANGED <<collection_exists, payload_schema, setup, task, setting>>
    BY DEF PublishJob, LosePublish, shared
  <2>2. unrecorded' = unrecorded
    BY DEF PublishJob, LosePublish
  <2>3. ASSUME NEW w \in Workers
        PROVE  /\ TaskFine(task'[w], setting'[w], unrecorded')
               /\ SetupFine(task'[w], setup'[w], collection_exists', payload_schema')
    BY <2>1, <2>2 DEF IInv, WorkerInv, TaskFine
  <2>4. WorkerTypes'
    BY <2>1, <2>2 DEF IInv, WorkerInv, WorkerTypes, SetupTypeOK
  <2>5. QED
    BY <2>3, <2>4 DEF WorkerInv
<1>2. JobTypes'
  <2>1. [job |-> j, attempt |-> 0] \in Messages
    BY CountAssumption DEF Messages
  <2>2. QED
    BY <2>1 DEF PublishJob, LosePublish, IInv, JobTypes
<1>3. QED
  BY <1>1, <1>2, PublishCarried DEF Kept

LEMMA StartTaskKept ==
    ASSUME IInv, NEW w \in Workers, NEW m \in queue, StartTask(w, m)
    PROVE  Kept'
<1>1. JobTypes'
  BY DEF StartTask, IInv, JobTypes
<1>2. QED
  BY <1>1, StartTaskWorker, StartTaskCarried DEF Kept

\* A step of a task that ends neither it nor its attempt.
LEMMA GoesOnKept ==
    ASSUME IInv, NEW w \in Workers, NEW pc \in PCs \ {"idle", "retrying"}, WorkerInv',
           task[w].job \in Jobs, task[w].pc # "retrying", Go(w, pc),
           UNCHANGED <<retry_count, unpublished, queue>>,
           failures' \in 0..MaxFailures, GhostsGrow,
           \/ status' = status /\ pc # "committed"
           \/ status' = [status EXCEPT ![task[w].job] = pc] /\ pc \in Stages
           \/ status' = [status EXCEPT ![task[w].job] = "ready"]
    PROVE  Kept'
<1>1. \A j \in Jobs : status'[j] = status[j] \/ task[w].job = j
  BY DEF IInv, JobTypes
<1>2. pc = "committed" => status'[task[w].job] = "ready"
  BY DEF IInv, JobTypes, Stages
<1>3. status' \in [Jobs -> Statuses]
  BY DEF IInv, JobTypes, Statuses
<1>4. JobTypes'
  BY <1>3 DEF IInv, JobTypes, GhostsGrow
<1>5. CarriersKept'
  BY <1>1, <1>2, GhostFacts, CarriersStay
<1>6. QED
  BY <1>4, <1>5 DEF Kept

\* A raise inside the try.
LEMMA RaisesKept ==
    ASSUME IInv, NEW w \in Workers, Raises(w), UNCHANGED <<jobs, lost>>,
           \/ task[w].pc \in Running /\ unrecorded' = unrecorded
           \/ task[w].pc = "loaded" /\ unrecorded' = unrecorded \cup {task[w].job},
           failures' \in 0..MaxFailures
    PROVE  Kept'
<1>1. WorkerInv'
  BY RaisesWorker DEF IInv
<1>2. task[w].job \in Jobs /\ task[w].pc # "retrying"
  BY TaskSeesJob DEF IInv, Running, Stages
<1>3. Go(w, "failing") /\ "failing" \in PCs \ {"idle", "retrying"}
  BY DEF Raises, PCs
<1>4. GhostsGrow
  BY <1>2, GhostFacts DEF GhostsGrow
<1>5. QED
  BY <1>1, <1>2, <1>3, <1>4, GoesOnKept DEF jobs

\* The end of a task that is excused or done.
LEMMA EndsKept ==
    ASSUME IInv, NEW w \in Workers, EndTask(w), UNCHANGED <<jobs, failures>>, GhostsGrow,
           task[w].job \in Excused' \/ (task[w].pc = "committed" /\ task[w].job # None)
    PROVE  Kept'
<1>1. WorkerInv'
  BY EndTaskWorker DEF IInv, GhostsGrow
<1>2. JobTypes'
  BY DEF IInv, JobTypes, jobs, GhostsGrow
<1>3. QED
  BY <1>1, <1>2, GhostFacts, CarriersEnd DEF Kept

LEMMA TaskStepKept ==
    ASSUME IInv, NEW w \in Workers, TaskStep(w)
    PROVE  Kept'
<1>1. /\ WorkerInv /\ task[w] \in Tasks /\ TaskFine(task[w], setting[w], unrecorded)
      /\ failures \in 0..MaxFailures /\ unrecorded \subseteq Jobs /\ lost \subseteq Jobs
  BY DEF IInv, WorkerInv, WorkerTypes, JobTypes
<1>2. task[w].pc # "idle" => task[w].job \in Jobs /\ task[w].job # None
  BY <1>1, JobAssumption DEF TaskFine
<1>3. CASE SetTenantScope(w)
  <2>1. /\ task[w].pc = "opened" /\ Go(w, "scoped") /\ "scoped" \in PCs \ {"idle", "retrying"}
        /\ UNCHANGED <<status, retry_count, unpublished, queue, failures, lost, unrecorded>>
    BY <1>3 DEF SetTenantScope, jobs, PCs
  <2>2. WorkerInv' /\ GhostsGrow
    BY <1>1, <1>3, <2>1, SetTenantScopeWorker, GhostFacts
  <2>3. task[w].job \in Jobs /\ task[w].pc # "retrying" /\ failures' \in 0..MaxFailures
    BY <1>1, <1>2, <2>1
  <2>4. QED
    BY <2>1, <2>2, <2>3, GoesOnKept
<1>4. CASE LoadJob(w)
  <2>1. task[w].pc = "scoped" /\ SeesJob(w)
    BY <1>1, <1>4, TaskSeesJob DEF LoadJob
  <2>2. /\ Go(w, "loaded") /\ "loaded" \in PCs \ {"idle", "retrying"}
        /\ UNCHANGED <<status, retry_count, unpublished, queue, failures, lost, unrecorded>>
    BY <1>4, <2>1 DEF LoadJob, PCs, jobs
  <2>3. QED
    BY <1>1, <1>2, <1>4, <2>1, <2>2, LoadJobWorker, GhostFacts, GoesOnKept
<1>5. CASE AdvanceStage(w)
  <2>1. task[w].pc \in {"loaded", "parsing", "chunking", "embedding"}
    BY <1>5 DEF AdvanceStage, NextStage
  <2>2. SeesJob(w)
    BY <1>1, <2>1, TaskSeesJob DEF Running, Stages
  <2>3. NextStage[task[w].pc] \in Stages /\ NextStage[task[w].pc] \in PCs \ {"idle", "retrying"}
    BY <2>1 DEF NextStage, Stages, PCs
  <2>4. /\ Go(w, NextStage[task[w].pc])
        /\ status' = [status EXCEPT ![task[w].job] = NextStage[task[w].pc]]
        /\ UNCHANGED <<retry_count, unpublished, queue, failures, lost, unrecorded>>
    BY <1>5, <2>2 DEF AdvanceStage
  <2>5. task[w].job \in Jobs
    BY <1>2, <2>1
  <2> DEFINE pc == NextStage[task[w].pc]
  <2>6. pc \in Stages /\ pc \in PCs \ {"idle", "retrying"} /\ Go(w, pc)
        /\ status' = [status EXCEPT ![task[w].job] = pc]
    BY <2>3, <2>4
  <2> HIDE DEF pc
  <2>7. WorkerInv' /\ GhostsGrow
    BY <1>1, <1>5, <2>4, AdvanceStageWorker, GhostFacts
  <2>8. task[w].pc # "retrying" /\ failures' \in 0..MaxFailures
    BY <1>1, <2>1, <2>4
  <2>9. QED
    BY <2>4, <2>5, <2>6, <2>7, <2>8, GoesOnKept
<1>6. CASE CallSetup(w)
  <2>1. UNCHANGED <<jobs, task, failures, lost, unrecorded>>
    BY <1>6 DEF CallSetup
  <2>2. QED
    BY <1>1, <1>6, <2>1, CallSetupWorker, GhostFacts, CarriersUnseen, TypesStay DEF Kept
<1>7. CASE EnsureCollection(w)
  <2>1. SetupStep(w) /\ UNCHANGED <<jobs, task, setting, failures, lost, unrecorded>>
    BY <1>7 DEF EnsureCollection
  <2>2. QED
    BY <1>1, <2>1, SetupStepWorker, GhostFacts, CarriersUnseen, TypesStay DEF Kept
<1>8. CASE LoseCreation(w)
  <2>1. Raises(w) /\ UNCHANGED <<jobs, failures, lost, unrecorded>> /\ setup[w].pc = "creating"
    BY <1>8 DEF LoseCreation, LosesCreation
  <2>2. task[w].pc = "indexing"
    BY <1>1, <2>1 DEF WorkerInv, SetupFine
  <2>3. task[w].pc \in Running
    BY <2>2 DEF Running, Stages
  <2>4. QED
    BY <1>1, <2>1, <2>3, RaisesKept
<1>9. CASE UpsertPoints(w)
  <2>1. /\ task[w].pc = "indexing" /\ Go(w, "upserted") /\ "upserted" \in PCs \ {"idle", "retrying"}
        /\ UNCHANGED <<status, retry_count, unpublished, queue, failures, lost, unrecorded>>
    BY <1>9 DEF UpsertPoints, jobs, PCs
  <2>2. QED
    BY <1>1, <1>2, <1>9, <2>1, UpsertPointsWorker, GhostFacts, GoesOnKept
<1>10. CASE CommitReady(w)
  <2>1. task[w].pc = "upserted" /\ SeesJob(w)
    BY <1>1, <1>10, TaskSeesJob DEF CommitReady, Running
  <2>2. /\ Go(w, "committed") /\ "committed" \in PCs \ {"idle", "retrying"}
        /\ status' = [status EXCEPT ![task[w].job] = "ready"]
        /\ UNCHANGED <<retry_count, unpublished, queue, failures, lost, unrecorded>>
    BY <1>10, <2>1 DEF CommitReady, PCs
  <2>3. QED
    BY <1>1, <1>2, <1>10, <2>1, <2>2, CommitReadyWorker, GhostFacts, GoesOnKept
<1>11. CASE FinishTask(w)
  <2>1. task[w].pc = "committed" /\ EndTask(w) /\ UNCHANGED <<jobs, failures, lost, unrecorded>>
    BY <1>11 DEF FinishTask
  <2>2. QED
    BY <1>1, <1>2, <2>1, GhostFacts, EndsKept
<1>12. CASE RecordFailure(w)
  <2>1. task[w].pc = "failing" /\ UNCHANGED <<lost, unrecorded>>
    BY <1>12 DEF RecordFailure
  <2>2. EndTask(w) \/ (Go(w, "retrying") /\ Sets(w, Unset) /\ UNCHANGED shared)
    BY <1>12 DEF RecordFailure
  <2>3. WorkerInv'
    BY <1>1, <2>1, <2>2, EndTaskWorker, RetryingWorker
  <2>4. QED
    BY <1>12, <2>3, RecordFailureInv DEF Kept
<1>13. CASE PublishRetry(w)
  <2>1. EndTask(w) /\ unrecorded' = unrecorded
    BY <1>13 DEF PublishRetry
  <2>2. QED
    BY <1>1, <1>13, <2>1, EndTaskWorker, PublishRetryInv DEF Kept
<1>14. CASE MissJob(w)
  <2>1. /\ task[w].pc = "failing" /\ ~SeesJob(w) /\ EndTask(w)
        /\ UNCHANGED <<jobs, failures, lost, unrecorded>>
    BY <1>14 DEF MissJob
  <2>2. JobTenant[task[w].job] \in Tenants
    BY <1>2, <2>1, JobAssumption
  <2>3. setting[w] # Of(JobTenant[task[w].job])
    BY <2>1, <2>2, SettingFacts DEF SeesJob
  <2>4. task[w].job \in unrecorded
    BY <1>1, <2>1, <2>3 DEF TaskFine
  <2>5. task[w].job \in Excused'
    BY <2>1, <2>4 DEF Excused
  <2>6. QED
    BY <1>1, <2>1, <2>5, GhostFacts, EndsKept
<1>15. QED
  BY <1>3, <1>4, <1>5, <1>6, <1>7, <1>8, <1>9, <1>10, <1>11, <1>12, <1>13, <1>14 DEF TaskStep

LEMMA FaultKept ==
    ASSUME IInv, NEW w \in Workers,
           \/ FailCall(w) \/ FailFirstCommit(w) \/ FailUncaught(w) \/ LoseRetry(w)
           \/ LoseConnection(w) \/ CrashTask(w)
    PROVE  Kept'
<1>1. /\ WorkerInv /\ task[w] \in Tasks /\ TaskFine(task[w], setting[w], unrecorded)
      /\ failures \in 0..MaxFailures /\ unrecorded \subseteq Jobs /\ lost \subseteq Jobs
  BY DEF IInv, WorkerInv, WorkerTypes, JobTypes
<1>2. task[w].pc # "idle" => task[w].job \in Jobs /\ task[w].job # None
  BY <1>1, JobAssumption DEF TaskFine
<1>3. CASE FailCall(w)
  <2>1. /\ task[w].pc \in Running /\ Raises(w) /\ UNCHANGED <<jobs, lost, unrecorded>>
        /\ failures < MaxFailures /\ failures' = failures + 1
    BY <1>3 DEF FailCall, Running
  <2>2. failures' \in 0..MaxFailures
    BY <1>1, <2>1, CountAssumption
  <2>3. QED
    BY <2>1, <2>2, RaisesKept
<1>4. CASE FailFirstCommit(w)
  <2>1. /\ task[w].pc = "loaded" /\ Raises(w) /\ UNCHANGED <<jobs, lost, failures>>
        /\ unrecorded' = unrecorded \cup {task[w].job}
    BY <1>4 DEF FailFirstCommit
  <2>2. QED
    BY <1>1, <2>1, RaisesKept
<1>5. CASE FailUncaught(w) \/ LoseRetry(w) \/ CrashTask(w)
  <2>1. /\ task[w].pc # "idle" /\ EndTask(w) /\ UNCHANGED <<jobs, failures>>
        /\ \/ lost' = lost \cup {task[w].job} /\ unrecorded' = unrecorded
           \/ unrecorded' = unrecorded \cup {task[w].job} /\ lost' = lost
    BY <1>1, <1>5 DEF FailUncaught, LoseRetry, CrashTask, TaskFine
  <2>2. GhostsGrow
    BY <1>1, <1>2, <2>1 DEF GhostsGrow
  <2>3. task[w].job \in Excused'
    BY <2>1 DEF Excused
  <2>4. QED
    BY <2>1, <2>2, <2>3, EndsKept
<1>6. CASE LoseConnection(w)
  <2>1. /\ task[w].pc \in Running \cup {"loaded"} /\ Go(w, "failing")
        /\ unrecorded' = unrecorded \cup {task[w].job} /\ UNCHANGED <<jobs, failures, lost>>
    BY <1>6 DEF LoseConnection, Running
  <2>2. /\ task[w].pc \notin {"idle", "retrying"} /\ task[w].job \in Jobs
        /\ "failing" \in PCs \ {"idle", "retrying"}
    BY <1>2, <2>1 DEF Running, Stages, PCs
  <2>3. GhostsGrow
    BY <1>1, <2>1, <2>2 DEF GhostsGrow
  <2>4. UNCHANGED <<status, retry_count, unpublished, queue>>
    BY <2>1 DEF jobs
  <2>5. QED
    BY <1>1, <1>6, <2>1, <2>2, <2>3, <2>4, LoseConnectionWorker, GoesOnKept
<1>7. QED
  BY <1>3, <1>4, <1>5, <1>6

LEMMA StepInv == IInv /\ [Next]_vars => IInv'
<1>1. ASSUME IInv, Next PROVE IInv'
  <2>1. Kept'
    BY <1>1, PublishKept, StartTaskKept, TaskStepKept, FaultKept DEF Next, WorkerStep
  <2>2. QED
    BY <2>1 DEF Kept, CarriersKept, IInv
<1>2. ASSUME IInv, UNCHANGED vars PROVE IInv'
  BY <1>2 DEF vars, shared, jobs, IInv, WorkerInv, WorkerTypes, SetupTypeOK, JobTypes, CarrierInv,
     NoJobIsForgotten, InFlight, Excused
<1>3. QED
  BY <1>1, <1>2

LEMMA InvariantHolds == Spec => []IInv
BY InitInv, StepInv, PTL DEF Spec

-----------------------------------------------------------------------------
(* The properties                                                          *)

\* Every variable keeps its type; retry_count and attempts stay in bounds.
THEOREM TypeCorrect == Spec => []TypeOK
<1>1. IInv => TypeOK
  BY DEF IInv, WorkerInv, WorkerTypes, JobTypes, TypeOK
<1>2. QED
  BY <1>1, InvariantHolds, PTL

\* set_tenant_scope_sync with local=False: the except clause of run_ingestion
\* finds its job, whatever stage raised and however often the attempt had
\* committed, once it had committed at all and unless its connection is lost.
THEOREM FailuresAreRecordable == Spec => []FailureCanBeRecorded
<1>1. ASSUME IInv PROVE FailureCanBeRecorded
  <2>1. SUFFICES ASSUME NEW w \in Workers, task[w].pc = "failing", task[w].job \notin unrecorded
                 PROVE  SeesJob(w)
    BY DEF FailureCanBeRecorded
  <2>2. TaskFine(task[w], setting[w], unrecorded)
    BY <1>1 DEF IInv, WorkerInv
  <2>3. task[w].job \in Jobs /\ setting[w] = Of(JobTenant[task[w].job])
    BY <2>1, <2>2 DEF TaskFine
  <2>4. QED
    BY <2>3, JobAssumption, SettingFacts DEF SeesJob
<1>2. QED
  BY <1>1, InvariantHolds, PTL

\* ensure_collection: for any number of workers and indexes, whoever returns
\* from it finds the collection complete.
THEOREM UpsertsFindIndexes == Spec => []UpsertFindsIndexes
<1>1. ASSUME IInv PROVE UpsertFindsIndexes
  <2>1. SUFFICES ASSUME NEW w \in Workers, task[w].pc \in {"upserted", "committed"}
                 PROVE  collection_exists /\ payload_schema = Fields
    BY DEF UpsertFindsIndexes
  <2>2. SetupFine(task[w], setup[w], collection_exists, payload_schema)
        /\ payload_schema \subseteq Fields
    BY <1>1 DEF IInv, WorkerInv, WorkerTypes, SetupTypeOK
  <2>3. QED
    BY <2>1, <2>2 DEF SetupFine
<1>2. QED
  BY <1>1, InvariantHolds, PTL

\* The counting of attempts by Celery and of failures in the job row agree, so
\* no job is dropped before its retries are used up: except by the loss of its
\* message or process, and by a failure that the code records nowhere.
THEOREM JobsAreCarried == Spec => []NoJobIsForgotten
<1>1. IInv => NoJobIsForgotten
  BY DEF IInv
<1>2. QED
  BY <1>1, InvariantHolds, PTL
-----------------------------------------------------------------------------
(* The jobs as GET /jobs shows them                                        *)

\* What the row of its job says, x, while a task t with setting s has it.
StatusFine(t, s, x) ==
    /\ t.pc \in {"opened", "scoped", "loaded"} => x \in {"queued", "failed"}
    /\ t.pc \in Stages => x = t.pc
    /\ t.pc = "upserted" => x = "indexing"
    /\ t.pc = "committed" => x = "ready"
    /\ t.pc = "retrying" => x = "failed"
    /\ t.pc = "failing" => s = Unset \/ x \in Stages \cup {"ready"}

\* Needed for the contract only. A task that fails before its first commit has
\* lost the setting, by the rollback or with its connection: it will not find
\* the row.
StatusInv ==
    /\ \A w \in Workers :
          task[w].job # None => StatusFine(task[w], setting[w], status[task[w].job])
    /\ \A m \in queue : status[m.job] \in {"queued", "failed"}
    /\ \A j \in unpublished : status[j] = "queued"

JobsKept == StatusInv' /\ [JobContract!Next]_(JobContract!vars)

LEMMA ContractVars ==
    /\ JobContract!vars = <<status, retry_count, Carried>>
    /\ JobContract!vars' = <<status', retry_count', Carried'>>
BY DEF JobContract!vars

LEMMA InitStatus == Init => StatusInv /\ JobContract!Init
<1>1. SUFFICES ASSUME Init PROVE StatusInv /\ JobContract!Init
  OBVIOUS
<1>2. \A w \in Workers : task[w].job = None
  BY <1>1 DEF Init, NoTask
<1>3. StatusInv
  BY <1>1, <1>2 DEF Init, StatusInv
<1>4. Carried = {j \in Jobs : status[j] = "queued"}
  BY <1>1 DEF Init, Carried, InFlight
<1>5. QED
  BY <1>1, <1>3, <1>4 DEF Init, JobContract!Init

\* What is known of the carriers, in the form the lemmas below use.
LEMMA CarrierFacts ==
    ASSUME IInv
    PROVE  /\ \A w \in Workers :
                 /\ task[w] \in Tasks /\ TaskFine(task[w], setting[w], unrecorded)
                 /\ task[w].pc # "idle" => task[w].job \in Jobs
                 /\ task[w].job \in Jobs \cup {None}
           /\ \A w \in Workers : task[w].job # None =>
                 /\ task[w].job \notin unpublished
                 /\ \A m \in queue : m.job # task[w].job
                 /\ \A v \in Workers \ {w} : task[v].job # task[w].job
                 /\ task[w].pc # "retrying" => retry_count[task[w].job] = task[w].attempt
           /\ \A m \in queue : m.job \in Jobs /\ m.job \notin unpublished
           /\ unpublished \subseteq Jobs /\ None \notin Jobs
           /\ status \in [Jobs -> Statuses]
<1>1. /\ \A w \in Workers : task[w] \in Tasks /\ TaskFine(task[w], setting[w], unrecorded)
      /\ queue \subseteq Messages /\ unpublished \subseteq Jobs /\ CarrierInv
      /\ status \in [Jobs -> Statuses]
  BY DEF IInv, WorkerInv, WorkerTypes, JobTypes
<1>2. \A w \in Workers :
         /\ task[w].pc # "idle" => task[w].job \in Jobs
         /\ task[w].job \in Jobs \cup {None}
  BY <1>1 DEF TaskFine, Tasks
<1>3. \A m \in queue : m.job \in Jobs
  BY <1>1 DEF Messages
<1>4. QED
  BY <1>1, <1>2, <1>3, JobAssumption DEF CarrierInv

\* Worker w goes on with its job, whose row becomes x.
LEMMA TaskGoesOnJobs ==
    ASSUME IInv, StatusInv, NEW w \in Workers, NEW x, task[w].pc # "idle",
           task'[w].job = task[w].job, StatusFine(task'[w], setting'[w], x),
           \A v \in Workers \ {w} : task'[v] = task[v] /\ setting'[v] = setting[v],
           status' = [status EXCEPT ![task[w].job] = x],
           UNCHANGED <<retry_count, unpublished, queue>>
    PROVE  /\ StatusInv' /\ Carried' = Carried
           /\ task[w].job \in Carried
<1>. PICK j : j = task[w].job
  OBVIOUS
<1>1. /\ j \in Jobs /\ j # None /\ j \notin unpublished
      /\ \A m \in queue : m.job # j /\ m.job \in Jobs
      /\ \A v \in Workers \ {w} : task[v].job # j /\ task[v].job \in Jobs \cup {None}
      /\ unpublished \subseteq Jobs
  BY CarrierFacts
<1>2. /\ status'[j] = x
      /\ \A i \in Jobs \ {j} : status'[i] = status[i]
  BY <1>1, CarrierFacts
<1>3. ASSUME NEW v \in Workers, task'[v].job # None
      PROVE  StatusFine(task'[v], setting'[v], status'[task'[v].job])
  <2>1. CASE v = w
    BY <1>2, <2>1
  <2>2. CASE v # w
    <3>1. StatusFine(task[v], setting[v], status[task[v].job])
      BY <1>3, <2>2 DEF StatusInv
    <3>2. status'[task[v].job] = status[task[v].job]
      BY <1>1, <1>2, <1>3, <2>2
    <3>3. QED
      BY <2>2, <3>1, <3>2
  <2>3. QED
    BY <2>1, <2>2
<1>4. /\ \A m \in queue' : status'[m.job] \in {"queued", "failed"}
      /\ \A i \in unpublished' : status'[i] = "queued"
  BY <1>1, <1>2 DEF StatusInv
<1>5. StatusInv'
  BY <1>3, <1>4 DEF StatusInv
<1>6. Carried' = Carried /\ j \in Carried
  <2>1. \A v \in Workers : task'[v].job = task[v].job
    OBVIOUS
  <2>2. InFlight(j)
    BY DEF InFlight
  <2>3. QED
    BY <1>1, <2>1, <2>2 DEF Carried, InFlight
<1>7. QED
  BY <1>5, <1>6

\* The contract does not see a task go on without a commit.
LEMMA TaskUnseenJobs ==
    ASSUME IInv, StatusInv, NEW w \in Workers, task[w].pc # "idle",
           task'[w].job = task[w].job,
           StatusFine(task'[w], setting'[w], status[task[w].job]),
           \A v \in Workers \ {w} : task'[v] = task[v] /\ setting'[v] = setting[v],
           UNCHANGED <<status, retry_count, unpublished, queue>>
    PROVE  JobsKept
<1>1. status' = [status EXCEPT ![task[w].job] = status[task[w].job]]
  BY CarrierFacts
<1>2. StatusInv' /\ Carried' = Carried
  BY <1>1, TaskGoesOnJobs
<1>3. QED
  BY <1>2, ContractVars DEF JobsKept

\* A task ends and leaves the row as it is.
LEMMA EndTaskJobs ==
    ASSUME IInv, StatusInv, NEW w \in Workers, task[w].pc # "idle",
           EndTask(w), UNCHANGED <<status, retry_count, unpublished, queue>>
    PROVE  JobsKept
<1>. PICK j : j = task[w].job
  OBVIOUS
<1>1. /\ j \in Jobs /\ j # None /\ j \notin unpublished
      /\ \A m \in queue : m.job # j
      /\ \A v \in Workers \ {w} : task[v].job # j
  BY CarrierFacts
<1>2. /\ task'[w] = NoTask /\ NoTask.job = None
      /\ \A v \in Workers \ {w} : task'[v] = task[v] /\ setting'[v] = setting[v]
  BY DEF EndTask, Sets, IInv, WorkerInv, WorkerTypes, NoTask
<1>3. StatusInv'
  BY <1>2 DEF StatusInv
<1>4. j \in Carried /\ Carried' = Carried \ {j}
  <2>1. j \in Carried
    BY <1>1 DEF Carried, InFlight
  <2>2. ~InFlight(j)'
    BY <1>1, <1>2 DEF InFlight
  <2>3. \A i \in Jobs \ {j} : InFlight(i)' <=> InFlight(i)
    <3>1. \A i \in Jobs : i # None
      BY CarrierFacts
    <3>2. QED
      BY <1>2, <3>1 DEF InFlight
  <2>4. QED
    BY <2>1, <2>2, <2>3 DEF Carried
<1>5. JobContract!Leave(j)
  BY <1>4 DEF JobContract!Leave
<1>6. QED
  BY <1>1, <1>3, <1>5 DEF JobsKept, JobContract!Next

LEMMA PublishJobs ==
    ASSUME IInv, StatusInv, NEW j \in Jobs, PublishJob(j)
    PROVE  JobsKept
<1>. DEFINE m == [job |-> j, attempt |-> 0]
<1>1. /\ j \in unpublished /\ unpublished' = unpublished \ {j}
      /\ queue' = queue \cup {m} /\ m.job = j
      /\ UNCHANGED <<status, retry_count, task, setting>>
  BY DEF PublishJob
<1>. HIDE DEF m
<1>2. StatusInv'
  BY <1>1 DEF StatusInv
<1>3. \A i \in Jobs : InFlight(i)' <=> InFlight(i)
  BY <1>1 DEF InFlight
<1>4. Carried' = Carried
  BY <1>3 DEF Carried
<1>5. QED
  BY <1>1, <1>2, <1>4, ContractVars DEF JobsKept

LEMMA LosePublishJobs ==
    ASSUME IInv, StatusInv, NEW j \in Jobs, LosePublish(j)
    PROVE  JobsKept
<1>1. /\ j \in unpublished /\ unpublished' = unpublished \ {j}
      /\ UNCHANGED <<status, retry_count, queue, task, setting>>
  BY DEF LosePublish
<1>2. /\ \A m \in queue : m.job # j
      /\ \A v \in Workers : task[v].job # j
  BY <1>1 DEF IInv, CarrierInv
<1>3. StatusInv'
  BY <1>1 DEF StatusInv
<1>4. InFlight(j) /\ ~InFlight(j)' /\ \A i \in Jobs \ {j} : InFlight(i)' <=> InFlight(i)
  BY <1>1, <1>2 DEF InFlight
<1>5. j \in Carried /\ Carried' = Carried \ {j}
  BY <1>4 DEF Carried
<1>6. JobContract!Leave(j)
  BY <1>1, <1>5 DEF JobContract!Leave
<1>7. QED
  BY <1>3, <1>6 DEF JobsKept, JobContract!Next

LEMMA StartTaskJobs ==
    ASSUME IInv, StatusInv, NEW w \in Workers, NEW m \in queue, StartTask(w, m)
    PROVE  JobsKept
<1>1. /\ task[w] = NoTask /\ NoTask.job = None
      /\ task'[w].job = m.job /\ task'[w].pc = "opened"
      /\ \A v \in Workers \ {w} : task'[v] = task[v]
      /\ queue' = queue \ {m} /\ UNCHANGED <<status, retry_count, unpublished, setting>>
  BY DEF StartTask, NoTask, IInv, WorkerInv, WorkerTypes
<1>2. StatusFine(task'[w], setting'[w], status'[task'[w].job])
  BY <1>1 DEF StatusFine, StatusInv, Stages
<1>3. StatusInv'
  BY <1>1, <1>2 DEF StatusInv
<1>4. \A i \in Jobs : InFlight(i)' <=> InFlight(i)
  <2>1. \A i \in Jobs : i # None
    BY CarrierFacts
  <2>2. QED
    BY <1>1, <2>1 DEF InFlight
<1>5. Carried' = Carried
  BY <1>4 DEF Carried
<1>6. QED
  BY <1>1, <1>3, <1>5, ContractVars DEF JobsKept

\* The stages in their order: the first commit begins the attempt.
LEMMA AdvanceStageJobs ==
    ASSUME IInv, StatusInv, NEW w \in Workers, AdvanceStage(w)
    PROVE  JobsKept
<1>. PICK j : j = task[w].job
  OBVIOUS
<1>. PICK x : x = NextStage[task[w].pc]
  OBVIOUS
<1>1. task[w].pc \in {"loaded", "parsing", "chunking", "embedding"}
  BY DEF AdvanceStage, NextStage
<1>2. WorkerInv /\ SeesJob(w) /\ j \in Jobs /\ j # None
  BY <1>1, TaskSeesJob, JobAssumption DEF IInv, Running, Stages
<1>3. /\ status' = [status EXCEPT ![j] = x] /\ Go(w, x) /\ Sets(w, AfterCommit(setting[w]))
      /\ UNCHANGED <<retry_count, unpublished, queue>>
  BY <1>2 DEF AdvanceStage
<1>4. x \in Stages
  BY <1>1 DEF NextStage, Stages
<1>5. /\ task'[w].job = j /\ task'[w].pc = x
      /\ \A v \in Workers \ {w} : task'[v] = task[v] /\ setting'[v] = setting[v]
  BY <1>2, <1>3 DEF Go, Sets, WorkerInv, WorkerTypes, Tasks
<1>6. StatusFine(task'[w], setting'[w], x)
  BY <1>4, <1>5 DEF StatusFine, Stages
<1>7. StatusInv' /\ Carried' = Carried /\ j \in Carried
  BY <1>1, <1>3, <1>5, <1>6, TaskGoesOnJobs
<1>8. StatusFine(task[w], setting[w], status[j])
  BY <1>2 DEF StatusInv
<1>9. CASE task[w].pc = "loaded"
  <2>1. status[j] \in {"queued", "failed"} /\ x = "parsing"
    BY <1>8, <1>9 DEF StatusFine, NextStage
  <2>2. JobContract!Begin(j)
    BY <1>3, <1>7, <2>1 DEF JobContract!Begin, JobContract!Waiting
  <2>3. QED
    BY <1>2, <1>7, <2>2 DEF JobsKept, JobContract!Next
<1>10. CASE task[w].pc \in {"parsing", "chunking", "embedding"}
  <2>1. status[j] = task[w].pc
    BY <1>8, <1>10 DEF StatusFine, Stages
  <2>2. status[j] \in DOMAIN JobContract!Following /\ JobContract!Following[status[j]] = x
    BY <1>10, <2>1 DEF JobContract!Following, NextStage
  <2>3. JobContract!Advance(j)
    BY <1>3, <1>7, <2>2 DEF JobContract!Advance
  <2>4. QED
    BY <1>2, <1>7, <2>3 DEF JobsKept, JobContract!Next
<1>11. QED
  BY <1>1, <1>9, <1>10

LEMMA CommitReadyJobs ==
    ASSUME IInv, StatusInv, NEW w \in Workers, CommitReady(w)
    PROVE  JobsKept
<1>. PICK j : j = task[w].job
  OBVIOUS
<1>1. task[w].pc = "upserted"
  BY DEF CommitReady
<1>2. WorkerInv /\ SeesJob(w) /\ j \in Jobs /\ j # None
  BY <1>1, TaskSeesJob, JobAssumption DEF IInv, Running
<1>3. /\ status' = [status EXCEPT ![j] = "ready"]
      /\ Go(w, "committed") /\ Sets(w, AfterCommit(setting[w]))
      /\ UNCHANGED <<retry_count, unpublished, queue>>
  BY <1>2 DEF CommitReady
<1>4. /\ task'[w].job = j /\ task'[w].pc = "committed"
      /\ \A v \in Workers \ {w} : task'[v] = task[v] /\ setting'[v] = setting[v]
  BY <1>2, <1>3 DEF Go, Sets, WorkerInv, WorkerTypes, Tasks
<1>5. StatusFine(task'[w], setting'[w], "ready")
  BY <1>4 DEF StatusFine, Stages
<1>6. StatusInv' /\ Carried' = Carried /\ j \in Carried
  BY <1>1, <1>3, <1>4, <1>5, TaskGoesOnJobs
<1>7. status[j] = "indexing"
  BY <1>1, <1>2 DEF StatusInv, StatusFine
<1>8. "indexing" \in DOMAIN JobContract!Following /\ JobContract!Following["indexing"] = "ready"
  BY DEF JobContract!Following
<1>9. JobContract!Advance(j)
  BY <1>3, <1>6, <1>7, <1>8 DEF JobContract!Advance
<1>10. QED
  BY <1>2, <1>6, <1>9 DEF JobsKept, JobContract!Next

\* A raise inside the try leaves the row to the except clause.
LEMMA RaisesJobs ==
    ASSUME IInv, StatusInv, NEW w \in Workers, Raises(w),
           task[w].pc \in Running \cup {"loaded"},
           UNCHANGED <<status, retry_count, unpublished, queue>>
    PROVE  JobsKept
<1>1. /\ task'[w].job = task[w].job /\ task'[w].pc = "failing"
      /\ \A v \in Workers \ {w} : task'[v] = task[v] /\ setting'[v] = setting[v]
  BY DEF Raises, Go, Sets, IInv, WorkerInv, WorkerTypes, Tasks
<1>2. task[w].job # None /\ task[w].pc # "idle"
  BY CarrierFacts DEF Running, Stages
<1>3. setting'[w] = Unset \/ status[task[w].job] \in Stages \cup {"ready"}
  <2>1. CASE task[w].pc \in Running
    BY <1>2, <2>1 DEF StatusInv, StatusFine, Running, Stages
  <2>2. CASE task[w].pc = "loaded"
    <3>1. /\ setting[w] = SetSession(Unset, JobTenant[task[w].job])
          /\ JobTenant[task[w].job] \in Tenants
      BY <1>2, <2>2, CarrierFacts, JobAssumption DEF TaskFine
    <3>2. setting' = [setting EXCEPT ![w] = Unset]
      BY <3>1, SettingFacts DEF Raises, Sets
    <3>3. QED
      BY <3>2 DEF IInv, WorkerInv, WorkerTypes
  <2>3. QED
    BY <2>1, <2>2
<1>4. StatusFine(task'[w], setting'[w], status[task[w].job])
  BY <1>1, <1>3 DEF StatusFine, Stages
<1>5. QED
  BY <1>1, <1>2, <1>4, TaskUnseenJobs

\* The failure is counted; the task goes on to the retry while one is left.
LEMMA RecordFailureJobs ==
    ASSUME IInv, StatusInv, NEW w \in Workers, RecordFailure(w)
    PROVE  JobsKept
<1>. PICK j, a : j = task[w].job /\ a = task[w].attempt
  OBVIOUS
<1>1. /\ task[w].pc = "failing" /\ SeesJob(w) /\ UNCHANGED <<unpublished, queue>>
      /\ status' = [status EXCEPT ![j] = "failed"]
      /\ retry_count' = [retry_count EXCEPT ![j] = @ + 1]
  BY DEF RecordFailure
<1>2. /\ j \in Jobs /\ j # None /\ j \notin unpublished /\ retry_count[j] = a
      /\ \A m \in queue : m.job # j /\ m.job \in Jobs
      /\ \A v \in Workers \ {w} : task[v].job # j /\ task[v].job \in Jobs \cup {None}
      /\ unpublished \subseteq Jobs /\ None \notin Jobs
  BY <1>1, CarrierFacts
<1>3. /\ status'[j] = "failed" /\ \A i \in Jobs \ {j} : status'[i] = status[i]
  BY <1>1, <1>2, CarrierFacts
<1>4. /\ task \in [Workers -> Tasks] /\ setting \in [Workers -> Settings(Tenants)]
      /\ NoTask.job = None
  BY DEF IInv, WorkerInv, WorkerTypes, NoTask
<1>5. \A v \in Workers \ {w} : task'[v] = task[v] /\ setting'[v] = setting[v]
  BY <1>4 DEF RecordFailure, EndTask, Go, Sets
<1>6. \/ a < MaxRetries /\ task'[w].job = j /\ task'[w].pc = "retrying"
      \/ task'[w].job = None
  <2>1. CASE Retries(task[w]) = {}
    BY <1>4, <2>1 DEF RecordFailure, EndTask
  <2>2. CASE Retries(task[w]) # {}
    BY <1>4, <2>2 DEF RecordFailure, Go, Tasks, Retries
  <2>3. QED
    BY <2>1, <2>2
<1>7. StatusInv'
  <2>1. ASSUME NEW v \in Workers, task'[v].job # None
        PROVE  StatusFine(task'[v], setting'[v], status'[task'[v].job])
    <3>1. CASE v = w
      BY <1>3, <1>6, <2>1, <3>1 DEF StatusFine, Stages
    <3>2. CASE v # w
      <4>1. status'[task[v].job] = status[task[v].job]
        BY <1>2, <1>3, <1>5, <2>1, <3>2
      <4>2. QED
        BY <1>5, <2>1, <3>2, <4>1 DEF StatusInv
    <3>3. QED
      BY <3>1, <3>2
  <2>2. /\ \A m \in queue' : status'[m.job] \in {"queued", "failed"}
        /\ \A i \in unpublished' : status'[i] = "queued"
    BY <1>1, <1>2, <1>3 DEF StatusInv
  <2>3. QED
    BY <2>1, <2>2 DEF StatusInv
<1>8. status[j] \in Stages \cup {"ready"}
  <2>1. setting[w] # Unset
    BY <1>1, <1>2, JobAssumption, SettingFacts DEF SeesJob
  <2>2. QED
    BY <1>1, <1>2, <2>1 DEF StatusInv, StatusFine
<1>9. status[j] \in DOMAIN JobContract!Following \cup {"ready"}
  BY <1>8 DEF JobContract!Following, Stages
<1>10. j \in Carried
  BY <1>2 DEF Carried, InFlight
<1>11. \A i \in Jobs \ {j} : InFlight(i)' <=> InFlight(i)
  BY <1>1, <1>2, <1>5, <1>6 DEF InFlight
<1>12. (Carried' = Carried /\ a < MaxRetries) \/ Carried' = Carried \ {j}
  <2>1. CASE task'[w].job = j /\ a < MaxRetries
    BY <1>10, <1>11, <2>1 DEF Carried, InFlight
  <2>2. CASE task'[w].job = None
    <3>1. ~InFlight(j)'
      BY <1>1, <1>2, <1>5, <2>2 DEF InFlight
    <3>2. QED
      BY <1>10, <1>11, <3>1 DEF Carried
  <2>3. QED
    BY <1>6, <2>1, <2>2
<1>13. JobContract!Fail(j)
  BY <1>1, <1>2, <1>9, <1>10, <1>12 DEF JobContract!Fail
<1>14. QED
  BY <1>2, <1>7, <1>13 DEF JobsKept, JobContract!Next

\* The retry takes the job over.
LEMMA PublishRetryJobs ==
    ASSUME IInv, StatusInv, NEW w \in Workers, PublishRetry(w)
    PROVE  JobsKept
<1>. PICK j : j = task[w].job
  OBVIOUS
<1>1. /\ task[w].pc = "retrying" /\ EndTask(w) /\ queue' = queue \cup Retries(task[w])
      /\ UNCHANGED <<status, retry_count, unpublished>>
  BY DEF PublishRetry
<1>2. j \in Jobs /\ j # None /\ None \notin Jobs
  BY <1>1, CarrierFacts
<1>3. status[j] = "failed"
  BY <1>1, <1>2 DEF StatusInv, StatusFine
<1>4. /\ task'[w] = NoTask /\ NoTask.job = None
      /\ \A v \in Workers \ {w} : task'[v] = task[v] /\ setting'[v] = setting[v]
  BY <1>1 DEF EndTask, Sets, IInv, WorkerInv, WorkerTypes, NoTask
<1>5. \A m \in Retries(task[w]) : m.job = j
  BY DEF Retries
<1>6. \E m \in Retries(task[w]) : m.job = j
  <2>1. task[w].attempt < MaxRetries
    BY <1>1, <1>2 DEF IInv, CarrierInv
  <2>2. QED
    BY <2>1 DEF Retries
<1>7. StatusInv'
  BY <1>1, <1>3, <1>4, <1>5 DEF StatusInv
<1>8. \A i \in Jobs : InFlight(i)' <=> InFlight(i)
  BY <1>1, <1>2, <1>4, <1>5, <1>6 DEF InFlight
<1>9. Carried' = Carried
  BY <1>8 DEF Carried
<1>10. QED
  BY <1>1, <1>7, <1>9, ContractVars DEF JobsKept

\* A step of a task up to its next commit, with its job row as it is.
LEMMA QuietJobs ==
    ASSUME IInv, StatusInv, NEW w \in Workers, NEW pc,
           \/ task[w].pc = "opened" /\ pc = "scoped"
           \/ task[w].pc = "scoped" /\ pc = "loaded"
           \/ task[w].pc = "indexing" /\ pc = "upserted",
           Go(w, pc), NEW s, setting' = [setting EXCEPT ![w] = s],
           UNCHANGED <<status, retry_count, unpublished, queue>>
    PROVE  JobsKept
<1>1. /\ task'[w].job = task[w].job /\ task'[w].pc = pc
      /\ \A v \in Workers \ {w} : task'[v] = task[v] /\ setting'[v] = setting[v]
  BY DEF Go, IInv, WorkerInv, WorkerTypes, Tasks
<1>2. task[w].pc # "idle" /\ task[w].job # None
  BY CarrierFacts
<1>3. StatusFine(task[w], setting[w], status[task[w].job])
  BY <1>2 DEF StatusInv
<1>4. StatusFine(task'[w], setting'[w], status[task[w].job])
  BY <1>1, <1>3 DEF StatusFine, Stages
<1>5. QED
  BY <1>1, <1>2, <1>4, TaskUnseenJobs

LEMMA TaskStepJobs ==
    ASSUME IInv, StatusInv, NEW w \in Workers, TaskStep(w)
    PROVE  JobsKept
<1>1. WorkerInv /\ setting \in [Workers -> Settings(Tenants)]
  BY DEF IInv, WorkerInv, WorkerTypes
<1>2. CASE SetTenantScope(w)
  <2>1. task[w].pc = "opened" /\ Go(w, "scoped") /\ UNCHANGED jobs
    BY <1>2 DEF SetTenantScope
  <2>2. setting' = [setting EXCEPT ![w] = SetSession(setting[w], JobTenant[task[w].job])]
    BY <1>2 DEF SetTenantScope, Sets
  <2>3. QED
    BY <2>1, <2>2, QuietJobs DEF jobs
<1>3. CASE LoadJob(w)
  <2>1. task[w].pc = "scoped" /\ SeesJob(w)
    BY <1>1, <1>3, TaskSeesJob DEF LoadJob
  <2>2. setting' = [setting EXCEPT ![w] = setting[w]]
    BY <1>1, <1>3, <2>1 DEF LoadJob
  <2>3. Go(w, "loaded") /\ UNCHANGED <<status, retry_count, unpublished, queue>>
    BY <1>3, <2>1 DEF LoadJob, jobs
  <2>4. QED
    BY <2>1, <2>2, <2>3, QuietJobs
<1>4. CASE CallSetup(w) \/ EnsureCollection(w)
  <2>1. UNCHANGED <<jobs, task, setting>>
    BY <1>4 DEF CallSetup, EnsureCollection
  <2>2. StatusInv'
    BY <2>1 DEF StatusInv, jobs
  <2>3. Carried' = Carried
    BY <2>1 DEF Carried, InFlight, jobs
  <2>4. QED
    BY <2>1, <2>2, <2>3, ContractVars DEF JobsKept, jobs
<1>5. CASE LoseCreation(w)
  <2>1. Raises(w) /\ UNCHANGED jobs /\ setup[w].pc = "creating"
    BY <1>5 DEF LoseCreation, LosesCreation
  <2>2. task[w].pc = "indexing"
    BY <1>1, <2>1 DEF WorkerInv, SetupFine
  <2>3. QED
    BY <2>1, <2>2, RaisesJobs DEF Running, Stages, jobs
<1>6. CASE UpsertPoints(w)
  <2>1. setting' = [setting EXCEPT ![w] = setting[w]]
    BY <1>1, <1>6 DEF UpsertPoints
  <2>2. task[w].pc = "indexing" /\ Go(w, "upserted") /\ UNCHANGED jobs
    BY <1>6 DEF UpsertPoints
  <2>3. QED
    BY <2>1, <2>2, QuietJobs DEF jobs
<1>7. CASE FinishTask(w) \/ MissJob(w)
  BY <1>7, EndTaskJobs DEF FinishTask, MissJob, jobs
<1>8. QED
  BY <1>2, <1>3, <1>4, <1>5, <1>6, <1>7, AdvanceStageJobs, CommitReadyJobs, RecordFailureJobs,
     PublishRetryJobs
  DEF TaskStep

LEMMA FaultJobs ==
    ASSUME IInv, StatusInv, NEW w \in Workers,
           \/ FailCall(w) \/ FailFirstCommit(w) \/ FailUncaught(w) \/ LoseRetry(w)
           \/ LoseConnection(w) \/ CrashTask(w)
    PROVE  JobsKept
<1>1. CASE FailCall(w) \/ FailFirstCommit(w)
  BY <1>1, RaisesJobs DEF FailCall, FailFirstCommit, Running, jobs
<1>2. CASE FailUncaught(w) \/ LoseRetry(w) \/ CrashTask(w)
  <2>1. task[w].pc # "idle" /\ EndTask(w) /\ UNCHANGED jobs
    BY <1>2, CarrierFacts DEF FailUncaught, LoseRetry, CrashTask, TaskFine
  <2>2. QED
    BY <2>1, EndTaskJobs DEF jobs
<1>3. CASE LoseConnection(w)
  <2>1. task[w].pc # "idle" /\ UNCHANGED jobs /\ Go(w, "failing") /\ Sets(w, Unset)
    BY <1>3 DEF LoseConnection, Stages
  <2>2. /\ task'[w].job = task[w].job /\ task'[w].pc = "failing" /\ setting'[w] = Unset
        /\ \A v \in Workers \ {w} : task'[v] = task[v] /\ setting'[v] = setting[v]
    BY <2>1 DEF Go, Sets, IInv, WorkerInv, WorkerTypes, Tasks
  <2>3. StatusFine(task'[w], setting'[w], status[task[w].job])
    BY <2>2 DEF StatusFine, Stages
  <2>4. QED
    BY <2>1, <2>2, <2>3, TaskUnseenJobs DEF jobs
<1>4. QED
  BY <1>1, <1>2, <1>3

LEMMA JobsStep == IInv /\ StatusInv /\ [Next]_vars => JobsKept
<1>1. ASSUME IInv, StatusInv, Next PROVE JobsKept
  BY <1>1, PublishJobs, LosePublishJobs, StartTaskJobs, TaskStepJobs, FaultJobs
  DEF Next, WorkerStep
<1>2. ASSUME IInv, StatusInv, UNCHANGED vars PROVE JobsKept
  <2>1. StatusInv' /\ Carried' = Carried
    BY <1>2 DEF vars, jobs, StatusInv, Carried, InFlight
  <2>2. QED
    BY <1>2, <2>1, ContractVars DEF JobsKept, vars, jobs
<1>3. QED
  BY <1>1, <1>2

LEMMA StatusHolds == Spec => []StatusInv
<1>1. IInv /\ StatusInv /\ [Next]_vars => StatusInv'
  BY JobsStep DEF JobsKept
<1>2. QED
  BY <1>1, InitStatus, InvariantHolds, PTL DEF Spec

\* What GET /jobs shows of the jobs of all tenants implements JobLifecycle,
\* whatever connections, processes and messages are lost: in particular a job
\* is never marked failed by an attempt that had not begun, and never twice by
\* one attempt.
THEOREM ImplementsJobLifecycle == Spec => JobContractSpec
<1>1. IInv /\ StatusInv /\ [Next]_vars => [JobContract!Next]_(JobContract!vars)
  BY JobsStep DEF JobsKept
<1>2. QED
  BY <1>1, InitStatus, StatusHolds, InvariantHolds, PTL
  DEF Spec, JobContractSpec, JobContract!Spec

\* What JobLifecycle_proofs shows of the contract.
Promise == INSTANCE JobLifecycle_proofs WITH carried <- Carried

LEMMA ContractIsKept == Spec => Promise!OverForGood
<1>1. MaxRetries \in Nat
  BY CountAssumption
<1>2. Promise!Spec => Promise!OverForGood
  BY <1>1, Promise!OverIsForGood
<1>3. JobContract!Init => Promise!Init
  BY DEF JobContract!Init, Promise!Init
<1>4. [JobContract!Next]_(JobContract!vars) => [Promise!Next]_(Promise!vars)
  BY DEF JobContract!Next, JobContract!vars, JobContract!Create, JobContract!Begin,
         JobContract!Advance, JobContract!Fail, JobContract!Leave, JobContract!Waiting,
         JobContract!Following, Promise!Next, Promise!vars, Promise!Create, Promise!Begin,
         Promise!Advance, Promise!Fail, Promise!Leave, Promise!Waiting, Promise!Following
<1>5. QED
  BY <1>2, <1>3, <1>4, ImplementsJobLifecycle, PTL
  DEF JobContractSpec, JobContract!Spec, Promise!Spec

\* A job that nothing carries any more, its retries used up, its message or
\* process lost or its failure unrecorded, keeps the status it had for ever: no task of another job, and no later one, ever touches its row.
SettledJobsStay ==
    \A j \in Jobs : ~InFlight(j) =>
        ~InFlight(j)' /\ status'[j] = status[j] /\ retry_count'[j] = retry_count[j]

THEOREM SettledJobsRest == Spec => [][SettledJobsStay]_vars
<1>1. ASSUME IInv, [Promise!OverRests]_(Promise!vars), NEW j \in Jobs, ~InFlight(j)
      PROVE  ~InFlight(j)' /\ status'[j] = status[j] /\ retry_count'[j] = retry_count[j]
  <2>1. status[j] # "absent" /\ j \notin Carried
    BY <1>1 DEF IInv, JobTypes, Statuses, Stages, Carried
  <2>2. /\ j \notin Carried'
        /\ status'[j] = status[j] /\ retry_count'[j] = retry_count[j]
    BY <1>1, <2>1 DEF Promise!OverRests, Promise!Over, Promise!vars
  <2>3. QED
    BY <2>2 DEF Carried
<1>2. IInv /\ [Promise!OverRests]_(Promise!vars) => [SettledJobsStay]_vars
  BY <1>1 DEF SettledJobsStay
<1>3. QED
  BY <1>2, ContractIsKept, InvariantHolds, PTL DEF Promise!OverForGood

=============================================================================
