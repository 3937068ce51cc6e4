------------------------ MODULE IngestionSolo_proofs ------------------------
(***************************************************************************)
(* What a single worker process (celery --pool=solo) guarantees, for every *)
(* number of versions, retries and contents, with failures and crashes.    *)
(*                                                                         *)
(* The invariant says why: with one process nothing changes the document   *)
(* rows between the load at the start of a task and its final commit, so   *)
(* the copies the session keeps (expire_on_commit=False) never go stale.   *)
(***************************************************************************)
EXTENDS Ingestion_proofs

\* At most one worker process.
SoloPool == \A s, q \in Slots : s = q

\* Until its commit a task holds the current values of the rows it loaded.
FreshTask ==
    \A s \in Slots : pc[s] \notin {"idle", "committed"} =>
        /\ task[s].document = document
        /\ task[s].is_current = is_current[task[s].version]

\* The job row shows the stage of a task that has not committed yet.
StageShown ==
    \A s \in Slots :
        /\ pc[s] \in Stages => job[task[s].version].status = pc[s]
        /\ pc[s] \in {"upserted", "superseded"} =>
              job[task[s].version].status = "indexing"

\* What a task has written to Qdrant stays until the task ends.
PointsWritten ==
    \A s \in Slots :
        /\ pc[s] \in {"upserted", "superseded"} => point[task[s].version] = "current"
        /\ pc[s] = "superseded" => point[Previous(s)] # "current"

SoloInv ==
    /\ CurrentFlagAgrees
    /\ HashIsOfServedVersion
    /\ SearchNeverEmpties
    /\ StrayPointsAreUnfinished
    /\ FreshTask
    /\ StageShown
    /\ PointsWritten

-----------------------------------------------------------------------------

LEMMA SoloInit == Init => SoloInv
<1>1. None \notin Versions
  BY VersionAssumption
<1>2. QED
  BY <1>1
  DEF Init, SoloInv, CurrentFlagAgrees, HashIsOfServedVersion, SearchNeverEmpties,
      StrayPointsAreUnfinished, FreshTask, StageShown, PointsWritten, Stages

\* Uploads add rows nobody works on and change none that somebody does.
LEMMA SoloUpload ==
    ASSUME IInv, SoloInv, UploadStep
    PROVE  SoloInv'
<1>1. UNCHANGED <<document, is_current, pc, task, point>>
  BY DEF UploadStep, AnswerUnchanged, CheckUpload, CommitUpload, AbortUpload,
         PublishJob, LosePublish, postgres, vars
<1>2. CASE UNCHANGED <<content, job>>
  BY <1>1, <1>2
  DEF SoloInv, CurrentFlagAgrees, HashIsOfServedVersion, SearchNeverEmpties,
      StrayPointsAreUnfinished, FreshTask, StageShown, PointsWritten, Previous
<1>3. CASE \E r \in Requests, v \in Versions : CommitUpload(r, v)
  <2>1. PICK r \in Requests, v \in Versions : CommitUpload(r, v)
    BY <1>3
  <2>2. content[v] = None
    BY <2>1 DEF CommitUpload, Uploaded
  <2>3. document.current_version_id # v
    BY <2>2, VersionAssumption DEF IInv, CorruptInv
  <2>4. \A s \in Slots : pc[s] # "idle" => task[s].version # v
    BY <2>2 DEF IInv, CarrierInv
  <2>5. /\ \A u \in Versions \ {v} : content'[u] = content[u] /\ job'[u] = job[u]
        /\ job'[v].status = "queued"
    BY <2>1 DEF CommitUpload, IInv, TypeOK
  <2>6. \A s \in Slots : pc[s] # "idle" => task[s].version \in Versions
    BY BusySlot DEF IInv
  <2>7. CurrentFlagAgrees' /\ SearchNeverEmpties' /\ FreshTask' /\ PointsWritten'
    BY <1>1 DEF SoloInv, CurrentFlagAgrees, SearchNeverEmpties, FreshTask,
                PointsWritten, Previous
  <2>8. HashIsOfServedVersion'
    BY <1>1, <2>3, <2>5
    DEF SoloInv, HashIsOfServedVersion, IInv, TypeOK, DocumentRows
  <2>9. StrayPointsAreUnfinished'
    BY <1>1, <2>5 DEF SoloInv, StrayPointsAreUnfinished
  <2>10. StageShown'
    BY <1>1, <2>4, <2>5, <2>6 DEF SoloInv, StageShown, Stages
  <2>11. QED
    BY <2>7, <2>8, <2>9, <2>10 DEF SoloInv
<1>4. QED
  BY <1>2, <1>3
  DEF UploadStep, AnswerUnchanged, CheckUpload, AbortUpload, PublishJob,
      LosePublish, postgres, vars

\* A task starts with the rows as they are.
LEMMA SoloStart ==
    ASSUME SoloPool, IInv, SoloInv, NEW s \in Slots, NEW m \in queue, StartTask(s, m)
    PROVE  SoloInv'
<1>1. m.version \in Versions
  BY DEF IInv, TypeOK, Messages
<1>2. /\ pc' = [pc EXCEPT ![s] = "parsing"]
      /\ task' = [task EXCEPT ![s] =
                     [version |-> m.version, attempt |-> m.attempt,
                      document |-> document, is_current |-> is_current[m.version]]]
      /\ job' = [job EXCEPT ![m.version].status = "parsing"]
      /\ UNCHANGED <<document, content, is_current, point>>
  BY DEF StartTask
<1>3. /\ pc'[s] = "parsing"
      /\ task'[s].version = m.version
      /\ task'[s].document = document
      /\ task'[s].is_current = is_current[m.version]
  BY <1>2 DEF IInv, TypeOK
<1>4. /\ job'[m.version].status = "parsing"
      /\ \A v \in Versions \ {m.version} : job'[v] = job[v]
  BY <1>1, <1>2 DEF IInv, TypeOK, JobRows
<1>5. \A q \in Slots : q = s
  BY DEF SoloPool
<1>6. FreshTask' /\ StageShown' /\ PointsWritten'
  BY <1>2, <1>3, <1>4, <1>5 DEF FreshTask, StageShown, PointsWritten, Stages
<1>7. /\ CurrentFlagAgrees' /\ HashIsOfServedVersion' /\ SearchNeverEmpties'
  BY <1>2 DEF SoloInv, CurrentFlagAgrees, HashIsOfServedVersion, SearchNeverEmpties
<1>8. StrayPointsAreUnfinished'
  BY <1>2, <1>4 DEF SoloInv, StrayPointsAreUnfinished
<1>9. QED
  BY <1>6, <1>7, <1>8 DEF SoloInv

LEMMA SoloAdvance ==
    ASSUME SoloPool, IInv, SoloInv, NEW s \in Slots, AdvanceStage(s)
    PROVE  SoloInv'
<1>1. task[s].version \in Versions /\ pc[s] # "idle"
  BY BusySlot DEF IInv, AdvanceStage, NextStage
<1>2. /\ pc' = [pc EXCEPT ![s] = NextStage[pc[s]]]
      /\ job' = [job EXCEPT ![task[s].version].status = NextStage[pc[s]]]
      /\ UNCHANGED <<document, content, is_current, task, point>>
  BY DEF AdvanceStage
<1>3. /\ pc[s] \notin {"idle", "committed"}
      /\ pc'[s] \in {"chunking", "embedding", "indexing"}
      /\ pc'[s] = NextStage[pc[s]]
  BY <1>2 DEF IInv, TypeOK, AdvanceStage, NextStage
<1>4. /\ job'[task[s].version].status = pc'[s]
      /\ \A v \in Versions \ {task[s].version} : job'[v] = job[v]
  BY <1>1, <1>2, <1>3 DEF IInv, TypeOK, JobRows
<1>5. \A q \in Slots : q = s
  BY DEF SoloPool
<1>6. FreshTask' /\ StageShown' /\ PointsWritten'
  BY <1>2, <1>3, <1>4, <1>5
  DEF SoloInv, FreshTask, StageShown, PointsWritten, Stages
<1>7. CurrentFlagAgrees' /\ HashIsOfServedVersion' /\ SearchNeverEmpties'
  BY <1>2 DEF SoloInv, CurrentFlagAgrees, HashIsOfServedVersion, SearchNeverEmpties
<1>8. StrayPointsAreUnfinished'
  BY <1>2, <1>3, <1>4 DEF SoloInv, StrayPointsAreUnfinished
<1>9. QED
  BY <1>6, <1>7, <1>8 DEF SoloInv

\* The points of the task's version become current while its job is not ready.
LEMMA SoloUpsert ==
    ASSUME SoloPool, IInv, SoloInv, NEW s \in Slots, UpsertPoints(s)
    PROVE  SoloInv'
<1>1. task[s].version \in Versions
  BY BusySlot DEF IInv, UpsertPoints
<1>2. /\ pc[s] = "indexing" /\ pc' = [pc EXCEPT ![s] = "upserted"]
      /\ point' = [point EXCEPT ![task[s].version] = "current"]
      /\ UNCHANGED <<document, content, is_current, job, task>>
  BY DEF UpsertPoints, postgres
<1>3. /\ pc'[s] = "upserted"
      /\ point'[task[s].version] = "current"
      /\ \A v \in Versions \ {task[s].version} : point'[v] = point[v]
  BY <1>1, <1>2 DEF IInv, TypeOK
<1>4. job[task[s].version].status = "indexing"
  BY <1>2 DEF SoloInv, StageShown, Stages
<1>5. \A q \in Slots : q = s
  BY DEF SoloPool
<1>6. FreshTask' /\ StageShown' /\ PointsWritten'
  BY <1>2, <1>3, <1>4, <1>5
  DEF SoloInv, FreshTask, StageShown, PointsWritten, Stages
<1>7. CurrentFlagAgrees' /\ HashIsOfServedVersion'
  BY <1>2 DEF SoloInv, CurrentFlagAgrees, HashIsOfServedVersion
<1>8. SearchNeverEmpties'
  BY <1>1, <1>3 DEF SearchNeverEmpties
<1>9. StrayPointsAreUnfinished'
  BY <1>2, <1>3, <1>4 DEF SoloInv, StrayPointsAreUnfinished
<1>10. QED
  BY <1>6, <1>7, <1>8, <1>9 DEF SoloInv

\* When the points of the served version are hidden, those of the task's
\* version are there to be found.
LEMMA SoloSupersede ==
    ASSUME SoloPool, IInv, SoloInv, NEW s \in Slots, SupersedePoints(s)
    PROVE  SoloInv'
<1>1. task[s].version \in Versions
  BY BusySlot DEF IInv, SupersedePoints
<1>2. /\ pc[s] = "upserted" /\ pc' = [pc EXCEPT ![s] = "superseded"]
      /\ point' = [point EXCEPT ![Previous(s)] = Superseded(@)]
      /\ Previous(s) # task[s].version
      /\ UNCHANGED <<document, content, is_current, job, task>>
  BY DEF SupersedePoints, postgres, HasPrevious
<1>3. /\ Previous(s) \in Versions
      /\ Previous(s)' = Previous(s)
  <2>1. task[s] \in Tasks
    BY BusySlot DEF IInv, SupersedePoints
  <2>2. QED
    BY <1>2, <2>1 DEF SupersedePoints, HasPrevious, Previous, Tasks, DocumentRows
<1>4. /\ pc'[s] = "superseded"
      /\ point'[Previous(s)] # "current"
      /\ \A v \in Versions \ {Previous(s)} : point'[v] = point[v]
  BY <1>2, <1>3 DEF IInv, TypeOK, Superseded
<1>5. point[task[s].version] = "current" /\ point'[task[s].version] = "current"
  BY <1>1, <1>2, <1>4 DEF SoloInv, PointsWritten
<1>6. \A q \in Slots : q = s
  BY DEF SoloPool
<1>7. FreshTask' /\ StageShown'
  BY <1>2, <1>4, <1>6 DEF SoloInv, FreshTask, StageShown, Stages
<1>8. PointsWritten'
  BY <1>2, <1>3, <1>4, <1>5, <1>6 DEF PointsWritten
<1>9. CurrentFlagAgrees' /\ HashIsOfServedVersion'
  BY <1>2 DEF SoloInv, CurrentFlagAgrees, HashIsOfServedVersion
<1>10. SearchNeverEmpties'
  BY <1>1, <1>5 DEF SearchNeverEmpties
<1>11. StrayPointsAreUnfinished'
  BY <1>2, <1>4 DEF SoloInv, StrayPointsAreUnfinished
<1>12. QED
  BY <1>7, <1>8, <1>9, <1>10, <1>11 DEF SoloInv

\* The rows the session loaded are the rows that are there, so every column
\* ends with the value the task assigned to it.
LEMMA SoloCommit ==
    ASSUME SoloPool, IInv, SoloInv, NEW s \in Slots, CommitReady(s)
    PROVE  SoloInv'
<1>1. /\ pc[s] \in {"upserted", "superseded"}
      /\ HasPrevious(s) => pc[s] = "superseded"
      /\ document' = ReadyRow(s) /\ is_current' = ReadyFlags(s)
      /\ job' = [job EXCEPT ![task[s].version].status = "ready"]
      /\ pc' = [pc EXCEPT ![s] = "committed"]
      /\ UNCHANGED <<content, task, point>>
  BY DEF CommitReady, IndexWritten
<1>2. /\ task[s].version \in Versions
      /\ task[s].version # None
      /\ task[s].document = document
      /\ task[s].is_current = is_current[task[s].version]
      /\ point[task[s].version] = "current"
  BY <1>1, BusySlot, VersionAssumption DEF IInv, SoloInv, FreshTask, PointsWritten
<1>3. /\ document'.current_version_id = task[s].version
      /\ document'.content_hash_current = content[task[s].version]
  BY <1>1, <1>2 DEF ReadyRow, Flush
<1>4. \A u \in Versions : is_current'[u] <=> u = task[s].version
  <2>1. TAKE u \in Versions
  <2>2. CASE u = task[s].version
    BY <1>1, <1>2, <2>2 DEF ReadyFlags, Flush
  <2>3. CASE u # task[s].version
    <3>1. is_current'[u] <=> is_current[u] /\ ~(HasPrevious(s) /\ u = Previous(s))
      BY <1>1, <2>3 DEF ReadyFlags
    <3>2. is_current[u] <=> document.current_version_id = u
      BY DEF SoloInv, CurrentFlagAgrees
    <3>3. Previous(s) = document.current_version_id
      BY <1>2 DEF Previous
    <3>4. u # None
      BY VersionAssumption
    <3>5. QED
      BY <2>3, <3>1, <3>2, <3>3, <3>4 DEF HasPrevious
  <2>4. QED
    BY <2>2, <2>3
<1>5. /\ job'[task[s].version].status = "ready"
      /\ \A u \in Versions \ {task[s].version} : job'[u] = job[u]
      /\ pc'[s] = "committed"
  BY <1>1, <1>2 DEF IInv, TypeOK, JobRows
<1>6. \A q \in Slots : q = s
  BY DEF SoloPool
<1>7. FreshTask' /\ StageShown' /\ PointsWritten'
  BY <1>5, <1>6 DEF FreshTask, StageShown, PointsWritten, Stages
<1>8. CurrentFlagAgrees' /\ HashIsOfServedVersion' /\ SearchNeverEmpties'
  BY <1>1, <1>2, <1>3, <1>4
  DEF CurrentFlagAgrees, HashIsOfServedVersion, SearchNeverEmpties
<1>9. StrayPointsAreUnfinished'
  <2>1. SUFFICES ASSUME NEW u \in Versions, point[u] = "current",
                        u # task[s].version
                 PROVE  job[u].status # "ready"
    BY <1>1, <1>3, <1>5 DEF StrayPointsAreUnfinished
  <2>2. CASE document.current_version_id = u
    <3>1. HasPrevious(s) /\ Previous(s) = u
      BY <1>2, <2>1, <2>2, VersionAssumption DEF HasPrevious, Previous
    <3>2. point[u] # "current"
      BY <1>1, <3>1 DEF SoloInv, PointsWritten
    <3>3. QED
      BY <2>1, <3>2
  <2>3. CASE document.current_version_id # u
    BY <2>1, <2>3 DEF SoloInv, StrayPointsAreUnfinished
  <2>4. QED
    BY <2>2, <2>3
<1>10. QED
  BY <1>7, <1>8, <1>9 DEF SoloInv

\* However a task ends, it leaves rows and points as it last wrote them.
LEMMA SoloEnd ==
    ASSUME SoloPool, IInv, SoloInv, NEW s \in Slots,
           FinishTask(s) \/ FailTask(s) \/ CrashTask(s)
    PROVE  SoloInv'
<1>1. task[s].version \in Versions
  BY BusySlot DEF IInv, FinishTask, FailTask, CrashTask
<1>2. /\ pc' = [pc EXCEPT ![s] = "idle"]
      /\ UNCHANGED <<document, content, is_current, point>>
  BY DEF FinishTask, FailTask, CrashTask, Release, postgres
<1>3. pc'[s] = "idle" /\ \A q \in Slots : q = s
  BY <1>2 DEF IInv, TypeOK, SoloPool
<1>4. \A v \in Versions : job'[v].status \in {job[v].status, "failed"}
  <2>1. CASE job' = job
    BY <2>1
  <2>2. CASE job' = [job EXCEPT ![task[s].version] =
                        [status |-> "failed", retry_count |-> @.retry_count + 1]]
    BY <1>1, <2>2 DEF IInv, TypeOK
  <2>3. QED
    BY <2>1, <2>2 DEF FinishTask, FailTask, CrashTask, postgres
<1>5. FreshTask' /\ StageShown' /\ PointsWritten'
  BY <1>3 DEF FreshTask, StageShown, PointsWritten, Stages
<1>6. CurrentFlagAgrees' /\ HashIsOfServedVersion' /\ SearchNeverEmpties'
  BY <1>2 DEF SoloInv, CurrentFlagAgrees, HashIsOfServedVersion, SearchNeverEmpties
<1>7. StrayPointsAreUnfinished'
  BY <1>2, <1>4 DEF SoloInv, StrayPointsAreUnfinished
<1>8. QED
  BY <1>5, <1>6, <1>7 DEF SoloInv

LEMMA SoloStep ==
    ASSUME SoloPool
    PROVE  IInv /\ SoloInv /\ [Next]_vars => SoloInv'
<1>1. ASSUME IInv, SoloInv, WorkerStep PROVE SoloInv'
  <2>1. CASE \E s \in Slots, m \in queue : FailStart(s, m)
    <3>1. UNCHANGED <<document, content, is_current, job, pc, task, point>>
      BY <2>1 DEF FailStart, postgres
    <3>2. QED
      BY <1>1, <3>1
      DEF SoloInv, CurrentFlagAgrees, HashIsOfServedVersion, SearchNeverEmpties,
          StrayPointsAreUnfinished, FreshTask, StageShown, PointsWritten, Previous
  <2>2. QED
    BY <1>1, <2>1, SoloStart, SoloAdvance, SoloUpsert, SoloSupersede, SoloCommit, SoloEnd
    DEF WorkerStep, TaskStep
<1>2. ASSUME SoloInv, UNCHANGED vars PROVE SoloInv'
  BY <1>2
  DEF SoloInv, CurrentFlagAgrees, HashIsOfServedVersion, SearchNeverEmpties,
      StrayPointsAreUnfinished, FreshTask, StageShown, PointsWritten, Previous, vars
<1>3. QED
  BY <1>1, <1>2, SoloUpload DEF Next

-----------------------------------------------------------------------------

\* With one worker process, is_current marks exactly current_version_id.
THEOREM SoloFlagAgrees ==
    ASSUME SoloPool
    PROVE  Spec => []CurrentFlagAgrees
<1>1. SoloInv => CurrentFlagAgrees
  BY DEF SoloInv
<1>2. QED
  BY <1>1, SoloInit, SoloStep, InvariantHolds, PTL DEF Spec

\* With one worker process, an "unchanged" answer is about the bytes served.
THEOREM SoloHashAgrees ==
    ASSUME SoloPool
    PROVE  Spec => []HashIsOfServedVersion
<1>1. SoloInv => HashIsOfServedVersion
  BY DEF SoloInv
<1>2. QED
  BY <1>1, SoloInit, SoloStep, InvariantHolds, PTL DEF Spec

\* With one worker process, a document once searchable stays searchable, no
\* matter where attempts fail or the process dies.
THEOREM SoloStaysSearchable ==
    ASSUME SoloPool
    PROVE  Spec => []SearchNeverEmpties
<1>1. SoloInv => SearchNeverEmpties
  BY DEF SoloInv
<1>2. QED
  BY <1>1, SoloInit, SoloStep, InvariantHolds, PTL DEF Spec

\* With one worker process, the current points of a version that is not served
\* come from an attempt that has not succeeded.
THEOREM SoloStrayPoints ==
    ASSUME SoloPool
    PROVE  Spec => []StrayPointsAreUnfinished
<1>1. SoloInv => StrayPointsAreUnfinished
  BY DEF SoloInv
<1>2. QED
  BY <1>1, SoloInit, SoloStep, InvariantHolds, PTL DEF Spec
=============================================================================
