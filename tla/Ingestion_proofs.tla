-------------------------- MODULE Ingestion_proofs --------------------------
(***************************************************************************)
(* Safety of Ingestion for every number of worker processes, versions,     *)
(* retries and contents.                                                   *)
(*                                                                         *)
(* The induction rests on who carries a job. From its commit on, the job   *)
(* of a version is with exactly one of: its upload handler (unpublished),  *)
(* a message, a task, or nobody any more. That is what bounds retry_count  *)
(* and keeps two attempts of one job from writing the same rows.           *)
(***************************************************************************)
EXTENDS Ingestion, TLAPS

\* A slot holds a task exactly while it is not idle.
SlotInv == \A s \in Slots : pc[s] # "idle" => task[s] \in Tasks

\* Handlers, messages and tasks carry disjoint sets of committed jobs.
CarrierInv ==
    /\ \A v \in unpublished : content[v] # None /\ job[v].retry_count = 0
    /\ \A m \in queue : content[m.version] # None /\ m.version \notin unpublished
    /\ \A s \in Slots : pc[s] # "idle" =>
          content[task[s].version] # None /\ task[s].version \notin unpublished

\* The upsert comes before everything that makes the version current.
IndexInv ==
    /\ ServedVersionIsIndexed
    /\ \A s \in Slots : pc[s] \in {"upserted", "superseded"} =>
          point[task[s].version] # "absent"

\* Parsing comes before every later stage.
CorruptInv ==
    /\ CorruptNeverServed
    /\ document.current_version_id # None =>
          content[document.current_version_id] # None
    /\ \A s \in Slots : pc[s] \notin {"idle", "parsing"} =>
          content[task[s].version] \notin Corrupt

IInv ==
    /\ TypeOK
    /\ SlotInv
    /\ RetryCountIsAttempt
    /\ CarrierInv
    /\ IndexInv
    /\ CorruptInv

-----------------------------------------------------------------------------

\* Flush stores one of the two values it is given.
LEMMA FlushOneOf ==
    ASSUME NEW loaded, NEW assigned, NEW row
    PROVE  Flush(loaded, assigned, row) \in {assigned, row}
BY DEF Flush

\* The task of a busy slot is a task record, and its version has a number.
LEMMA BusySlot ==
    ASSUME TypeOK, SlotInv, NEW s \in Slots, pc[s] # "idle"
    PROVE  /\ task[s] \in Tasks
           /\ task[s].version \in Versions
           /\ task[s].attempt \in Attempts
BY DEF TypeOK, SlotInv, Tasks

\* The first upload of a filename establishes the invariant.
LEMMA InitInv == Init => IInv
<1>1. SUFFICES ASSUME Init PROVE IInv
  OBVIOUS
<1>2. 1 \in Versions /\ None \notin Versions
  BY VersionAssumption DEF Versions
<1>3. TypeOK
  BY <1>1, <1>2, RetryAssumption
  DEF Init, TypeOK, DocumentRows, JobRows, JobStatuses, PCs, Stages
<1>4. SlotInv /\ RetryCountIsAttempt /\ IndexInv
  BY <1>1, <1>2 DEF Init, SlotInv, RetryCountIsAttempt, IndexInv, ServedVersionIsIndexed
<1>5. CarrierInv
  BY <1>1, <1>2, ContentAssumption DEF Init, CarrierInv
<1>6. CorruptInv
  BY <1>1 DEF Init, CorruptInv, CorruptNeverServed
<1>7. QED
  BY <1>3, <1>4, <1>5, <1>6 DEF IInv

\* A version row is added only under a number nobody carries yet.
LEMMA CommitUploadInv ==
    ASSUME IInv, NEW r \in Requests, NEW v \in Versions, CommitUpload(r, v)
    PROVE  IInv'
<1>1. /\ content[v] = None
      /\ upload[r] \in Contents
      /\ upload[r] # None
  BY ContentAssumption DEF IInv, TypeOK, CommitUpload, Uploaded
<1>2. v \notin unpublished /\ \A m \in queue : m.version # v
  BY <1>1 DEF IInv, CarrierInv
<1>3. \A s \in Slots : pc[s] # "idle" => task[s].version # v
  BY <1>1 DEF IInv, CarrierInv
<1>4. TypeOK'
  BY <1>1, RetryAssumption DEF IInv, TypeOK, CommitUpload, postgres, JobRows, JobStatuses
<1>5. SlotInv'
  BY DEF IInv, SlotInv, CommitUpload
<1>6. RetryCountIsAttempt'
  BY <1>2, <1>3 DEF IInv, RetryCountIsAttempt, CommitUpload, TypeOK
<1>7. CarrierInv'
  BY <1>1, <1>2, <1>3 DEF IInv, CarrierInv, CommitUpload, TypeOK
<1>8. IndexInv'
  BY DEF IInv, IndexInv, ServedVersionIsIndexed, CommitUpload
<1>9. CorruptInv'
  BY <1>1, <1>3 DEF IInv, CorruptInv, CorruptNeverServed, CommitUpload, TypeOK
<1>10. QED
  BY <1>4, <1>5, <1>6, <1>7, <1>8, <1>9 DEF IInv

LEMMA UnchangedInv == ASSUME IInv, UNCHANGED vars PROVE IInv'
BY DEF IInv, TypeOK, SlotInv, RetryCountIsAttempt, CarrierInv, IndexInv,
       ServedVersionIsIndexed, CorruptInv, CorruptNeverServed, vars

\* Steps of a handler that touch no row, message or task.
LEMMA HandlerInv ==
    ASSUME IInv, NEW r \in Requests,
           (\E c \in Contents : CheckUpload(r, c)) \/ AbortUpload(r)
    PROVE  IInv'
<1>1. /\ UNCHANGED <<postgres, unpublished, queue, pc, task, point>>
      /\ upload' \in [Requests -> Contents \cup {None}]
  BY DEF IInv, TypeOK, CheckUpload, AbortUpload
<1>2. TypeOK'
  BY <1>1 DEF IInv, TypeOK, postgres
<1>3. SlotInv' /\ RetryCountIsAttempt' /\ CarrierInv' /\ IndexInv' /\ CorruptInv'
  BY <1>1 DEF IInv, SlotInv, RetryCountIsAttempt, CarrierInv, IndexInv,
              ServedVersionIsIndexed, CorruptInv, CorruptNeverServed, postgres
<1>4. QED
  BY <1>2, <1>3 DEF IInv

\* A job passes from its handler to a message, or to nobody.
LEMMA PublishInv ==
    ASSUME IInv, NEW v \in Versions, PublishJob(v) \/ LosePublish(v)
    PROVE  IInv'
<1>1. /\ v \in unpublished
      /\ UNCHANGED <<postgres, upload, pc, task, point>>
      /\ unpublished' = unpublished \ {v}
      /\ queue' \in {queue, queue \cup {[version |-> v, attempt |-> 0]}}
  BY DEF PublishJob, LosePublish
<1>2. TypeOK'
  BY <1>1, RetryAssumption DEF IInv, TypeOK, postgres, Messages, Attempts
<1>3. SlotInv' /\ IndexInv' /\ CorruptInv'
  BY <1>1 DEF IInv, SlotInv, IndexInv, ServedVersionIsIndexed, CorruptInv,
              CorruptNeverServed, postgres
<1>4. /\ content[v] # None /\ job[v].retry_count = 0
      /\ \A m \in queue : m.version # v
      /\ \A s \in Slots : pc[s] # "idle" => task[s].version # v
  BY <1>1 DEF IInv, CarrierInv
<1>5. RetryCountIsAttempt'
  BY <1>1, <1>4 DEF IInv, RetryCountIsAttempt, postgres
<1>6. CarrierInv'
  BY <1>1, <1>4 DEF IInv, CarrierInv, postgres
<1>7. QED
  BY <1>2, <1>3, <1>5, <1>6 DEF IInv

\* A job passes from a message to a task.
LEMMA StartTaskInv ==
    ASSUME IInv, NEW s \in Slots, NEW m \in queue, StartTask(s, m)
    PROVE  IInv'
<1>1. /\ m \in Messages
      /\ m.version \in Versions /\ m.attempt \in Attempts
      /\ pc[s] = "idle"
  BY DEF IInv, TypeOK, Messages, StartTask
<1>2. PICK t : /\ t = [version |-> m.version, attempt |-> m.attempt,
                       document |-> document, is_current |-> is_current[m.version]]
               /\ task' = [task EXCEPT ![s] = t]
  BY DEF StartTask
<1>3. t \in Tasks /\ t.version = m.version /\ t.attempt = m.attempt
  BY <1>1, <1>2 DEF IInv, TypeOK, Tasks
<1>4. /\ task'[s] = t /\ pc'[s] = "parsing"
      /\ \A q \in Slots \ {s} : task'[q] = task[q] /\ pc'[q] = pc[q]
  BY <1>2 DEF IInv, TypeOK, StartTask
<1>5. /\ queue' = queue \ {m}
      /\ job' = [job EXCEPT ![m.version].status = "parsing"]
      /\ UNCHANGED <<document, content, is_current, upload, unpublished, point>>
  BY DEF StartTask, Acknowledge
<1>6. \A v \in Versions : job'[v].retry_count = job[v].retry_count
  BY <1>5 DEF IInv, TypeOK, JobRows
<1>7. TypeOK'
  <2>1. job' \in [Versions -> JobRows]
    BY <1>1, <1>5 DEF IInv, TypeOK, JobRows, JobStatuses, Stages
  <2>2. pc' \in [Slots -> PCs] /\ task' \in [Slots -> Tasks \cup {None}]
    BY <1>2, <1>3 DEF IInv, TypeOK, StartTask, PCs, Stages
  <2>3. QED
    BY <1>5, <2>1, <2>2 DEF IInv, TypeOK
<1>8. SlotInv'
  BY <1>3, <1>4 DEF IInv, SlotInv
<1>9. RetryCountIsAttempt'
  BY <1>1, <1>3, <1>4, <1>5, <1>6 DEF IInv, RetryCountIsAttempt, TypeOK, SlotInv, Tasks, Messages
<1>10. CarrierInv'
  BY <1>1, <1>3, <1>4, <1>5, <1>6 DEF IInv, CarrierInv, TypeOK
<1>11. IndexInv' /\ CorruptInv'
  BY <1>4, <1>5 DEF IInv, IndexInv, ServedVersionIsIndexed, CorruptInv, CorruptNeverServed
<1>12. QED
  BY <1>7, <1>8, <1>9, <1>10, <1>11 DEF IInv

\* An attempt that writes nothing ends with its message.
LEMMA FailStartInv ==
    ASSUME IInv, NEW s \in Slots, NEW m \in queue, FailStart(s, m)
    PROVE  IInv'
<1>1. /\ queue' = queue \ {m}
      /\ UNCHANGED <<document, content, is_current, job, upload, unpublished, pc, task, point>>
  BY DEF FailStart, Acknowledge, postgres
<1>2. TypeOK'
  BY <1>1 DEF IInv, TypeOK
<1>3. SlotInv' /\ RetryCountIsAttempt' /\ CarrierInv' /\ IndexInv' /\ CorruptInv'
  BY <1>1 DEF IInv, SlotInv, RetryCountIsAttempt, CarrierInv, IndexInv,
              ServedVersionIsIndexed, CorruptInv, CorruptNeverServed
<1>4. QED
  BY <1>2, <1>3 DEF IInv

\* A task that goes on to its next step keeps its job to itself. What the
\* step does to the index and to the served version is left to the lemmas
\* that use this one.
LEMMA TaskGoesOn ==
    ASSUME IInv, NEW s \in Slots, pc[s] # "idle",
           pc'[s] \in PCs \ {"idle"}, pc' = [pc EXCEPT ![s] = pc'[s]],
           job' \in [Versions -> JobRows],
           \A v \in Versions : job'[v].retry_count = job[v].retry_count,
           UNCHANGED <<content, upload, unpublished, queue, task>>
    PROVE  /\ SlotInv' /\ RetryCountIsAttempt' /\ CarrierInv'
           /\ pc' \in [Slots -> PCs]
           /\ task[s].version \in Versions
<1>1. \A q \in Slots : pc'[q] # "idle" <=> pc[q] # "idle"
  BY DEF IInv, TypeOK
<1>2. SlotInv' /\ pc' \in [Slots -> PCs]
  BY <1>1 DEF IInv, TypeOK, SlotInv
<1>3. task[s].version \in Versions
  BY BusySlot DEF IInv
<1>4. RetryCountIsAttempt'
  <2>1. \A m \in queue : m.version \in Versions
    BY DEF IInv, TypeOK, Messages
  <2>2. \A q \in Slots : pc[q] # "idle" => task[q].version \in Versions
    BY BusySlot DEF IInv
  <2>3. QED
    BY <1>1, <2>1, <2>2 DEF IInv, RetryCountIsAttempt
<1>5. CarrierInv'
  BY <1>1 DEF IInv, TypeOK, CarrierInv
<1>6. QED
  BY <1>2, <1>3, <1>4, <1>5

LEMMA AdvanceStageInv ==
    ASSUME IInv, NEW s \in Slots, AdvanceStage(s)
    PROVE  IInv'
<1>1. /\ pc[s] \in {"parsing", "chunking", "embedding"}
      /\ pc' = [pc EXCEPT ![s] = NextStage[pc[s]]]
      /\ job' = [job EXCEPT ![task[s].version].status = NextStage[pc[s]]]
      /\ UNCHANGED <<document, content, is_current, upload, unpublished,
                     queue, task, point>>
  BY DEF AdvanceStage, NextStage
<1>2. pc'[s] \in {"chunking", "embedding", "indexing"} /\ pc'[s] = NextStage[pc[s]]
  BY <1>1 DEF IInv, TypeOK, NextStage
<1>3. \A q \in Slots \ {s} : pc'[q] = pc[q]
  BY <1>1 DEF IInv, TypeOK
<1>4. /\ job' \in [Versions -> JobRows]
      /\ \A v \in Versions : job'[v].retry_count = job[v].retry_count
  BY <1>1, <1>2, BusySlot DEF IInv, TypeOK, JobRows, JobStatuses, Stages
<1>5. /\ SlotInv' /\ RetryCountIsAttempt' /\ CarrierInv'
      /\ pc' \in [Slots -> PCs]
  BY <1>1, <1>2, <1>4, TaskGoesOn DEF PCs, Stages
<1>6. TypeOK'
  BY <1>1, <1>4, <1>5 DEF IInv, TypeOK
<1>7. IndexInv'
  BY <1>1, <1>2, <1>3 DEF IInv, IndexInv, ServedVersionIsIndexed
<1>8. CorruptInv'
  <2>1. content[task[s].version] \notin Corrupt
    BY <1>1 DEF IInv, CorruptInv, AdvanceStage, Parseable
  <2>2. QED
    BY <2>1, <1>1, <1>3 DEF IInv, CorruptInv, CorruptNeverServed
<1>9. QED
  BY <1>5, <1>6, <1>7, <1>8 DEF IInv

\* Neither write to Qdrant takes the points of any version away.
LEMMA QdrantWriteInv ==
    ASSUME IInv, NEW s \in Slots, UpsertPoints(s) \/ SupersedePoints(s)
    PROVE  /\ IInv'
           /\ \A v \in Versions : point[v] # "absent" => point'[v] # "absent"
<1>1. /\ pc[s] \in {"indexing", "upserted"}
      /\ pc' = [pc EXCEPT ![s] = pc'[s]] /\ pc'[s] \in {"upserted", "superseded"}
      /\ UNCHANGED <<postgres, upload, unpublished, queue, task>>
  BY DEF IInv, TypeOK, UpsertPoints, SupersedePoints
<1>2. \A q \in Slots \ {s} : pc'[q] = pc[q]
  BY <1>1 DEF IInv, TypeOK
<1>3. task[s] \in Tasks /\ task[s].version \in Versions
  BY <1>1, BusySlot DEF IInv
<1>4. /\ SlotInv' /\ RetryCountIsAttempt' /\ CarrierInv'
      /\ pc' \in [Slots -> PCs]
  <2>1. job' \in [Versions -> JobRows] /\ job' = job
    BY <1>1 DEF IInv, TypeOK, postgres
  <2>2. pc[s] # "idle" /\ pc'[s] \in PCs \ {"idle"}
    BY <1>1 DEF PCs
  <2>3. UNCHANGED <<content, upload, unpublished, queue, task>>
    BY <1>1 DEF postgres
  <2>4. QED
    BY <1>1, <2>1, <2>2, <2>3, TaskGoesOn
<1>5. /\ point' \in [Versions -> {"absent", "current", "superseded"}]
      /\ \A v \in Versions : point[v] # "absent" => point'[v] # "absent"
      /\ point'[task[s].version] # "absent"
  <2>1. CASE UpsertPoints(s)
    BY <2>1, <1>3 DEF IInv, TypeOK, UpsertPoints
  <2>2. CASE SupersedePoints(s)
    <3>1. point[task[s].version] # "absent"
      BY <2>2 DEF IInv, IndexInv, SupersedePoints
    <3>2. point' \in [Versions -> {"absent", "current", "superseded"}]
      BY <2>2 DEF IInv, TypeOK, SupersedePoints, Superseded
    <3>3. \A v \in Versions : point[v] # "absent" => point'[v] # "absent"
      BY <2>2 DEF IInv, TypeOK, SupersedePoints, Superseded
    <3>4. QED
      BY <1>3, <3>1, <3>2, <3>3
  <2>3. QED
    BY <2>1, <2>2
<1>6. TypeOK'
  BY <1>1, <1>4, <1>5 DEF IInv, TypeOK, postgres
<1>7. IndexInv'
  <2>1. \A q \in Slots : pc[q] # "idle" => task[q].version \in Versions
    BY BusySlot DEF IInv
  <2>2. document.current_version_id \in Versions \cup {None}
    BY DEF IInv, TypeOK, DocumentRows
  <2>3. QED
    BY <1>1, <1>2, <1>3, <1>5, <2>1, <2>2
    DEF IInv, IndexInv, ServedVersionIsIndexed, postgres
<1>8. CorruptInv'
  BY <1>1, <1>2 DEF IInv, CorruptInv, CorruptNeverServed, postgres
<1>9. QED
  BY <1>4, <1>5, <1>6, <1>7, <1>8 DEF IInv

\* The commit serves the version of the task or, when the task saw it served
\* already, leaves the document as other tasks have made it.
LEMMA CommitReadyInv ==
    ASSUME IInv, NEW s \in Slots, CommitReady(s)
    PROVE  /\ IInv'
           /\ document'.current_version_id
                 \in {task[s].version, document.current_version_id}
<1>. DEFINE v == task[s].version
<1>1. /\ pc[s] \in {"upserted", "superseded"}
      /\ document' = ReadyRow(s)
      /\ is_current' = ReadyFlags(s)
      /\ job' = [job EXCEPT ![v].status = "ready"]
      /\ pc' = [pc EXCEPT ![s] = "committed"]
      /\ UNCHANGED <<content, upload, unpublished, queue, task, point>>
  BY DEF CommitReady, IndexWritten
<1>2. /\ pc'[s] = "committed"
      /\ \A q \in Slots \ {s} : pc'[q] = pc[q]
  BY <1>1 DEF IInv, TypeOK
<1>3. task[s] \in Tasks /\ v \in Versions /\ v # None
  BY <1>1, BusySlot, VersionAssumption DEF IInv
<1>4. content[v] # None /\ content[v] \in Contents
  BY <1>1, <1>3 DEF IInv, CarrierInv, TypeOK
<1>5. /\ document' \in DocumentRows
      /\ document'.current_version_id \in {v, document.current_version_id}
  <2>1. /\ document'.current_version_id \in {v, document.current_version_id}
        /\ document'.content_hash_current \in
              {content[v], document.content_hash_current}
        /\ document'.status \in {"ready", document.status}
        /\ document' = [current_version_id |-> document'.current_version_id,
                        content_hash_current |-> document'.content_hash_current,
                        status |-> document'.status]
    BY <1>1, FlushOneOf DEF ReadyRow
  <2>2. QED
    BY <1>3, <1>4, <2>1 DEF IInv, TypeOK, DocumentRows
<1>6. is_current' \in [Versions -> BOOLEAN]
  <2>1. \A u \in Versions : Flush(task[s].is_current, TRUE, is_current[u]) \in BOOLEAN
    BY <1>3 DEF IInv, TypeOK, Flush
  <2>2. QED
    BY <1>1, <2>1 DEF IInv, TypeOK, ReadyFlags
<1>7. /\ job' \in [Versions -> JobRows]
      /\ \A u \in Versions : job'[u].retry_count = job[u].retry_count
  BY <1>1, <1>3 DEF IInv, TypeOK, JobRows, JobStatuses
<1>8. /\ SlotInv' /\ RetryCountIsAttempt' /\ CarrierInv'
      /\ pc' \in [Slots -> PCs]
  BY <1>1, <1>2, <1>7, TaskGoesOn DEF PCs
<1>9. TypeOK'
  BY <1>1, <1>5, <1>6, <1>7, <1>8 DEF IInv, TypeOK
<1>10. IndexInv'
  BY <1>1, <1>2, <1>5 DEF IInv, IndexInv, ServedVersionIsIndexed
<1>11. CorruptInv'
  BY <1>1, <1>2, <1>4, <1>5 DEF IInv, CorruptInv, CorruptNeverServed
<1>12. QED
  BY <1>5, <1>8, <1>9, <1>10, <1>11 DEF IInv

\* A task ends and its job passes to the message of its retry, or to nobody.
LEMMA TaskEndsInv ==
    ASSUME IInv, NEW s \in Slots, FinishTask(s) \/ FailTask(s) \/ CrashTask(s)
    PROVE  IInv'
<1>. DEFINE v == task[s].version
            a == task[s].attempt
<1>1. /\ pc[s] # "idle"
      /\ pc' = [pc EXCEPT ![s] = "idle"] /\ task' = [task EXCEPT ![s] = None]
      /\ UNCHANGED <<document, content, is_current, upload, unpublished, point>>
  BY DEF FinishTask, FailTask, CrashTask, Release, postgres
<1>2. /\ pc'[s] = "idle"
      /\ \A q \in Slots \ {s} : pc'[q] = pc[q] /\ task'[q] = task[q]
  BY <1>1 DEF IInv, TypeOK
<1>3. v \in Versions /\ a \in Attempts
  BY <1>1, BusySlot DEF IInv
<1>4. /\ job[v].retry_count = a
      /\ content[v] # None /\ v \notin unpublished
      /\ \A m \in queue : m.version # v
      /\ \A q \in Slots \ {s} : pc[q] # "idle" => task[q].version # v
  BY <1>1 DEF IInv, RetryCountIsAttempt, CarrierInv
<1>5. \/ queue' = queue /\ job' = job
      \/ /\ queue' \in {queue, queue \cup Retries(task[s])}
         /\ job' = [job EXCEPT ![v] = [status |-> "failed",
                                       retry_count |-> @.retry_count + 1]]
  BY DEF FinishTask, FailTask, CrashTask, postgres
<1>6. SlotInv' /\ IndexInv' /\ CorruptInv'
  BY <1>1, <1>2 DEF IInv, SlotInv, IndexInv, ServedVersionIsIndexed,
                    CorruptInv, CorruptNeverServed
<1>7. pc' \in [Slots -> PCs] /\ task' \in [Slots -> Tasks \cup {None}]
  BY <1>1 DEF IInv, TypeOK, PCs
<1>8. CASE queue' = queue /\ job' = job
  <2>1. TypeOK'
    BY <1>1, <1>7, <1>8 DEF IInv, TypeOK
  <2>2. RetryCountIsAttempt' /\ CarrierInv'
    BY <1>1, <1>2, <1>8 DEF IInv, RetryCountIsAttempt, CarrierInv
  <2>3. QED
    BY <1>6, <2>1, <2>2 DEF IInv
<1>9. CASE /\ queue' \in {queue, queue \cup Retries(task[s])}
           /\ job' = [job EXCEPT ![v] = [status |-> "failed",
                                         retry_count |-> @.retry_count + 1]]
  <2>1. job'[v].retry_count = a + 1
    BY <1>3, <1>4, <1>9 DEF IInv, TypeOK
  <2>2. \A u \in Versions \ {v} : job'[u] = job[u]
    BY <1>9 DEF IInv, TypeOK
  <2>3. Retries(task[s]) \subseteq Messages
    BY <1>3, RetryAssumption DEF Retries, Messages, Attempts
  <2>4. \A m \in Retries(task[s]) : m.version = v /\ m.attempt = a + 1
    BY DEF Retries
  <2>5. \A m, n \in Retries(task[s]) : m = n
    BY DEF Retries
  <2>6. job' \in [Versions -> JobRows]
    BY <1>3, <1>4, <1>9, RetryAssumption
    DEF IInv, TypeOK, JobRows, JobStatuses, Attempts
  <2>7. TypeOK'
    BY <1>1, <1>7, <1>9, <2>3, <2>6 DEF IInv, TypeOK
  <2>8. \A m \in queue : m.version \in Versions
    BY DEF IInv, TypeOK, Messages
  <2>9. \A q \in Slots : pc[q] # "idle" => task[q].version \in Versions
    BY BusySlot DEF IInv
  <2>10. RetryCountIsAttempt'
    BY <1>2, <1>4, <1>9, <2>1, <2>2, <2>4, <2>5, <2>8, <2>9
    DEF IInv, RetryCountIsAttempt
  <2>11. CarrierInv'
    BY <1>1, <1>2, <1>4, <1>9, <2>2, <2>4 DEF IInv, CarrierInv, TypeOK
  <2>12. QED
    BY <1>6, <2>7, <2>10, <2>11 DEF IInv
<1>10. QED
  BY <1>5, <1>8, <1>9

LEMMA StepInv == IInv /\ [Next]_vars => IInv'
<1>1. ASSUME IInv, UploadStep PROVE IInv'
  <2>1. ASSUME NEW r \in Requests, NEW c \in Contents, AnswerUnchanged(r, c)
        PROVE  IInv'
    BY <1>1, <2>1, UnchangedInv DEF AnswerUnchanged
  <2>2. QED
    BY <1>1, <2>1, HandlerInv, CommitUploadInv, PublishInv DEF UploadStep
<1>2. ASSUME IInv, WorkerStep PROVE IInv'
  BY <1>2, StartTaskInv, FailStartInv, AdvanceStageInv, QdrantWriteInv, CommitReadyInv,
     TaskEndsInv
  DEF WorkerStep, TaskStep
<1>3. ASSUME IInv, UNCHANGED vars PROVE IInv'
  BY <1>3, UnchangedInv
<1>4. QED
  BY <1>1, <1>2, <1>3 DEF Next

LEMMA InvariantHolds == Spec => []IInv
BY InitInv, StepInv, PTL DEF Spec

-----------------------------------------------------------------------------

\* Type correctness. That retry_count stays within its range is not a matter
\* of types: it needs the correspondence of attempts and failures.
THEOREM TypeCorrect == Spec => []TypeOK
<1>1. IInv => TypeOK
  BY DEF IInv
<1>2. QED
  BY <1>1, InvariantHolds, PTL

\* A document never serves a version whose points are not in Qdrant, however
\* many jobs of it run at once and wherever they fail or crash.
THEOREM ServedIsIndexed == Spec => []ServedVersionIsIndexed
<1>1. IInv => ServedVersionIsIndexed
  BY DEF IInv, IndexInv
<1>2. QED
  BY <1>1, InvariantHolds, PTL

\* A job has one attempt at a time, and the API's retry_count is its number.
THEOREM AttemptsAreCounted == Spec => []RetryCountIsAttempt
<1>1. IInv => RetryCountIsAttempt
  BY DEF IInv
<1>2. QED
  BY <1>1, InvariantHolds, PTL

\* Content without text is never served.
THEOREM CorruptStaysUnserved == Spec => []CorruptNeverServed
<1>1. IInv => CorruptNeverServed
  BY DEF IInv, CorruptInv
<1>2. QED
  BY <1>1, InvariantHolds, PTL

-----------------------------------------------------------------------------

Searchable == {v \in Versions : point[v] # "absent"}

\* What a worker step does to the searchable versions and the served one is a
\* step of Catalog.
LEMMA WorkerStepRefines ==
    ASSUME IInv, WorkerStep
    PROVE  [ImplementedCatalog!Next]_(ImplementedCatalog!vars)
<1>1. content' = content
  BY DEF WorkerStep, TaskStep, StartTask, FailStart, AdvanceStage, UpsertPoints,
         SupersedePoints, CommitReady, FinishTask, FailTask, CrashTask, postgres
<1>2. Uploaded' = Uploaded
  BY <1>1 DEF Uploaded
<1>3. CASE \E s \in Slots : UpsertPoints(s)
  <2>1. PICK s \in Slots : UpsertPoints(s)
    BY <1>3
  <2>. PICK v \in Versions : v = task[s].version
    BY <2>1, BusySlot DEF UpsertPoints, IInv
  <2>2. v \in Uploaded
    BY <2>1 DEF UpsertPoints, IInv, CarrierInv, Uploaded
  <2>3. Searchable' = Searchable \cup {v}
    BY <2>1, <2>2 DEF UpsertPoints, Searchable, IInv, TypeOK
  <2>4. document' = document
    BY <2>1 DEF UpsertPoints, postgres
  <2>5. ImplementedCatalog!Index(v)
    BY <1>2, <2>2, <2>3, <2>4 DEF ImplementedCatalog!Index, Searchable
  <2>6. QED
    BY <2>2, <2>5 DEF ImplementedCatalog!Next
<1>4. CASE \E s \in Slots : CommitReady(s)
  <2>1. PICK s \in Slots : CommitReady(s)
    BY <1>4
  <2>. PICK v \in Versions : v = task[s].version
    BY <2>1, BusySlot DEF CommitReady, IndexWritten, IInv
  <2>2. v \in Searchable
    BY <2>1 DEF CommitReady, IndexWritten, IInv, IndexInv, Searchable
  <2>3. Searchable' = Searchable
    BY <2>1 DEF CommitReady, Searchable
  <2>4. document'.current_version_id \in {v, document.current_version_id}
    BY <2>1, CommitReadyInv
  <2>5. CASE document'.current_version_id = v
    <3>1. ImplementedCatalog!Serve(v)
      BY <1>2, <2>2, <2>3, <2>5 DEF ImplementedCatalog!Serve, Searchable
    <3>2. QED
      BY <2>2, <3>1 DEF ImplementedCatalog!Next
  <2>6. CASE document'.current_version_id = document.current_version_id
    BY <1>2, <2>3, <2>6 DEF ImplementedCatalog!vars, Searchable
  <2>7. QED
    BY <2>4, <2>5, <2>6
<1>5. CASE \E s \in Slots : SupersedePoints(s)
  <2>1. PICK s \in Slots : SupersedePoints(s)
    BY <1>5
  <2>2. \A v \in Versions : point'[v] = "absent" <=> point[v] = "absent"
    BY <2>1 DEF SupersedePoints, Superseded, IInv, TypeOK
  <2>3. Searchable' = Searchable
    BY <2>2 DEF Searchable
  <2>4. document' = document
    BY <2>1 DEF SupersedePoints, postgres
  <2>5. QED
    BY <1>2, <2>3, <2>4 DEF ImplementedCatalog!vars, Searchable
<1>6. CASE UNCHANGED <<document, point>>
  <2>1. Searchable' = Searchable
    BY <1>6 DEF Searchable
  <2>2. QED
    BY <1>2, <1>6, <2>1 DEF ImplementedCatalog!vars, Searchable
<1>7. QED
  BY <1>3, <1>4, <1>5, <1>6
  DEF WorkerStep, TaskStep, StartTask, FailStart, AdvanceStage, FinishTask, FailTask,
      CrashTask, postgres

LEMMA UploadStepRefines ==
    ASSUME IInv, UploadStep
    PROVE  [ImplementedCatalog!Next]_(ImplementedCatalog!vars)
<1>1. UNCHANGED <<document, point>>
  BY DEF UploadStep, AnswerUnchanged, CheckUpload, CommitUpload, AbortUpload,
         PublishJob, LosePublish, postgres, vars
<1>2. Searchable' = Searchable
  BY <1>1 DEF Searchable
<1>3. CASE \E r \in Requests, v \in Versions : CommitUpload(r, v)
  <2>1. PICK r \in Requests, v \in Versions : CommitUpload(r, v)
    BY <1>3
  <2>2. Uploaded' = Uploaded \cup {v}
    BY <2>1 DEF CommitUpload, Uploaded, IInv, TypeOK
  <2>3. ImplementedCatalog!Upload(v)
    BY <1>1, <1>2, <2>1, <2>2
    DEF ImplementedCatalog!Upload, CommitUpload, Searchable
  <2>4. QED
    BY <2>3 DEF ImplementedCatalog!Next
<1>4. CASE content' = content
  <2>1. Uploaded' = Uploaded
    BY <1>4 DEF Uploaded
  <2>2. QED
    BY <1>1, <1>2, <2>1 DEF ImplementedCatalog!vars, Searchable
<1>5. QED
  BY <1>3, <1>4
  DEF UploadStep, AnswerUnchanged, CheckUpload, AbortUpload, PublishJob,
      LosePublish, postgres, vars

LEMMA CatalogStep == IInv /\ [Next]_vars => [ImplementedCatalog!Next]_(ImplementedCatalog!vars)
<1>1. ASSUME UNCHANGED vars PROVE UNCHANGED ImplementedCatalog!vars
  BY <1>1 DEF vars, ImplementedCatalog!vars, Uploaded
<1>2. QED
  BY <1>1, WorkerStepRefines, UploadStepRefines DEF Next

\* The document its readers see behaves like Catalog: it serves only versions
\* that are completely in Qdrant, and every change of current_version_id is
\* from one of them to another.
THEOREM ImplementsCatalog == Spec => CatalogSpec
<1>1. Init => ImplementedCatalog!Init
  <2>1. SUFFICES ASSUME Init PROVE ImplementedCatalog!Init
    OBVIOUS
  <2>2. 1 \in Versions
    BY VersionAssumption DEF Versions
  <2>3. Uploaded = {1}
    BY <2>1, <2>2, ContentAssumption DEF Init, Uploaded
  <2>4. Searchable = {}
    BY <2>1 DEF Init, Searchable
  <2>5. QED
    BY <2>1, <2>3, <2>4 DEF Init, ImplementedCatalog!Init, Searchable
<1>2. QED
  BY <1>1, CatalogStep, InvariantHolds, PTL DEF Spec, CatalogSpec, ImplementedCatalog!Spec

\* What Catalog gives the readers: no step takes a version out of the search
\* for good, and a document that serves a version never goes back to none.
ReadersKeepTheirs ==
    /\ \A v \in Versions : point[v] # "absent" => point'[v] # "absent"
    /\ document.current_version_id # None => document'.current_version_id # None

THEOREM ReadersLoseNothing == Spec => [][ReadersKeepTheirs]_vars
<1>1. ASSUME IInv, [Next]_vars PROVE ReadersKeepTheirs
  <2>1. [ImplementedCatalog!Next]_(ImplementedCatalog!vars)
    BY <1>1, CatalogStep
  <2>2. Searchable \subseteq Searchable'
        /\ (document.current_version_id # None => document'.current_version_id # None)
    <3>1. CASE UNCHANGED ImplementedCatalog!vars
      BY <3>1 DEF ImplementedCatalog!vars, Searchable
    <3>2. ASSUME NEW v \in Versions,
                 \/ ImplementedCatalog!Upload(v)
                 \/ ImplementedCatalog!Index(v)
                 \/ ImplementedCatalog!Serve(v)
          PROVE  /\ Searchable \subseteq Searchable'
                 /\ document.current_version_id # None => document'.current_version_id # None
      BY <3>2, VersionAssumption
      DEF ImplementedCatalog!Upload, ImplementedCatalog!Index, ImplementedCatalog!Serve,
          Searchable
    <3>3. QED
      BY <2>1, <3>1, <3>2 DEF ImplementedCatalog!Next
  <2>3. QED
    BY <2>2 DEF ReadersKeepTheirs, Searchable
<1>2. IInv /\ [Next]_vars => [ReadersKeepTheirs]_vars
  BY <1>1
<1>3. QED
  BY <1>2, InvariantHolds, PTL DEF Spec

-----------------------------------------------------------------------------
(* The jobs as GET /jobs shows them                                        *)

\* Needed for the contract only: what the job row says while its job is with
\* a task, a message or the upload, and that a version without a row has none.
StatusInv ==
    /\ \A s \in Slots :
          /\ pc[s] \in Stages => job[task[s].version].status = pc[s]
          /\ pc[s] \in {"upserted", "superseded"} =>
                job[task[s].version].status = "indexing"
          /\ pc[s] = "committed" => job[task[s].version].status = "ready"
    /\ \A m \in queue : job[m.version].status \in {"queued", "failed"}
    /\ \A v \in unpublished : job[v].status = "queued"
    /\ \A v \in Versions :
          /\ content[v] = None => job[v] = [status |-> "absent", retry_count |-> 0]
          /\ content[v] # None => job[v].status # "absent"

\* Both results of a step: the invariant, and a step of the contract.
JobsKept == StatusInv' /\ [JobContract!Next]_(JobContract!vars)

LEMMA ContractVars ==
    /\ JobContract!vars = <<Shown, Counted, Carried>>
    /\ JobContract!vars' = <<Shown', Counted', Carried'>>
BY DEF JobContract!vars

LEMMA InitStatus == Init => StatusInv /\ JobContract!Init
<1>1. SUFFICES ASSUME Init PROVE StatusInv /\ JobContract!Init
  OBVIOUS
<1>2. 1 \in Versions
  BY VersionAssumption DEF Versions
<1>3. /\ \A v \in Versions : job[v].status = IF v = 1 THEN "queued" ELSE "absent"
      /\ \A v \in Versions : job[v].retry_count = 0
      /\ \A v \in Versions :
            /\ content[v] = None => job[v] = [status |-> "absent", retry_count |-> 0]
            /\ content[v] # None => job[v].status # "absent"
      /\ unpublished = {1} /\ queue = {} /\ \A s \in Slots : pc[s] = "idle"
  BY <1>1, ContentAssumption DEF Init
<1>4. StatusInv
  BY <1>2, <1>3 DEF StatusInv, Stages
<1>5. Shown \in [Versions -> {"absent", "queued"}]
  BY <1>3 DEF Shown
<1>6. Counted = [v \in Versions |-> 0]
  BY <1>3 DEF Counted
<1>7. Carried = {v \in Versions : Shown[v] = "queued"}
  BY <1>3 DEF Carried, InFlight, Shown
<1>8. QED
  BY <1>4, <1>5, <1>6, <1>7 DEF JobContract!Init

\* A step that touches neither job rows nor their carriers.
LEMMA JobsUnseen ==
    ASSUME IInv, StatusInv, UNCHANGED <<job, content, unpublished, queue, pc, task>>
    PROVE  JobsKept
<1>1. StatusInv'
  BY DEF StatusInv
<1>2. Shown' = Shown /\ Counted' = Counted /\ Carried' = Carried
  BY DEF Shown, Counted, Carried, InFlight
<1>3. QED
  BY <1>1, <1>2, ContractVars DEF JobsKept

\* The row of a new version is the row of a new job, carried by its upload.
LEMMA CommitUploadJobs ==
    ASSUME IInv, StatusInv, NEW r \in Requests, NEW v \in Versions, CommitUpload(r, v)
    PROVE  JobsKept
<1>1. /\ content[v] = None
      /\ content' = [content EXCEPT ![v] = upload[r]]
      /\ job' = [job EXCEPT ![v] = [status |-> "queued", retry_count |-> 0]]
      /\ unpublished' = unpublished \cup {v}
      /\ UNCHANGED <<queue, pc, task>>
      /\ upload[r] # None
  BY DEF CommitUpload, Uploaded
<1>2. /\ job'[v] = [status |-> "queued", retry_count |-> 0]
      /\ \A u \in Versions \ {v} : job'[u] = job[u] /\ content'[u] = content[u]
      /\ content'[v] # None
  BY <1>1 DEF IInv, TypeOK
<1>3. /\ v \notin unpublished /\ \A m \in queue : m.version # v /\ m.version \in Versions
      /\ \A s \in Slots : pc[s] # "idle" => task[s].version # v /\ task[s].version \in Versions
  BY <1>1, BusySlot DEF IInv, CarrierInv, TypeOK, Messages
<1>4. StatusInv'
  BY <1>1, <1>2, <1>3 DEF StatusInv, IInv, TypeOK, Stages
<1>5. job[v] = [status |-> "absent", retry_count |-> 0]
  BY <1>1 DEF StatusInv
<1>6. Shown[v] = "absent" /\ Shown' = [Shown EXCEPT ![v] = "queued"]
  <2>1. job[v].status = "absent" /\ job'[v].status = "queued"
    BY <1>2, <1>5
  <2>2. QED
    BY <1>2, <2>1 DEF Shown
<1>7. Counted' = Counted
  BY <1>2, <1>5 DEF Counted
<1>8. Carried' = Carried \cup {v}
  BY <1>1 DEF Carried, InFlight
<1>9. JobContract!Create(v)
  BY <1>6, <1>7, <1>8 DEF JobContract!Create
<1>10. QED
  BY <1>4, <1>9 DEF JobsKept, JobContract!Next

\* The contract does not see a job pass from its upload to a message.
LEMMA PublishJobs ==
    ASSUME IInv, StatusInv, NEW v \in Versions, PublishJob(v)
    PROVE  JobsKept
<1>1. /\ v \in unpublished
      /\ unpublished' = unpublished \ {v}
      /\ queue' = queue \cup {[version |-> v, attempt |-> 0]}
      /\ UNCHANGED <<job, content, pc, task>>
  BY DEF PublishJob, postgres
<1>2. StatusInv'
  BY <1>1 DEF StatusInv
<1>3. Shown' = Shown /\ Counted' = Counted
  BY <1>1 DEF Shown, Counted
<1>4. Carried' = Carried
  <2>1. [version |-> v, attempt |-> 0] \in queue' /\ [version |-> v, attempt |-> 0].version = v
    BY <1>1
  <2>2. InFlight(v) /\ InFlight(v)'
    BY <1>1, <2>1 DEF InFlight
  <2>3. \A u \in Versions \ {v} : InFlight(u) <=> InFlight(u)'
    BY <1>1 DEF InFlight
  <2>4. QED
    BY <2>2, <2>3 DEF Carried
<1>5. QED
  BY <1>2, <1>3, <1>4, ContractVars DEF JobsKept

LEMMA LosePublishJobs ==
    ASSUME IInv, StatusInv, NEW v \in Versions, LosePublish(v)
    PROVE  JobsKept
<1>1. /\ v \in unpublished
      /\ unpublished' = unpublished \ {v}
      /\ UNCHANGED <<job, content, queue, pc, task>>
  BY DEF LosePublish, postgres
<1>2. StatusInv'
  BY <1>1 DEF StatusInv
<1>3. Shown' = Shown /\ Counted' = Counted
  BY <1>1 DEF Shown, Counted
<1>4. /\ \A m \in queue : m.version # v
      /\ \A s \in Slots : pc[s] # "idle" => task[s].version # v
  BY <1>1 DEF IInv, CarrierInv
<1>5. v \in Carried /\ Carried' = Carried \ {v}
  BY <1>1, <1>4 DEF Carried, InFlight
<1>6. JobContract!Leave(v)
  BY <1>3, <1>5 DEF JobContract!Leave
<1>7. QED
  BY <1>2, <1>6 DEF JobsKept, JobContract!Next

\* An attempt takes its job from a message.
LEMMA StartTaskJobs ==
    ASSUME IInv, StatusInv, NEW s \in Slots, NEW m \in queue, StartTask(s, m)
    PROVE  JobsKept
<1>1. /\ m.version \in Versions /\ pc[s] = "idle"
      /\ \A n \in queue : n.version \in Versions
  BY DEF IInv, TypeOK, Messages, StartTask
<1>. DEFINE v == m.version
<1>2. /\ task'[s].version = v /\ pc'[s] = "parsing"
      /\ \A q \in Slots \ {s} : task'[q] = task[q] /\ pc'[q] = pc[q]
      /\ queue' = queue \ {m} /\ UNCHANGED <<content, unpublished>>
      /\ job' = [job EXCEPT ![v].status = "parsing"]
  BY DEF IInv, TypeOK, StartTask, Acknowledge
<1>3. /\ job'[v].status = "parsing" /\ job'[v].retry_count = job[v].retry_count
      /\ \A u \in Versions \ {v} : job'[u] = job[u]
  BY <1>1, <1>2 DEF IInv, TypeOK, JobRows
<1>4. /\ content[v] # None /\ v \notin unpublished
      /\ \A n \in queue \ {m} : n.version # v
      /\ \A q \in Slots : pc[q] # "idle" => task[q].version # v /\ task[q].version \in Versions
  BY BusySlot DEF IInv, CarrierInv, RetryCountIsAttempt
<1>5. StatusInv'
  <2>1. ASSUME NEW q \in Slots
        PROVE  /\ pc'[q] \in Stages => job'[task'[q].version].status = pc'[q]
               /\ pc'[q] \in {"upserted", "superseded"} =>
                     job'[task'[q].version].status = "indexing"
               /\ pc'[q] = "committed" => job'[task'[q].version].status = "ready"
    BY <1>2, <1>3, <1>4 DEF StatusInv, Stages
  <2>2. \A n \in queue' : job'[n.version].status \in {"queued", "failed"}
    BY <1>1, <1>2, <1>3, <1>4 DEF StatusInv
  <2>3. \A u \in unpublished' : job'[u].status = "queued"
    BY <1>2, <1>3, <1>4 DEF StatusInv, IInv, TypeOK
  <2>4. \A u \in Versions :
           /\ content'[u] = None => job'[u] = [status |-> "absent", retry_count |-> 0]
           /\ content'[u] # None => job'[u].status # "absent"
    BY <1>2, <1>3, <1>4 DEF StatusInv
  <2>5. QED
    BY <2>1, <2>2, <2>3, <2>4 DEF StatusInv
<1>6. Shown[v] \in {"queued", "failed"} /\ Shown' = [Shown EXCEPT ![v] = "parsing"]
  BY <1>1, <1>3 DEF Shown, StatusInv
<1>7. Counted' = Counted
  BY <1>3 DEF Counted
<1>8. v \in Carried /\ Carried' = Carried
  <2>1. v \in Carried /\ v \in Carried'
    BY <1>1, <1>2 DEF Carried, InFlight
  <2>2. \A u \in Versions \ {v} : InFlight(u) <=> InFlight(u)'
    BY <1>1, <1>2 DEF InFlight
  <2>3. QED
    BY <2>1, <2>2 DEF Carried
<1>9. JobContract!Begin(v)
  BY <1>6, <1>7, <1>8
  DEF JobContract!Begin, JobContract!Waiting
<1>10. QED
  BY <1>1, <1>5, <1>9 DEF JobsKept, JobContract!Next

\* A task goes on without a word in its job row, or with the next status.
LEMMA TaskGoesOnJobs ==
    ASSUME IInv, StatusInv, NEW s \in Slots, NEW p, NEW st \in JobStatuses \ {"absent"},
           pc[s] # "idle", p # "idle", pc' = [pc EXCEPT ![s] = p],
           job' = [job EXCEPT ![task[s].version].status = st],
           UNCHANGED <<content, unpublished, queue, task>>,
           p \in Stages => st = p,
           p \in {"upserted", "superseded"} => st = "indexing",
           p = "committed" => st = "ready"
    PROVE  /\ StatusInv'
           /\ Counted' = Counted /\ Carried' = Carried
           /\ task[s].version \in Carried
           /\ Shown' = [Shown EXCEPT ![task[s].version] = st]
<1>. DEFINE v == task[s].version
<1>1. v \in Versions /\ content[v] # None /\ v \notin unpublished
  BY BusySlot DEF IInv, CarrierInv
<1>2. /\ job'[v].status = st /\ job'[v].retry_count = job[v].retry_count
      /\ \A u \in Versions \ {v} : job'[u] = job[u]
  BY <1>1 DEF IInv, TypeOK, JobRows
<1>3. pc'[s] = p /\ \A q \in Slots \ {s} : pc'[q] = pc[q]
  BY DEF IInv, TypeOK
<1>4. /\ \A m \in queue : m.version # v /\ m.version \in Versions
      /\ \A q \in Slots \ {s} :
            pc[q] # "idle" => task[q].version # v /\ task[q].version \in Versions
  BY BusySlot DEF IInv, RetryCountIsAttempt, TypeOK, Messages
<1>5. StatusInv'
  <2>1. ASSUME NEW q \in Slots
        PROVE  /\ pc'[q] \in Stages => job'[task'[q].version].status = pc'[q]
               /\ pc'[q] \in {"upserted", "superseded"} =>
                     job'[task'[q].version].status = "indexing"
               /\ pc'[q] = "committed" => job'[task'[q].version].status = "ready"
    BY <1>2, <1>3, <1>4 DEF StatusInv, Stages
  <2>2. \A m \in queue' : job'[m.version].status \in {"queued", "failed"}
    BY <1>2, <1>4 DEF StatusInv
  <2>3. \A u \in unpublished' : job'[u].status = "queued"
    BY <1>1, <1>2 DEF StatusInv, IInv, TypeOK
  <2>4. \A u \in Versions :
           /\ content'[u] = None => job'[u] = [status |-> "absent", retry_count |-> 0]
           /\ content'[u] # None => job'[u].status # "absent"
    BY <1>1, <1>2 DEF StatusInv
  <2>5. QED
    BY <2>1, <2>2, <2>3, <2>4 DEF StatusInv
<1>6. Counted' = Counted /\ Shown' = [Shown EXCEPT ![v] = st]
  <2>1. \A u \in Versions : /\ job'[u].retry_count = job[u].retry_count
                            /\ job'[u].status = IF u = v THEN st ELSE job[u].status
    BY <1>2
  <2>2. Counted' = Counted
    BY <2>1 DEF Counted
  <2>3. Shown' = [Shown EXCEPT ![v] = st]
    BY <2>1 DEF Shown
  <2>4. QED
    BY <2>2, <2>3
<1>7. v \in Carried
  BY <1>1 DEF Carried, InFlight
<1>8. Carried' = Carried
  BY <1>3 DEF Carried, InFlight
<1>9. QED
  BY <1>5, <1>6, <1>7, <1>8

LEMMA AdvanceStageJobs ==
    ASSUME IInv, StatusInv, NEW s \in Slots, AdvanceStage(s)
    PROVE  JobsKept
<1>. DEFINE p == NextStage[pc[s]]
<1>1. /\ pc[s] \in {"parsing", "chunking", "embedding"}
      /\ pc' = [pc EXCEPT ![s] = p]
      /\ job' = [job EXCEPT ![task[s].version].status = p]
      /\ UNCHANGED <<content, unpublished, queue, task>>
  BY DEF AdvanceStage, NextStage
<1>2. /\ p \in {"chunking", "embedding", "indexing"} /\ p \in JobStatuses \ {"absent"}
      /\ p = JobContract!Following[pc[s]] /\ pc[s] \in DOMAIN JobContract!Following
  BY <1>1 DEF NextStage, JobStatuses, Stages, JobContract!Following
<1>. PICK v \in Versions : v = task[s].version
  BY <1>1, BusySlot DEF IInv
<1>3. Shown[v] = pc[s]
  BY <1>1 DEF IInv, StatusInv, Stages, Shown
<1>. HIDE DEF p
<1>4. /\ StatusInv' /\ Counted' = Counted /\ Carried' = Carried
      /\ v \in Carried
      /\ Shown' = [Shown EXCEPT ![v] = p]
  BY <1>1, <1>2, TaskGoesOnJobs
<1>5. JobContract!Advance(v)
  BY <1>2, <1>3, <1>4 DEF JobContract!Advance
<1>6. QED
  BY <1>4, <1>5 DEF JobsKept, JobContract!Next

LEMMA QdrantWriteJobs ==
    ASSUME IInv, StatusInv, NEW s \in Slots, UpsertPoints(s) \/ SupersedePoints(s)
    PROVE  JobsKept
<1>1. PICK p \in {"upserted", "superseded"} :
          /\ pc[s] \in {"indexing", "upserted"}
          /\ pc' = [pc EXCEPT ![s] = p]
          /\ UNCHANGED <<job, content, unpublished, queue, task>>
  BY DEF UpsertPoints, SupersedePoints, postgres
<1>2. task[s].version \in Versions /\ job[task[s].version].status = "indexing"
  BY <1>1, BusySlot DEF IInv, StatusInv, Stages
<1>3. job' = [job EXCEPT ![task[s].version].status = "indexing"]
  BY <1>1, <1>2 DEF IInv, TypeOK, JobRows
<1>4. /\ StatusInv' /\ Counted' = Counted /\ Carried' = Carried
      /\ Shown' = [Shown EXCEPT ![task[s].version] = "indexing"]
  BY <1>1, <1>3, TaskGoesOnJobs DEF JobStatuses, Stages
<1>5. Shown' = Shown
  BY <1>1 DEF Shown
<1>6. QED
  BY <1>4, <1>5, ContractVars DEF JobsKept

LEMMA CommitReadyJobs ==
    ASSUME IInv, StatusInv, NEW s \in Slots, CommitReady(s)
    PROVE  JobsKept
<1>1. /\ pc[s] \in {"upserted", "superseded"}
      /\ pc' = [pc EXCEPT ![s] = "committed"]
      /\ job' = [job EXCEPT ![task[s].version].status = "ready"]
      /\ UNCHANGED <<content, unpublished, queue, task>>
  BY DEF CommitReady, IndexWritten
<1>. PICK v \in Versions : v = task[s].version
  BY <1>1, BusySlot DEF IInv
<1>2. Shown[v] = "indexing"
  BY <1>1 DEF IInv, StatusInv, Shown
<1>3. /\ StatusInv' /\ Counted' = Counted /\ Carried' = Carried
      /\ v \in Carried
      /\ Shown' = [Shown EXCEPT ![v] = "ready"]
  BY <1>1, TaskGoesOnJobs DEF JobStatuses, Stages
<1>4. "indexing" \in DOMAIN JobContract!Following /\ JobContract!Following["indexing"] = "ready"
  BY DEF JobContract!Following
<1>5. JobContract!Advance(v)
  BY <1>2, <1>3, <1>4 DEF JobContract!Advance
<1>6. QED
  BY <1>3, <1>5 DEF JobsKept, JobContract!Next

\* An attempt that ends before its first commit lets the job go as it was.
LEMMA FailStartJobs ==
    ASSUME IInv, StatusInv, NEW s \in Slots, NEW m \in queue, FailStart(s, m)
    PROVE  JobsKept
<1>1. /\ queue' = queue \ {m} /\ UNCHANGED <<content, job, unpublished, pc, task>>
      /\ m.version \in Versions
  BY DEF FailStart, Acknowledge, postgres, IInv, TypeOK, Messages
<1>. PICK v \in Versions : v = m.version
  BY <1>1
<1>2. /\ v \notin unpublished /\ \A n \in queue \ {m} : n.version # v
      /\ \A q \in Slots : pc[q] # "idle" => task[q].version # v
  BY DEF IInv, RetryCountIsAttempt, CarrierInv
<1>3. StatusInv'
  BY <1>1 DEF StatusInv
<1>4. Shown' = Shown /\ Counted' = Counted
  BY <1>1 DEF Shown, Counted
<1>5. InFlight(v) /\ ~InFlight(v)' /\ \A u \in Versions \ {v} : InFlight(u) <=> InFlight(u)'
  BY <1>1, <1>2 DEF InFlight
<1>6. v \in Carried /\ Carried' = Carried \ {v}
  BY <1>5 DEF Carried
<1>7. JobContract!Leave(v)
  BY <1>4, <1>6 DEF JobContract!Leave
<1>8. QED
  BY <1>3, <1>7 DEF JobsKept, JobContract!Next

\* The end of a task: with the row as it is, or failed and counted.
LEMMA TaskEndsJobs ==
    ASSUME IInv, StatusInv, NEW s \in Slots,
           FinishTask(s) \/ FailTask(s) \/ CrashTask(s)
    PROVE  JobsKept
<1>. PICK v, a : v = task[s].version /\ a = task[s].attempt
  OBVIOUS
<1>1. /\ pc[s] # "idle" /\ pc[s] \in PCs
      /\ pc'[s] = "idle" /\ \A q \in Slots \ {s} : pc'[q] = pc[q] /\ task'[q] = task[q]
      /\ UNCHANGED <<content, unpublished>>
  BY DEF FinishTask, FailTask, CrashTask, Release, postgres, IInv, TypeOK
<1>2. v \in Versions /\ a \in Attempts /\ job[v].retry_count = a
      /\ content[v] # None /\ v \notin unpublished
  BY <1>1, BusySlot DEF IInv, RetryCountIsAttempt, CarrierInv
<1>3. /\ \A m \in queue : m.version # v /\ m.version \in Versions
      /\ \A q \in Slots \ {s} :
            pc[q] # "idle" => task[q].version # v /\ task[q].version \in Versions
  BY <1>1, BusySlot DEF IInv, RetryCountIsAttempt, TypeOK, Messages
<1>4. v \in Carried
  BY <1>1, <1>2 DEF Carried, InFlight
<1>5. CASE UNCHANGED <<queue, job>>
  <2>1. StatusInv'
    BY <1>1, <1>5 DEF StatusInv, Stages
  <2>2. Shown' = Shown /\ Counted' = Counted
    BY <1>5 DEF Shown, Counted
  <2>3. Carried' = Carried \ {v}
    BY <1>1, <1>2, <1>3, <1>5 DEF Carried, InFlight
  <2>4. JobContract!Leave(v)
    BY <1>4, <2>2, <2>3 DEF JobContract!Leave
  <2>5. QED
    BY <1>2, <2>1, <2>4 DEF JobsKept, JobContract!Next
<1>6. CASE FailTask(s)
  <2>1. /\ job' = [job EXCEPT ![v] = [status |-> "failed", retry_count |-> @.retry_count + 1]]
        /\ queue' \in {queue, queue \cup Retries(task[s])}
    BY <1>6 DEF FailTask
  <2>2. /\ job'[v].status = "failed" /\ job'[v].retry_count = job[v].retry_count + 1
        /\ \A u \in Versions \ {v} : job'[u] = job[u]
    BY <1>2, <2>1 DEF IInv, TypeOK
  <2>3. \A m \in Retries(task[s]) : m.version = v
    BY DEF Retries
  <2>4. StatusInv'
    <3>1. ASSUME NEW q \in Slots
          PROVE  /\ pc'[q] \in Stages => job'[task'[q].version].status = pc'[q]
                 /\ pc'[q] \in {"upserted", "superseded"} =>
                       job'[task'[q].version].status = "indexing"
                 /\ pc'[q] = "committed" => job'[task'[q].version].status = "ready"
      BY <1>1, <1>3, <2>2 DEF StatusInv, Stages
    <3>2. \A m \in queue' : job'[m.version].status \in {"queued", "failed"}
      BY <1>3, <2>1, <2>2, <2>3 DEF StatusInv
    <3>3. \A u \in unpublished' : job'[u].status = "queued"
      BY <1>1, <1>2, <2>2 DEF StatusInv, IInv, TypeOK
    <3>4. \A u \in Versions :
             /\ content'[u] = None => job'[u] = [status |-> "absent", retry_count |-> 0]
             /\ content'[u] # None => job'[u].status # "absent"
      BY <1>1, <1>2, <2>2 DEF StatusInv
    <3>5. QED
      BY <3>1, <3>2, <3>3, <3>4 DEF StatusInv
  <2>5. Shown' = [Shown EXCEPT ![v] = "failed"]
    BY <1>2, <2>2 DEF Shown
  <2>6. Counted[v] = a /\ Counted' = [Counted EXCEPT ![v] = @ + 1]
    BY <1>2, <2>2 DEF Counted
  <2>7. Shown[v] \in {"parsing", "chunking", "embedding", "indexing", "ready"}
    BY <1>1, <1>2 DEF StatusInv, Shown, PCs, Stages
  <2>8. DOMAIN JobContract!Following = {"parsing", "chunking", "embedding", "indexing"}
    BY DEF JobContract!Following
  <2>9. \A u \in Versions \ {v} : InFlight(u) <=> InFlight(u)'
    BY <1>1, <2>1, <2>3 DEF InFlight
  <2>10. InFlight(v)' => \E m \in Retries(task[s]) : m.version = v
    BY <1>1, <1>2, <1>3, <2>1 DEF InFlight
  <2>11. (\E m \in Retries(task[s]) : m.version = v) => a < MaxRetries
    BY DEF Retries
  <2>12. (Counted[v] < MaxRetries /\ Carried' = Carried) \/ Carried' = Carried \ {v}
    <3>1. Carried' = IF InFlight(v)' THEN Carried ELSE Carried \ {v}
      BY <1>2, <1>4, <2>9 DEF Carried
    <3>2. QED
      BY <3>1, <2>6, <2>10, <2>11
  <2>13. JobContract!Fail(v)
    BY <1>4, <2>5, <2>6, <2>7, <2>8, <2>12
    DEF JobContract!Fail
  <2>14. QED
    BY <1>2, <2>4, <2>13 DEF JobsKept, JobContract!Next
<1>7. QED
  BY <1>5, <1>6 DEF FinishTask, CrashTask, postgres

LEMMA JobsStep == IInv /\ StatusInv /\ [Next]_vars => JobsKept
<1>1. ASSUME IInv, StatusInv, UNCHANGED vars PROVE JobsKept
  BY <1>1, JobsUnseen DEF vars
<1>2. ASSUME IInv, StatusInv, UploadStep PROVE JobsKept
  <2>1. ASSUME NEW r \in Requests, NEW c \in Contents,
               AnswerUnchanged(r, c) \/ CheckUpload(r, c) \/ AbortUpload(r)
        PROVE  JobsKept
    BY <1>2, <2>1, JobsUnseen DEF AnswerUnchanged, CheckUpload, AbortUpload, vars, postgres
  <2>2. ASSUME NEW r \in Requests, AbortUpload(r)
        PROVE  JobsKept
    BY <1>2, <2>2, JobsUnseen DEF AbortUpload, postgres
  <2>3. QED
    BY <1>2, <2>1, <2>2, CommitUploadJobs, PublishJobs, LosePublishJobs DEF UploadStep
<1>3. ASSUME IInv, StatusInv, WorkerStep PROVE JobsKept
  BY <1>3, StartTaskJobs, FailStartJobs, AdvanceStageJobs, QdrantWriteJobs, CommitReadyJobs,
     TaskEndsJobs
  DEF WorkerStep, TaskStep
<1>4. QED
  BY <1>1, <1>2, <1>3 DEF Next

LEMMA StatusHolds == Spec => []StatusInv
<1>1. IInv /\ StatusInv /\ [Next]_vars => StatusInv'
  BY JobsStep DEF JobsKept
<1>2. QED
  BY <1>1, InitStatus, InvariantHolds, PTL DEF Spec

\* What GET /jobs shows of a job implements JobLifecycle, with any number of
\* uploads and worker processes, failures and crashes: no stage is skipped, a
\* job whose retries are used up is let go, and a row that nobody carries any
\* more stays as it is.
THEOREM ImplementsJobLifecycle == Spec => JobContractSpec
<1>1. IInv /\ StatusInv /\ [Next]_vars => [JobContract!Next]_(JobContract!vars)
  BY JobsStep DEF JobsKept
<1>2. QED
  BY <1>1, InitStatus, StatusHolds, InvariantHolds, PTL
  DEF Spec, JobContractSpec, JobContract!Spec

\* What JobLifecycle_proofs shows of the contract.
Promise == INSTANCE JobLifecycle_proofs WITH
    Jobs <- Versions, status <- Shown, retry_count <- Counted, carried <- Carried

LEMMA ContractIsKept == Spec => Promise!OverForGood
<1>1. MaxRetries \in Nat
  BY RetryAssumption
<1>2. Promise!Spec => Promise!OverForGood
  BY <1>1, Promise!OverIsForGood
<1>3. JobContract!Init => Promise!Init
  BY DEF JobContract!Init, Promise!Init
<1>4. [JobContract!Next]_(JobContract!vars) => [Promise!Next]_(Promise!vars)
  BY DEF JobContract!Next, JobContract!vars, JobContract!Create, JobContract!Begin,
         JobContract!Advance, JobContract!Fail, JobContract!Leave, JobContract!Waiting,
         JobContract!Following, Promise!Next, Promise!vars, Promise!Create, Promise!Begin,
         Promise!Advance, Promise!Fail, Promise!Leave, Promise!Waiting, Promise!Following
<1>5. QED
  BY <1>2, <1>3, <1>4, ImplementsJobLifecycle, PTL
  DEF JobContractSpec, JobContract!Spec, Promise!Spec

\* What the contract gives the API's readers: once a job is with no upload,
\* message or task, polling it again can never answer anything else.
THEOREM SettledJobsRest ==
    Spec => [][\A v \in Uploaded : ~InFlight(v) => job'[v] = job[v]]_vars
<1>. DEFINE RowsRest == \A v \in Uploaded : ~InFlight(v) => job'[v] = job[v]
<1>1. ASSUME IInv, StatusInv, IInv', [Promise!OverRests]_(Promise!vars), NEW v \in Uploaded, ~InFlight(v)
      PROVE  job'[v] = job[v]
  <2>1. v \in Versions /\ v \notin Carried /\ Shown[v] # "absent"
    BY <1>1 DEF Uploaded, Carried, StatusInv, Shown
  <2>2. Shown'[v] = Shown[v] /\ Counted'[v] = Counted[v]
    BY <1>1, <2>1 DEF Promise!OverRests, Promise!Over, Promise!vars
  <2>3. job'[v].status = job[v].status /\ job'[v].retry_count = job[v].retry_count
    BY <2>1, <2>2 DEF Shown, Counted
  <2>4. job[v] \in JobRows /\ job'[v] \in JobRows
    BY <1>1, <2>1 DEF IInv, TypeOK
  <2>5. QED
    BY <2>3, <2>4 DEF JobRows
<1>2. IInv /\ StatusInv /\ IInv' /\ [Promise!OverRests]_(Promise!vars) => [RowsRest]_vars
  BY <1>1
<1>. HIDE DEF RowsRest
<1>3. Spec => [][RowsRest]_vars
  BY <1>2, ContractIsKept, StatusHolds, InvariantHolds, PTL DEF Promise!OverForGood
<1>4. QED
  BY <1>3 DEF RowsRest

-----------------------------------------------------------------------------
(* The uploads, which DocumentUpload shows step by step                    *)

\* The jobs the broker has got so far: nothing else remembers one whose attempts
\* all ended before their first commit.
VARIABLE sent

HInit == Init /\ sent = {}
HNext == Next /\ sent' = sent \cup {v \in Versions : PublishJob(v)}
HSpec == HInit /\ [][HNext]_<<vars, sent>>

UploadLog == INSTANCE VersionLog WITH
    Numbers <- Versions, rows <- content, pending <- unpublished

UploadLogSpec == UploadLog!Spec

\* Committing an upload in one step is what the handlers of DocumentUpload come
\* to: both modules implement the same log of versions, whose jobs the broker
\* gets once, after the commit, or never. The history of what it got is added
\* to the specification for that.
THEOREM ImplementsVersionLog == HSpec => UploadLogSpec
<1>1. HInit => UploadLog!Init
  BY VersionAssumption, ContentAssumption DEF HInit, Init, UploadLog!Init, Versions
<1>2. IInv /\ [HNext]_<<vars, sent>> => [UploadLog!Next]_(UploadLog!vars)
  <2>. SUFFICES ASSUME IInv, [HNext]_<<vars, sent>>
                PROVE  [UploadLog!Next]_(UploadLog!vars)
    OBVIOUS
  <2>1. CASE UNCHANGED <<content, unpublished, sent>>
    BY <2>1 DEF UploadLog!vars
  <2>2. ASSUME HNext, ~\E v \in Versions : PublishJob(v) PROVE sent' = sent
    BY <2>2 DEF HNext
  <2>3. CASE HNext /\ \E v \in Versions : PublishJob(v)
    <3>1. PICK v \in Versions : PublishJob(v)
      BY <2>3
    <3>2. /\ v \in unpublished /\ unpublished' = unpublished \ {v} /\ content' = content
      BY <3>1 DEF PublishJob, postgres
    <3>3. \A u \in Versions : PublishJob(u) => u = v
      BY <3>2 DEF PublishJob
    <3>4. sent' = sent \cup {v}
      BY <2>3, <3>1, <3>3 DEF HNext
    <3>5. UploadLog!HandOver(v)
      BY <3>2, <3>4 DEF UploadLog!HandOver
    <3>6. QED
      BY <3>5 DEF UploadLog!Next
  <2>4. CASE HNext /\ ~\E v \in Versions : PublishJob(v)
    <3>1. sent' = sent /\ Next
      BY <2>2, <2>4 DEF HNext
    <3>2. ASSUME NEW r \in Requests, NEW v \in Versions, CommitUpload(r, v)
          PROVE  UploadLog!Next
      <4>1. PICK c \in Contents : c = upload[r]
        BY <3>2 DEF IInv, TypeOK, CommitUpload
      <4>2. UploadLog!Append(v, c)
        BY <3>1, <3>2, <4>1 DEF CommitUpload, Uploaded, UploadLog!Append
      <4>3. QED
        BY <4>2 DEF UploadLog!Next
    <3>3. ASSUME NEW v \in Versions, LosePublish(v)
          PROVE  UploadLog!Next
      <4>1. UploadLog!Forget(v)
        BY <3>1, <3>3 DEF LosePublish, postgres, UploadLog!Forget
      <4>2. QED
        BY <4>1 DEF UploadLog!Next
    <3>4. WorkerStep => UNCHANGED <<content, unpublished>>
      BY DEF WorkerStep, TaskStep, StartTask, FailStart, AdvanceStage, UpsertPoints,
         SupersedePoints, CommitReady, FinishTask, FailTask, CrashTask, postgres
    <3>5. CASE UploadStep
      BY <2>1, <2>4, <3>1, <3>2, <3>3, <3>5
      DEF UploadStep, AnswerUnchanged, CheckUpload, AbortUpload, vars, postgres
    <3>6. QED
      BY <2>1, <3>1, <3>4, <3>5 DEF Next
  <2>5. CASE UNCHANGED <<vars, sent>>
    BY <2>1, <2>5 DEF vars
  <2>6. QED
    BY <2>3, <2>4, <2>5
<1>3. HSpec => Spec
  <2>1. HInit => Init
    BY DEF HInit
  <2>2. [HNext]_<<vars, sent>> => [Next]_vars
    BY DEF HNext
  <2>3. QED
    BY <2>1, <2>2, PTL DEF HSpec, Spec
<1>4. QED
  BY <1>1, <1>2, <1>3, InvariantHolds, PTL DEF HSpec, UploadLogSpec, UploadLog!Spec

=============================================================================
