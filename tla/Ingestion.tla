----------------------------- MODULE Ingestion -----------------------------
(***************************************************************************)
(* The life of ONE document: uploads of new bytes for it, the jobs the     *)
(* uploads commit, the Celery messages that carry the jobs, and the worker *)
(* processes that run packages/ingestion/pipeline.py::run_ingestion on     *)
(* them against Postgres (document, document_versions, ingestion_jobs) and *)
(* Qdrant (the points of each version).                                    *)
(*                                                                         *)
(* Every row and point run_ingestion touches belongs to one document, so   *)
(* one document with all its versions is the whole story of a job.         *)
(* A SHA-256 hash is represented by the content it identifies.             *)
(*                                                                         *)
(* A definition followed by one of the same parameters under its plain     *)
(* name is a fault of that code (IndexWrittenLate of IndexWritten, ...). No*)
(* action uses one: PROJECT.json says which property it would break.       *)
(***************************************************************************)
EXTENDS Naturals, FiniteSets

CONSTANTS
    Contents,    \* byte contents clients upload
    Corrupt,     \* those the parser fails on
    Requests,    \* upload handlers that may run at the same time
    Slots,       \* worker processes: one under --pool=solo, more under prefork
    MaxVersion,  \* bound on the versions uploaded (the code has none)
    MaxRetries,  \* max_retries of the Celery task (3 in the code)
    None         \* SQL NULL / Python None

Versions == 1..MaxVersion

\* Every upload of a document makes the next version number, from 1 on.
ASSUME VersionAssumption == MaxVersion \in Nat \ {0} /\ None \notin Versions
ASSUME RetryAssumption == MaxRetries \in Nat
ASSUME ContentAssumption == Corrupt \subseteq Contents /\ None \notin Contents

VARIABLES
    document,     \* the row of documents
    content,      \* version -> content_hash of its row; None: no such row
    is_current,   \* version -> document_versions.is_current
    job,          \* version -> the ingestion_jobs row of the version
    upload,       \* request -> bytes it is inserting; None: no upload under way
    unpublished,  \* versions committed whose handler has not reached delay()
    queue,        \* task messages in the broker, waiting retries included
    pc,           \* slot -> the next step of the task running in it
    task,         \* slot -> the task and the rows its session loaded
    point         \* version -> its points in Qdrant

vars == <<document, content, is_current, job, upload, unpublished,
          queue, pc, task, point>>

postgres == <<document, content, is_current, job>>

Stages == {"parsing", "chunking", "embedding", "indexing"}
PCs == Stages \cup {"idle", "upserted", "superseded", "committed"}
JobStatuses == Stages \cup {"absent", "queued", "ready", "failed"}
Attempts == 0..MaxRetries

DocumentRows == [current_version_id : Versions \cup {None},
                 content_hash_current : Contents,
                 status : {"queued", "ready"}]
JobRows == [status : JobStatuses, retry_count : 0..(MaxRetries + 1)]
Messages == [version : Versions, attempt : Attempts]
\* The session is opened with expire_on_commit=False: what it loads at the
\* start of the task is what it sees until the task ends.
Tasks == [version : Versions, attempt : Attempts,
          document : DocumentRows, is_current : BOOLEAN]

TypeOK ==
    /\ document \in DocumentRows
    /\ content \in [Versions -> Contents \cup {None}]
    /\ is_current \in [Versions -> BOOLEAN]
    /\ job \in [Versions -> JobRows]
    /\ upload \in [Requests -> Contents \cup {None}]
    /\ unpublished \subseteq Versions
    /\ queue \subseteq Messages
    /\ pc \in [Slots -> PCs]
    /\ task \in [Slots -> Tasks \cup {None}]
    /\ point \in [Versions -> {"absent", "current", "superseded"}]

(***************************************************************************)
(* The first upload of the filename has committed its three rows: a new    *)
(* document takes content_hash_current and status from that upload.        *)
(***************************************************************************)
Init ==
    /\ \E c \in Contents :
          /\ document = [current_version_id |-> None,
                         content_hash_current |-> c, status |-> "queued"]
          /\ content = [v \in Versions |-> IF v = 1 THEN c ELSE None]
    /\ is_current = [v \in Versions |-> FALSE]
    /\ job = [v \in Versions |-> [status |-> IF v = 1 THEN "queued" ELSE "absent",
                                  retry_count |-> 0]]
    /\ upload = [r \in Requests |-> None]
    /\ unpublished = {1}
    /\ queue = {}
    /\ pc = [s \in Slots |-> "idle"]
    /\ task = [s \in Slots |-> None]
    /\ point = [v \in Versions |-> "absent"]

-----------------------------------------------------------------------------
(* Uploads of further bytes: apps/api/routers/documents.py                 *)

Uploaded == {v \in Versions : content[v] # None}

\* versioning.is_unchanged and the two conditions before it.
IsUnchanged(c) ==
    /\ document.current_version_id # None
    /\ document.content_hash_current = c

\* An upload of the bytes already served is answered 200 and changes nothing.
AnswerUnchanged(r, c) ==
    /\ upload[r] = None
    /\ IsUnchanged(c)
    /\ UNCHANGED vars

\* The handler has read the document row and goes on to make a version.
CheckUpload(r, c) ==
    /\ upload[r] = None
    /\ ~IsUnchanged(c)
    /\ upload' = [upload EXCEPT ![r] = c]
    /\ UNCHANGED <<postgres, unpublished, queue, pc, task, point>>

\* Version and job rows, committed together. The unique constraint on
\* (document_id, version_number) makes reading the latest number and
\* inserting its successor one step; the losers of the race abort.
CommitUpload(r, v) ==
    /\ upload[r] # None
    /\ v \notin Uploaded
    /\ \A u \in Versions : u < v => u \in Uploaded
    /\ content' = [content EXCEPT ![v] = upload[r]]
    /\ job' = [job EXCEPT ![v] = [status |-> "queued", retry_count |-> 0]]
    /\ upload' = [upload EXCEPT ![r] = None]
    /\ unpublished' = unpublished \cup {v}
    /\ UNCHANGED <<document, is_current, queue, pc, task, point>>

\* The transaction fails before its commit and leaves no row.
AbortUpload(r) ==
    /\ upload[r] # None
    /\ upload' = [upload EXCEPT ![r] = None]
    /\ UNCHANGED <<postgres, unpublished, queue, pc, task, point>>

\* run_ingestion_job.delay(), after the commit and outside any transaction.
PublishJob(v) ==
    /\ v \in unpublished
    /\ unpublished' = unpublished \ {v}
    /\ queue' = queue \cup {[version |-> v, attempt |-> 0]}
    /\ UNCHANGED <<postgres, upload, pc, task, point>>

\* The broker refuses the message or the API process dies before delay().
LosePublish(v) ==
    /\ v \in unpublished
    /\ unpublished' = unpublished \ {v}
    /\ UNCHANGED <<postgres, upload, queue, pc, task, point>>

-----------------------------------------------------------------------------
(* The worker: workers/celery_app.py around pipeline.run_ingestion         *)

\* The message is acknowledged before the task runs (acks_late is not set), so
\* it has left the broker whatever becomes of the task.
Acknowledge(m) == queue' = queue \ {m}

\* A slot takes any waiting message. Handlers reach delay() in any order and
\* retries become due after a jittered delay, so every order of starts occurs.
\* Up to the first commit nothing is written: the rows are loaded in that step.
StartTask(s, m) ==
    /\ pc[s] = "idle"
    /\ m \in queue
    /\ Acknowledge(m)
    /\ task' = [task EXCEPT ![s] =
                   [version |-> m.version, attempt |-> m.attempt,
                    document |-> document, is_current |-> is_current[m.version]]]
    /\ pc' = [pc EXCEPT ![s] = "parsing"]
    /\ job' = [job EXCEPT ![m.version].status = "parsing"]
    /\ UNCHANGED <<document, content, is_current, upload, unpublished, point>>

\* The attempt is over before its first commit: the constructors of the clients,
\* the loads or that commit raise, or the process is killed. The job row is not
\* found by the except clause, or never looked for, and nothing is retried.
FailStart(s, m) ==
    /\ pc[s] = "idle"
    /\ m \in queue
    /\ Acknowledge(m)
    /\ UNCHANGED <<postgres, upload, unpublished, pc, task, point>>

\* parse() returned documents: otherwise the attempt raises in this stage.
ParseableUnchecked(v) == TRUE
Parseable(v) == content[v] \notin Corrupt

NextStage == [parsing |-> "chunking", chunking |-> "embedding",
              embedding |-> "indexing"]

\* One stage done, the next one committed to the job row.
AdvanceStage(s) ==
    /\ pc[s] \in DOMAIN NextStage
    /\ pc[s] = "parsing" => Parseable(task[s].version)
    /\ pc' = [pc EXCEPT ![s] = NextStage[pc[s]]]
    /\ job' = [job EXCEPT ![task[s].version].status = NextStage[pc[s]]]
    /\ UNCHANGED <<document, content, is_current, upload, unpublished,
                   queue, task, point>>

\* The points go in with is_current_version True, whatever Postgres says.
UpsertPoints(s) ==
    /\ pc[s] = "indexing"
    /\ pc' = [pc EXCEPT ![s] = "upserted"]
    /\ point' = [point EXCEPT ![task[s].version] = "current"]
    /\ UNCHANGED <<postgres, upload, unpublished, queue, task>>

\* previous_version_id, from the document row as it was loaded.
PreviousByNumber(s) == IF task[s].version = 1 THEN None ELSE task[s].version - 1
Previous(s) == task[s].document.current_version_id

HasPreviousOrSelf(s) == Previous(s) # None
HasPrevious(s) == Previous(s) \notin {None, task[s].version}

\* set_payload changes the points the filter finds: it makes and deletes none.
SupersededDeleted(p) == "absent"
SupersededKept(p) == p
Superseded(p) == IF p = "absent" THEN "absent" ELSE "superseded"

SupersedePoints(s) ==
    /\ pc[s] = "upserted"
    /\ HasPrevious(s)
    /\ pc' = [pc EXCEPT ![s] = "superseded"]
    /\ point' = [point EXCEPT ![Previous(s)] = Superseded(@)]
    /\ UNCHANGED <<postgres, upload, unpublished, queue, task>>

\* SQLAlchemy puts a column into the UPDATE only when the value assigned
\* differs from the one the session loaded.
Flush(loaded, assigned, row) == IF assigned = loaded THEN row ELSE assigned

\* The document row after the final transaction of slot s.
ReadyRowOldHash(s) ==
    [document EXCEPT !.current_version_id = task[s].version, !.status = "ready"]
ReadyRow(s) ==
    LET loaded == task[s].document
        v == task[s].version
    IN  [current_version_id |->
             Flush(loaded.current_version_id, v, document.current_version_id),
         content_hash_current |->
             Flush(loaded.content_hash_current, content[v],
                   document.content_hash_current),
         status |-> Flush(loaded.status, "ready", document.status)]

\* is_current after it. The previous version is loaded only now, so its flag
\* is always written; the task's own row was loaded at the start.
ReadyFlags(s) ==
    [u \in Versions |->
        IF u = task[s].version
        THEN Flush(task[s].is_current, TRUE, is_current[u])
        ELSE is_current[u] /\ ~(HasPrevious(s) /\ u = Previous(s))]

\* Qdrant holds the new points and, if there was a previous version, has its
\* points superseded.
IndexWrittenLate(s) == pc[s] = "indexing"
IndexWritten(s) ==
    /\ pc[s] \in {"upserted", "superseded"}
    /\ HasPrevious(s) => pc[s] = "superseded"

CommitReady(s) ==
    /\ IndexWritten(s)
    /\ document' = ReadyRow(s)
    /\ is_current' = ReadyFlags(s)
    /\ job' = [job EXCEPT ![task[s].version].status = "ready"]
    /\ pc' = [pc EXCEPT ![s] = "committed"]
    /\ UNCHANGED <<content, upload, unpublished, queue, task, point>>

Release(s) ==
    /\ pc' = [pc EXCEPT ![s] = "idle"]
    /\ task' = [task EXCEPT ![s] = None]

\* The temporary directory is removed and the task returns.
FinishTask(s) ==
    /\ pc[s] = "committed"
    /\ Release(s)
    /\ UNCHANGED <<postgres, upload, unpublished, queue, point>>

\* autoretry_for=(IngestionError,): the exception of any stage is one, that of
\* the parser included.
RetriesUnbounded(t) == {[version |-> t.version, attempt |-> t.attempt + 1]}
Retries(t) ==
    IF t.attempt < MaxRetries
    THEN {[version |-> t.version, attempt |-> t.attempt + 1]}
    ELSE {}

\* The failure is committed without counting it.
FailTaskUncounted(s) ==
    /\ pc[s] # "idle"
    /\ job' = [job EXCEPT ![task[s].version].status = "failed"]
    /\ queue' = queue \cup Retries(task[s])
    /\ Release(s)
    /\ UNCHANGED <<document, content, is_current, upload, unpublished, point>>

\* The attempt's message comes back instead of one with a higher count.
FailTaskRequeued(s) ==
    /\ pc[s] # "idle"
    /\ job' = [job EXCEPT ![task[s].version].status = "failed"]
    /\ queue' = queue \cup {[version |-> task[s].version,
                             attempt |-> task[s].attempt]}
    /\ Release(s)
    /\ UNCHANGED <<document, content, is_current, upload, unpublished, point>>

\* The except clause: the open transaction is rolled back, the failure is
\* committed, Celery publishes the retry unless the broker refuses it or the
\* process is killed before that. The clause also covers the removal
\* of the temporary directory and a soft time limit after the last commit; a
\* call to Qdrant may have taken effect before it raised.
FailTask(s) ==
    LET t == task[s]
    IN  /\ pc[s] # "idle"
        /\ job' = [job EXCEPT ![t.version] =
                      [status |-> "failed", retry_count |-> @.retry_count + 1]]
        /\ queue' \in {queue, queue \cup Retries(t)}
        /\ Release(s)
        /\ UNCHANGED <<document, content, is_current, upload, unpublished, point>>

\* The process is killed (hard time limit, out of memory, deployment) or the
\* except clause itself raises: the message is acknowledged already.
CrashTask(s) ==
    /\ pc[s] # "idle"
    /\ Release(s)
    /\ UNCHANGED <<postgres, upload, unpublished, queue, point>>

-----------------------------------------------------------------------------

UploadStep ==
    \/ \E r \in Requests, c \in Contents : AnswerUnchanged(r, c)
    \/ \E r \in Requests, c \in Contents : CheckUpload(r, c)
    \/ \E r \in Requests, v \in Versions : CommitUpload(r, v)
    \/ \E r \in Requests : AbortUpload(r)
    \/ \E v \in Versions : PublishJob(v)
    \/ \E v \in Versions : LosePublish(v)

TaskStep(s) ==
    \/ AdvanceStage(s)
    \/ UpsertPoints(s)
    \/ SupersedePoints(s)
    \/ CommitReady(s)
    \/ FinishTask(s)
    \/ FailTask(s)

WorkerStep ==
    \/ \E s \in Slots, m \in queue : StartTask(s, m)
    \/ \E s \in Slots, m \in queue : FailStart(s, m)
    \/ \E s \in Slots : TaskStep(s)
    \/ \E s \in Slots : CrashTask(s)

Next == UploadStep \/ WorkerStep

Spec == Init /\ [][Next]_vars

(***************************************************************************)
(* A handler past its commit goes on to delay(), an idle worker takes a    *)
(* message that waits, and a task that runs takes its next step or fails:  *)
(* every call it makes returns, raises or meets the time limits. Nothing   *)
(* is assumed of clients, nor of crashes.                                  *)
(***************************************************************************)
Fairness ==
    /\ \A v \in Versions : WF_vars(PublishJob(v))
    /\ \A s \in Slots : WF_vars(\E m \in queue : StartTask(s, m))
    /\ \A s \in Slots : WF_vars(TaskStep(s))

FairSpec == Spec /\ Fairness

-----------------------------------------------------------------------------
(* Properties for any number of worker processes                           *)

\* A version the document serves has its points in Qdrant: the row is
\* committed after the upsert, and no later attempt removes points.
ServedVersionIsIndexed ==
    document.current_version_id # None =>
        point[document.current_version_id] # "absent"

\* A job is carried by at most one message or task, and retry_count, as
\* GET /jobs shows it, equals the number of the attempt that is waiting or
\* running: no failure is counted twice and none is forgotten.
RetryCountIsAttempt ==
    /\ \A m \in queue : job[m.version].retry_count = m.attempt
    /\ \A m, n \in queue : m.version = n.version => m = n
    /\ \A s \in Slots : pc[s] # "idle" =>
          /\ job[task[s].version].retry_count = task[s].attempt
          /\ \A m \in queue : m.version # task[s].version
          /\ \A q \in Slots :
                pc[q] # "idle" /\ task[q].version = task[s].version => q = s

\* Bytes the parser fails on are never served, however often and
\* in whatever order their jobs run.
CorruptNeverServed ==
    document.current_version_id # None =>
        content[document.current_version_id] \notin Corrupt

\* The document as its readers see it implements Catalog: every change of
\* current_version_id publishes a version whose points are all in Qdrant.
ImplementedCatalog == INSTANCE Catalog WITH
    uploaded <- Uploaded,
    searchable <- {v \in Versions : point[v] # "absent"},
    served <- document.current_version_id

CatalogSpec == ImplementedCatalog!Spec

\* Somebody still has to do with the job of the version.
InFlight(v) ==
    \/ v \in unpublished
    \/ \E m \in queue : m.version = v
    \/ \E s \in Slots : pc[s] # "idle" /\ task[s].version = v

Carried == {v \in Versions : InFlight(v)}

\* The two columns of ingestion_jobs that GET /jobs reads.
Shown == [v \in Versions |-> job[v].status]
Counted == [v \in Versions |-> job[v].retry_count]

\* The jobs implement JobLifecycle: stages are never skipped, a failure that
\* has used up the retries lets the job go, and a row nobody carries any more
\* never changes again. Which failures deserve a retry is not its matter: the
\* code retries all of them, specs/architecture/03-ingestion-workflow.md:64-65
\* excludes corrupt PDFs.
JobContract == INSTANCE JobLifecycle WITH
    Jobs <- Versions,
    status <- Shown,
    retry_count <- Counted,
    carried <- Carried

JobContractSpec == JobContract!Spec

\* Every message that reaches the broker is worked off: the retries of its
\* job come to an end, whatever the attempts run into.
AttemptsEnd ==
    \A v \in Versions :
        (\E m \in queue : m.version = v) ~>
            /\ \A m \in queue : m.version # v
            /\ \A s \in Slots : pc[s] # "idle" => task[s].version # v

-----------------------------------------------------------------------------
(* Properties that one worker process guarantees                           *)

\* document_versions.is_current and documents.current_version_id, written
\* from separate rows, name the same version.
CurrentFlagAgrees ==
    \A v \in Versions : is_current[v] <=> document.current_version_id = v

\* content_hash_current is the hash of the bytes served, so an upload that is
\* answered "unchanged" names the version that holds exactly these bytes.
HashIsOfServedVersion ==
    document.current_version_id # None =>
        document.content_hash_current = content[document.current_version_id]

\* Once a document serves a version, some version's points are marked current,
\* so a search restricted to current points is never left without any.
SearchNeverEmpties ==
    document.current_version_id # None =>
        \E v \in Versions : point[v] = "current"

\* Points marked current belong to the served version or to one whose job is
\* not ready (an attempt under way, or one that stopped after its upsert).
StrayPointsAreUnfinished ==
    \A v \in Versions :
        point[v] = "current" /\ document.current_version_id # v =>
            job[v].status # "ready"

-----------------------------------------------------------------------------
(* What the documents promise and the code does not do                     *)

\* specs/architecture/03-ingestion-workflow.md: a failed re-ingestion never
\* leaves the document worse off. With no attempt under way, the points of
\* the version a document serves are still marked current.
FailureLeavesServedPoints ==
    document.current_version_id # None /\ (\A s \in Slots : pc[s] = "idle") =>
        point[document.current_version_id] = "current"

\* specs/architecture/02-data-model.md: content_hash_current is the hash of
\* the latest uploaded bytes. Once every job of the document is ready and
\* none is in flight, it is that of the highest version number.
LatestUploadIsServed ==
    (\A v \in Uploaded : job[v].status = "ready" /\ ~InFlight(v)) =>
        \E v \in Uploaded :
            /\ \A u \in Uploaded : u <= v
            /\ document.content_hash_current = content[v]
=============================================================================
