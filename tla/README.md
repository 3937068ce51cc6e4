# ScalableModularRAG in TLA+

A specification of the core of ScalableModularRAG: the upload and the versions
of documents, their asynchronous ingestion by Celery workers into Postgres, S3
and Qdrant, what is extracted from a PDF, the membership of tenants and
workspaces, and the tenant setting that every request and every task depends
on. `PROJECT.json` holds the index: components, runs, the lines every
definition translates, faults, findings, hazards and theorems.

## 1. The system

| Part | State | Operations | Talks to |
|---|---|---|---|
| Document upload (`apps/api/routers/documents.py`) | none of its own; a transaction per request | POST: hash, look the filename up, number the version, store the bytes, insert document, version and job, commit, publish. GETs only read | Postgres, S3, the Celery broker |
| Ingestion (`packages/ingestion`, `workers/celery_app.py`) | a session with the rows it loaded; a temporary directory | `run_ingestion`: parsing, chunking, embedding, indexing, supersede the previous version, make the version current; on an exception: failed, retry | Postgres, S3, Qdrant, OpenAI, the broker |
| PDF parsing (`packages/parsing`) | records of pages, tables, images | extract, OCR, make LangChain documents | files, tesseract |
| Relational model (`packages/db`) | users, tenants, members, workspaces, documents, versions, jobs, keys, audit log; row level security on the tenant's tables | sessions with `expire_on_commit=False` | Postgres |
| Object storage (`packages/storage`) | objects under keys | put if absent, get | S3 |
| Qdrant set-up (`packages/ingestion/qdrant_setup.py`) | one collection and its indexes, shared by all tenants | create if absent | Qdrant |
| Tenant scope (`packages/auth/context.py`, `packages/db/session.py`) | `app.current_tenant_id` of a Postgres connection | set for a transaction (API) or for the session (worker) | the row level security policies |
| Identity (`packages/auth`, `apps/api/deps`) | none | verify the token, provision the user, resolve the role, set the tenant scope | Postgres, Keycloak |
| Administration (`apps/api/routers/{tenants,workspaces,auth}.py`) | none | create tenants, workspaces, keys; add, change, remove members; revoke keys; each with an audit row | Postgres |
| Configuration, logging, exceptions, scripts, infra | settings | | |

What is hard about it:

* **Concurrency.** Handlers are coroutines that interleave at every `await`;
  workers are processes; two jobs of one document, or two uploads of one
  filename, run at the same time, and each works with the rows it read first.
* **Two stores, no common transaction.** Qdrant is written before the Postgres
  commit, S3 before the rows that refer to it, the message after the commit.
* **Failure.** Every call may raise, a call may take effect and then raise, a
  process may die; messages are acknowledged before the task runs; a failed
  attempt is retried up to three times, after up to 600 s.
* **Order.** Neither publishing nor retrying keeps the order of uploads; the
  commit of an administrative request comes after its response.
* **Hidden state.** What a query returns depends on a setting of the connection
  that code far away has made; without it, queries return nothing and raise
  nothing. The API's connections are pooled, a worker's lasts for one task.
* **Swallowed exceptions.** OCR and table extraction turn any exception, the
  soft time limit included, into less text.

What makes each part correct is stated by the properties of section 3; section
7 lists what is still to come. The hazards, each with its line and the
properties that watch it, are in `PROJECT.json`.

## 2. The modules

| Module | Models | Used by |
|---|---|---|
| `Catalog` | what ingestion promises the readers of a document | `Ingestion` (refinement) |
| `JobLifecycle` | what the row of a job shows to `GET /jobs` over time | `Ingestion`, `WorkerTask` (refinements) |
| `VersionLog` | what uploads make of the versions of one document | `DocumentUpload` (refinement), `Ingestion_proofs` |
| `Ingestion` | one document: uploads, jobs, messages, workers, Postgres rows, points | its two proof modules |
| `DocumentUpload` | one filename: concurrent `upload_document` requests, their transactions | `DocumentUpload_proofs` |
| `Extraction` | one job: what its attempts make of one PDF | `Extraction_proofs` |
| `Membership` | one tenant, one workspace, one API key: requests, their transactions | `MCMembership`, `Membership_proofs` |
| `TenantSetting` | the setting of one connection, through `set_config`, commit and rollback | `TenantScope`, `WorkerTask` |
| `TenantScope` | several tenants: requests over the connection pool, what the policies show them | `MCTenantScope`, `TenantScope_proofs` |
| `CollectionSetup` | `ensure_collection`, in several workers at once | `WorkerTask` |
| `WorkerTask` | tasks of several tenants: connection, collection, retries | `MCWorkerTask`, `WorkerTask_proofs` |
| `MCMembership`, `MCTenantScope`, `MCWorkerTask` | symmetry and values for TLC | |
| `JobLifecycle_proofs` | theorems about the contract itself | `Ingestion_proofs`, `WorkerTask_proofs` (instances) |
| `Ingestion_proofs` | theorems for any number of worker processes | `IngestionSolo_proofs` |
| `IngestionSolo_proofs` | theorems for one worker process | |
| `DocumentUpload_proofs` | theorems for any number of concurrent uploads | |
| `Extraction_proofs` | theorems for PDFs of any size and any number of attempts | |
| `Membership_proofs` | theorems for any number of users and requests | |
| `TenantScope_proofs` | theorems for any number of tenants, connections, requests | |
| `WorkerTask_proofs` | theorems for any number of workers, jobs, retries | |

Beside many definitions stands a second one of the same parameters, named for
what is wrong with it (`IndexWrittenLate` beside `IndexWritten`). It is a fault
the code could have; no action uses it. `PROJECT.json` ("mutants") pairs each
with the property that fails when it takes the place of the right one, so every
property is known to depend on the code.

### Catalog, JobLifecycle and VersionLog

The three abstract specifications say what others may rely on, without workers,
messages or transactions:

* `Catalog`, for the readers of a document: which versions can be found and
  which one is served.
* `JobLifecycle`, for who polls a job: the status goes through the stages one
  by one, a failure is counted, and only a job that is *carried* (by the request
  that committed it, a message or a task) changes. `Fail` may keep a job carried
  while retries are left and lets it go when there are none; which failures
  deserve a retry it leaves open (see section 4). `Leave` is the end of a task as well as a lost
  message or a dead process, which the row does not tell apart.
* `VersionLog`, for the history of a document: versions are appended under
  consecutive numbers, never replaced, and the job of one is handed over
  after its commit, once, or forgotten.

`Ingestion` and `WorkerTask` both implement `JobLifecycle`, through `Shown`,
`Counted` (the columns of `ingestion_jobs`) and `Carried`; `DocumentUpload`
implements `VersionLog` for every document, through its committed rows, the
requests between `commit` and `delay()` and the messages published; in
`Ingestion`, which forgets a message once its task starts, a history variable of
the proof module (`sent`) keeps the versions handed over. So the two models of the workers
agree on what a job is, and the two models of the upload on what a version is,
although each opens up what the other takes as one step. `VersionLogSpec` is
`Log(d)!Spec` for every `d`, written with the quantifier inside the box, the
form TLC accepts.

### Ingestion

Every row and every point `run_ingestion` touches belongs to one document, so
the module has one document and all its versions; a version is its
version_number, a hash is the content it identifies.

| Variable | Code |
|---|---|
| `document` | `documents.current_version_id`, `content_hash_current`, `status` |
| `content`, `is_current` | `document_versions.content_hash`, `is_current` |
| `job` | `ingestion_jobs.status`, `retry_count` |
| `upload`, `unpublished` | handlers before their commit; between the commit and `delay()` |
| `queue` | messages in the broker, with the attempt they carry |
| `pc`, `task` | per worker process: the next step, and the rows loaded at the start |
| `point` | per version: no points, current, or superseded |

The task's actions follow the commits and external calls of `run_ingestion`:
`StartTask` (lines 54-84), `FailStart` (whatever raises before the first commit
or in it: the message is gone, nothing is recorded), `AdvanceStage` (the three stage commits),
`UpsertPoints`, `SupersedePoints` (`set_payload`), `CommitReady` (the last
transaction), `FinishTask`, `FailTask` (the `except` clause and Celery's
`autoretry_for`, whose message the broker may refuse), `CrashTask`. Three facts of the libraries matter:

* Sessions keep what they loaded (`expire_on_commit=False`) and SQLAlchemy
  writes a column only if the value assigned differs from the loaded one. `Flush`
  says this; `ReadyRow` and `ReadyFlags` apply it column by column.
* `acks_late` is not set: a message leaves the broker when its task starts.
* A call to Qdrant that raises may have taken effect: `FailTask` is possible
  after the effect of every step.

The queue is a set: handlers reach `delay()` in any order and retries become
due after a jittered delay, so every order of starts is possible. The upload
actions take the insert of version and job as one step (`CommitUpload`), its
failures as `AbortUpload`; `DocumentUpload` opens it up. Not represented:
failure_stage, failure_reason, timestamps, page_count, superseded_at; the
embedding vectors; redelivery by the broker's visibility timeout (an attempt
ends well before it).

### DocumentUpload

`request[r].pc` names the last `await` the handler has passed; the actions are
the code between two of them. A row that is flushed and not committed is
visible to its own transaction alone, but it holds its key of the unique index
on (document_id, version_number): an insert of the same key waits (`KeyIsHeld`)
and then fails (`KeyIsTaken`) or goes on. `Abandon` is any exception, lost
client or dead process. `VersionReady` stands for the ingestion of a published
version. The checks of size, type and leading bytes are abstracted: a request
that fails them does nothing.

### Extraction

A PDF is, per page, a number of images, the indexes of its tables that are not
empty, and the chunks of the page's text that are not blank, once with and once
without OCR. `ReadPage`, `ReadTables` are the bodies of the parser's two loops,
`PageChunks`, `TableChunks`, `ImageChunks` the documents made of the records and
their split. A chunk says whether its text has what OCR found; `PointId`, a
tuple for the uuid5 of the joined string, has its place in the PDF and nothing
of its text, so the chunks of two attempts may share an identity and differ.
`Upserted` replaces the points of the identities it is given and keeps the
others. `UploadImage` is one turn of the upload loop. `FailAttempt` may come at
any time; `stored` and `points` outlive it. That a job has one attempt at a
time is `RetryCountIsAttempt`, proved of `Ingestion`.

### Membership

A request is one transaction. Its `pc` goes from the lookup of the user (and
the insert, if there is none) to the role check, the handler, the response
(`"answered"`) and the commit, which `get_db_session` runs in the exit of a
dependency and therefore after the response. Up to the commit a handler has
sent at most the rows it flushed; `session.add` and assignments go with the
commit, so `CommitAdd`, `CommitRoleChange` and `CommitRemove` check keys and
rows then. An UPDATE is sent only when the rank differs from the loaded one; an
UPDATE that finds no row fails, a DELETE that finds none only warns. Tenant and
workspace routes differ in the role they require (`MinRank`) and are one set of
actions over `Scopes`. `audit` is a set of rows for each member: the only order
of the table is `created_at`, whose default is the start of the transaction
(packages/db/models.py:259, migration 0001:342), and a request that begins first
may commit last, so the rows do not tell which of two overlapping requests did.
`held` is a history of the ranks a member row has had, with which
`LogTellsRanksHeld` says what the log does tell. Actors, actions of keys and
payloads are left out.

### TenantScope

A connection's setting is a record of three values (`TenantSetting`): what the
statements of the open transaction see, what its commit will leave and what a
rollback goes back to. `set_tenant_scope` changes the first alone,
`set_tenant_scope_sync` with `local=False` the first two; commit and rollback
derive all three.

`request[r].connection` is the connection its session holds; `CheckOut` takes
any free one with the first statement of a transaction, and the end of the
transaction gives it back. `LoseProvisioning` is the rollback in the middle of
a dependency, after which the rest of the request may run on another
connection. From `Receive` to `SetTenantScope` an action is one `await` of
`rbac.py`; a handler is one action up to its commit, because between the two it
touches only rows of the tenant (its own interleavings are in `Membership` and
`DocumentUpload`). `CommitUpload` leaves the request without a connection: the
handler commits itself, and whatever it uses afterwards has been loaded before.
`Refuse` and `Fail` end in the rollback of `get_db_session`.

Tables under row level security are seen through `Sees`; `tenant_members` and
`workspace_members` have no policy and are read directly. The rows of
`tenant_members` are a constant here, since their changes are in `Membership`;
workspaces, their members, keys and documents are created, removed and revoked.
Claims of the caller (the ids in a path, the tenant an API key is presented for)
are arbitrary.

### WorkerTask and CollectionSetup

A task makes an engine with one connection, sets the tenant for the session,
loads its job and goes through the stages, each of which ends in a commit; in
"indexing" it runs `ensure_collection`. `WorkerTask` keeps of a job its status
and its retry_count and adds to `Ingestion` what jobs share. `AdvanceStage` and
`CommitReady` raise if the policy hides the job row: the UPDATE finds no row.
`RecordFailure` is the `except` clause, `PublishRetry` what `autoretry_for` does
after it, `LoseRetry` the broker refusing that, `MissJob` the same clause when
`session.get` returns None. Not every failure gets there: `FailUncaught` is one
outside the `try` (the clients, the setting, the loads) or in the `except`
clause itself, and `FailFirstCommit` that of the commit which is the end of the
transaction that made the setting, so that its rollback takes the setting along.
`LoseConnection` replaces the connection of a task, and with it the setting.
Two histories name the jobs that are thereby excepted from `NoJobIsForgotten`
and `JobsGetReady`: `lost`, whose publication, retry or process was lost, and
`unrecorded`, with a failure that nothing records. The documents except neither
(section 4).

`CollectionSetup` has each call to Qdrant as a step. `CreateCollection` of a
collection that exists is refused (`LosesCreation`), which the code turns into
an `IngestionError`; an index that exists is accepted. `missing` is what
`get_collection` said, as of then.

## 3. The runs

| Run | Checks | Bounds | States |
|---|---|---|---|
| `prefork` | `TypeOK`, `ServedVersionIsIndexed`, `RetryCountIsAttempt`, `CorruptNeverServed`, `CatalogSpec`, `JobContractSpec`, `AttemptsEnd` | 2 worker processes, 2 versions, one content the parser fails on, 2 retries | 105 thousand |
| `solo` | `CurrentFlagAgrees`, `HashIsOfServedVersion`, `SearchNeverEmpties`, `StrayPointsAreUnfinished` | 1 worker process, 3 versions of 2 contents | 3.5 million |
| `upload` | `TypeOK`, `VersionBytesStored`, `VersionLogSpec`, `FirstUploadsSettle`, `RequestsEnd` | 2 requests, 2 contents, 2 documents | 287 thousand |
| `extraction` | `TypeOK`, `ReadyCoversThePdf`, `ImagePathsResolve`, `PointsAreOfThePdf` | 2 pages, 2 images and 1 table on each, 2 chunks | 844 thousand |
| `membership` | `TypeOK`, `LogTellsRanksHeld`, `IdentityIsReal`, `MembersHaveAccounts`, `AccountsDiffer`, `UnmanagedIsFrozen` | 2 requests, 3 users (2 with one email), 2 ranks, 3 different audit rows | 1.1 million |
| `scope` | `TypeOK`, `PoolIsUnscoped`, `HandlersSeeTheirTenant`, `MemberRowsAgree`, `WorkspaceIsComplete`, `ScopeIsEarned`, `RevokedByItsTenant` | 2 tenants with one admin each, 2 workspaces, 1 API key, 2 requests, 2 connections | 1.1 million |
| `worker_task` | `TypeOK`, `FailureCanBeRecorded`, `UpsertFindsIndexes`, `NoJobIsForgotten`, `JobContractSpec`, `JobsGetReady` | 2 workers, 2 jobs of 2 tenants, 2 indexes, 2 retries, 2 failing calls | 90 thousand |

The cfg files hold the exact values. Why these are enough:

* Two processes and two versions are the smallest instance in which a job works
  with rows another job has replaced. Three versions are needed for a job to
  replace a version that is neither its predecessor nor the first; with one
  process they are still affordable. One or two retries suffice for a retry to
  run before, during and after the other job.
* Two requests race for a key in every way two can; a third would only wait
  behind them. `MaxVersion` bounds the numbers; `RoomLeft` stops new requests
  when an open one might find none.
* Two pages, one with fewer images than the other, are what collisions of
  keys and identities need, and two chunks what an attempt without OCR leaves behind; failures
  return to the start, so the number of attempts is not bounded.
* `MaxRows` bounds the audit rows that differ in member or rank, each of which
  may be written any number of times: three let a member come, change and go. `MCMembership` identifies states that differ by a permutation
  of requests, or of the users who share an email. No liveness is checked there.
* Two connections let a request come back on another one than it left, and let
  two requests overlap; with two requests no third is ever taken. Two tenants
  with an admin each, who may be members of the other's workspaces, give every
  combination of a caller, a claim and a row. `MCTenantScope` permutes
  requests, connections, workspaces, and the tenants together with their admins.
* Two workers are a race for the collection; two indexes are the least that can
  be half made. `MaxFailures` bounds the calls that fail for reasons of their
  own, and `JobsGetReady` is about runs in which fewer fail than there are retries.

`Upload.cfg` and `WorkerTask.cfg` switch the deadlock check off: when the
numbers are used up, or all jobs are done, and nothing is open, the bounded
model stops. Everywhere else it is on.

**Which properties need one worker process.** specs/020-async-ingestion-pipeline/tasks.md:112
starts the worker with `--pool=solo`; Celery's default is prefork. The four
properties of `solo` are false as soon as two jobs of a document overlap: the
runs `stale_hash` and, for `SearchNeverEmpties`, three versions in two processes
show it. `prefork` holds what does not depend on it.

**Fairness.** `Ingestion!Fairness`: a handler past its commit reaches
`delay()`, an idle process takes a waiting message, a running task takes its
next step or fails, because every call returns, raises or meets a time limit.
Nothing is assumed of clients, crashes or lost messages. `AttemptsEnd` says that
the retries of a message end; that a *job* ends is false: one whose message is
lost, whose process dies, or whose failure nothing records is never ready nor
failed.
`WorkerTask!Fairness` is the same for tasks: a handler reaches `delay()`, an
idle worker takes a waiting message, a running task goes on. Failures, lost
connections, lost messages and kills are never forced; `JobsGetReady` excepts
the jobs in `lost` and `unrecorded` and the runs in which too many calls fail. What it shows is
that losing the race for the collection costs a job one attempt at most.
`DocumentUpload!FairSpec` uses strong fairness of a handler: while it waits for
a key, other requests may take the key again and again, so its step is enabled
only now and then; the event loop and Postgres' lock queue get to it.

## 4. What the code does not do

Each of these runs ends in a counterexample to what the repository's own text
says; `PROJECT.json` ("findings") has the quotations.

| Run | Property | Shows |
|---|---|---|
| `stale_hash` | `HashIsOfServedVersion` | with two processes, the job that commits last leaves out the hash column because its old copy has that value already: the document serves A under the hash of B |
| `failure_hides_served` | `FailureLeavesServedPoints` | a re-ingestion that fails after `set_payload` leaves the served version's points superseded |
| `overtaken_upload` | `LatestUploadIsServed` | a late job of an older upload takes the document back |
| `duplicate_document` | `OneDocumentPerFilename` | two first uploads make two documents |
| `image_key` | `UploadedKeyHoldsItsImage` | images of later pages have the keys of earlier ones and are not stored |

Seen while modelling, and not the subject of a run:

* A corrupt PDF is retried. Every exception of `run_ingestion` becomes an
  `IngestionError` (pipeline.py:230), and `autoretry_for` names that class
  (celery_app.py:31), so a PDF the parser fails on has its three retries like
  anything else. specs/architecture/03-ingestion-workflow.md:64-65:
  "Non-retryable failures (corrupt PDF, unsupported format) fail immediately
  with a user-facing `failure_reason` and no retry". The models follow the code
  (`FailTask`, `RecordFailure`); `JobLifecycle` takes no side.
* Some failures are neither recorded nor retried: one of the constructors before
  the `try` (celery_app.py:49-58), one of the first commit, whose rollback takes
  the tenant setting along so that `session.get` finds no row and an
  `AttributeError` follows (pipeline.py:84, 223), one of the connection
  (pipeline.py:223), one in the `except` clause itself. The job stays in its
  stage. pipeline.py:66-67: "`ready`, or `failed` with
  `failure_stage`/`failure_reason` recorded";
  specs/020-async-ingestion-pipeline/spec.md:114: "A job that fails (e.g. a
  corrupt/unparseable PDF) sets `status = failed`". The models have these steps
  (`FailUncaught`, `FailFirstCommit`, `MissJob`, `FailStart`), and
  `NoJobIsForgotten` and `JobsGetReady` except their jobs by name
  (`unrecorded`).
* Nothing removes the points of an attempt that failed after its upsert. The
  next one replaces those whose identity it makes again (pipeline.py:189); after
  an attempt without OCR text or tables (pdf_parser.py:79, 167) the others stay,
  and the version is ready with more points than it has chunks.
  specs/020-async-ingestion-pipeline/spec.md:105: "On success: Qdrant contains
  one point per chunk/table/image". `ReadyCoversThePdf` says that every chunk is
  there as the last attempt made it, not that nothing else is, and
  `PointsAreOfThePdf` what the rest can be.
* Points are searchable before their version is ready: they are upserted with
  `is_current_version` true, and `set_payload` supersedes those of the previous
  version before the commit. specs/020-async-ingestion-pipeline/spec.md:110-113
  has the flag flip "after the new job reaches `ready`". `SearchNeverEmpties`
  and `StrayPointsAreUnfinished` say what holds nevertheless with one process;
  `failure_hides_served` shows the consequence for the version that is served.
* The audit log has no order of commits (section 2, Membership): of an addition
  that begins first and commits last and a removal in between, the log's latest
  row is the removal, although the member is there.
* Nothing keeps a tenant from losing its last owner (tenants.py:123).
* Nothing sends the message of a committed job a second time: a publication
  that fails, or a process that dies after the message is acknowledged, leaves
  the job in its stage for ever.
* Adding a member who is one already is answered 201, and the commit that
  follows the response fails.
* `get_job` filters by tenant and not by workspace (apps/api/routers/jobs.py:20-24);
  specs/architecture/09-repo-and-module-structure.md:111 says "same workspace as
  the job's document".
* The backfill of migration 0003 reads `workspaces` under FORCE ROW LEVEL
  SECURITY with no tenant set, so it updates rows only for a role that bypasses
  the policies.
* A re-upload of the served bytes while a newer version is being ingested is
  answered "unchanged", and the newer version then replaces what it confirmed
  (documents.py:50). The documents define "unchanged" by the current version
  alone, so no property is stated.

## 5. What is proved

TLAPS proves for every value of the constants (any number of processes,
versions, contents, requests and retries):

* `Ingestion_proofs`, from `VersionAssumption`, `RetryAssumption` and
  `ContentAssumption`: `TypeCorrect`, `ServedIsIndexed`, `AttemptsAreCounted`,
  `CorruptStaysUnserved`; the refinements `ImplementsCatalog`,
  `ImplementsJobLifecycle`, `ImplementsVersionLog`; and what these give the
  clients, `ReadersLoseNothing` and `SettledJobsRest`.
* `IngestionSolo_proofs`, with the further assumption that there is one worker
  process (`SoloPool`): `SoloFlagAgrees`, `SoloHashAgrees`,
  `SoloStaysSearchable`, `SoloStrayPoints`.
* `DocumentUpload_proofs`, from `NumberAssumption` and `NoneAssumption`:
  `UploadTypeCorrect`, `BytesAreStored`, `NumbersHaveNoGaps`,
  `DocumentsHaveVersions`, `MessagesFollowCommit`, `VersionsAreImmutable`,
  `OnlyFirstUploadsAdd`, and the refinement `ImplementsVersionLog`.
* `Extraction_proofs`, from `BoundAssumption` and `NoneAssumption`:
  `TypeCorrect`, `ReadyStaysComplete`, `ImagePathsKeepResolving`,
  `PointsStayOfThePdf`.
* `Membership_proofs`, from `UserAssumption`, `RankAssumption` and
  `NoneAssumption`: `TypeCorrect`, `IdentitiesAreReal`, `MembersKeepAccounts`,
  `AccountsStayDifferent`, `LogTellsRanks`, `UnmanagedStaysFrozen`.
* `TenantScope_proofs`, from `NoneAssumption`: `TypeCorrect`,
  `PoolStaysUnscoped`, `HandlersKeepTheirTenant`, `MemberRowsStayInAgreement`,
  `WorkspacesStayComplete`, `ScopeStaysEarned`, `RevocationsStayInTheTenant`.
* `WorkerTask_proofs`, from `JobAssumption`, `CountAssumption` and
  `FieldAssumption`: `TypeCorrect`, `FailuresAreRecordable`,
  `UpsertsFindIndexes`, `JobsAreCarried`, the refinement
  `ImplementsJobLifecycle` and with it `SettledJobsRest`.
* `JobLifecycle_proofs`, for a natural number of retries: `FailuresAreBounded`,
  `OverIsForGood`.

The argument of the first: none of the properties is inductive. `IInv` adds to
them what a step relies on. `SlotInv`: a slot that is not idle has a task.
`CarrierInv`: handlers, messages and tasks carry disjoint sets of committed jobs,
so a publication never makes a second carrier and two attempts of one job never
write the same rows. `IndexInv`: a slot past its upsert has points, which is all
that a commit needs to serve an indexed version, however stale the rows it
computes with. `CorruptInv`: past parsing, the content of a task is not corrupt.
Commit is the step all of them meet in: `Flush` stores either the task's value
or the row's, and both are fine by the invariant (`FlushOneOf`).

With one process, `FreshTask` says that nothing changes the document rows between
the load at the start of a task and its commit, so `Flush` never leaves out a
column that differs in the database. From that follow the flags and the hash.
`PointsWritten` and `StageShown` say what a task has put into Qdrant and into its
job row so far: when it supersedes the points of the previous version, its own
are already there.

The upload handler computes with what it read before other requests committed,
and its `IInv` keeps the facts that cannot go stale, because rows and objects are
never removed: the number a request holds is 1 or has a committed predecessor
(`PredecessorInv`), and its bytes are stored once it is past the upload
(`StoredInv`). `KeyInv` is the unique index: a flushed row has a key that is not
taken and that no other open transaction holds. `Commit` is the one step that
adds a row (`CommitRow`), and the three together say that it adds it after its
predecessor, over stored bytes, and in nobody's place. `OnlyFirstUploadsAdd`
says the same of documents, which have no unique index: only a request that
looked before the first one was committed can add a second.

In `Extraction` the loop over the pages has read those before the one it is at
(`ReadInv`), and the records are those of this PDF, one of each page
(`RecordsInv`). Therefore the chunks of an attempt differ in identity although
the identity has nothing of their text (`IdentitiesDiffer`), and an upsert adds
points of this PDF only, for all of it, and loses none (`UpsertPointsInv`). `StoreInv` ties points to
objects: what has been uploaded is stored, an upsert comes after all uploads,
and neither is ever taken back.

In `Membership` each `Fine` request relates what it carries to the committed
rows: its inserted users row conflicts with none of them, its scope exists, and
a creation under way is of something that does not. `Apart` says of two requests
that their flushed rows do not conflict and that they do not create the same.
All of it survives the commit of another request, because accounts and scopes
are only added (`FineGrows`). `Loaded` says of a role change or a removal that
the rank its row was loaded with has been held; the history only grows, so the
audit row it writes is right whatever has become of the row since
(`PutRowInv`). That only the creator's rank can be missing from the log is that
a scope is created once (`CommitCreationInv`).

In `TenantScope` almost every action changes one request and one connection and
leaves the rest alone. `Fine` collects what the invariant says of one
request, and a step preserves it if the request that moves is fine afterwards
and the others have kept their connections (`Step`); the ends of a transaction
have a lemma of their own (`Leave`), because they free the connection, and then
`PoolIsUnscoped` needs that commit and rollback of a setting made with
`SetLocal` both lead back to `Unset`. Rows only matter through the copied
tenants: `MemberRowsAgree` and the tenant of a document agree with
`workspace_tenant`, which is written once.

In `WorkerTask` the setting of a task follows from its pc (`TaskFine`: unset
before `SetTenantScope`, the tenant of its job from the first commit on, unset
in the `except` clause only of a job with a failure that nothing records).
`FailuresAreRecordable` is about failures after the first commit on the
connection the task began with, and `JobsAreCarried` about jobs neither `lost`
nor `unrecorded`: without these exceptions both are false of the code. The collection and its indexes
only grow, so what `get_collection` answered can only list too many fields as
missing (`SetupFine`). A job has one carrier at most, a handler, a message or a
task, whose attempt is the job's retry_count (`CarrierInv`); `NoJobIsForgotten`
then rests on `RecordFailure`, which counts, and `PublishRetry`, for which the
job waits as long as retries are left.

**The refinements.** An initial state maps to one of the abstract
specification, and every step to a step or a stutter; there is one lemma per
kind of step, and what a lemma needs to know of the state is an invariant.

* `JobLifecycle` by `Ingestion` and by `WorkerTask`. The abstract `Advance`
  starts from the status of the row, the code's `stage` from where the task is:
  `StatusInv` says that they agree (a task that loads finds a job that waits, and
  the row then shows the stage of the task). That a failure of a job leaves
  nobody else who carries it, and that a retry has a number left exactly when
  the abstract job stays carried, is `CarrierInv` with `AttemptsAreCounted`. In
  `WorkerTask` the row may hide from its task; then nothing is written and the
  step is a `Leave`, or no step at all.
* `VersionLog` by `DocumentUpload`. Only `Commit`, `Publish` and an `Abandon`
  past the commit are visible. `Append` needs the predecessor to be there and the
  key to be free, which are `PredecessorInv` and `KeyInv`; that the one who hands
  over is the one who committed is `CommittedInv`. A step of one document must
  be a stutter of all the others (`LogStep`). `Ingestion` uploads in one step;
  `HSpec` adds to it the history `sent`, which only `PublishJob` changes.
* `SettledJobsRest` is proved of neither module: it is `OverIsForGood`, a theorem
  about `JobLifecycle` alone, which holds wherever `JobLifecycle` is
  implemented. `ReadersLoseNothing` is read off the steps of `Catalog` in the
  same way: a version that has points keeps points, and a document that serves
  a version never goes back to none.

`NumbersContiguous`, `MessageAfterCommit` and `VersionsImmutable` of
`DocumentUpload` are proved one by one and not checked by a run of their own:
`VersionLogSpec` implies them, and is what the run checks.

Each proof has one step per action and, where more than one conjunct can be
disturbed, one below it per conjunct.

**Only model-checked:** the liveness properties `AttemptsEnd`, `RequestsEnd` and
`JobsGetReady` (fairness and ENABLED are out of the prover's reach).

## 6. What is not modelled

* The migrations: each is run once, by hand and alone.
* Token verification (PyJWT), OCR, rendering, embedding, splitting: library
  calls, represented by what their callers do with success or an exception.
* `save_outputs` (nothing calls it), `delete` of the storage client (nothing
  calls it), GET handlers (they only read).
* Configuration, logging, exception classes, schemas, compose files: no state.
  The Keycloak set-up script is run by hand on a developer's machine.
* Tables without code: conversations, messages, feedback, quotas.

## 7. Plan

In the order of what they add:

1. `Membership`: a history of answers, to relate a revoked key or a removed
   member to later requests.
2. `Extraction` and `Ingestion` composed, to relate the completeness of the
   points to the version that is served.
3. More of what clients may rely on as action properties of the abstract
   specifications, carried over as `SettledJobsRest` is: that a job's status never
   goes back within an attempt, that a version number is handed out once.
