--------------------------- MODULE JobLifecycle ---------------------------
(***************************************************************************)
(* The contract of an ingestion job, as GET /jobs shows it: its status goes*)
(* through the stages one by one, a failure is counted, and only a job that*)
(* is carried (by the upload that committed it, a message or a task) ever  *)
(* changes. A job is carried from its commit until it is let go for good;  *)
(* a failure keeps it carried only as long as retries are left. Which      *)
(* failures are worth a retry it leaves open.                              *)
(* Ingestion and WorkerTask implement it, each for what it models.         *)
(***************************************************************************)
EXTENDS Naturals

CONSTANTS Jobs, MaxRetries

VARIABLES
    status,       \* job -> ingestion_jobs.status; "absent": no such row
    retry_count,  \* job -> ingestion_jobs.retry_count
    carried       \* jobs that somebody still works on or is going to

vars == <<status, retry_count, carried>>

Statuses ==
    {"absent", "queued", "parsing", "chunking", "embedding", "indexing",
     "ready", "failed"}

Waiting == {"queued", "failed"}

Following == [parsing |-> "chunking", chunking |-> "embedding",
              embedding |-> "indexing", indexing |-> "ready"]

\* Some uploads have committed their jobs.
Init ==
    /\ status \in [Jobs -> {"absent", "queued"}]
    /\ retry_count = [j \in Jobs |-> 0]
    /\ carried = {j \in Jobs : status[j] = "queued"}

Create(j) ==
    /\ status[j] = "absent"
    /\ status' = [status EXCEPT ![j] = "queued"]
    /\ carried' = carried \cup {j}
    /\ UNCHANGED retry_count

\* An attempt begins, the first one or a retry.
Begin(j) ==
    /\ j \in carried
    /\ status[j] \in Waiting
    /\ status' = [status EXCEPT ![j] = "parsing"]
    /\ UNCHANGED <<retry_count, carried>>

Advance(j) ==
    /\ j \in carried
    /\ status[j] \in DOMAIN Following
    /\ status' = [status EXCEPT ![j] = Following[status[j]]]
    /\ UNCHANGED <<retry_count, carried>>

\* The attempt fails in a stage, or after the commit that made the job ready,
\* and is retried or not; with its retries used up the job is let go.
Fail(j) ==
    /\ j \in carried
    /\ status[j] \in DOMAIN Following \cup {"ready"}
    /\ status' = [status EXCEPT ![j] = "failed"]
    /\ retry_count' = [retry_count EXCEPT ![j] = @ + 1]
    /\ \/ retry_count[j] < MaxRetries /\ UNCHANGED carried
       \/ carried' = carried \ {j}

\* The task is done, or its message or process is lost: the row stays as it is.
Leave(j) ==
    /\ j \in carried
    /\ carried' = carried \ {j}
    /\ UNCHANGED <<status, retry_count>>

Next ==
    \E j \in Jobs : Create(j) \/ Begin(j) \/ Advance(j) \/ Fail(j) \/ Leave(j)

Spec == Init /\ [][Next]_vars
=============================================================================
