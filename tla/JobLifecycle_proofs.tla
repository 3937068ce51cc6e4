------------------------ MODULE JobLifecycle_proofs ------------------------
(***************************************************************************)
(* What the contract of a job comes to, for any number of jobs and retries.*)
(* Ingestion_proofs and WorkerTask_proofs show that the code keeps the     *)
(* contract, so these facts hold of the rows GET /jobs reads.              *)
(***************************************************************************)
EXTENDS JobLifecycle, TLAPS

\* A carried job has a row and retries left; no row counts more failures than
\* there are attempts.
CountInv ==
    /\ status \in [Jobs -> Statuses]
    /\ retry_count \in [Jobs -> 0..(MaxRetries + 1)]
    /\ carried \subseteq Jobs
    /\ \A j \in carried : status[j] # "absent" /\ retry_count[j] <= MaxRetries
    /\ \A j \in Jobs : status[j] = "absent" => retry_count[j] = 0

\* A job is over when it has a row and nobody carries it.
Over(j) == status[j] # "absent" /\ j \notin carried

\* Nothing happens any more to a job that is over, and it stays over.
OverRests ==
    \A j \in Jobs : Over(j) =>
        Over(j)' /\ status'[j] = status[j] /\ retry_count'[j] = retry_count[j]
OverForGood == [][OverRests]_vars

LEMMA InitCount == ASSUME MaxRetries \in Nat, Init PROVE CountInv
<1>1. \A j \in Jobs : status[j] = "absent" \/ status[j] = "queued"
  BY DEF Init
<1>2. status \in [Jobs -> Statuses]
  BY DEF Init, Statuses
<1>3. QED
  BY <1>1, <1>2 DEF Init, CountInv

LEMMA StepCount ==
    ASSUME MaxRetries \in Nat, CountInv, [Next]_vars
    PROVE  CountInv'
<1>1. ASSUME NEW j \in Jobs, Create(j) PROVE CountInv'
  BY <1>1 DEF Create, CountInv, Statuses
<1>2. ASSUME NEW j \in Jobs, Begin(j) PROVE CountInv'
  BY <1>2 DEF Begin, CountInv, Statuses
<1>3. ASSUME NEW j \in Jobs, Advance(j) PROVE CountInv'
  <2>1. Following[status[j]] \in Statuses \ {"absent"}
    BY <1>3 DEF Advance, Following, Statuses
  <2>2. QED
    BY <1>3, <2>1 DEF Advance, CountInv
<1>4. ASSUME NEW j \in Jobs, Fail(j) PROVE CountInv'
  <2>1. /\ status' = [status EXCEPT ![j] = "failed"]
        /\ retry_count' = [retry_count EXCEPT ![j] = @ + 1]
        /\ (retry_count[j] < MaxRetries /\ carried' = carried) \/ carried' = carried \ {j}
        /\ j \in carried /\ retry_count[j] \in 0..MaxRetries
    BY <1>4 DEF Fail, CountInv
  <2>2. QED
    BY <2>1 DEF CountInv, Statuses
<1>5. ASSUME NEW j \in Jobs, Leave(j) PROVE CountInv'
  BY <1>5 DEF Leave, CountInv
<1>6. CASE UNCHANGED vars
  BY <1>6 DEF vars, CountInv
<1>7. QED
  BY <1>1, <1>2, <1>3, <1>4, <1>5, <1>6 DEF Next

\* A job fails at most MaxRetries + 1 times, however it is retried, and what
\* still carries it has an attempt left to make.
THEOREM FailuresAreBounded == ASSUME MaxRetries \in Nat PROVE Spec => []CountInv
<1>1. Init => CountInv
  BY InitCount
<1>2. CountInv /\ [Next]_vars => CountInv'
  BY StepCount
<1>3. QED
  BY <1>1, <1>2, PTL DEF Spec

\* GET /jobs answers the same for ever once a job is over.
THEOREM OverIsForGood == ASSUME MaxRetries \in Nat PROVE Spec => OverForGood
<1>1. ASSUME CountInv, [Next]_vars, NEW j \in Jobs, Over(j)
      PROVE  Over(j)' /\ status'[j] = status[j] /\ retry_count'[j] = retry_count[j]
  <2>1. CASE UNCHANGED vars
    BY <1>1, <2>1 DEF vars, Over
  <2>2. ASSUME NEW i \in Jobs, Create(i) \/ Begin(i) \/ Advance(i) \/ Fail(i) \/ Leave(i)
        PROVE  Over(j)' /\ status'[j] = status[j] /\ retry_count'[j] = retry_count[j]
    <3>1. i # j
      BY <1>1, <2>2 DEF Over, Create, Begin, Advance, Fail, Leave
    <3>2. QED
      BY <1>1, <2>2, <3>1 DEF Over, CountInv, Create, Begin, Advance, Fail, Leave
  <2>3. QED
    BY <1>1, <2>1, <2>2 DEF Next
<1>2. CountInv /\ [Next]_vars => [OverRests]_vars
  BY <1>1 DEF OverRests
<1>3. QED
  BY <1>2, FailuresAreBounded, PTL DEF Spec, OverForGood
=============================================================================
