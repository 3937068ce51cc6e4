---------------------------- MODULE MCWorkerTask ----------------------------
(***************************************************************************)
(* WorkerTask for TLC: two jobs of different tenants.                      *)
(***************************************************************************)
EXTENDS WorkerTask, TLC

CONSTANTS j1, j2, t1, t2

TenantOf == j1 :> t1 @@ j2 :> t2
=============================================================================
