--------------------------- MODULE MCTenantScope ---------------------------
(***************************************************************************)
(* TenantScope for TLC. A tenant and its admin are permuted together, and  *)
(* requests, connections and workspaces are alike; the run checks no       *)
(* liveness.                                                               *)
(***************************************************************************)
EXTENDS TenantScope, TLC

CONSTANTS ann, bob, t1, t2

AdminRows == {<<t1, ann>>, <<t2, bob>>}

\* Tenants change places together with their admins.
Swap ==
    [x \in {t1, t2, ann, bob} |->
        CASE x = t1 -> t2 [] x = t2 -> t1 [] x = ann -> bob [] x = bob -> ann]

Alike ==
    {Swap} \cup
    Permutations(Requests) \cup Permutations(Connections) \cup Permutations(Workspaces)
=============================================================================
