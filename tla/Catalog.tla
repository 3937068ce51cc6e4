------------------------------ MODULE Catalog ------------------------------
(***************************************************************************)
(* What the ingestion of a document promises to the people who search it:  *)
(* uploads get consecutive version numbers, a version becomes searchable   *)
(* once and stays so (citations of old versions still resolve), and the    *)
(* document serves only searchable versions, replacing one by another in a *)
(* single step and never falling back to none.                             *)
(***************************************************************************)
EXTENDS Naturals

CONSTANTS Versions, None

VARIABLES uploaded, searchable, served

vars == <<uploaded, searchable, served>>

Init ==
    /\ uploaded = {1}
    /\ searchable = {}
    /\ served = None

Upload(v) ==
    /\ v \notin uploaded
    /\ \A u \in Versions : u < v => u \in uploaded
    /\ uploaded' = uploaded \cup {v}
    /\ UNCHANGED <<searchable, served>>

Index(v) ==
    /\ v \in uploaded
    /\ searchable' = searchable \cup {v}
    /\ UNCHANGED <<uploaded, served>>

Serve(v) ==
    /\ v \in searchable
    /\ served' = v
    /\ UNCHANGED <<uploaded, searchable>>

Next == \E v \in Versions : Upload(v) \/ Index(v) \/ Serve(v)

Spec == Init /\ [][Next]_vars
=============================================================================
