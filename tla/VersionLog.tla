----------------------------- MODULE VersionLog -----------------------------
(***************************************************************************)
(* What the uploads of one document make of its versions, whoever uploads  *)
(* at the same time: a log. A version is appended under the next number,   *)
(* with its bytes and its job, in one step; it is never replaced; and its  *)
(* job is handed over once, after the version is there, or forgotten.      *)
(* DocumentUpload implements it for every document of a filename, and      *)
(* Ingestion, which commits an upload in one step, implements it too.      *)
(***************************************************************************)
EXTENDS Naturals

CONSTANTS Numbers, Contents, None

VARIABLES
    rows,    \* number -> content_hash of the version; None: no such row
    pending, \* numbers committed whose job is not handed over yet
    sent     \* numbers whose job the broker has got

vars == <<rows, pending, sent>>

\* No version at all, or the one of the first upload.
Init ==
    /\ \/ rows = [n \in Numbers |-> None]
       \/ \E c \in Contents : rows = [n \in Numbers |-> IF n = 1 THEN c ELSE None]
    /\ pending = {n \in Numbers : rows[n] # None}
    /\ sent = {}

Append(n, c) ==
    /\ rows[n] = None
    /\ \A u \in Numbers : u < n => rows[u] # None
    /\ rows' = [rows EXCEPT ![n] = c]
    /\ pending' = pending \cup {n}
    /\ UNCHANGED sent

HandOver(n) ==
    /\ n \in pending
    /\ pending' = pending \ {n}
    /\ sent' = sent \cup {n}
    /\ UNCHANGED rows

\* The broker refuses the job, or the handler is gone: nobody tries again.
Forget(n) ==
    /\ n \in pending
    /\ pending' = pending \ {n}
    /\ UNCHANGED <<rows, sent>>

Next ==
    \E n \in Numbers :
        HandOver(n) \/ Forget(n) \/ \E c \in Contents : Append(n, c)

Spec == Init /\ [][Next]_vars
=============================================================================
