--------------------------- MODULE CollectionSetup ---------------------------
(***************************************************************************)
(* ensure_collection of packages/ingestion/qdrant_setup.py, run by every   *)
(* task before it writes its points, so by several workers at a time: each *)
(* call to Qdrant is a step, and what it answered may be out of date when  *)
(* the next one is made. Composed with the tasks in WorkerTask.            *)
(*                                                                         *)
(* A definition followed by one of the same parameters under its plain     *)
(* name is a fault of that code; no action uses one.                       *)
(***************************************************************************)
EXTENDS Naturals

CONSTANTS
    Workers,
    FieldCount  \* payload fields that get an index (7 in the code)

Fields == 1..FieldCount
ASSUME FieldAssumption == FieldCount \in Nat

VARIABLES
    collection_exists,
    payload_schema,  \* fields of the collection that have an index
    setup            \* worker -> where it is in the call, what is left to index

qdrant == <<collection_exists, payload_schema>>

NoSetup == [pc |-> "none", missing |-> {}]
SetupStates ==
    [pc : {"none", "called", "creating", "describing", "indexing", "done"},
     missing : SUBSET Fields]

SetupTypeOK ==
    /\ collection_exists \in BOOLEAN
    /\ payload_schema \subseteq Fields
    /\ setup \in [Workers -> SetupStates]

SetupInit ==
    /\ collection_exists = FALSE
    /\ payload_schema = {}
    /\ setup = [w \in Workers |-> NoSetup]

Calls(w, pc) == setup' = [setup EXCEPT ![w].pc = pc]

\* Without asking; and with a collection that is there taken to be complete.
CheckCollectionNever(w) ==
    /\ setup[w].pc = "called"
    /\ Calls(w, "creating")
    /\ UNCHANGED qdrant
CheckCollectionOnly(w) ==
    /\ setup[w].pc = "called"
    /\ Calls(w, IF collection_exists THEN "done" ELSE "creating")
    /\ UNCHANGED qdrant
CheckCollection(w) ==
    /\ setup[w].pc = "called"
    /\ Calls(w, IF collection_exists THEN "describing" ELSE "creating")
    /\ UNCHANGED qdrant

\* Qdrant refuses a collection that exists by now (LosesCreation).
CreateCollection(w) ==
    /\ setup[w].pc = "creating"
    /\ ~collection_exists
    /\ collection_exists' = TRUE
    /\ Calls(w, "describing")
    /\ UNCHANGED payload_schema

LosesCreation(w) == setup[w].pc = "creating" /\ collection_exists

\* get_collection: the fields without an index, as of now.
DescribeCollection(w) ==
    /\ setup[w].pc = "describing"
    /\ setup' = [setup EXCEPT ![w] = [pc |-> "indexing", missing |-> Fields \ payload_schema]]
    /\ UNCHANGED qdrant

\* In the order of REQUIRED_PAYLOAD_INDEXES; an index that another worker has
\* made meanwhile is accepted.
CreatePayloadIndex(w, f) ==
    /\ setup[w].pc = "indexing"
    /\ f \in setup[w].missing
    /\ \A g \in setup[w].missing : f <= g
    /\ payload_schema' = payload_schema \cup {f}
    /\ setup' = [setup EXCEPT ![w].missing = @ \ {f}]
    /\ UNCHANGED collection_exists

ReturnSetup(w) ==
    /\ setup[w].pc = "indexing"
    /\ setup[w].missing = {}
    /\ Calls(w, "done")
    /\ UNCHANGED qdrant

SetupStep(w) ==
    \/ CheckCollection(w)
    \/ CreateCollection(w)
    \/ DescribeCollection(w)
    \/ \E f \in Fields : CreatePayloadIndex(w, f)
    \/ ReturnSetup(w)
=============================================================================
