--------------------------- MODULE DocumentUpload ---------------------------
(***************************************************************************)
(* Concurrent uploads of one filename into one workspace: the handler      *)
(* upload_document of apps/api/routers/documents.py, a coroutine that      *)
(* other requests overtake at every await, over Postgres at READ COMMITTED *)
(* and the object store. Rows a transaction has flushed and not committed  *)
(* are visible to it alone, but hold their key of the unique index.        *)
(*                                                                         *)
(* A definition followed by one of the same parameters under its plain     *)
(* name is a fault of that code; no action uses one.                       *)
(***************************************************************************)
EXTENDS Naturals, FiniteSets

CONSTANTS
    Contents,    \* byte contents uploaded; a content stands for its hash
    Requests,    \* handlers that may run at the same time
    DocumentIds, \* identifiers uuid4 may draw; their number bounds documents
    MaxVersion,  \* bound on the version numbers of a document
    None         \* SQL NULL

Numbers == 1..MaxVersion

ASSUME NumberAssumption == MaxVersion \in Nat \ {0} /\ None \notin Numbers
ASSUME NoneAssumption == None \notin Contents /\ None \notin DocumentIds

VARIABLES
    current,   \* document -> number of its current version; None: none yet
    hash,      \* document -> content_hash_current; None: no such row
    version,   \* document -> number -> content_hash of the row; None: no row
    stored,    \* objects in the bucket: [document, content]
    sent,      \* ingestion messages published: [document, number]
    request    \* request -> what its handler knows

vars == <<current, hash, version, stored, sent, request>>

PCs == {"idle", "received", "numbering", "storing", "inserting", "inserted",
        "committed"}

Idle == [pc |-> "idle", content |-> None, document |-> None, number |-> None]

TypeOK ==
    /\ current \in [DocumentIds -> Numbers \cup {None}]
    /\ hash \in [DocumentIds -> Contents \cup {None}]
    /\ version \in [DocumentIds -> [Numbers -> Contents \cup {None}]]
    /\ stored \subseteq [document : DocumentIds, content : Contents]
    /\ sent \subseteq [document : DocumentIds, number : Numbers]
    /\ request \in [Requests -> [pc : PCs, content : Contents \cup {None},
                                 document : DocumentIds \cup {None},
                                 number : Numbers \cup {None}]]

Init ==
    /\ current = [d \in DocumentIds |-> None]
    /\ hash = [d \in DocumentIds |-> None]
    /\ version = [d \in DocumentIds |-> [n \in Numbers |-> None]]
    /\ stored = {}
    /\ sent = {}
    /\ request = [r \in Requests |-> Idle]

Documents == {d \in DocumentIds : hash[d] # None}
NumbersOf(d) == {n \in Numbers : version[d][n] # None}

\* An identifier no row and no open transaction has.
IsFresh(d) ==
    d \notin Documents /\ \A r \in Requests : request[r].document # d

-----------------------------------------------------------------------------

\* Bound of the model: every open request still finds a number.
RoomLeft ==
    \A d \in DocumentIds :
        Cardinality(NumbersOf(d)) + Cardinality({r \in Requests : request[r] # Idle})
            < MaxVersion

\* The checks of type, size and leading bytes have passed.
ReceiveFile(r, c) ==
    /\ request[r] = Idle
    /\ RoomLeft
    /\ request' = [request EXCEPT ![r] = [Idle EXCEPT !.pc = "received", !.content = c]]
    /\ UNCHANGED <<current, hash, version, stored, sent>>

\* The row exists, has a ready version, and that holds the uploaded bytes.
IsUnchanged(r, d) == current[d] # None /\ hash[d] = request[r].content

\* session.scalar takes whichever document of the filename comes first. An
\* unchanged file is answered 200.
SelectExisting(r, d) ==
    /\ request[r].pc = "received"
    /\ d \in Documents
    /\ request' = [request EXCEPT ![r] =
           IF IsUnchanged(r, d) THEN Idle
           ELSE [@ EXCEPT !.pc = "numbering", !.document = d]]
    /\ UNCHANGED <<current, hash, version, stored, sent>>

\* The lookup finds nothing although there is a document.
InsertDocumentUnseen(r, d) ==
    /\ request[r].pc = "received"
    /\ IsFresh(d)
    /\ request' = [request EXCEPT ![r] =
           [@ EXCEPT !.pc = "storing", !.document = d, !.number = 1]]
    /\ UNCHANGED <<current, hash, version, stored, sent>>

\* No committed document of that filename: a new one is flushed.
InsertDocument(r, d) ==
    /\ request[r].pc = "received"
    /\ Documents = {}
    /\ IsFresh(d)
    /\ request' = [request EXCEPT ![r] =
           [@ EXCEPT !.pc = "storing", !.document = d, !.number = 1]]
    /\ UNCHANGED <<current, hash, version, stored, sent>>

\* The latest version_number of the document plus one.
NextNumber(d, n) ==
    /\ \A u \in NumbersOf(d) : u < n
    /\ n = 1 \/ n - 1 \in NumbersOf(d)

ReadLatestNumber(r, n) ==
    /\ request[r].pc = "numbering"
    /\ NextNumber(request[r].document, n)
    /\ request' = [request EXCEPT ![r] = [@ EXCEPT !.pc = "storing", !.number = n]]
    /\ UNCHANGED <<current, hash, version, stored, sent>>

\* The key holds the hash, so an object that is there holds the same bytes.
PutUnkeyed(r) == stored \cup {request[r].content}
PutSkipped(r) ==
    IF request[r].number = 1
    THEN stored \cup {[document |-> request[r].document,
                       content |-> request[r].content]}
    ELSE stored
Put(r) == stored \cup {[document |-> request[r].document,
                        content |-> request[r].content]}

StoreBytes(r) ==
    /\ request[r].pc = "storing"
    /\ stored' = Put(r)
    /\ request' = [request EXCEPT ![r].pc = "inserting"]
    /\ UNCHANGED <<current, hash, version, sent>>

Key(r) == [document |-> request[r].document, number |-> request[r].number]

\* The flush of the version row: a transaction that inserted the same
\* (document_id, version_number) and is still open makes it wait, one that
\* has committed makes it fail.
KeyIsHeld(r) ==
    \E q \in Requests \ {r} : request[q].pc = "inserted" /\ Key(q) = Key(r)
KeyIsTakenNever(r) == FALSE
KeyIsTaken(r) == request[r].number \in NumbersOf(request[r].document)

InsertVersion(r) ==
    /\ request[r].pc = "inserting"
    /\ ~KeyIsHeld(r)
    /\ ~KeyIsTaken(r)
    /\ request' = [request EXCEPT ![r].pc = "inserted"]
    /\ UNCHANGED <<current, hash, version, stored, sent>>

\* IntegrityError: the transaction is rolled back, the client gets a 500.
RejectVersionRetried(r) ==
    /\ request[r].pc = "inserting"
    /\ KeyIsTaken(r)
    /\ request' = [request EXCEPT ![r].pc = "storing"]
    /\ UNCHANGED <<current, hash, version, stored, sent>>
RejectVersion(r) ==
    /\ request[r].pc = "inserting"
    /\ KeyIsTaken(r)
    /\ request' = [request EXCEPT ![r] = Idle]
    /\ UNCHANGED <<current, hash, version, stored, sent>>

\* Document, version and job become visible together.
Commit(r) ==
    LET d == request[r].document
        c == request[r].content
    IN  /\ request[r].pc = "inserted"
        /\ hash' = [hash EXCEPT ![d] = IF @ = None THEN c ELSE @]
        /\ version' = [version EXCEPT ![d][request[r].number] = c]
        /\ request' = [request EXCEPT ![r].pc = "committed"]
        /\ UNCHANGED <<current, stored, sent>>

\* run_ingestion_job.delay() and the 202.
PublishableEarly(r) == request[r].pc \in {"inserted", "committed"}
Publishable(r) == request[r].pc = "committed"

Publish(r) ==
    /\ Publishable(r)
    /\ sent' = sent \cup {Key(r)}
    /\ request' = [request EXCEPT ![r] = Idle]
    /\ UNCHANGED <<current, hash, version, stored>>

\* Any call of the handler raises, the client goes away, or the process dies.
\* What is not committed is rolled back; what is stored stays.
Abandon(r) ==
    /\ request[r].pc # "idle"
    /\ request' = [request EXCEPT ![r] = Idle]
    /\ UNCHANGED <<current, hash, version, stored, sent>>

\* A worker has made a version ready (see Ingestion for all that can happen).
VersionReady(m) ==
    /\ m \in sent
    /\ current' = [current EXCEPT ![m.document] = m.number]
    /\ hash' = [hash EXCEPT ![m.document] = version[m.document][m.number]]
    /\ UNCHANGED <<version, stored, sent, request>>

HandlerStep(r) ==
    \/ \E d \in DocumentIds : SelectExisting(r, d)
    \/ \E d \in DocumentIds : InsertDocument(r, d)
    \/ \E n \in Numbers : ReadLatestNumber(r, n)
    \/ StoreBytes(r)
    \/ InsertVersion(r)
    \/ RejectVersion(r)
    \/ Commit(r)
    \/ Publish(r)

Next ==
    \/ \E r \in Requests, c \in Contents : ReceiveFile(r, c)
    \/ \E r \in Requests : HandlerStep(r)
    \/ \E r \in Requests : Abandon(r)
    \/ \E m \in sent : VersionReady(m)

Spec == Init /\ [][Next]_vars

\* The event loop gets to every handler that can go on, and Postgres wakes a
\* transaction that waits for a key when its holder ends: strong fairness,
\* because another request may take the key again and again in between.
FairSpec == Spec /\ \A r \in Requests : SF_vars(HandlerStep(r))

-----------------------------------------------------------------------------

\* The bytes of a committed version are in the object store: a job never
\* fails for want of its input, whichever request stored them.
VersionBytesStored ==
    \A d \in DocumentIds : \A n \in NumbersOf(d) :
        [document |-> d, content |-> version[d][n]] \in stored

\* Version numbers of a document run from 1 without gaps, although they are
\* read before the insert and transactions in between fail.
NumbersContiguous ==
    \A d \in DocumentIds : \A n \in NumbersOf(d) : \A u \in 1..n : u \in NumbersOf(d)

\* A document is never visible without a version.
DocumentHasVersion == \A d \in Documents : NumbersOf(d) # {}

\* A worker never receives a job whose rows are not committed.
MessageAfterCommit == \A m \in sent : m.number \in NumbersOf(m.document)

\* No request replaces the version row of another one.
VersionsImmutable ==
    [][\A d \in DocumentIds : \A n \in NumbersOf(d) :
           version'[d][n] = version[d][n]]_vars

\* The versions of every document implement VersionLog: although the number is
\* read before the insert and the handlers overlap, fail and wait for each
\* other's keys, each commit appends the next version of its document, none is
\* replaced, and a job is handed over only by the request that committed it.
Log(d) == INSTANCE VersionLog WITH
    rows <- version[d],
    pending <- {n \in Numbers :
                   \E r \in Requests :
                       request[r].pc = "committed" /\ Key(r) = [document |-> d, number |-> n]},
    sent <- {n \in Numbers : [document |-> d, number |-> n] \in sent}

\* Log(d)!Spec for every d, with the quantifier inside the box.
VersionLogSpec ==
    /\ \A d \in DocumentIds : Log(d)!Init
    /\ [][\A d \in DocumentIds : [Log(d)!Next]_(Log(d)!vars)]_vars

\* Every request is answered: waiting for the key of the unique index ends.
RequestsEnd == \A r \in Requests : request[r].pc # "idle" ~> request[r].pc = "idle"

\* Every request under way works on a document others can see.
Settled ==
    /\ Documents # {}
    /\ \A r \in Requests : request[r].document \in Documents \cup {None}

\* Only first uploads that overlap can give a filename two documents: when
\* they are over, no document is added, whatever overlaps afterwards.
FirstUploadsSettle == [][Settled => Settled' /\ Documents' = Documents]_vars

\* specs/020-async-ingestion-pipeline/plan.md: a second upload with a filename
\* that exists in the workspace is an upload to that document.
OneDocumentPerFilename == \A d, e \in Documents : d = e
=============================================================================
