------------------------ MODULE DocumentUpload_proofs ------------------------
(***************************************************************************)
(* Safety of DocumentUpload for every number of requests, documents,       *)
(* contents and versions.                                                  *)
(*                                                                         *)
(* A request computes with what it read before other requests committed.   *)
(* The invariant keeps the facts that can not go stale: rows and objects   *)
(* are never removed, so a predecessor that was there and bytes that were  *)
(* stored still are; and the unique index lets at most one open            *)
(* transaction hold a key that is not taken.                               *)
(***************************************************************************)
EXTENDS DocumentUpload, TLAPS

\* What a request holds, by how far it has come.
RequestInv ==
    \A r \in Requests :
        /\ request[r].pc # "idle" => request[r].content \in Contents
        /\ request[r].pc \in {"numbering", "storing", "inserting", "inserted", "committed"} =>
              request[r].document \in DocumentIds
        /\ request[r].pc \in {"storing", "inserting", "inserted", "committed"} =>
              request[r].number \in Numbers

\* The number of a request is 1 or has a committed predecessor.
PredecessorInv ==
    \A r \in Requests :
        request[r].pc \in {"storing", "inserting", "inserted"} =>
            \/ request[r].number = 1
            \/ request[r].number - 1 \in NumbersOf(request[r].document)

\* The bytes of a request that is past the upload are in the object store.
StoredInv ==
    \A r \in Requests :
        request[r].pc \in {"inserting", "inserted"} =>
            [document |-> request[r].document, content |-> request[r].content] \in stored

\* The key of a flushed row is not taken, and no other open transaction holds
\* it; a committed request has its row.
KeyInv ==
    \A r \in Requests :
        /\ request[r].pc = "inserted" =>
              /\ request[r].number \notin NumbersOf(request[r].document)
              /\ \A p \in Requests \ {r} :
                    request[p].pc = "inserted" =>
                        \/ request[p].document # request[r].document
                        \/ request[p].number # request[r].number
        /\ request[r].pc = "committed" =>
              request[r].number \in NumbersOf(request[r].document)

IInv ==
    /\ TypeOK
    /\ RequestInv
    /\ PredecessorInv
    /\ StoredInv
    /\ KeyInv
    /\ VersionBytesStored
    /\ NumbersContiguous
    /\ DocumentHasVersion
    /\ MessageAfterCommit

-----------------------------------------------------------------------------

LEMMA InitInv == Init => IInv
<1>1. SUFFICES ASSUME Init PROVE IInv
  OBVIOUS
<1>2. TypeOK
  BY <1>1 DEF Init, TypeOK, Idle, PCs
<1>3. \A d \in DocumentIds : NumbersOf(d) = {}
  BY <1>1 DEF Init, NumbersOf
<1>4. QED
  BY <1>1, <1>2, <1>3
  DEF IInv, Init, Idle, RequestInv, PredecessorInv, StoredInv, KeyInv, VersionBytesStored,
      NumbersContiguous, DocumentHasVersion, MessageAfterCommit, Documents

\* A step that changes no row, removes no object and moves one request keeps
\* the invariant if it keeps what is said of that request, of the objects and
\* of the messages.
LEMMA RequestStep ==
    ASSUME IInv, NEW r \in Requests,
           UNCHANGED <<current, hash, version>>,
           stored \subseteq stored',
           stored' \subseteq [document : DocumentIds, content : Contents],
           sent' \subseteq [document : DocumentIds, number : Numbers],
           \A m \in sent' : m.number \in NumbersOf(m.document),
           NEW q,
           request' = [request EXCEPT ![r] = q],
           q \in [pc : PCs, content : Contents \cup {None},
                  document : DocumentIds \cup {None}, number : Numbers \cup {None}],
           q.pc # "idle" => q.content \in Contents,
           q.pc \in {"numbering", "storing", "inserting", "inserted", "committed"} =>
              q.document \in DocumentIds,
           q.pc \in {"storing", "inserting", "inserted", "committed"} =>
              q.number \in Numbers,
           q.pc \in {"storing", "inserting", "inserted"} =>
              q.number = 1 \/ q.number - 1 \in NumbersOf(q.document),
           q.pc \in {"inserting", "inserted"} =>
              [document |-> q.document, content |-> q.content] \in stored',
           q.pc # "committed",
           q.pc = "inserted" =>
              /\ q.number \notin NumbersOf(q.document)
              /\ \A p \in Requests \ {r} : request[p].pc = "inserted" =>
                    request[p].document # q.document \/ request[p].number # q.number
    PROVE  IInv'
<1>1. /\ request'[r] = q
      /\ \A p \in Requests \ {r} : request'[p] = request[p]
  BY DEF IInv, TypeOK
<1>2. TypeOK'
  BY DEF IInv, TypeOK
<1>3. \A d : NumbersOf(d)' = NumbersOf(d)
  BY DEF NumbersOf
<1>4. RequestInv'
  BY <1>1 DEF IInv, RequestInv
<1>5. PredecessorInv'
  BY <1>1 DEF IInv, PredecessorInv, NumbersOf
<1>6. StoredInv'
  BY <1>1 DEF IInv, StoredInv
<1>7. KeyInv'
  <2>1. SUFFICES ASSUME NEW p \in Requests
        PROVE  /\ request'[p].pc = "inserted" =>
                     /\ request'[p].number \notin NumbersOf(request'[p].document)
                     /\ \A o \in Requests \ {p} :
                           request'[o].pc = "inserted" =>
                               \/ request'[o].document # request'[p].document
                               \/ request'[o].number # request'[p].number
               /\ request'[p].pc = "committed" =>
                     request'[p].number \in NumbersOf(request'[p].document)
    BY DEF KeyInv, NumbersOf
  <2>2. CASE p = r
    BY <1>1, <2>2
  <2>3. CASE p # r
    BY <1>1, <2>3 DEF IInv, KeyInv
  <2>4. QED
    BY <2>2, <2>3
<1>8. VersionBytesStored' /\ NumbersContiguous'
  BY <1>3 DEF IInv, VersionBytesStored, NumbersContiguous
<1>9. DocumentHasVersion' /\ MessageAfterCommit'
  BY <1>3 DEF IInv, DocumentHasVersion, MessageAfterCommit, Documents, NumbersOf
<1>10. QED
  BY <1>2, <1>4, <1>5, <1>6, <1>7, <1>8, <1>9 DEF IInv

\* A request ends: nothing is said of an idle one.
LEMMA EndStep ==
    ASSUME IInv, NEW r \in Requests,
           UNCHANGED <<current, hash, version, stored>>,
           sent' \subseteq [document : DocumentIds, number : Numbers],
           \A m \in sent' : m.number \in NumbersOf(m.document),
           request' = [request EXCEPT ![r] = Idle]
    PROVE  IInv'
<1>1. Idle \in [pc : PCs, content : Contents \cup {None},
                document : DocumentIds \cup {None}, number : Numbers \cup {None}]
  BY DEF Idle, PCs
<1>2. /\ Idle.pc = "idle"
      /\ stored \subseteq stored'
      /\ stored' \subseteq [document : DocumentIds, content : Contents]
  BY DEF Idle, IInv, TypeOK
<1>3. QED
  BY <1>1, <1>2, RequestStep

\* What the request knows before a step, and the frame of a step that leaves
\* the bucket and the queue alone.
LEMMA Frame ==
    ASSUME IInv
    PROVE  /\ UNCHANGED stored =>
                  /\ stored \subseteq stored'
                  /\ stored' \subseteq [document : DocumentIds, content : Contents]
           /\ UNCHANGED sent =>
                  /\ sent' \subseteq [document : DocumentIds, number : Numbers]
                  /\ \A m \in sent' : m.number \in NumbersOf(m.document)
BY DEF IInv, TypeOK, MessageAfterCommit

LEMMA ReceiveFileInv ==
    ASSUME IInv, NEW r \in Requests, NEW c \in Contents, ReceiveFile(r, c)
    PROVE  IInv'
<1> DEFINE q == [Idle EXCEPT !.pc = "received", !.content = c]
<1>1. /\ q.pc = "received"
      /\ q.content = c
      /\ q \in [pc : PCs, content : Contents \cup {None},
                document : DocumentIds \cup {None}, number : Numbers \cup {None}]
  BY DEF Idle, PCs
<1>2. /\ UNCHANGED <<current, hash, version, stored, sent>>
      /\ request' = [request EXCEPT ![r] = q]
  BY DEF ReceiveFile
<1> HIDE DEF q
<1>3. QED
  BY <1>1, <1>2, Frame, RequestStep

LEMMA SelectExistingInv ==
    ASSUME IInv, NEW r \in Requests, NEW d \in DocumentIds, SelectExisting(r, d)
    PROVE  IInv'
<1> DEFINE q == [request[r] EXCEPT !.pc = "numbering", !.document = d]
<1>1. UNCHANGED <<current, hash, version, stored, sent>>
  BY DEF SelectExisting
<1>2. CASE IsUnchanged(r, d)
  <2>1. request' = [request EXCEPT ![r] = Idle]
    BY <1>2 DEF SelectExisting
  <2>2. QED
    BY <1>1, <2>1, Frame, EndStep
<1>3. CASE ~IsUnchanged(r, d)
  <2>1. request' = [request EXCEPT ![r] = q]
    BY <1>3 DEF SelectExisting
  <2>2. /\ q.pc = "numbering"
        /\ q.document = d
        /\ q.content \in Contents
        /\ q \in [pc : PCs, content : Contents \cup {None},
                  document : DocumentIds \cup {None}, number : Numbers \cup {None}]
    BY DEF SelectExisting, IInv, TypeOK, RequestInv, PCs
  <2> HIDE DEF q
  <2>3. QED
    BY <1>1, <2>1, <2>2, Frame, RequestStep
<1>4. QED
  BY <1>2, <1>3

LEMMA InsertDocumentInv ==
    ASSUME IInv, NEW r \in Requests, NEW d \in DocumentIds, InsertDocument(r, d)
    PROVE  IInv'
<1> DEFINE q == [request[r] EXCEPT !.pc = "storing", !.document = d, !.number = 1]
<1>1. /\ UNCHANGED <<current, hash, version, stored, sent>>
      /\ request' = [request EXCEPT ![r] = q]
  BY DEF InsertDocument
<1>2. 1 \in Numbers
  BY NumberAssumption DEF Numbers
<1>3. /\ q.pc = "storing"
      /\ q.document = d
      /\ q.number = 1
      /\ q.content \in Contents
      /\ q \in [pc : PCs, content : Contents \cup {None},
                document : DocumentIds \cup {None}, number : Numbers \cup {None}]
  BY <1>2 DEF InsertDocument, IInv, TypeOK, RequestInv, PCs
<1> HIDE DEF q
<1>4. QED
  BY <1>1, <1>2, <1>3, Frame, RequestStep

LEMMA ReadLatestNumberInv ==
    ASSUME IInv, NEW r \in Requests, NEW n \in Numbers, ReadLatestNumber(r, n)
    PROVE  IInv'
<1> DEFINE q == [request[r] EXCEPT !.pc = "storing", !.number = n]
<1>1. /\ UNCHANGED <<current, hash, version, stored, sent>>
      /\ request' = [request EXCEPT ![r] = q]
  BY DEF ReadLatestNumber
<1>2. /\ q.pc = "storing"
      /\ q.document \in DocumentIds
      /\ q.document = request[r].document
      /\ q.number = n
      /\ q.content \in Contents
      /\ q \in [pc : PCs, content : Contents \cup {None},
                document : DocumentIds \cup {None}, number : Numbers \cup {None}]
  BY DEF ReadLatestNumber, IInv, TypeOK, RequestInv, PCs
<1>3. n = 1 \/ n - 1 \in NumbersOf(request[r].document)
  BY DEF ReadLatestNumber, NextNumber
<1> HIDE DEF q
<1>4. QED
  BY <1>1, <1>2, <1>3, Frame, RequestStep

LEMMA StoreBytesInv ==
    ASSUME IInv, NEW r \in Requests, StoreBytes(r)
    PROVE  IInv'
<1> DEFINE q == [request[r] EXCEPT !.pc = "inserting"]
<1>1. /\ UNCHANGED <<current, hash, version, sent>>
      /\ request' = [request EXCEPT ![r] = q]
  BY DEF StoreBytes
<1>2. /\ request[r].document \in DocumentIds
      /\ request[r].content \in Contents
      /\ request[r].number \in Numbers
      /\ request[r].number = 1 \/ request[r].number - 1 \in NumbersOf(request[r].document)
  BY DEF StoreBytes, IInv, RequestInv, PredecessorInv
<1>3. /\ q.pc = "inserting"
      /\ q.document = request[r].document
      /\ q.content = request[r].content
      /\ q.number = request[r].number
      /\ q \in [pc : PCs, content : Contents \cup {None},
                document : DocumentIds \cup {None}, number : Numbers \cup {None}]
  BY DEF IInv, TypeOK, PCs
<1>4. /\ stored \subseteq stored'
      /\ stored' \subseteq [document : DocumentIds, content : Contents]
      /\ [document |-> request[r].document, content |-> request[r].content] \in stored'
  BY <1>2 DEF StoreBytes, Put, IInv, TypeOK
<1> HIDE DEF q
<1>5. QED
  BY <1>1, <1>2, <1>3, <1>4, Frame, RequestStep

LEMMA InsertVersionInv ==
    ASSUME IInv, NEW r \in Requests, InsertVersion(r)
    PROVE  IInv'
<1> DEFINE q == [request[r] EXCEPT !.pc = "inserted"]
<1>1. /\ UNCHANGED <<current, hash, version, stored, sent>>
      /\ request' = [request EXCEPT ![r] = q]
  BY DEF InsertVersion
<1>2. /\ request[r].document \in DocumentIds
      /\ request[r].content \in Contents
      /\ request[r].number \in Numbers
      /\ request[r].number = 1 \/ request[r].number - 1 \in NumbersOf(request[r].document)
      /\ [document |-> request[r].document, content |-> request[r].content] \in stored
  BY DEF InsertVersion, IInv, RequestInv, PredecessorInv, StoredInv
<1>3. /\ q.pc = "inserted"
      /\ q.document = request[r].document
      /\ q.content = request[r].content
      /\ q.number = request[r].number
      /\ q \in [pc : PCs, content : Contents \cup {None},
                document : DocumentIds \cup {None}, number : Numbers \cup {None}]
  BY DEF IInv, TypeOK, PCs
<1>4. /\ request[r].number \notin NumbersOf(request[r].document)
      /\ \A p \in Requests \ {r} :
            request[p].pc = "inserted" =>
                \/ request[p].document # request[r].document
                \/ request[p].number # request[r].number
  BY DEF InsertVersion, KeyIsHeld, KeyIsTaken, Key
<1> HIDE DEF q
<1>5. QED
  BY <1>1, <1>2, <1>3, <1>4, Frame, RequestStep

LEMMA RejectVersionInv ==
    ASSUME IInv, NEW r \in Requests, RejectVersion(r)
    PROVE  IInv'
BY Frame, EndStep DEF RejectVersion

LEMMA AbandonInv ==
    ASSUME IInv, NEW r \in Requests, Abandon(r)
    PROVE  IInv'
BY Frame, EndStep DEF Abandon

\* The message names a row that KeyInv says is there.
LEMMA PublishInv ==
    ASSUME IInv, NEW r \in Requests, Publish(r)
    PROVE  IInv'
<1>1. /\ UNCHANGED <<current, hash, version, stored>>
      /\ request' = [request EXCEPT ![r] = Idle]
      /\ sent' = sent \cup {[document |-> request[r].document,
                            number |-> request[r].number]}
  BY DEF Publish, Key
<1>2. /\ request[r].document \in DocumentIds
      /\ request[r].number \in Numbers
      /\ request[r].number \in NumbersOf(request[r].document)
  BY DEF Publish, Publishable, IInv, RequestInv, KeyInv
<1>3. /\ sent' \subseteq [document : DocumentIds, number : Numbers]
      /\ \A m \in sent' : m.number \in NumbersOf(m.document)
  BY <1>1, <1>2 DEF IInv, TypeOK, MessageAfterCommit
<1>4. QED
  BY <1>1, <1>3, EndStep

\* The worker's part: no request, row or object changes.
LEMMA VersionReadyInv ==
    ASSUME IInv, NEW m \in sent, VersionReady(m)
    PROVE  IInv'
<1>1. /\ UNCHANGED <<version, stored, sent, request>>
      /\ current' = [current EXCEPT ![m.document] = m.number]
      /\ hash' = [hash EXCEPT ![m.document] = version[m.document][m.number]]
  BY DEF VersionReady
<1>2. /\ m.document \in DocumentIds
      /\ m.number \in Numbers
      /\ m.number \in NumbersOf(m.document)
  BY DEF IInv, TypeOK, MessageAfterCommit
<1>3. TypeOK'
  BY <1>1, <1>2 DEF IInv, TypeOK
<1>4. RequestInv' /\ StoredInv'
  BY <1>1 DEF IInv, RequestInv, StoredInv
<1>5. PredecessorInv' /\ KeyInv'
  BY <1>1 DEF IInv, PredecessorInv, KeyInv, NumbersOf
<1>6. VersionBytesStored' /\ NumbersContiguous' /\ MessageAfterCommit'
  BY <1>1 DEF IInv, VersionBytesStored, NumbersContiguous, MessageAfterCommit, NumbersOf
<1>7. DocumentHasVersion'
  <2>1. SUFFICES ASSUME NEW d \in DocumentIds, hash'[d] # None
                 PROVE  NumbersOf(d) # {}
    BY <1>1 DEF DocumentHasVersion, Documents, NumbersOf
  <2>2. CASE d = m.document
    BY <1>2, <2>2
  <2>3. CASE d # m.document
    <3>1. hash[d] # None
      BY <1>1, <2>1, <2>3 DEF IInv, TypeOK
    <3>2. QED
      BY <3>1 DEF IInv, DocumentHasVersion, Documents
  <2>4. QED
    BY <2>2, <2>3
<1>8. QED
  BY <1>3, <1>4, <1>5, <1>6, <1>7 DEF IInv

\* Commit adds one row: to a key that is not taken, after its predecessor, of
\* bytes that are stored.
LEMMA CommitRow ==
    ASSUME IInv, NEW r \in Requests, Commit(r)
    PROVE  /\ request[r].document \in DocumentIds
           /\ request[r].content \in Contents
           /\ request[r].number \in Numbers
           /\ request[r].number \notin NumbersOf(request[r].document)
           /\ \A d \in DocumentIds, n \in Numbers :
                 version'[d][n] = IF d = request[r].document /\ n = request[r].number
                                  THEN request[r].content
                                  ELSE version[d][n]
           /\ \A d \in DocumentIds :
                 NumbersOf(d)' = NumbersOf(d) \cup
                     (IF d = request[r].document THEN {request[r].number} ELSE {})
<1>1. /\ request[r].document \in DocumentIds
      /\ request[r].content \in Contents
      /\ request[r].number \in Numbers
      /\ request[r].number \notin NumbersOf(request[r].document)
  BY DEF Commit, IInv, RequestInv, KeyInv
<1>2. \A d \in DocumentIds, n \in Numbers :
          version'[d][n] = IF d = request[r].document /\ n = request[r].number
                           THEN request[r].content
                           ELSE version[d][n]
  BY <1>1 DEF Commit, IInv, TypeOK
<1>3. \A d \in DocumentIds :
          NumbersOf(d)' = NumbersOf(d) \cup
              (IF d = request[r].document THEN {request[r].number} ELSE {})
  BY <1>1, <1>2, NoneAssumption DEF NumbersOf
<1>4. QED
  BY <1>1, <1>2, <1>3

LEMMA CommitInv ==
    ASSUME IInv, NEW r \in Requests, Commit(r)
    PROVE  IInv'
<1> DEFINE d == request[r].document
           c == request[r].content
           n == request[r].number
<1>1. /\ UNCHANGED <<current, stored, sent>>
      /\ hash' = [hash EXCEPT ![d] = IF @ = None THEN c ELSE @]
      /\ version' = [version EXCEPT ![d][n] = c]
      /\ request' = [request EXCEPT ![r] = [request[r] EXCEPT !.pc = "committed"]]
  BY DEF Commit
<1>2. /\ request'[r].pc = "committed"
      /\ request'[r].document = d
      /\ request'[r].content = c
      /\ request'[r].number = n
      /\ \A p \in Requests \ {r} : request'[p] = request[p]
  BY <1>1 DEF IInv, TypeOK
<1>3. /\ d \in DocumentIds /\ c \in Contents /\ n \in Numbers
      /\ n \notin NumbersOf(d)
      /\ \A e \in DocumentIds, u \in Numbers :
            version'[e][u] = IF e = d /\ u = n THEN c ELSE version[e][u]
      /\ \A e \in DocumentIds :
            NumbersOf(e)' = NumbersOf(e) \cup (IF e = d THEN {n} ELSE {})
  BY CommitRow
<1>4. request[r].pc = "inserted"
  BY DEF Commit
<1>5. TypeOK'
  <2>1. hash' \in [DocumentIds -> Contents \cup {None}]
    BY <1>1, <1>3 DEF IInv, TypeOK
  <2>2. version' \in [DocumentIds -> [Numbers -> Contents \cup {None}]]
    BY <1>1, <1>3 DEF IInv, TypeOK
  <2>3. request' \in [Requests -> [pc : PCs, content : Contents \cup {None},
                                  document : DocumentIds \cup {None},
                                  number : Numbers \cup {None}]]
    BY <1>1 DEF IInv, TypeOK, PCs
  <2>4. QED
    BY <1>1, <2>1, <2>2, <2>3 DEF IInv, TypeOK
<1>6. RequestInv'
  BY <1>2, <1>3 DEF IInv, RequestInv
<1>7. PredecessorInv'
  <2>1. SUFFICES ASSUME NEW p \in Requests,
                        request'[p].pc \in {"storing", "inserting", "inserted"}
                 PROVE  \/ request'[p].number = 1
                        \/ /\ request'[p].number - 1 \in Numbers
                           /\ version'[request'[p].document][request'[p].number - 1] # None
    BY DEF PredecessorInv, NumbersOf
  <2>2. p # r /\ request'[p] = request[p] /\ request[p].document \in DocumentIds
    BY <1>2, <2>1 DEF IInv, RequestInv
  <2>3. \/ request[p].number = 1
        \/ /\ request[p].number - 1 \in Numbers
           /\ version[request[p].document][request[p].number - 1] # None
    BY <2>1, <2>2 DEF IInv, PredecessorInv, NumbersOf
  <2>4. QED
    BY <1>3, <2>2, <2>3, NoneAssumption
<1>8. StoredInv'
  BY <1>1, <1>2 DEF IInv, StoredInv
<1>9. KeyInv'
  <2>1. SUFFICES ASSUME NEW p \in Requests
        PROVE  /\ request'[p].pc = "inserted" =>
                     /\ ~(request'[p].number \in Numbers /\
                           version'[request'[p].document][request'[p].number] # None)
                     /\ \A o \in Requests \ {p} :
                           request'[o].pc = "inserted" =>
                               \/ request'[o].document # request'[p].document
                               \/ request'[o].number # request'[p].number
               /\ request'[p].pc = "committed" =>
                     /\ request'[p].number \in Numbers
                     /\ version'[request'[p].document][request'[p].number] # None
    BY DEF KeyInv, NumbersOf
  <2>2. CASE p = r
    BY <1>2, <1>3, <2>2, NoneAssumption
  <2>3. CASE p # r
    <3>1. request'[p] = request[p]
      BY <1>2, <2>3
    <3>2. CASE request[p].pc = "inserted"
      <4>1. /\ request[p].document \in DocumentIds
            /\ request[p].number \in Numbers
            /\ version[request[p].document][request[p].number] = None
            /\ ~(request[p].document = d /\ request[p].number = n)
        BY <1>4, <2>3, <3>2 DEF IInv, RequestInv, KeyInv, NumbersOf
      <4>2. \A o \in Requests \ {p} :
                request'[o].pc = "inserted" =>
                    \/ request'[o].document # request[p].document
                    \/ request'[o].number # request[p].number
        BY <1>2, <3>2 DEF IInv, KeyInv
      <4>3. QED
        BY <1>3, <3>1, <3>2, <4>1, <4>2
    <3>3. CASE request[p].pc = "committed"
      <4>1. /\ request[p].document \in DocumentIds
            /\ request[p].number \in Numbers
            /\ version[request[p].document][request[p].number] # None
        BY <3>3 DEF IInv, RequestInv, KeyInv, NumbersOf
      <4>2. QED
        BY <1>3, <3>1, <3>3, <4>1, NoneAssumption
    <3>4. QED
      BY <3>1, <3>2, <3>3
  <2>4. QED
    BY <2>2, <2>3
<1>10. VersionBytesStored'
  <2>1. SUFFICES ASSUME NEW e \in DocumentIds, NEW u \in Numbers, version'[e][u] # None
                 PROVE  [document |-> e, content |-> version'[e][u]] \in stored'
    BY DEF VersionBytesStored, NumbersOf
  <2>2. CASE e = d /\ u = n
    BY <1>1, <1>3, <1>4, <2>2 DEF IInv, StoredInv
  <2>3. CASE ~(e = d /\ u = n)
    BY <1>1, <1>3, <2>1, <2>3 DEF IInv, VersionBytesStored, NumbersOf
  <2>4. QED
    BY <2>2, <2>3
<1>11. NumbersContiguous'
  <2>1. SUFFICES ASSUME NEW e \in DocumentIds, NEW m \in NumbersOf(e)', NEW u \in 1..m
                 PROVE  u \in NumbersOf(e)'
    BY DEF NumbersContiguous
  <2>2. CASE m \in NumbersOf(e)
    BY <1>3, <2>2 DEF IInv, NumbersContiguous
  <2>3. CASE m \notin NumbersOf(e)
    <3>1. e = d /\ m = n
      BY <1>3, <2>3
    <3>2. n = 1 \/ n - 1 \in NumbersOf(d)
      BY <1>4 DEF IInv, PredecessorInv
    <3>3. u = n \/ u \in NumbersOf(d)
      <4>1. n \in Nat /\ u \in Nat /\ 1 <= u /\ u <= n
        BY <1>3, <3>1, NumberAssumption DEF Numbers
      <4>2. CASE n = 1
        BY <4>1, <4>2
      <4>3. CASE n - 1 \in NumbersOf(d) /\ u # n
        <5>1. u \in 1..(n - 1)
          BY <4>1, <4>3
        <5>2. QED
          BY <1>3, <4>3, <5>1 DEF IInv, NumbersContiguous
      <4>4. QED
        BY <3>2, <4>2, <4>3
    <3>4. QED
      BY <1>3, <3>1, <3>3
  <2>4. QED
    BY <2>2, <2>3
<1>12. DocumentHasVersion'
  <2>1. SUFFICES ASSUME NEW e \in DocumentIds, hash'[e] # None
                 PROVE  NumbersOf(e)' # {}
    BY DEF DocumentHasVersion, Documents
  <2>2. CASE e = d
    BY <1>3, <2>2
  <2>3. CASE e # d
    <3>1. hash[e] # None
      BY <1>1, <2>1, <2>3 DEF IInv, TypeOK
    <3>2. NumbersOf(e) # {}
      BY <3>1 DEF IInv, DocumentHasVersion, Documents
    <3>3. QED
      BY <1>3, <3>2
  <2>4. QED
    BY <2>2, <2>3
<1>13. MessageAfterCommit'
  <2>1. SUFFICES ASSUME NEW m \in sent
                 PROVE  m.number \in NumbersOf(m.document)'
    BY <1>1 DEF MessageAfterCommit, NumbersOf
  <2>2. m.document \in DocumentIds /\ m.number \in NumbersOf(m.document)
    BY DEF IInv, TypeOK, MessageAfterCommit
  <2>3. QED
    BY <1>3, <2>2
<1>14. QED
  BY <1>5, <1>6, <1>7, <1>8, <1>9, <1>10, <1>11, <1>12, <1>13 DEF IInv

LEMMA StepInv == IInv /\ [Next]_vars => IInv'
<1>1. SUFFICES ASSUME IInv, [Next]_vars PROVE IInv'
  OBVIOUS
<1>2. ASSUME NEW r \in Requests, NEW c \in Contents, ReceiveFile(r, c)
      PROVE  IInv'
  BY <1>1, <1>2, ReceiveFileInv
<1>3. ASSUME NEW r \in Requests, HandlerStep(r)
      PROVE  IInv'
  <2>1. ASSUME NEW d \in DocumentIds, SelectExisting(r, d) PROVE IInv'
    BY <1>1, <2>1, SelectExistingInv
  <2>2. ASSUME NEW d \in DocumentIds, InsertDocument(r, d) PROVE IInv'
    BY <1>1, <2>2, InsertDocumentInv
  <2>3. ASSUME NEW n \in Numbers, ReadLatestNumber(r, n) PROVE IInv'
    BY <1>1, <2>3, ReadLatestNumberInv
  <2>4. CASE StoreBytes(r)
    BY <1>1, <2>4, StoreBytesInv
  <2>5. CASE InsertVersion(r)
    BY <1>1, <2>5, InsertVersionInv
  <2>6. CASE RejectVersion(r)
    BY <1>1, <2>6, RejectVersionInv
  <2>7. CASE Commit(r)
    BY <1>1, <2>7, CommitInv
  <2>8. CASE Publish(r)
    BY <1>1, <2>8, PublishInv
  <2>9. QED
    BY <1>3, <2>1, <2>2, <2>3, <2>4, <2>5, <2>6, <2>7, <2>8 DEF HandlerStep
<1>4. ASSUME NEW r \in Requests, Abandon(r)
      PROVE  IInv'
  BY <1>1, <1>4, AbandonInv
<1>5. ASSUME NEW m \in sent, VersionReady(m)
      PROVE  IInv'
  BY <1>1, <1>5, VersionReadyInv
<1>6. CASE UNCHANGED vars
  BY <1>1, <1>6
  DEF vars, IInv, TypeOK, RequestInv, PredecessorInv, StoredInv, KeyInv, VersionBytesStored,
      NumbersContiguous, DocumentHasVersion, MessageAfterCommit, NumbersOf, Documents
<1>7. QED
  BY <1>1, <1>2, <1>3, <1>4, <1>5, <1>6 DEF Next

LEMMA InvariantHolds == Spec => []IInv
BY InitInv, StepInv, PTL DEF Spec

-----------------------------------------------------------------------------

\* Every value of the handler and of the tables has the type of its column:
\* a flushed row always has a number and bytes.
THEOREM UploadTypeCorrect == Spec => []TypeOK
<1>1. IInv => TypeOK
  BY DEF IInv
<1>2. QED
  BY <1>1, InvariantHolds, PTL

\* A worker finds the bytes of every version a job can name, whichever request
\* of however many stored them.
THEOREM BytesAreStored == Spec => []VersionBytesStored
<1>1. IInv => VersionBytesStored
  BY DEF IInv
<1>2. QED
  BY <1>1, InvariantHolds, PTL

\* The number a request computes from rows it read earlier leaves no gap:
\* rows are never removed, so its predecessor is still there.
THEOREM NumbersHaveNoGaps == Spec => []NumbersContiguous
<1>1. IInv => NumbersContiguous
  BY DEF IInv
<1>2. QED
  BY <1>1, InvariantHolds, PTL

\* A document that another request can see has a version.
THEOREM DocumentsHaveVersions == Spec => []DocumentHasVersion
<1>1. IInv => DocumentHasVersion
  BY DEF IInv
<1>2. QED
  BY <1>1, InvariantHolds, PTL

\* The queue never names a row a worker cannot read yet.
THEOREM MessagesFollowCommit == Spec => []MessageAfterCommit
<1>1. IInv => MessageAfterCommit
  BY DEF IInv
<1>2. QED
  BY <1>1, InvariantHolds, PTL

\* Concurrent uploads never replace one another's version row: the only step
\* that writes one is the commit of a request that holds its key.
THEOREM VersionsAreImmutable == Spec => VersionsImmutable
<1> DEFINE Kept == \A d \in DocumentIds : \A n \in NumbersOf(d) :
                       version'[d][n] = version[d][n]
<1>1. IInv /\ [Next]_vars => Kept
  <2>1. SUFFICES ASSUME IInv, [Next]_vars PROVE Kept
    OBVIOUS
  <2>2. ASSUME NEW r \in Requests, Commit(r) PROVE Kept
    BY <2>1, <2>2, CommitRow DEF NumbersOf
  <2>3. CASE \A r \in Requests : ~Commit(r)
    <3>1. UNCHANGED version
      BY <2>1, <2>3
      DEF Next, vars, ReceiveFile, HandlerStep, SelectExisting, InsertDocument,
          ReadLatestNumber, StoreBytes, InsertVersion, RejectVersion, Publish, Abandon,
          VersionReady
    <3>2. QED
      BY <3>1
  <2>4. QED
    BY <2>2, <2>3
<1>2. IInv /\ [Next]_vars => [Kept]_vars
  BY <1>1
<1>3. QED
  BY <1>2, InvariantHolds, PTL DEF Spec, VersionsImmutable

\* A committed version has a committed document: the converse of
\* DocumentHasVersion, by which no worker can bring a document about.
VersionHasDocument == \A d \in DocumentIds : NumbersOf(d) # {} => hash[d] # None

LEMMA VersionHasDocumentHolds == Spec => []VersionHasDocument
<1>1. Init => VersionHasDocument
  BY DEF Init, VersionHasDocument, NumbersOf
<1>2. IInv /\ VersionHasDocument /\ [Next]_vars => VersionHasDocument'
  <2>1. SUFFICES ASSUME IInv, VersionHasDocument, [Next]_vars,
                        NEW e \in DocumentIds, NumbersOf(e)' # {}
                 PROVE  hash'[e] # None
    BY DEF VersionHasDocument
  <2>2. ASSUME NEW r \in Requests, Commit(r)
        PROVE  hash'[e] # None
    <3>1. CASE e = request[r].document
      <4>1. request[r].document \in DocumentIds /\ request[r].content \in Contents
        BY <2>1, <2>2, CommitRow
      <4>2. hash' = [hash EXCEPT ![request[r].document] =
                         IF @ = None THEN request[r].content ELSE @]
        BY <2>2 DEF Commit
      <4>3. QED
        BY <2>1, <3>1, <4>1, <4>2, NoneAssumption DEF IInv, TypeOK
    <3>2. CASE e # request[r].document
      <4>1. NumbersOf(e) # {}
        BY <2>1, <2>2, <3>2, CommitRow
      <4>2. QED
        BY <2>1, <2>2, <3>2, <4>1 DEF Commit, IInv, TypeOK, VersionHasDocument
    <3>3. QED
      BY <3>1, <3>2
  <2>3. ASSUME NEW m \in sent, VersionReady(m)
        PROVE  hash'[e] # None
    <3>1. m.document \in DocumentIds /\ m.number \in NumbersOf(m.document)
      BY <2>1 DEF IInv, TypeOK, MessageAfterCommit
    <3>2. hash' = [hash EXCEPT ![m.document] = version[m.document][m.number]]
          /\ version' = version
      BY <2>3 DEF VersionReady
    <3>3. NumbersOf(e) # {}
      BY <2>1, <3>2 DEF NumbersOf
    <3>4. QED
      BY <2>1, <3>1, <3>2, <3>3 DEF IInv, TypeOK, VersionHasDocument, NumbersOf
  <2>4. CASE UNCHANGED <<hash, version>>
    BY <2>1, <2>4 DEF VersionHasDocument, NumbersOf
  <2>5. QED
    BY <2>1, <2>2, <2>3, <2>4
    DEF Next, vars, ReceiveFile, HandlerStep, SelectExisting, InsertDocument,
        ReadLatestNumber, StoreBytes, InsertVersion, RejectVersion, Publish, Abandon
<1>3. QED
  BY <1>1, <1>2, InvariantHolds, PTL DEF Spec

\* However many requests overlap, the first uploads of a filename are the only
\* ones that can add a document: afterwards every lookup finds one.
THEOREM OnlyFirstUploadsAdd == Spec => FirstUploadsSettle
<1> DEFINE Kept == Settled => Settled' /\ Documents' = Documents
<1>1. IInv /\ VersionHasDocument /\ [Next]_vars => Kept
  <2>1. SUFFICES ASSUME IInv, VersionHasDocument, [Next]_vars, Settled
                 PROVE  /\ Documents' = Documents
                        /\ \A r \in Requests : request'[r].document \in Documents \cup {None}
    BY DEF Settled
  <2>2. ASSUME NEW r \in Requests, Commit(r)
        PROVE  /\ Documents' = Documents
               /\ \A q \in Requests : request'[q].document \in Documents \cup {None}
    <3>1. request[r].document \in DocumentIds /\ request[r].document \in Documents
      BY <2>1, <2>2, CommitRow, NoneAssumption DEF Settled
    <3>2. hash' = hash
      BY <2>1, <2>2, <3>1 DEF Commit, Documents, IInv, TypeOK
    <3>3. \A q \in Requests : request'[q].document = request[q].document
      BY <2>1, <2>2 DEF Commit, IInv, TypeOK
    <3>4. QED
      BY <2>1, <3>2, <3>3 DEF Settled, Documents
  <2>3. ASSUME NEW m \in sent, VersionReady(m)
        PROVE  /\ Documents' = Documents
               /\ \A q \in Requests : request'[q].document \in Documents \cup {None}
    <3>1. m.document \in DocumentIds /\ m.number \in NumbersOf(m.document)
      BY <2>1 DEF IInv, TypeOK, MessageAfterCommit
    <3>2. hash[m.document] # None
      BY <2>1, <3>1 DEF VersionHasDocument
    <3>3. hash' = [hash EXCEPT ![m.document] = version[m.document][m.number]]
          /\ request' = request
      BY <2>3 DEF VersionReady
    <3>4. Documents' = Documents
      BY <2>1, <3>1, <3>2, <3>3 DEF Documents, NumbersOf, IInv, TypeOK
    <3>5. QED
      BY <2>1, <3>3, <3>4 DEF Settled
  <2>4. ASSUME NEW r \in Requests, UNCHANGED hash,
               NEW q, request' = [request EXCEPT ![r] = q],
               q.document \in Documents \cup {None}
        PROVE  /\ Documents' = Documents
               /\ \A p \in Requests : request'[p].document \in Documents \cup {None}
    BY <2>1, <2>4 DEF Settled, Documents, IInv, TypeOK
  <2>5. ASSUME NEW r \in Requests, NEW c \in Contents, ReceiveFile(r, c)
        PROVE  /\ Documents' = Documents
               /\ \A p \in Requests : request'[p].document \in Documents \cup {None}
    <3>1. [Idle EXCEPT !.pc = "received", !.content = c].document = None
      BY DEF Idle
    <3>2. QED
      BY <2>4, <2>5, <3>1 DEF ReceiveFile
  <2>6. ASSUME NEW r \in Requests,
               \/ RejectVersion(r)
               \/ Publish(r)
               \/ Abandon(r)
        PROVE  /\ Documents' = Documents
               /\ \A p \in Requests : request'[p].document \in Documents \cup {None}
    <3>1. Idle.document = None
      BY DEF Idle
    <3>2. QED
      BY <2>4, <2>6, <3>1 DEF RejectVersion, Publish, Abandon
  <2>7. ASSUME NEW r \in Requests, NEW d \in DocumentIds, SelectExisting(r, d)
        PROVE  /\ Documents' = Documents
               /\ \A p \in Requests : request'[p].document \in Documents \cup {None}
    <3> DEFINE q == IF IsUnchanged(r, d) THEN Idle
                    ELSE [request[r] EXCEPT !.pc = "numbering", !.document = d]
    <3>1. q.document \in Documents \cup {None}
      BY <2>1, <2>7 DEF SelectExisting, Idle, IInv, TypeOK
    <3>2. UNCHANGED hash /\ request' = [request EXCEPT ![r] = q]
      BY <2>7 DEF SelectExisting
    <3> HIDE DEF q
    <3>3. QED
      BY <2>4, <3>1, <3>2
  <2>8. ASSUME NEW r \in Requests, NEW n \in Numbers, ReadLatestNumber(r, n)
        PROVE  /\ Documents' = Documents
               /\ \A p \in Requests : request'[p].document \in Documents \cup {None}
    <3>1. \A p \in Requests : request'[p].document = request[p].document
      BY <2>1, <2>8 DEF ReadLatestNumber, IInv, TypeOK
    <3>2. QED
      BY <2>1, <2>8, <3>1 DEF ReadLatestNumber, Settled, Documents
  <2>9. ASSUME NEW r \in Requests, StoreBytes(r) \/ InsertVersion(r)
        PROVE  /\ Documents' = Documents
               /\ \A p \in Requests : request'[p].document \in Documents \cup {None}
    <3>1. \A p \in Requests : request'[p].document = request[p].document
      BY <2>1, <2>9 DEF StoreBytes, InsertVersion, IInv, TypeOK
    <3>2. QED
      BY <2>1, <2>9, <3>1 DEF StoreBytes, InsertVersion, Settled, Documents
  <2>10. CASE UNCHANGED vars
    BY <2>1, <2>10 DEF vars, Settled, Documents
  <2>11. \A r \in Requests, d \in DocumentIds : ~InsertDocument(r, d)
    BY <2>1 DEF InsertDocument, Settled
  <2>12. QED
    BY <2>1, <2>2, <2>3, <2>5, <2>6, <2>7, <2>8, <2>9, <2>10, <2>11 DEF Next, HandlerStep
<1>2. IInv /\ VersionHasDocument /\ [Next]_vars => [Kept]_vars
  BY <1>1
<1>3. QED
  BY <1>2, InvariantHolds, VersionHasDocumentHolds, PTL DEF Spec, FirstUploadsSettle
-----------------------------------------------------------------------------
(* The versions of a document as a log                                     *)

\* Needed for the log only: a job is handed over once, because no two requests
\* have committed the same version.
CommittedInv ==
    \A p, q \in Requests :
        /\ request[p].pc = "committed" /\ request[q].pc = "committed"
        /\ request[p].document = request[q].document
        /\ request[p].number = request[q].number
        => p = q

\* The pending numbers of Log(d).
Pending(d) ==
    {n \in Numbers :
        \E r \in Requests :
            request[r].pc = "committed" /\ Key(r) = [document |-> d, number |-> n]}

\* The numbers of the document whose messages are published.
SentOf(d) == {n \in Numbers : [document |-> d, number |-> n] \in sent}

LEMMA LogVars ==
    ASSUME NEW d
    PROVE  /\ Log(d)!vars = <<version[d], Pending(d), SentOf(d)>>
           /\ Log(d)!vars' = <<version'[d], Pending(d)', SentOf(d)'>>
BY DEF Log!vars, Pending, SentOf

LEMMA PendingOf ==
    ASSUME NEW d, NEW n
    PROVE  /\ n \in Pending(d) <=>
                 /\ n \in Numbers
                 /\ \E r \in Requests : /\ request[r].pc = "committed"
                                        /\ request[r].document = d /\ request[r].number = n
           /\ n \in Pending(d)' <=>
                 /\ n \in Numbers
                 /\ \E r \in Requests : /\ request'[r].pc = "committed"
                                        /\ request'[r].document = d /\ request'[r].number = n
BY DEF Pending, Key

\* A step of a request that is before its commit and stays before it.
LEMMA UncommittedLog ==
    ASSUME IInv, CommittedInv, NEW r \in Requests, NEW q, UNCHANGED <<version, sent>>,
           request[r].pc # "committed", q.pc # "committed",
           request' = [request EXCEPT ![r] = q]
    PROVE  CommittedInv' /\ \A d \in DocumentIds : UNCHANGED Log(d)!vars
<1>1. /\ request'[r].pc # "committed"
      /\ \A p \in Requests \ {r} : request'[p] = request[p]
  BY DEF IInv, TypeOK
<1>2. CommittedInv'
  BY <1>1 DEF CommittedInv
<1>3. ASSUME NEW d \in DocumentIds PROVE Pending(d)' = Pending(d)
  <2>1. ASSUME NEW n PROVE n \in Pending(d)' <=> n \in Pending(d)
    BY <1>1, PendingOf
  <2>2. QED
    BY <2>1
<1>4. QED
  BY <1>2, <1>3, LogVars DEF SentOf

\* A commit appends its version to the log of its document.
LEMMA CommitLog ==
    ASSUME IInv, CommittedInv, NEW r \in Requests, Commit(r)
    PROVE  CommittedInv' /\ \A d \in DocumentIds : [Log(d)!Next]_(Log(d)!vars)
<1>. PICK e, c, n : e = request[r].document /\ c = request[r].content /\ n = request[r].number
  OBVIOUS
<1>1. /\ e \in DocumentIds /\ c \in Contents /\ n \in Numbers /\ n \notin NumbersOf(e)
      /\ \A d \in DocumentIds, u \in Numbers :
            version'[d][u] = IF d = e /\ u = n THEN c ELSE version[d][u]
  BY CommitRow
<1>2. /\ request[r].pc = "inserted" /\ request'[r].pc = "committed"
      /\ request'[r].document = e /\ request'[r].number = n
      /\ \A p \in Requests \ {r} : request'[p] = request[p]
      /\ version' = [version EXCEPT ![e][n] = c]
      /\ sent' = sent
  BY DEF Commit, IInv, TypeOK
<1>3. \A p \in Requests :
         request[p].pc = "committed" => ~(request[p].document = e /\ request[p].number = n)
  BY <1>1 DEF IInv, KeyInv
<1>4. CommittedInv'
  BY <1>2, <1>3 DEF CommittedInv
<1>5. ASSUME NEW d \in DocumentIds, d # e PROVE UNCHANGED Log(d)!vars
  <2>1. version'[d] = version[d]
    BY <1>2, <1>5 DEF IInv, TypeOK
  <2>2. ASSUME NEW u PROVE u \in Pending(d)' <=> u \in Pending(d)
    BY <1>2, <1>5, PendingOf
  <2>3. Pending(d)' = Pending(d)
    BY <2>2
  <2>4. SentOf(d)' = SentOf(d)
    BY <1>2 DEF SentOf
  <2>5. QED
    BY <2>1, <2>3, <2>4, LogVars
<1>6. Log(e)!Next
  <2>1. version[e][n] = None
    BY <1>1 DEF NumbersOf
  <2>2. \A u \in Numbers : u < n => version[e][u] # None
    <3>1. n = 1 \/ n - 1 \in NumbersOf(e)
      BY <1>2 DEF IInv, PredecessorInv
    <3>2. SUFFICES ASSUME NEW u \in Numbers, u < n PROVE u \in NumbersOf(e)
      BY DEF NumbersOf
    <3>3. n - 1 \in NumbersOf(e) /\ u \in 1..(n - 1)
      BY <1>1, <3>1, <3>2, NumberAssumption DEF Numbers
    <3>4. QED
      BY <1>1, <3>3 DEF IInv, NumbersContiguous
  <2>3. version'[e] = [version[e] EXCEPT ![n] = c]
    BY <1>1, <1>2 DEF IInv, TypeOK
  <2>4. ASSUME NEW u PROVE u \in Pending(e)' <=> u \in Pending(e) \cup {n}
    BY <1>1, <1>2, PendingOf
  <2>5. Pending(e)' = Pending(e) \cup {n}
    BY <2>4
  <2>6. Log(e)!Append(n, c)
    BY <1>2, <2>1, <2>2, <2>3, <2>5 DEF Log!Append, Pending, SentOf
  <2>7. QED
    BY <1>1, <2>6 DEF Log!Next
<1>7. QED
  BY <1>4, <1>5, <1>6

\* A committed request ends: its job is handed over, or forgotten.
LEMMA HandOverLog ==
    ASSUME IInv, CommittedInv, NEW r \in Requests, request[r].pc = "committed",
           UNCHANGED version, request' = [request EXCEPT ![r] = Idle],
           sent' \in {sent, sent \cup {Key(r)}}
    PROVE  CommittedInv' /\ \A d \in DocumentIds : [Log(d)!Next]_(Log(d)!vars)
<1>. PICK e, n : e = request[r].document /\ n = request[r].number
  OBVIOUS
<1>1. e \in DocumentIds /\ n \in Numbers
  BY DEF IInv, RequestInv
<1>2. /\ request'[r].pc = "idle" /\ \A p \in Requests \ {r} : request'[p] = request[p]
      /\ \A p \in Requests \ {r} : request[p].pc = "committed" =>
            ~(request[p].document = e /\ request[p].number = n)
  BY DEF IInv, TypeOK, Idle, CommittedInv
<1>3. CommittedInv'
  BY <1>2 DEF CommittedInv
<1>4. ASSUME NEW d \in DocumentIds, d # e PROVE UNCHANGED Log(d)!vars
  <2>1. ASSUME NEW u PROVE u \in Pending(d)' <=> u \in Pending(d)
    BY <1>2, <1>4, PendingOf
  <2>2. Pending(d)' = Pending(d)
    BY <2>1
  <2>3. SentOf(d)' = SentOf(d)
    BY <1>4 DEF SentOf, Key
  <2>4. QED
    BY <2>2, <2>3, LogVars
<1>5. Log(e)!Next
  <2>1. n \in Pending(e)
    BY <1>1, PendingOf
  <2>2. ASSUME NEW u PROVE u \in Pending(e)' <=> u \in Pending(e) \ {n}
    BY <1>2, PendingOf
  <2>3. Pending(e)' = Pending(e) \ {n}
    BY <2>2
  <2>4. CASE sent' = sent
    <3>1. Log(e)!Forget(n)
      BY <2>1, <2>3, <2>4 DEF Log!Forget, Pending, SentOf
    <3>2. QED
      BY <1>1, <3>1 DEF Log!Next
  <2>5. CASE sent' = sent \cup {Key(r)}
    <3>1. SentOf(e)' = SentOf(e) \cup {n}
      BY <1>1, <2>5 DEF SentOf, Key
    <3>2. Log(e)!HandOver(n)
      BY <2>1, <2>3, <3>1 DEF Log!HandOver, Pending, SentOf
    <3>3. QED
      BY <1>1, <3>2 DEF Log!Next
  <2>6. QED
    BY <2>4, <2>5
<1>6. QED
  BY <1>3, <1>4, <1>5

LEMMA LogStep ==
    ASSUME IInv, CommittedInv, [Next]_vars
    PROVE  CommittedInv' /\ \A d \in DocumentIds : [Log(d)!Next]_(Log(d)!vars)
<1>. DEFINE Goal == CommittedInv' /\ \A d \in DocumentIds : [Log(d)!Next]_(Log(d)!vars)
<1>1. CASE UNCHANGED <<version, request, sent>>
  <2>1. CommittedInv'
    BY <1>1 DEF CommittedInv
  <2>2. \A d \in DocumentIds : Pending(d)' = Pending(d)
    BY <1>1 DEF Pending, Key
  <2>3. QED
    BY <1>1, <2>1, <2>2, LogVars DEF SentOf
<1>2. ASSUME NEW r \in Requests, NEW q, UNCHANGED <<version, sent>>,
             request[r].pc # "committed", q.pc # "committed",
             request' = [request EXCEPT ![r] = q]
      PROVE  Goal
  BY <1>2, UncommittedLog
<1>. HIDE DEF Goal
<1>3. Idle.pc = "idle"
  BY DEF Idle
<1>4. ASSUME NEW r \in Requests, NEW c \in Contents, ReceiveFile(r, c) PROVE Goal
  <2>1. [Idle EXCEPT !.pc = "received", !.content = c].pc = "received"
    BY DEF Idle
  <2>2. QED
    BY <1>2, <1>3, <1>4, <2>1 DEF ReceiveFile
<1>5. ASSUME NEW r \in Requests, HandlerStep(r) PROVE Goal
  <2>1. request[r] \in [pc : PCs, content : Contents \cup {None},
                        document : DocumentIds \cup {None}, number : Numbers \cup {None}]
    BY DEF IInv, TypeOK
  <2>2. ASSUME NEW d \in DocumentIds, SelectExisting(r, d) PROVE Goal
    <3>. DEFINE q == IF IsUnchanged(r, d) THEN Idle
                     ELSE [request[r] EXCEPT !.pc = "numbering", !.document = d]
    <3>1. /\ request[r].pc # "committed" /\ q.pc # "committed"
          /\ UNCHANGED <<version, sent>> /\ request' = [request EXCEPT ![r] = q]
      BY <1>3, <2>1, <2>2 DEF SelectExisting
    <3>. HIDE DEF q
    <3>2. QED
      BY <1>2, <3>1
  <2>3. ASSUME NEW p \in {"storing", "inserting", "inserted"}, NEW d, NEW n,
               request[r].pc # "committed", UNCHANGED <<version, sent>>,
               request' = [request EXCEPT ![r] =
                              [@ EXCEPT !.pc = p, !.document = d, !.number = n]]
        PROVE  Goal
    <3>. DEFINE q == [request[r] EXCEPT !.pc = p, !.document = d, !.number = n]
    <3>1. q.pc # "committed" /\ request' = [request EXCEPT ![r] = q]
      BY <2>1, <2>3
    <3>. HIDE DEF q
    <3>2. QED
      BY <1>2, <2>3, <3>1
  <2>4. ASSUME NEW d \in DocumentIds, InsertDocument(r, d) PROVE Goal
    BY <2>3, <2>4 DEF InsertDocument
  <2>5. ASSUME NEW n \in Numbers, ReadLatestNumber(r, n) PROVE Goal
    <3>. DEFINE q == [request[r] EXCEPT !.pc = "storing", !.number = n]
    <3>1. /\ q.pc # "committed" /\ request' = [request EXCEPT ![r] = q]
          /\ request[r].pc # "committed" /\ UNCHANGED <<version, sent>>
      BY <2>1, <2>5 DEF ReadLatestNumber
    <3>. HIDE DEF q
    <3>2. QED
      BY <1>2, <3>1
  <2>6. CASE StoreBytes(r) \/ InsertVersion(r)
    <3>1. PICK p \in {"inserting", "inserted"} :
             /\ request' = [request EXCEPT ![r].pc = p]
             /\ request[r].pc # "committed" /\ UNCHANGED <<version, sent>>
      BY <2>6 DEF StoreBytes, InsertVersion
    <3>. DEFINE q == [request[r] EXCEPT !.pc = p]
    <3>2. q.pc # "committed" /\ request' = [request EXCEPT ![r] = q]
      BY <2>1, <3>1
    <3>. HIDE DEF q
    <3>3. QED
      BY <1>2, <3>1, <3>2
  <2>7. CASE RejectVersion(r)
    BY <1>2, <1>3, <2>7 DEF RejectVersion
  <2>8. CASE Commit(r)
    BY <2>8, CommitLog DEF Goal
  <2>9. CASE Publish(r)
    BY <2>9, HandOverLog DEF Goal, Publish, Publishable
  <2>10. QED
    BY <1>5, <2>2, <2>4, <2>5, <2>6, <2>7, <2>8, <2>9 DEF HandlerStep
<1>6. ASSUME NEW r \in Requests, Abandon(r) PROVE Goal
  <2>1. CASE request[r].pc = "committed"
    BY <1>6, <2>1, HandOverLog DEF Goal, Abandon
  <2>2. CASE request[r].pc # "committed"
    BY <1>2, <1>3, <1>6, <2>2 DEF Abandon
  <2>3. QED
    BY <2>1, <2>2
<1>7. ASSUME NEW m \in sent, VersionReady(m) PROVE Goal
  BY <1>1, <1>7 DEF VersionReady, Goal
<1>8. CASE UNCHANGED vars
  BY <1>1, <1>8 DEF vars, Goal
<1>9. QED
  BY <1>4, <1>5, <1>6, <1>7, <1>8 DEF Next, Goal

LEMMA CommittedHolds == Spec => []CommittedInv
<1>1. Init => CommittedInv
  BY DEF Init, Idle, CommittedInv
<1>2. IInv /\ CommittedInv /\ [Next]_vars => CommittedInv'
  BY LogStep
<1>3. QED
  BY <1>1, <1>2, InvariantHolds, PTL DEF Spec

\* Every document's versions are a log, whatever number of uploads of it
\* overlap: the next number, never replaced, each job handed over once at most
\* and by the request that committed it.
THEOREM ImplementsVersionLog == Spec => VersionLogSpec
<1>1. Init => \A d \in DocumentIds : Log(d)!Init
  <2>1. SUFFICES ASSUME Init, NEW d \in DocumentIds PROVE Log(d)!Init
    OBVIOUS
  <2>2. version[d] = [n \in Numbers |-> None] /\ Pending(d) = {} /\ SentOf(d) = {}
    BY <2>1 DEF Init, Idle, Pending, SentOf
  <2>3. {n \in Numbers : version[d][n] # None} = {}
    BY <2>2
  <2>4. QED
    BY <2>2, <2>3 DEF Log!Init, Pending, SentOf
<1>2. IInv /\ CommittedInv /\ [Next]_vars =>
         [\A d \in DocumentIds : [Log(d)!Next]_(Log(d)!vars)]_vars
  BY LogStep
<1>3. QED
  BY <1>1, <1>2, InvariantHolds, CommittedHolds, PTL DEF Spec, VersionLogSpec

=============================================================================
