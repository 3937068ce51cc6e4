----------------------------- MODULE Extraction -----------------------------
(***************************************************************************)
(* What the attempts of one ingestion job make of one PDF: the records of  *)
(* packages/parsing/pdf_parser.py, the chunks and point identities of      *)
(* pipeline.py, the images put into the object store and the points put    *)
(* into Qdrant. An attempt may stop anywhere and the next one starts over  *)
(* with what the store and Qdrant kept. A job has one attempt at a time    *)
(* (RetryCountIsAttempt of Ingestion).                                     *)
(*                                                                         *)
(* OCR and the search for tables may give less in one attempt than in      *)
(* another: both swallow every exception, that of the soft time limit too. *)
(*                                                                         *)
(* A definition followed by one of the same parameters under its plain     *)
(* name is a fault of that code; no action uses one.                       *)
(***************************************************************************)
EXTENDS Naturals, FiniteSets

CONSTANTS
    MaxPages, MaxImages, MaxTables, \* bounds on the PDF: images, tables per page
    MaxChunks,                      \* bound on the chunks of a page's text
    None                            \* no object under that key

Pages == 1..MaxPages
Indexes == 0..MaxChunks - 1

ASSUME BoundAssumption ==
    /\ MaxPages \in Nat \ {0}
    /\ MaxImages \in Nat
    /\ MaxTables \in Nat
    /\ MaxChunks \in Nat \ {0}

ImageRecords == [page_number : Pages, image_index : 1..MaxImages]
ASSUME NoneAssumption == None \notin ImageRecords

VARIABLES
    pdf,           \* page -> its images, its tables and the chunks of its text
    pc,            \* where the attempt is
    page,          \* the page its loop is at
    page_records,  \* the parser's records of this attempt ...
    image_records,
    table_records,
    uploaded,      \* image records whose upload() has returned
    stored,        \* image_index -> the image whose bytes the object holds
    points         \* the version's points in Qdrant

records == <<page_records, image_records, table_records>>
vars == <<pdf, pc, page, records, uploaded, stored, points>>

PCs == {"idle", "pages", "tables", "images", "upserted", "ready"}

\* tables: the indexes of those that are not empty. chunks: the indexes of the
\* chunks of the page's text that are not blank, by whether OCR succeeded; the
\* text starts with a heading, so the first chunk never is.
PageContents == [images : 0..MaxImages, tables : SUBSET (1..MaxTables),
                 chunks : [BOOLEAN -> {I \in SUBSET Indexes : 0 \in I}]]
PageRecords == [page_number : Pages, ocr : BOOLEAN]
TableRecords == [page_number : Pages, table_index : 1..MaxTables]

\* A chunk, and the point made of it. ocr: OCR succeeded, so the text of the
\* chunk is another than it would be; of the page text only, where it decides
\* how many chunks there are. 0 stands for an index the content type has not,
\* the others count from 1.
Chunks == [content_type : {"page_text_plus_ocr", "table", "image"},
           page_number : Pages, table_index : 0..MaxTables,
           image_index : 0..MaxImages, chunk_index : Indexes, ocr : BOOLEAN]

\* What _point_id joins: where the chunk stands, and nothing of its text.
PointIdWithoutPage(c) ==
    <<c.content_type, c.table_index, c.image_index, c.chunk_index>>
PointId(c) ==
    <<c.page_number, c.content_type, c.table_index, c.image_index, c.chunk_index>>

TypeOK ==
    /\ \E n \in Pages : pdf \in [1..n -> PageContents]
    /\ pc \in PCs
    /\ page \in 1..MaxPages + 1
    /\ page_records \subseteq PageRecords
    /\ image_records \subseteq ImageRecords
    /\ table_records \subseteq TableRecords
    /\ uploaded \subseteq image_records
    /\ stored \in [1..MaxImages -> ImageRecords \cup {None}]
    /\ points \subseteq Chunks

Init ==
    /\ \E n \in Pages : pdf \in [1..n -> PageContents]
    /\ pc = "idle"
    /\ page = 1
    /\ page_records = {}
    /\ image_records = {}
    /\ table_records = {}
    /\ uploaded = {}
    /\ stored = [i \in 1..MaxImages |-> None]
    /\ points = {}

-----------------------------------------------------------------------------

\* The keys of the images uploaded outlive the attempt.
StartAttemptKeepingUploads ==
    /\ pc = "idle"
    /\ pc' = "pages"
    /\ page' = 1
    /\ page_records' = {}
    /\ image_records' = {}
    /\ table_records' = {}
    /\ UNCHANGED <<pdf, uploaded, stored, points>>

\* A new parser and new lists: nothing of an earlier attempt is left in memory.
StartAttempt ==
    /\ pc = "idle"
    /\ pc' = "pages"
    /\ page' = 1
    /\ page_records' = {}
    /\ image_records' = {}
    /\ table_records' = {}
    /\ uploaded' = {}
    /\ UNCHANGED <<pdf, stored, points>>

\* for page_index in range(len(pdf)), and on to the next stage after the last.
IsLastPageEarly(p) == p + 2 \notin DOMAIN pdf
IsLastPage(p) == p + 1 \notin DOMAIN pdf

NextPage(next) ==
    /\ page' = IF IsLastPage(page) THEN 1 ELSE page + 1
    /\ pc' = IF IsLastPage(page) THEN next ELSE pc

\* image_index starts at 1 on every page.
ReadPage(ocr) ==
    /\ pc = "pages"
    /\ page_records' = page_records \cup {[page_number |-> page, ocr |-> ocr]}
    /\ image_records' = image_records \cup
           {[page_number |-> page, image_index |-> i] : i \in 1..pdf[page].images}
    /\ NextPage("tables")
    /\ UNCHANGED <<pdf, table_records, uploaded, stored, points>>

\* An empty table is passed over and its index with it; a page whose tables
\* can not be extracted has none.
ReadTables(tables) ==
    /\ pc = "tables"
    /\ tables \in {pdf[page].tables, {}}
    /\ table_records' = table_records \cup
           {[page_number |-> page, table_index |-> i] : i \in tables}
    /\ NextPage("images")
    /\ UNCHANGED <<pdf, page_records, image_records, uploaded, stored, points>>

\* create_langchain_documents and _split: the text of a page is split, a table
\* or an image is one chunk.
PageChunks ==
    UNION {{[content_type |-> "page_text_plus_ocr", page_number |-> p.page_number,
             table_index |-> 0, image_index |-> 0, chunk_index |-> i, ocr |-> p.ocr] :
                i \in pdf[p.page_number].chunks[p.ocr]} : p \in page_records}
TableChunksFromTwo ==
    {[content_type |-> "table", page_number |-> t.page_number + 1,
      table_index |-> t.table_index, image_index |-> 0, chunk_index |-> 0, ocr |-> FALSE] :
        t \in table_records}
TableChunks ==
    {[content_type |-> "table", page_number |-> t.page_number,
      table_index |-> t.table_index, image_index |-> 0, chunk_index |-> 0, ocr |-> FALSE] :
        t \in table_records}
ImageChunks ==
    {[content_type |-> "image", page_number |-> i.page_number,
      table_index |-> 0, image_index |-> i.image_index, chunk_index |-> 0, ocr |-> FALSE] :
        i \in image_records}

Prepared == PageChunks \cup TableChunks \cup ImageChunks

Precedes(i, j) ==
    \/ i.page_number < j.page_number
    \/ i.page_number = j.page_number /\ i.image_index <= j.image_index

\* The image records are uploaded in their order, each under a key of the
\* version and its image_index; upload does nothing when the key exists.
UploadImage(i) ==
    /\ pc = "images"
    /\ i \in image_records \ uploaded
    /\ \A j \in image_records \ uploaded : Precedes(i, j)
    /\ uploaded' = uploaded \cup {i}
    /\ stored' = [stored EXCEPT ![i.image_index] = IF @ = None THEN i ELSE @]
    /\ UNCHANGED <<pdf, pc, page, records, points>>

ImagesAreUploadedOnFirstPage ==
    \A i \in image_records : i.page_number = 1 => i \in uploaded
ImagesAreUploaded == uploaded = image_records

\* One upsert of all points. A point replaces that of its identity, one of the
\* list too: the pages come in their order.
LastOfIdentity(chunks) ==
    {c \in chunks : \A d \in chunks :
        PointId(d) = PointId(c) => d.page_number <= c.page_number}
Upserted(chunks) ==
    {p \in points : \A c \in chunks : PointId(c) # PointId(p)} \cup LastOfIdentity(chunks)

UpsertPoints ==
    /\ pc = "images"
    /\ ImagesAreUploaded
    /\ pc' = "upserted"
    /\ points' = Upserted(Prepared)
    /\ UNCHANGED <<pdf, page, records, uploaded, stored>>

\* The previous version is superseded and the job committed as ready.
CommitReady ==
    /\ pc = "upserted"
    /\ pc' = "ready"
    /\ UNCHANGED <<pdf, page, records, uploaded, stored, points>>

\* Any call of the attempt raises, or its process dies; also after the last
\* commit, while the temporary directory is removed.
FailAttempt ==
    /\ pc # "idle"
    /\ pc' = "idle"
    /\ UNCHANGED <<pdf, page, records, uploaded, stored, points>>

Next ==
    \/ StartAttempt
    \/ \E ocr \in BOOLEAN : ReadPage(ocr)
    \/ \E tables \in SUBSET (1..MaxTables) : ReadTables(tables)
    \/ \E i \in image_records : UploadImage(i)
    \/ UpsertPoints
    \/ CommitReady
    \/ FailAttempt

Spec == Init /\ [][Next]_vars

-----------------------------------------------------------------------------

\* A ready version has every chunk of the attempt that ended as that attempt
\* made it, none lost to another of the same identity and none with the text
\* of an attempt before, and these chunks cover every page and image.
ReadyCoversThePdf ==
    pc = "ready" =>
        /\ \A c \in Prepared, p \in points : PointId(p) = PointId(c) => p = c
        /\ \A c \in Prepared : \E p \in points : PointId(p) = PointId(c)
        /\ \A p \in DOMAIN pdf :
              /\ \E c \in PageChunks : c.page_number = p
              /\ \A i \in 1..pdf[p].images :
                    \E c \in ImageChunks : c.page_number = p /\ c.image_index = i

\* image_path of every point in Qdrant is the key of an object that exists,
\* after any number of attempts that stopped half way.
ImagePathsResolve ==
    \A p \in points : p.content_type = "image" => stored[p.image_index] # None

\* Attempts never duplicate: points that are left of an earlier attempt are
\* those of the same PDF, with the identities every attempt gives them.
PointsAreOfThePdf ==
    \A p \in points :
        /\ p.page_number \in DOMAIN pdf
        /\ p.content_type = "page_text_plus_ocr" =>
               p.chunk_index \in pdf[p.page_number].chunks[p.ocr]
        /\ p.content_type = "table" => p.table_index \in pdf[p.page_number].tables
        /\ p.content_type = "image" => p.image_index \in 1..pdf[p.page_number].images

\* packages/storage/client.py, upload: an existing key already holds the bytes
\* that are uploaded.
UploadedKeyHoldsItsImage == \A i \in uploaded : stored[i.image_index] = i
=============================================================================
