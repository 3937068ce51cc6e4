-------------------------- MODULE Extraction_proofs --------------------------
(***************************************************************************)
(* What Extraction guarantees for a PDF of any size and any number of      *)
(* attempts that stop anywhere.                                            *)
(***************************************************************************)
EXTENDS Extraction, TLAPS

Pdfs == UNION {[1..n -> PageContents] : n \in Pages}

Types ==
    /\ pdf \in Pdfs
    /\ pc \in PCs
    /\ page \in DOMAIN pdf
    /\ page_records \subseteq PageRecords
    /\ image_records \subseteq ImageRecords
    /\ table_records \subseteq TableRecords
    /\ uploaded \subseteq image_records
    /\ stored \in [1..MaxImages -> ImageRecords \cup {None}]
    /\ points \subseteq Chunks

\* The records are those of pages of this PDF, one of each page that the loop
\* has read.
RecordsInv ==
    /\ \A p \in page_records :
          p.page_number \in DOMAIN pdf /\ (pc = "pages" => p.page_number < page)
    /\ \A p, q \in page_records : p.page_number = q.page_number => p = q
    /\ \A i \in image_records :
          i.page_number \in DOMAIN pdf /\ i.image_index \in 1..pdf[i.page_number].images
    /\ \A t \in table_records :
          t.page_number \in DOMAIN pdf /\ t.table_index \in pdf[t.page_number].tables

\* Page p has been read.
Read(p) ==
    /\ \E ocr \in BOOLEAN : [page_number |-> p, ocr |-> ocr] \in page_records
    /\ \A i \in 1..pdf[p].images : [page_number |-> p, image_index |-> i] \in image_records

\* The loop over the pages has read those before the one it is at, and the
\* stages that follow it come after the last.
ReadInv ==
    /\ pc = "pages" => \A p \in DOMAIN pdf : p < page => Read(p)
    /\ pc \notin {"idle", "pages"} => \A p \in DOMAIN pdf : Read(p)

\* What has been uploaded is there, and so is what the points refer to.
StoreInv ==
    /\ \A i \in uploaded : stored[i.image_index] # None
    /\ ImagePathsResolve

PointsInv ==
    /\ pc \in {"upserted", "ready"} =>
          \A c \in Prepared : c \in points /\ \A p \in points : PointId(p) = PointId(c) => p = c
    /\ PointsAreOfThePdf

IInv == Types /\ RecordsInv /\ ReadInv /\ StoreInv /\ PointsInv

-----------------------------------------------------------------------------

LEMMA PdfPages ==
    ASSUME NEW f \in Pdfs
    PROVE  /\ \E n \in Pages : DOMAIN f = 1..n
           /\ DOMAIN f \subseteq Pages
           /\ 1 \in DOMAIN f
           /\ \A p \in DOMAIN f : f[p] \in PageContents
<1>1. PICK n \in Pages : f \in [1..n -> PageContents]
  BY DEF Pdfs
<1>2. DOMAIN f = 1..n /\ n \in Nat /\ 1 <= n /\ n <= MaxPages
  BY <1>1, BoundAssumption DEF Pages
<1>3. 1..n \subseteq Pages
  BY <1>2, BoundAssumption DEF Pages
<1>4. QED
  BY <1>1, <1>2, <1>3

LEMMA ContentFacts ==
    ASSUME NEW x \in PageContents
    PROVE  /\ x.images \in 0..MaxImages /\ 1..x.images \subseteq 1..MaxImages
           /\ x.tables \subseteq 1..MaxTables
           /\ \A ocr \in BOOLEAN : x.chunks[ocr] \subseteq Indexes /\ 0 \in x.chunks[ocr]
<1>1. x.images \in 0..MaxImages /\ x.tables \in SUBSET (1..MaxTables)
  BY DEF PageContents
<1>2. 1..x.images \subseteq 1..MaxImages
  BY <1>1, BoundAssumption
<1>3. x.chunks \in [BOOLEAN -> {I \in SUBSET Indexes : 0 \in I}]
  BY DEF PageContents
<1>4. QED
  BY <1>1, <1>2, <1>3

\* The chunks are of the PDF, whichever records an attempt has so far.
LEMMA ChunksOfThePdf ==
    ASSUME Types, RecordsInv
    PROVE  /\ Prepared \subseteq Chunks
           /\ \A c \in PageChunks :
                 /\ c.content_type = "page_text_plus_ocr"
                 /\ c.page_number \in DOMAIN pdf
                 /\ c.chunk_index \in pdf[c.page_number].chunks[c.ocr]
                 /\ [page_number |-> c.page_number, ocr |-> c.ocr] \in page_records
           /\ \A c \in TableChunks :
                 /\ c.content_type = "table" /\ ~c.ocr
                 /\ c.page_number \in DOMAIN pdf /\ c.table_index \in pdf[c.page_number].tables
           /\ \A c \in ImageChunks :
                 /\ c.content_type = "image" /\ ~c.ocr
                 /\ [page_number |-> c.page_number, image_index |-> c.image_index] \in image_records
<1>1. /\ DOMAIN pdf \subseteq Pages
      /\ \A p \in DOMAIN pdf : pdf[p] \in PageContents
  BY PdfPages DEF Types
<1>2. 0 \in Indexes /\ 0 \in 0..MaxTables /\ 0 \in 0..MaxImages
      /\ 1..MaxTables \subseteq 0..MaxTables /\ 1..MaxImages \subseteq 0..MaxImages
  BY BoundAssumption DEF Indexes
<1>3. ASSUME NEW c \in PageChunks
      PROVE  /\ c \in Chunks
             /\ c.content_type = "page_text_plus_ocr"
             /\ c.page_number \in DOMAIN pdf
             /\ c.chunk_index \in pdf[c.page_number].chunks[c.ocr]
             /\ [page_number |-> c.page_number, ocr |-> c.ocr] \in page_records
  <2>1. PICK p \in page_records : \E i \in pdf[p.page_number].chunks[p.ocr] :
           c = [content_type |-> "page_text_plus_ocr", page_number |-> p.page_number,
                table_index |-> 0, image_index |-> 0, chunk_index |-> i, ocr |-> p.ocr]
    BY DEF PageChunks
  <2>2. PICK i \in pdf[p.page_number].chunks[p.ocr] :
           c = [content_type |-> "page_text_plus_ocr", page_number |-> p.page_number,
                table_index |-> 0, image_index |-> 0, chunk_index |-> i, ocr |-> p.ocr]
    BY <2>1
  <2>3. /\ p.page_number \in DOMAIN pdf /\ p.ocr \in BOOLEAN
        /\ p = [page_number |-> p.page_number, ocr |-> p.ocr]
    BY DEF Types, RecordsInv, PageRecords
  <2>4. i \in Indexes
    BY <1>1, <2>3, ContentFacts
  <2>5. QED
    BY <1>1, <1>2, <2>2, <2>3, <2>4 DEF Chunks
<1>4. ASSUME NEW c \in TableChunks
      PROVE  /\ c \in Chunks
             /\ c.content_type = "table" /\ ~c.ocr
             /\ c.page_number \in DOMAIN pdf /\ c.table_index \in pdf[c.page_number].tables
  <2>1. PICK t \in table_records :
           c = [content_type |-> "table", page_number |-> t.page_number,
                table_index |-> t.table_index, image_index |-> 0, chunk_index |-> 0, ocr |-> FALSE]
    BY DEF TableChunks
  <2>2. t.page_number \in DOMAIN pdf /\ t.table_index \in pdf[t.page_number].tables
    BY DEF RecordsInv
  <2>3. t.table_index \in 1..MaxTables
    BY <1>1, <2>2, ContentFacts
  <2>4. QED
    BY <1>1, <1>2, <2>1, <2>2, <2>3 DEF Chunks
<1>5. ASSUME NEW c \in ImageChunks
      PROVE  /\ c \in Chunks
             /\ c.content_type = "image" /\ ~c.ocr
             /\ [page_number |-> c.page_number, image_index |-> c.image_index] \in image_records
  <2>1. PICK i \in image_records :
           c = [content_type |-> "image", page_number |-> i.page_number,
                table_index |-> 0, image_index |-> i.image_index, chunk_index |-> 0, ocr |-> FALSE]
    BY DEF ImageChunks
  <2>2. i \in ImageRecords
    BY DEF Types
  <2>3. i = [page_number |-> c.page_number, image_index |-> c.image_index]
    BY <2>1, <2>2 DEF ImageRecords
  <2>4. QED
    BY <1>2, <2>1, <2>2, <2>3 DEF Chunks, ImageRecords
<1>6. QED
  BY <1>3, <1>4, <1>5 DEF Prepared

\* _point_id tells the chunks of an attempt apart although it has nothing of
\* their text: an attempt has one record of a page.
LEMMA IdentitiesDiffer ==
    ASSUME Types, RecordsInv, NEW c \in Prepared, NEW d \in Prepared, PointId(c) = PointId(d)
    PROVE  c = d
<1>1. /\ c.page_number = d.page_number /\ c.content_type = d.content_type
      /\ c.table_index = d.table_index /\ c.image_index = d.image_index
      /\ c.chunk_index = d.chunk_index
  BY DEF PointId
<1>2. c \in Chunks /\ d \in Chunks
  BY ChunksOfThePdf
<1>3. c.ocr = d.ocr
  <2>1. CASE c \in PageChunks
    <3>1. d \in PageChunks
      BY <1>1, <2>1, ChunksOfThePdf DEF Prepared
    <3> DEFINE p == [page_number |-> c.page_number, ocr |-> c.ocr]
               q == [page_number |-> d.page_number, ocr |-> d.ocr]
    <3>2. p \in page_records /\ q \in page_records
      BY <2>1, <3>1, ChunksOfThePdf
    <3>3. p.page_number = q.page_number
      BY <1>1
    <3>4. p = q
      BY <3>2, <3>3 DEF RecordsInv
    <3>5. p.ocr = c.ocr /\ q.ocr = d.ocr
      OBVIOUS
    <3> HIDE DEF p, q
    <3>6. QED
      BY <3>4, <3>5
  <2>2. CASE c \notin PageChunks
    <3>1. d \notin PageChunks
      BY <1>1, <2>2, ChunksOfThePdf DEF Prepared
    <3>2. ~c.ocr /\ ~d.ocr /\ c.ocr \in BOOLEAN /\ d.ocr \in BOOLEAN
      BY <1>2, <2>2, <3>1, ChunksOfThePdf DEF Prepared, Chunks
    <3>3. QED
      BY <3>2
  <2>3. QED
    BY <2>1, <2>2
<1>4. QED
  BY <1>1, <1>2, <1>3 DEF Chunks

-----------------------------------------------------------------------------

LEMMA InitInv == Init => IInv
<1>1. SUFFICES ASSUME Init PROVE IInv
  OBVIOUS
<1>2. pdf \in Pdfs
  BY <1>1 DEF Init, Pdfs
<1>3. page \in DOMAIN pdf
  BY <1>1, <1>2, PdfPages DEF Init
<1>4. Types
  BY <1>1, <1>2, <1>3 DEF Init, Types, PCs
<1>5. RecordsInv /\ ReadInv
  BY <1>1 DEF Init, RecordsInv, ReadInv
<1>6. StoreInv /\ PointsInv
  BY <1>1 DEF Init, StoreInv, ImagePathsResolve, PointsInv, PointsAreOfThePdf
<1>7. QED
  BY <1>4, <1>5, <1>6 DEF IInv

LEMMA StartAttemptInv == ASSUME IInv, StartAttempt PROVE IInv'
<1>1. Types'
  BY PdfPages DEF IInv, Types, StartAttempt, PCs
<1>2. RecordsInv'
  BY DEF StartAttempt, RecordsInv
<1>3. ReadInv'
  <2>1. ASSUME NEW p \in DOMAIN pdf PROVE ~(p < 1)
    BY <2>1, PdfPages DEF IInv, Types, Pages
  <2>2. QED
    BY <2>1 DEF StartAttempt, ReadInv
<1>4. StoreInv'
  BY DEF IInv, StartAttempt, StoreInv, ImagePathsResolve
<1>5. PointsInv'
  BY DEF IInv, StartAttempt, PointsInv, PointsAreOfThePdf
<1>6. QED
  BY <1>1, <1>2, <1>3, <1>4, <1>5 DEF IInv

\* The loops stay within the PDF, and end after its last page.
LEMMA NextPageFacts ==
    ASSUME Types, NEW next \in PCs, NextPage(next)
    PROVE  /\ page' \in DOMAIN pdf
           /\ pc' \in {pc, next}
           /\ IsLastPage(page) => pc' = next /\ \A p \in DOMAIN pdf : p < page \/ p = page
           /\ ~IsLastPage(page) => pc' = pc /\ page' = page + 1
<1>1. PICK n \in Pages : DOMAIN pdf = 1..n
  BY PdfPages DEF Types
<1>2. n \in Nat /\ n >= 1 /\ page \in 1..n
  BY <1>1, BoundAssumption DEF Pages, Types
<1>3. QED
  BY <1>1, <1>2 DEF NextPage, IsLastPage

LEMMA ReadPageInv == ASSUME IInv, NEW ocr \in BOOLEAN, ReadPage(ocr) PROVE IInv'
<1> DEFINE P == {[page_number |-> page, ocr |-> ocr]}
           I == {[page_number |-> page, image_index |-> i] : i \in 1..pdf[page].images}
<1>1. /\ page \in DOMAIN pdf /\ page \in Pages /\ pdf[page] \in PageContents
  BY PdfPages DEF IInv, Types
<1>2. P \subseteq PageRecords /\ I \subseteq ImageRecords
  BY <1>1, ContentFacts DEF PageRecords, ImageRecords
<1>3. /\ page_records' = page_records \cup P /\ image_records' = image_records \cup I
      /\ UNCHANGED <<pdf, table_records, uploaded, stored, points>> /\ pc = "pages"
      /\ NextPage("tables")
  BY DEF ReadPage
<1>4. /\ page' \in DOMAIN pdf
      /\ pc' \in {"pages", "tables"}
      /\ IsLastPage(page) => pc' = "tables" /\ \A p \in DOMAIN pdf : p < page \/ p = page
      /\ ~IsLastPage(page) => pc' = "pages" /\ page' = page + 1
  BY <1>3, NextPageFacts DEF IInv, PCs
<1>5. Types'
  BY <1>2, <1>3, <1>4 DEF IInv, Types, PCs
<1>6. RecordsInv'
  <2>1. \A q \in page_records' : q \in page_records \/ (q.page_number = page /\ q.ocr = ocr)
    BY <1>3
  <2>2. \A q \in page_records : q.page_number \in DOMAIN pdf /\ q.page_number < page
    BY <1>3 DEF IInv, RecordsInv
  <2>3. page \in Nat /\ \A q \in DOMAIN pdf : q \in Nat
    BY <1>1, PdfPages DEF IInv, Types, Pages
  <2>4. \A q \in page_records' :
           q.page_number \in DOMAIN pdf' /\ (pc' = "pages" => q.page_number < page')
    BY <1>1, <1>3, <1>4, <2>1, <2>2, <2>3
  <2>5. ASSUME NEW q \in page_records', NEW o \in page_records',
               q.page_number = o.page_number
        PROVE  q = o
    <3>1. q \in PageRecords /\ o \in PageRecords
      BY <1>5 DEF Types
    <3>2. CASE q \in page_records /\ o \in page_records
      BY <2>5, <3>2 DEF IInv, RecordsInv
    <3>3. CASE q \notin page_records /\ o \notin page_records
      BY <2>1, <3>1, <3>3 DEF PageRecords
    <3>4. CASE (q \in page_records /\ o \notin page_records)
               \/ (q \notin page_records /\ o \in page_records)
      BY <2>1, <2>2, <2>3, <2>5, <3>4
    <3>5. QED
      BY <3>2, <3>3, <3>4
  <2>6. /\ \A i \in image_records' :
              i.page_number \in DOMAIN pdf' /\ i.image_index \in 1..pdf'[i.page_number].images
        /\ \A t \in table_records' :
              t.page_number \in DOMAIN pdf' /\ t.table_index \in pdf'[t.page_number].tables
    BY <1>1, <1>3 DEF IInv, RecordsInv
  <2>7. QED
    BY <2>4, <2>5, <2>6 DEF RecordsInv
<1>7. ReadInv'
  <2>1. ASSUME NEW p \in DOMAIN pdf, Read(p) PROVE Read(p)'
    BY <1>3, <2>1 DEF Read
  <2>2. ASSUME NEW p \in DOMAIN pdf, p = page PROVE Read(p)'
    BY <1>3, <2>2 DEF Read
  <2>3. \A p \in DOMAIN pdf : p < page => Read(p)
    BY <1>3 DEF IInv, ReadInv
  <2>4. CASE IsLastPage(page)
    BY <1>3, <1>4, <2>1, <2>2, <2>3, <2>4 DEF ReadInv
  <2>5. CASE ~IsLastPage(page)
    <3>1. \A p \in DOMAIN pdf : p < page + 1 => p < page \/ p = page
      BY <1>1, PdfPages DEF IInv, Types, Pages
    <3>2. QED
      BY <1>3, <1>4, <2>1, <2>2, <2>3, <2>5, <3>1 DEF ReadInv
  <2>6. QED
    BY <2>4, <2>5
<1>8. StoreInv'
  BY <1>3 DEF IInv, StoreInv, ImagePathsResolve
<1>9. PointsInv'
  BY <1>3, <1>4 DEF IInv, PointsInv, PointsAreOfThePdf
<1>10. QED
  BY <1>5, <1>6, <1>7, <1>8, <1>9 DEF IInv

LEMMA ReadTablesInv == ASSUME IInv, NEW tables, ReadTables(tables) PROVE IInv'
<1> DEFINE T == {[page_number |-> page, table_index |-> i] : i \in tables}
<1>1. /\ page \in DOMAIN pdf /\ page \in Pages /\ pdf[page] \in PageContents
  BY PdfPages DEF IInv, Types
<1>2. tables \subseteq pdf[page].tables /\ tables \subseteq 1..MaxTables
  BY <1>1, ContentFacts DEF ReadTables
<1>3. /\ table_records' = table_records \cup T
      /\ UNCHANGED <<pdf, page_records, image_records, uploaded, stored, points>>
      /\ pc = "tables" /\ NextPage("images")
  BY DEF ReadTables
<1>4. page' \in DOMAIN pdf /\ pc' \in {"tables", "images"}
  BY <1>3, NextPageFacts DEF IInv, PCs
<1>5. T \subseteq TableRecords
  <2>1. ASSUME NEW i \in tables PROVE [page_number |-> page, table_index |-> i] \in TableRecords
    <3>1. i \in 1..MaxTables
      BY <1>2
    <3>2. QED
      BY <1>1, <3>1 DEF TableRecords
  <2>2. QED
    BY <2>1
<1>6. Types'
  BY <1>3, <1>4, <1>5 DEF IInv, Types, PCs
<1>7. RecordsInv'
  <2>1. \A t \in T : t.page_number \in DOMAIN pdf /\ t.table_index \in pdf[t.page_number].tables
    BY <1>1, <1>2
  <2> HIDE DEF T
  <2>2. QED
    BY <1>3, <1>4, <2>1 DEF IInv, RecordsInv
<1>8. ReadInv'
  BY <1>3, <1>4 DEF IInv, ReadInv, Read
<1>9. StoreInv'
  BY <1>3 DEF IInv, StoreInv, ImagePathsResolve
<1>10. PointsInv'
  BY <1>3, <1>4 DEF IInv, PointsInv, PointsAreOfThePdf
<1>11. QED
  BY <1>6, <1>7, <1>8, <1>9, <1>10 DEF IInv

LEMMA UploadImageInv == ASSUME IInv, NEW i \in image_records, UploadImage(i) PROVE IInv'
<1>1. i \in ImageRecords /\ i # None /\ i.image_index \in 1..MaxImages
  BY NoneAssumption DEF IInv, Types, ImageRecords
<1>2. /\ stored \in [1..MaxImages -> ImageRecords \cup {None}]
      /\ stored' = [stored EXCEPT ![i.image_index] = IF @ = None THEN i ELSE @]
      /\ uploaded' = uploaded \cup {i} /\ pc = "images"
      /\ UNCHANGED <<pdf, pc, page, page_records, image_records, table_records, points>>
  BY DEF IInv, Types, UploadImage, records
<1>3. /\ stored' \in [1..MaxImages -> ImageRecords \cup {None}]
      /\ stored'[i.image_index] # None
      /\ \A k \in 1..MaxImages : stored[k] # None => stored'[k] # None
  BY <1>1, <1>2
<1>4. Types'
  BY <1>2, <1>3 DEF IInv, Types
<1>5. RecordsInv' /\ ReadInv'
  BY <1>2 DEF IInv, RecordsInv, ReadInv, Read
<1>6. StoreInv'
  <2>1. ASSUME NEW k \in uploaded PROVE stored'[k.image_index] # None
    <3>1. k.image_index \in 1..MaxImages
      BY DEF IInv, Types, ImageRecords
    <3>2. QED
      BY <1>3, <3>1 DEF IInv, StoreInv
  <2>2. ImagePathsResolve'
    BY <1>2, <1>3 DEF IInv, StoreInv, ImagePathsResolve
  <2>3. QED
    BY <1>2, <1>3, <2>1, <2>2 DEF StoreInv
<1>7. PointsInv'
  BY <1>2 DEF IInv, PointsInv, PointsAreOfThePdf
<1>8. QED
  BY <1>4, <1>5, <1>6, <1>7 DEF IInv

LEMMA UpsertPointsInv == ASSUME IInv, UpsertPoints PROVE IInv'
<1>1. /\ points' = Upserted(Prepared)
      /\ pc = "images" /\ pc' = "upserted" /\ uploaded = image_records
      /\ UNCHANGED <<pdf, page, page_records, image_records, table_records, uploaded, stored>>
  BY DEF UpsertPoints, ImagesAreUploaded, records
<1>2. Types /\ RecordsInv
  BY DEF IInv
<1>3. Prepared \subseteq Chunks
  BY <1>2, ChunksOfThePdf
<1>4. RecordsInv' /\ ReadInv'
  BY <1>1 DEF IInv, RecordsInv, ReadInv, Read
<1>5. /\ points' = {p \in points : \A c \in Prepared : PointId(c) # PointId(p)} \cup Prepared
      /\ points' \subseteq points \cup Prepared
  <2>1. \A c \in Prepared : c.page_number <= c.page_number
    BY <1>3, BoundAssumption DEF Chunks, Pages
  <2>2. LastOfIdentity(Prepared) = Prepared
    BY <1>2, <2>1, IdentitiesDiffer DEF LastOfIdentity
  <2>3. QED
    BY <1>1, <2>2 DEF Upserted
<1>6. Types'
  BY <1>1, <1>2, <1>3, <1>5 DEF Types, PCs
<1>7. StoreInv'
  <2>1. ASSUME NEW p \in points', p.content_type = "image" PROVE stored[p.image_index] # None
    <3>1. CASE p \in points
      BY <2>1, <3>1 DEF IInv, StoreInv, ImagePathsResolve
    <3>2. CASE p \in Prepared
      <4> DEFINE i == [page_number |-> p.page_number, image_index |-> p.image_index]
      <4>1. p \in ImageChunks
        BY <1>2, <2>1, <3>2, ChunksOfThePdf DEF Prepared
      <4>2. i \in uploaded
        BY <1>1, <1>2, <4>1, ChunksOfThePdf
      <4>3. i.image_index = p.image_index
        OBVIOUS
      <4> HIDE DEF i
      <4>4. QED
        BY <4>2, <4>3 DEF IInv, StoreInv
    <3>3. QED
      BY <1>5, <3>1, <3>2
  <2>2. QED
    BY <1>1, <2>1 DEF IInv, StoreInv, ImagePathsResolve
<1>8. PointsInv'
  <2>1. ASSUME NEW p \in Prepared
        PROVE  /\ p.page_number \in DOMAIN pdf
               /\ p.content_type = "page_text_plus_ocr" =>
                      p.chunk_index \in pdf[p.page_number].chunks[p.ocr]
               /\ p.content_type = "table" => p.table_index \in pdf[p.page_number].tables
               /\ p.content_type = "image" => p.image_index \in 1..pdf[p.page_number].images
    <3>1. CASE p \in PageChunks
      BY <1>2, <3>1, ChunksOfThePdf
    <3>2. CASE p \in TableChunks
      BY <1>2, <3>2, ChunksOfThePdf
    <3>3. CASE p \in ImageChunks
      <4> DEFINE i == [page_number |-> p.page_number, image_index |-> p.image_index]
      <4>1. i \in image_records /\ p.content_type = "image"
        BY <1>2, <3>3, ChunksOfThePdf
      <4>2. i.page_number = p.page_number /\ i.image_index = p.image_index
        OBVIOUS
      <4> HIDE DEF i
      <4>3. QED
        BY <1>2, <4>1, <4>2 DEF RecordsInv
    <3>4. QED
      BY <3>1, <3>2, <3>3 DEF Prepared
  <2>2. PointsAreOfThePdf'
    BY <1>1, <1>5, <2>1 DEF IInv, PointsInv, PointsAreOfThePdf
  <2>3. Prepared' = Prepared
    BY <1>1 DEF Prepared, PageChunks, TableChunks, ImageChunks
  <2>4. ASSUME NEW c \in Prepared, NEW p \in points', PointId(p) = PointId(c) PROVE p = c
    BY <1>2, <1>5, <2>4, IdentitiesDiffer
  <2>5. QED
    BY <1>5, <2>2, <2>3, <2>4 DEF PointsInv, PointId
<1>9. QED
  BY <1>4, <1>6, <1>7, <1>8 DEF IInv

\* The steps that change nothing but pc, and none of what it stands for.
LEMMA OnlyPcInv ==
    ASSUME IInv, UNCHANGED <<pdf, page, records, uploaded, stored, points>>,
           \/ pc' = "idle"
           \/ pc = "upserted" /\ pc' = "ready"
           \/ pc' = pc
    PROVE  IInv'
<1>1. UNCHANGED <<pdf, page, page_records, image_records, table_records, uploaded, stored, points>>
  BY DEF records
<1>2. Types'
  BY <1>1 DEF IInv, Types, PCs
<1>3. RecordsInv' /\ ReadInv'
  BY <1>1 DEF IInv, RecordsInv, ReadInv, Read
<1>4. StoreInv'
  BY <1>1 DEF IInv, StoreInv, ImagePathsResolve
<1>5. Prepared' = Prepared
  BY <1>1 DEF Prepared, PageChunks, TableChunks, ImageChunks
<1>6. PointsInv'
  BY <1>1, <1>5 DEF IInv, PointsInv, PointsAreOfThePdf, PointId
<1>7. QED
  BY <1>2, <1>3, <1>4, <1>6 DEF IInv

LEMMA StepInv == IInv /\ [Next]_vars => IInv'
<1>1. SUFFICES ASSUME IInv, [Next]_vars PROVE IInv'
  OBVIOUS
<1>2. CASE CommitReady \/ FailAttempt \/ UNCHANGED vars
  BY <1>1, <1>2, OnlyPcInv DEF CommitReady, FailAttempt, vars
<1>3. QED
  BY <1>1, <1>2, StartAttemptInv, ReadPageInv, ReadTablesInv, UploadImageInv, UpsertPointsInv
  DEF Next

LEMMA InvariantHolds == Spec => []IInv
  BY InitInv, StepInv, PTL DEF Spec

-----------------------------------------------------------------------------

\* Type correctness of records, objects and points.
THEOREM TypeCorrect == Spec => []TypeOK
<1>1. ASSUME IInv PROVE TypeOK
  <2>1. \E n \in Pages : pdf \in [1..n -> PageContents]
    BY <1>1 DEF IInv, Types, Pdfs
  <2>2. page \in 1..MaxPages + 1
    BY <1>1, PdfPages, BoundAssumption DEF IInv, Types, Pages
  <2>3. QED
    BY <1>1, <2>1, <2>2 DEF IInv, Types, TypeOK
<1>2. QED
  BY <1>1, InvariantHolds, PTL

\* A ready version has the chunks of the attempt that ended, whichever
\* attempts came before, and they cover every page and image of its PDF.
THEOREM ReadyStaysComplete == Spec => []ReadyCoversThePdf
<1>1. ASSUME IInv PROVE ReadyCoversThePdf
  <2>1. SUFFICES ASSUME pc = "ready"
        PROVE  \A p \in DOMAIN pdf :
                  /\ \E c \in PageChunks : c.page_number = p
                  /\ \A i \in 1..pdf[p].images :
                        \E c \in ImageChunks : c.page_number = p /\ c.image_index = i
    BY <1>1 DEF ReadyCoversThePdf, IInv, PointsInv
  <2>2. TAKE p \in DOMAIN pdf
  <2>3. Read(p)
    BY <1>1, <2>1 DEF IInv, ReadInv
  <2>4. PICK ocr \in BOOLEAN : [page_number |-> p, ocr |-> ocr] \in page_records
    BY <2>3 DEF Read
  <2>5. 0 \in pdf[p].chunks[ocr]
    BY <1>1, PdfPages, ContentFacts DEF IInv, Types
  <2>6. \E c \in PageChunks : c.page_number = p
    <3> DEFINE q == [page_number |-> p, ocr |-> ocr]
               c == [content_type |-> "page_text_plus_ocr", page_number |-> q.page_number,
                     table_index |-> 0, image_index |-> 0, chunk_index |-> 0, ocr |-> q.ocr]
    <3>1. q \in page_records /\ q.page_number = p /\ q.ocr = ocr
      BY <2>4
    <3>2. c.page_number = p
      OBVIOUS
    <3> HIDE DEF q
    <3>3. c \in {[content_type |-> "page_text_plus_ocr", page_number |-> q.page_number,
                  table_index |-> 0, image_index |-> 0, chunk_index |-> i, ocr |-> q.ocr] :
                     i \in pdf[q.page_number].chunks[q.ocr]}
      BY <2>5, <3>1
    <3>4. c \in PageChunks
      BY <3>1, <3>3 DEF PageChunks
    <3>5. QED
      BY <3>2, <3>4
  <2>7. ASSUME NEW i \in 1..pdf[p].images
        PROVE  \E c \in ImageChunks : c.page_number = p /\ c.image_index = i
    <3> DEFINE r == [page_number |-> p, image_index |-> i]
               d == [content_type |-> "image", page_number |-> r.page_number, table_index |-> 0,
                     image_index |-> r.image_index, chunk_index |-> 0, ocr |-> FALSE]
    <3>1. r \in image_records
      BY <2>3 DEF Read
    <3>2. d \in ImageChunks /\ d.page_number = p /\ d.image_index = i
      BY <3>1 DEF ImageChunks
    <3> HIDE DEF d
    <3>3. QED
      BY <3>2
  <2>8. QED
    BY <2>6, <2>7
<1>2. QED
  BY <1>1, InvariantHolds, PTL

\* Every image_path in Qdrant names an object that exists.
THEOREM ImagePathsKeepResolving == Spec => []ImagePathsResolve
<1>1. IInv => ImagePathsResolve
  BY DEF IInv, StoreInv
<1>2. QED
  BY <1>1, InvariantHolds, PTL

\* What earlier attempts left in Qdrant is of the same PDF.
THEOREM PointsStayOfThePdf == Spec => []PointsAreOfThePdf
<1>1. IInv => PointsAreOfThePdf
  BY DEF IInv, PointsInv
<1>2. QED
  BY <1>1, InvariantHolds, PTL
=============================================================================
