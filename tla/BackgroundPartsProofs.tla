------------------------ MODULE BackgroundPartsProofs ------------------------
(***************************************************************************)
(* Proofs about the parts of the server that work for themselves: the      *)
(* knowledge base, the local models, the editor of workflows and the       *)
(* hooks; and about what the user adds to it: plugins, and the rules,      *)
(* skills and settings that are files; and about the panel that shows the  *)
(* background tasks.  For each, the invariant that its steps keep, a lemma *)
(* for every action that disturbs it, and the property of the part.        *)
(*                                                                         *)
(* Plugins: PluginsInv says what is in the directory of a plugin at each   *)
(* step of a call that meets no other (Progress), and that the directory   *)
(* is whole for the entry of the file when none is at work on it.          *)
(*                                                                         *)
(* The files: FilesInv says that saves which do not overlap leave every    *)
(* text that is meant in one file, also between writing a renamed rule and *)
(* removing its old file, and what each save of the settings will write.   *)
(*                                                                         *)
(* The panel: PanelInv says where the news of every change of the tasks is *)
(* as long as the store does not show it (StoreCatchesUp), that a row at   *)
(* work is pinned and so polled, and what Stop has made of the tasks.      *)
(***************************************************************************)
EXTENDS KnowledgeBase, LocalModels, WorkflowEditor, Hooks, Plugins, UserFiles,
        TaskPanel, SequenceTheorems, FiniteSetTheorems, TLAPS

-----------------------------------------------------------------------------
(* The knowledge base. *)

Stages == {"none", "begin", "chunk", "entity", "link", "relate", "ready"}
PieceStages == {"chunk", "entity", "link", "relate"}

IngestTypeOK ==
  /\ ingest \in [Documents -> [step : Stages, piece : 0..Pieces]]
  /\ \A d \in Documents : ingest[d].step = "none" => ingest[d] = Idle
  /\ \A d \in Documents : ingest[d].step \in PieceStages => ingest[d].piece > 0

KnowledgeTypeOK ==
  /\ document \in [Documents -> {"new", "pending", "indexing", "ready", "failed", "gone"}]
  /\ chunk \in [Documents -> SUBSET AllPieces]
  /\ entity \in [Documents -> SUBSET AllPieces]
  /\ chunkEntity \in [Documents -> SUBSET AllPieces]
  /\ relates \in [Documents -> SUBSET AllPieces]
  /\ deletion \in [Documents -> 0..5]
  /\ overlapped \in [Documents -> BOOLEAN]
  /\ halted \in [Documents -> BOOLEAN]
  /\ IngestTypeOK

\* Nothing is known of a document before it is inserted.
NewIsUnknown(d) ==
  document[d] = "new" =>
    /\ ~Ingesting(d) /\ deletion[d] = 0 /\ ~halted[d]
    /\ chunk[d] = {} /\ entity[d] = {} /\ chunkEntity[d] = {}

\* How far an ingestion is that no deletion disturbs.
IngestedSoFar(d) ==
  Ingesting(d) =>
    /\ ingest[d].step = "begin" => document[d] \in {"pending", "gone"}
    /\ ~overlapped[d] =>
         /\ deletion[d] = 0 /\ document[d] # "gone"
         /\ ingest[d].step = "chunk" => 1..(ingest[d].piece - 1) \subseteq chunk[d]
         /\ ingest[d].step \in Stages \ {"begin", "chunk"} => chunk[d] = AllPieces
         /\ ingest[d].step = "link" => ingest[d].piece \in entity[d]

\* How far a deletion is that began after the ingestion.
DeletedSoFar(d) ==
  ~overlapped[d] =>
    /\ chunkEntity[d] \subseteq chunk[d] \cap entity[d]
    /\ deletion[d] > 1 => chunkEntity[d] = {}
    /\ deletion[d] > 2 => chunk[d] = {}
    /\ deletion[d] > 4 => entity[d] = {}
    /\ document[d] = "gone" =>
         chunk[d] = {} /\ entity[d] = {} /\ chunkEntity[d] = {} /\ deletion[d] = 0
    /\ document[d] = "ready" /\ deletion[d] = 0 /\ ~halted[d] => chunk[d] = AllPieces

IndexingIsWorked(d) == document[d] = "indexing" => Ingesting(d)

DocumentOK(d) == NewIsUnknown(d) /\ IngestedSoFar(d) /\ DeletedSoFar(d) /\ IndexingIsWorked(d)

\* No list names a document that was not inserted.
ListsKnow ==
  \A list \in fetched \cup {documentsShown} :
    list \subseteq Documents /\ \A d \in list : document[d] # "new"

KnowledgeInv == KnowledgeTypeOK /\ ListsKnow /\ \A d \in Documents : DocumentOK(d)

\* Nothing is stored at first.
LEMMA KnowledgeBegins == KnowledgeInit => KnowledgeInv
<1> SUFFICES ASSUME KnowledgeInit
             PROVE  KnowledgeInv
  OBVIOUS
<1> USE PiecesAssumption DEF KnowledgeInit, Idle, Stage, Ingesting
<1>1. KnowledgeTypeOK
  BY DEF KnowledgeTypeOK, IngestTypeOK, Stages, PieceStages
<1>2. ListsKnow
  BY DEF ListsKnow
<1>3. \A d \in Documents : DocumentOK(d)
  BY DEF DocumentOK, NewIsUnknown, IngestedSoFar, DeletedSoFar, IndexingIsWorked
<1> QED
  BY <1>1, <1>2, <1>3 DEF KnowledgeInv

\* An ingestion goes on at a stage and a piece there is.
LEMMA ProceedTypes ==
  ASSUME IngestTypeOK, NEW d \in Documents, NEW step \in Stages \ {"none"}, NEW piece \in 0..Pieces,
         step \in PieceStages => piece > 0, Proceed(d, step, piece)
  PROVE  IngestTypeOK'
  BY DEF IngestTypeOK, Proceed, Stage, Idle, Stages, PieceStages

\* Every action keeps the variables of their types.
LEMMA KnowledgeTypeStep ==
  ASSUME KnowledgeTypeOK, [KnowledgeNext]_knowledgeVars
  PROVE  KnowledgeTypeOK'
<1> USE PiecesAssumption DEF KnowledgeTypeOK, stored, panel
<1>0. /\ Stages = {"none", "begin", "chunk", "entity", "link", "relate", "ready"}
      /\ PieceStages = {"chunk", "entity", "link", "relate"}
      /\ 0 \in 0..Pieces /\ 1 \in 0..Pieces
      /\ \A p \in 0..Pieces : p < Pieces => p + 1 \in 0..Pieces /\ p + 1 > 0
  BY DEF Stages, PieceStages
<1>a. \A d \in Documents : /\ ingest[d].step \in Stages /\ ingest[d].piece \in 0..Pieces
                           /\ ingest[d].step \in PieceStages =>
                                ingest[d].piece > 0 /\ ingest[d].piece \in AllPieces
  BY <1>0 DEF IngestTypeOK, AllPieces
<1>b. ASSUME NEW d \in Documents, NEW p \in 0..Pieces, NextPiece(d, p)
      PROVE  IngestTypeOK'
  BY <1>0, <1>b, ProceedTypes DEF NextPiece
<1>c. ASSUME NEW d \in Documents, ingest' = [ingest EXCEPT ![d] = Idle]
      PROVE  IngestTypeOK'
  BY <1>0, <1>c DEF IngestTypeOK, Idle, Stage
<1>d. UNCHANGED ingest => IngestTypeOK'
  BY DEF IngestTypeOK
<1>1. ASSUME NEW d \in Documents, insertDocument(d) PROVE KnowledgeTypeOK'
  <2>1. IngestTypeOK'
    BY <1>0, <1>1, ProceedTypes DEF insertDocument
  <2> QED
    BY <1>1, <2>1 DEF insertDocument
<1>2. ASSUME NEW d \in Documents, BeginIndexing(d) PROVE KnowledgeTypeOK'
  <2>1. IngestTypeOK'
    BY <1>0, <1>2, ProceedTypes DEF BeginIndexing
  <2> QED
    BY <1>2, <2>1 DEF BeginIndexing, updateDocumentStatus
<1>3. ASSUME NEW d \in Documents, insertChunk(d) PROVE KnowledgeTypeOK'
  <2>1. IngestTypeOK'
    BY <1>0, <1>3, <1>a, ProceedTypes DEF insertChunk
  <2>2. ingest[d].piece \in AllPieces
    BY <1>0, <1>3, <1>a DEF insertChunk
  <2> QED
    BY <1>3, <2>1, <2>2 DEF insertChunk
<1>4. ASSUME NEW d \in Documents, upsertEntity(d) PROVE KnowledgeTypeOK'
  <2>1. ingest[d].piece \in AllPieces /\ ingest[d].piece \in 0..Pieces /\ ingest[d].piece > 0
    BY <1>0, <1>4, <1>a DEF upsertEntity
  <2>2. IngestTypeOK'
    BY <1>0, <1>4, <1>b, <2>1, ProceedTypes DEF upsertEntity
  <2> QED
    BY <1>4, <2>1, <2>2 DEF upsertEntity
<1>5. ASSUME NEW d \in Documents, linkChunkEntity(d) PROVE KnowledgeTypeOK'
  <2>1. ingest[d].piece \in AllPieces /\ ingest[d].piece \in 0..Pieces /\ ingest[d].piece > 0
    BY <1>0, <1>5, <1>a DEF linkChunkEntity
  <2>2. IngestTypeOK'
    BY <1>0, <1>5, <2>1, ProceedTypes DEF linkChunkEntity
  <2> QED
    BY <1>5, <2>1, <2>2 DEF linkChunkEntity
<1>6. ASSUME NEW d \in Documents, insertRelates(d) PROVE KnowledgeTypeOK'
  <2>1. ingest[d].piece \in AllPieces /\ ingest[d].piece \in 0..Pieces
    BY <1>0, <1>6, <1>a DEF insertRelates
  <2>2. IngestTypeOK'
    BY <1>6, <1>b, <2>1 DEF insertRelates
  <2> QED
    BY <1>6, <2>1, <2>2 DEF insertRelates
<1>7. ASSUME NEW d \in Documents, IngestEnds(d) PROVE KnowledgeTypeOK'
  <2>1. IngestTypeOK'
    BY <1>7, <1>c DEF IngestEnds
  <2> QED
    BY <1>7, <2>1 DEF IngestEnds, updateDocumentStatus
<1>8. ASSUME NEW d \in Documents, IngestFails(d) PROVE KnowledgeTypeOK'
  <2>1. IngestTypeOK'
    BY <1>0, <1>8, <1>c, ProceedTypes DEF IngestFails
  <2>2. document' \in [Documents -> {"new", "pending", "indexing", "ready", "failed", "gone"}]
    BY <1>8 DEF IngestFails, updateDocumentStatus
  <2> QED
    BY <1>8, <2>1, <2>2 DEF IngestFails
<1>9. ASSUME NEW d \in Documents, confirmDelete(d) PROVE KnowledgeTypeOK'
  BY <1>9, <1>d DEF confirmDelete, Ingesting
<1>10. ASSUME NEW d \in Documents, DeletionStep(d) PROVE KnowledgeTypeOK'
  BY <1>10, <1>d DEF DeletionStep, Without
<1>11. CASE listDocuments \/ refresh
  BY <1>11, <1>d DEF listDocuments, refresh
<1>12. CASE sweepInterruptedRagIngests
  <2>1. IngestTypeOK'
    BY <1>0, <1>12 DEF sweepInterruptedRagIngests, IngestTypeOK, Idle, Stage
  <2> QED
    BY <1>12, <2>1 DEF sweepInterruptedRagIngests
<1>13. CASE UNCHANGED knowledgeVars
  BY <1>13, <1>d DEF knowledgeVars
<1> QED
  BY <1>1, <1>2, <1>3, <1>4, <1>5, <1>6, <1>7, <1>8, <1>9, <1>10, <1>11, <1>12, <1>13
  DEF KnowledgeNext

\* What no action touches stays right.
LEMMA UntouchedDocument ==
  ASSUME NEW d \in Documents, DocumentOK(d),
         document'[d] = document[d], chunk'[d] = chunk[d], entity'[d] = entity[d],
         chunkEntity'[d] = chunkEntity[d], ingest'[d] = ingest[d], deletion'[d] = deletion[d],
         overlapped'[d] = overlapped[d], halted'[d] = halted[d]
  PROVE  DocumentOK(d)'
  BY DEF DocumentOK, NewIsUnknown, IngestedSoFar, DeletedSoFar, IndexingIsWorked, Ingesting

\* The document that an action is about stays right.
LEMMA DocumentStep ==
  ASSUME KnowledgeInv, KnowledgeTypeOK', NEW d \in Documents,
         \/ insertDocument(d) \/ BeginIndexing(d) \/ insertChunk(d)
         \/ upsertEntity(d) \/ linkChunkEntity(d) \/ insertRelates(d)
         \/ IngestEnds(d) \/ IngestFails(d) \/ confirmDelete(d) \/ DeletionStep(d)
  PROVE  DocumentOK(d)'
<1> USE PiecesAssumption DEF stored, panel
<1>0. /\ Stages = {"none", "begin", "chunk", "entity", "link", "relate", "ready"}
      /\ PieceStages = {"chunk", "entity", "link", "relate"}
      /\ AllPieces = 1..Pieces /\ Idle = Stage("none", 0)
      /\ \A step, piece : Stage(step, piece).step = step /\ Stage(step, piece).piece = piece
  BY DEF Stages, PieceStages, AllPieces, Idle, Stage
<1>a. DocumentOK(d) /\ KnowledgeTypeOK /\ IngestTypeOK
  BY DEF KnowledgeInv, KnowledgeTypeOK
<1>b. /\ ingest[d].step \in Stages /\ ingest[d].piece \in 0..Pieces
      /\ ingest[d].step \in PieceStages => ingest[d].piece \in AllPieces
      /\ ingest[d].step = "none" <=> ~Ingesting(d)
  BY <1>0, <1>a DEF IngestTypeOK, Ingesting
<1>c. \A step \in Stages : \A piece : Proceed(d, step, piece) =>
        /\ ingest'[d].step = step /\ ingest'[d].piece = piece
        /\ step # "none" => Ingesting(d)'
  BY <1>0, <1>a DEF IngestTypeOK, Proceed, Ingesting
<1>d. ingest' = [ingest EXCEPT ![d] = Idle] => ~Ingesting(d)' /\ ingest'[d].step = "none"
  BY <1>0, <1>a DEF IngestTypeOK, Ingesting
<1>e. deletion[d] \in 0..5
  BY <1>a DEF KnowledgeTypeOK
<1> DEFINE OK == NewIsUnknown(d) /\ IngestedSoFar(d) /\ DeletedSoFar(d) /\ IndexingIsWorked(d)
<1>f. OK
  BY <1>a DEF DocumentOK
<1>g. ASSUME OK' PROVE DocumentOK(d)'
  BY <1>g DEF DocumentOK
<1> USE DEF NewIsUnknown, IngestedSoFar, DeletedSoFar, IndexingIsWorked
<1>1. CASE insertDocument(d)
  BY <1>0, <1>1, <1>a, <1>b, <1>c, <1>f, <1>g DEF insertDocument, KnowledgeTypeOK
<1>2. CASE BeginIndexing(d)
  BY <1>0, <1>2, <1>a, <1>b, <1>c, <1>f, <1>g DEF BeginIndexing, updateDocumentStatus, KnowledgeTypeOK
<1>3. CASE insertChunk(d)
  BY <1>0, <1>3, <1>a, <1>b, <1>c, <1>f, <1>g DEF insertChunk, KnowledgeTypeOK
<1>4. CASE upsertEntity(d)
  BY <1>0, <1>4, <1>a, <1>b, <1>c, <1>f, <1>g DEF upsertEntity, NextPiece, KnowledgeTypeOK
<1>5. CASE linkChunkEntity(d)
  BY <1>0, <1>5, <1>a, <1>b, <1>c, <1>f, <1>g DEF linkChunkEntity, KnowledgeTypeOK
<1>6. CASE insertRelates(d)
  BY <1>0, <1>6, <1>a, <1>b, <1>c, <1>f, <1>g DEF insertRelates, NextPiece, KnowledgeTypeOK
<1>7. CASE IngestEnds(d)
  BY <1>0, <1>7, <1>a, <1>b, <1>d, <1>f, <1>g DEF IngestEnds, updateDocumentStatus, KnowledgeTypeOK
<1>8. CASE IngestFails(d)
  BY <1>0, <1>8, <1>a, <1>b, <1>c, <1>d, <1>f, <1>g
  DEF IngestFails, updateDocumentStatus, KnowledgeTypeOK
<1>9. CASE confirmDelete(d)
  <2>1. document[d] # "new"
    BY <1>9 DEF confirmDelete, KnowledgeInv, ListsKnow
  <2> QED
    <3>1. /\ deletion[d] = 0 /\ deletion'[d] = 1 /\ document[d] # "gone"
          /\ (overlapped'[d] <=> overlapped[d] \/ Ingesting(d))
          /\ UNCHANGED <<document, chunk, entity, chunkEntity, ingest, halted>>
      BY <1>9, <1>a DEF confirmDelete, KnowledgeTypeOK
    <3>2. Ingesting(d)' = Ingesting(d)
      BY <3>1 DEF Ingesting
    <3> QED
      BY <1>f, <1>g, <2>1, <3>1, <3>2
<1>10. CASE DeletionStep(d)
  BY <1>0, <1>10, <1>a, <1>b, <1>e, <1>f, <1>g
  DEF DeletionStep, Without, DeletionOrder, KnowledgeTypeOK, Ingesting
<1> QED
  BY <1>1, <1>2, <1>3, <1>4, <1>5, <1>6, <1>7, <1>8, <1>9, <1>10

\* The invariant holds of every document after every step.
LEMMA KnowledgeStep ==
  ASSUME KnowledgeInv, [KnowledgeNext]_knowledgeVars
  PROVE  KnowledgeInv'
<1> USE DEF stored, panel
<1>1. KnowledgeTypeOK'
  BY KnowledgeTypeStep DEF KnowledgeInv
<1>2. ASSUME NEW d \in Documents,
             \/ insertDocument(d) \/ BeginIndexing(d) \/ insertChunk(d)
             \/ upsertEntity(d) \/ linkChunkEntity(d) \/ insertRelates(d)
             \/ IngestEnds(d) \/ IngestFails(d) \/ confirmDelete(d) \/ DeletionStep(d)
      PROVE  KnowledgeInv'
  <2>1. DocumentOK(d)'
    BY <1>1, <1>2, DocumentStep
  <2>2. ASSUME NEW e \in Documents, e # d
        PROVE  DocumentOK(e)'
    <3>1. /\ document'[e] = document[e] /\ chunk'[e] = chunk[e] /\ entity'[e] = entity[e]
          /\ chunkEntity'[e] = chunkEntity[e] /\ ingest'[e] = ingest[e]
          /\ deletion'[e] = deletion[e] /\ overlapped'[e] = overlapped[e] /\ halted'[e] = halted[e]
      BY <1>2, <2>2
      DEF KnowledgeInv, KnowledgeTypeOK, IngestTypeOK, insertDocument, BeginIndexing, insertChunk,
          upsertEntity, linkChunkEntity, insertRelates, IngestEnds, IngestFails, confirmDelete,
          DeletionStep, Without, Proceed, NextPiece, updateDocumentStatus
    <3> QED
      BY <3>1, UntouchedDocument DEF KnowledgeInv
  <2>3. ListsKnow'
    <3>1. UNCHANGED <<documentsShown, fetched>>
      BY <1>2
      DEF insertDocument, BeginIndexing, insertChunk, upsertEntity, linkChunkEntity, insertRelates,
          IngestEnds, IngestFails, confirmDelete, DeletionStep
    <3>2. \A e \in Documents : document[e] # "new" => document'[e] # "new"
      <4>1. \/ UNCHANGED document
            \/ \E s \in {"pending", "indexing", "ready", "failed", "gone"} :
                 document' = [document EXCEPT ![d] = s]
        BY <1>2
        DEF insertDocument, BeginIndexing, insertChunk, upsertEntity, linkChunkEntity, insertRelates,
            IngestEnds, IngestFails, confirmDelete, DeletionStep, updateDocumentStatus
      <4> QED
        BY <4>1 DEF KnowledgeInv, KnowledgeTypeOK
    <3> QED
      BY <3>1, <3>2 DEF KnowledgeInv, ListsKnow
  <2> QED
    BY <1>1, <2>1, <2>2, <2>3 DEF KnowledgeInv
<1>3. CASE listDocuments \/ refresh
  <2>1. UNCHANGED <<document, chunk, entity, chunkEntity, ingest, deletion, overlapped, halted>>
    BY <1>3 DEF listDocuments, refresh
  <2>2. ListsKnow'
    BY <1>3 DEF KnowledgeInv, ListsKnow, listDocuments, refresh
  <2> QED
    BY <1>1, <2>1, <2>2, UntouchedDocument DEF KnowledgeInv
<1>4. CASE sweepInterruptedRagIngests
  <2>1. ListsKnow'
    BY <1>4 DEF KnowledgeInv, KnowledgeTypeOK, ListsKnow, sweepInterruptedRagIngests
  <2>2. ASSUME NEW d \in Documents PROVE DocumentOK(d)'
    <3>1. DocumentOK(d) /\ ~Ingesting(d)' /\ deletion[d] \in 0..5
      BY <1>4 DEF KnowledgeInv, KnowledgeTypeOK, sweepInterruptedRagIngests, Ingesting
    <3>2. /\ document'[d] = (IF document[d] = "indexing" THEN "failed" ELSE document[d])
          /\ deletion'[d] = 0 /\ (halted'[d] <=> halted[d] \/ deletion[d] > 0)
          /\ UNCHANGED <<chunk, entity, chunkEntity, overlapped>>
      BY <1>4 DEF sweepInterruptedRagIngests, KnowledgeInv, KnowledgeTypeOK
    <3>3. NewIsUnknown(d)'
      BY <3>1, <3>2 DEF DocumentOK, NewIsUnknown
    <3>4. IngestedSoFar(d)' /\ IndexingIsWorked(d)'
      BY <3>1, <3>2 DEF IngestedSoFar, IndexingIsWorked
    <3>5. DeletedSoFar(d)'
      BY <3>1, <3>2 DEF DocumentOK, DeletedSoFar
    <3> QED
      BY <3>3, <3>4, <3>5 DEF DocumentOK
  <2> QED
    BY <1>1, <2>1, <2>2 DEF KnowledgeInv
<1>5. CASE UNCHANGED knowledgeVars
  <2>1. UNCHANGED <<document, chunk, entity, chunkEntity, ingest, deletion, overlapped, halted,
                    documentsShown, fetched>>
    BY <1>5 DEF knowledgeVars
  <2>2. ListsKnow'
    BY <2>1 DEF KnowledgeInv, ListsKnow
  <2> QED
    BY <1>1, <2>1, <2>2, UntouchedDocument DEF KnowledgeInv
<1> QED
  BY <1>2, <1>3, <1>4, <1>5 DEF KnowledgeNext

\* A deletion that did not overlap the ingestion leaves nothing a search or the graph
\* finds, no link dangles, a document that is ready has all its pieces, and none is
\* "indexing" that nobody indexes, wherever the server stopped.
THEOREM KnowledgeStaysConsistent == KnowledgeSpec => []KnowledgeConsistent
<1>1. KnowledgeInv => KnowledgeConsistent
  <2> SUFFICES ASSUME KnowledgeInv, NEW d \in Documents
               PROVE  /\ ~overlapped[d] =>
                           /\ document[d] = "gone" =>
                                hybridSearchChunks(d) \cup listGraphForTenant(d) \cup chunkEntity[d] = {}
                           /\ chunkEntity[d] = getChunksForEntities(d)
                           /\ document[d] = "ready" /\ deletion[d] = 0 /\ ~halted[d] =>
                                hybridSearchChunks(d) = AllPieces
                      /\ document[d] = "indexing" => Ingesting(d)
    BY DEF KnowledgeConsistent
  <2>1. /\ chunk[d] \in SUBSET AllPieces /\ entity[d] \in SUBSET AllPieces
        /\ chunkEntity[d] \in SUBSET AllPieces
    BY DEF KnowledgeInv, KnowledgeTypeOK
  <2>2. DeletedSoFar(d) /\ IndexingIsWorked(d)
    BY DEF KnowledgeInv, DocumentOK
  <2>3. ~overlapped[d] => chunkEntity[d] = getChunksForEntities(d)
    BY <2>2 DEF DeletedSoFar, getChunksForEntities
  <2>4. ~overlapped[d] /\ document[d] = "gone" =>
          hybridSearchChunks(d) \cup listGraphForTenant(d) \cup chunkEntity[d] = {}
    BY <2>2 DEF DeletedSoFar, hybridSearchChunks, searchChunksByText, getChunksForEntities,
                listGraphForTenant
  <2>5. ~overlapped[d] /\ document[d] = "ready" /\ deletion[d] = 0 /\ ~halted[d] =>
          hybridSearchChunks(d) = AllPieces
    BY <2>1, <2>2 DEF DeletedSoFar, hybridSearchChunks, searchChunksByText, getChunksForEntities
  <2> QED
    BY <2>2, <2>3, <2>4, <2>5 DEF IndexingIsWorked
<1>2. KnowledgeInit => KnowledgeInv
  BY KnowledgeBegins
<1>3. KnowledgeInv /\ [KnowledgeNext]_knowledgeVars => KnowledgeInv'
  BY KnowledgeStep
<1> QED
  BY <1>1, <1>2, <1>3, PTL DEF KnowledgeSpec

-----------------------------------------------------------------------------
(* The local models. *)


ModelsTypeOK ==
  /\ files \in [EmbeddingFiles -> {"absent", "part", "whole"}]
  /\ fetching \in 0..4 /\ writing \in BOOLEAN /\ cut \in 0..4
  /\ onnx \in {"absent", "part", "whole"}
  /\ loading \in {"none", "tokenizer", "model"}
  /\ reranker \in [enabled : BOOLEAN, at : BOOLEAN]
  /\ wish \in {"none", "off"}
  /\ card \in [{"embedding", "reranker"} ->
                 [phase : {"idle", "downloading", "error", "ready"}, installed : BOOLEAN]]

\* The files come in their order, and the third only after two whole ones.
InOrder ==
  /\ writing => fetching # 0
  /\ \A f \in EmbeddingRequired : f < fetching => files[f] = "whole"
  /\ files[3] # "absent" =>
       files[1] = "whole" /\ files[2] = "whole" /\ fetching \in {0, 3, 4}
  /\ files[3] = "part" => (fetching = 3 /\ writing) \/ cut = 3

\* A wish is made on a card that shows a model, and no such card shows one that is loaded.
WishIsKnown ==
  /\ loading # "none" => rerankPhase = "downloading" /\ ~ShowReady("reranker") /\ wish = "none"
  /\ ShowReady("reranker") => reranker.at \/ onnx = "absent"
  /\ wish = "off" => ~reranker.enabled /\ (reranker.at \/ onnx = "absent")
  /\ reranker.enabled => onnx # "absent"

ModelsInv == ModelsTypeOK /\ InOrder /\ WishIsKnown

\* Every action keeps the variables of their types.
LEMMA ModelsTypeStep ==
  ASSUME ModelsTypeOK, [ModelsNext]_modelVars
  PROVE  ModelsTypeOK'
<1> USE DEF ModelsTypeOK, embedVars, rerankVars
<1>0. \A phase, installed : Phase(phase, installed) \in {"idle", "downloading", "error", "ready"}
  BY DEF Phase
<1>a. /\ 0 \in 0..4 /\ 1 \in 0..4 /\ fetching \in 0..4
      /\ fetching < 4 => fetching + 1 \in 0..4
  OBVIOUS
<1>1. CASE startEmbeddingDownload
  BY <1>1, <1>a DEF startEmbeddingDownload, BeginFetching
<1>2. CASE startRerankerDownload
  BY <1>2 DEF startRerankerDownload
<1>3. CASE removeEmbeddingModel
  BY <1>3 DEF removeEmbeddingModel
<1>4. CASE removeRerankerModel
  BY <1>4 DEF removeRerankerModel
<1>5. CASE setRerankerEnabled
  BY <1>5 DEF setRerankerEnabled, onToggleEnabled
<1>6. CASE getEmbeddingStatus
  <2>1. isEmbeddingModelReady \in BOOLEAN
    BY DEF isEmbeddingModelReady
  <2> QED
    BY <1>0, <1>6, <2>1 DEF getEmbeddingStatus, Shown
<1>7. CASE getRerankerStatus
  BY <1>0, <1>7 DEF getRerankerStatus, Shown, isRerankerModelOnDisk
<1>8. CASE FileOpened
  BY <1>8, <1>a DEF FileOpened
<1>9. CASE FileWritten
  BY <1>9, <1>a DEF FileWritten
<1>10. CASE FetchFailed
  BY <1>10, <1>a DEF FetchFailed
<1>11. CASE TokenizerLoaded
  BY <1>11 DEF TokenizerLoaded
<1>15. CASE ModelLoaded
  BY <1>15 DEF ModelLoaded
<1>12. CASE LoadFailed
  <2>1. onnx' \in {"absent", "part", "whole"} /\ loading' = "none"
    BY <1>12 DEF LoadFailed
  <2>2. reranker' \in [enabled : BOOLEAN, at : BOOLEAN]
    BY <1>12 DEF LoadFailed
  <2> QED
    BY <1>12, <2>1, <2>2 DEF LoadFailed
<1>14. CASE Restart
  <2>1. fetching' \in 0..4 /\ writing' \in BOOLEAN /\ cut' \in 0..4
    BY <1>14, <1>a DEF Restart, BeginFetching
  <2>2. onnx' \in {"absent", "part", "whole"} /\ loading' \in {"none", "tokenizer", "model"}
    BY <1>14 DEF Restart
  <2> QED
    BY <1>14, <2>1, <2>2 DEF Restart
<1>13. CASE UNCHANGED modelVars
  BY <1>13 DEF modelVars
<1> QED
  BY <1>1, <1>2, <1>3, <1>4, <1>5, <1>6, <1>7, <1>8, <1>9, <1>10, <1>11, <1>12, <1>13, <1>14, <1>15
  DEF ModelsNext, changeLocalModels

\* The files of the embedding model stay in order.
LEMMA InOrderStep ==
  ASSUME ModelsTypeOK, InOrder, [ModelsNext]_modelVars
  PROVE  InOrder'
<1> USE DEF embedVars, rerankVars
<1>0. /\ files \in [{1, 2, 3, 4} -> {"absent", "part", "whole"}] /\ fetching \in 0..4
      /\ EmbeddingFiles = {1, 2, 3, 4} /\ EmbeddingRequired = {1, 2, 3}
  BY DEF ModelsTypeOK, EmbeddingFiles, EmbeddingRequired
<1>a. ~isEmbeddingModelReady => files[3] = "absent"
  BY <1>0 DEF InOrder, isEmbeddingModelReady
<1>1. CASE startEmbeddingDownload
  BY <1>0, <1>1, <1>a DEF InOrder, startEmbeddingDownload, BeginFetching
<1>2. CASE startRerankerDownload \/ removeRerankerModel \/ setRerankerEnabled \/ getRerankerStatus
           \/ getEmbeddingStatus \/ TokenizerLoaded \/ ModelLoaded \/ LoadFailed
  <2>1. UNCHANGED <<files, fetching, writing, cut>>
    BY <1>2 DEF startRerankerDownload, removeRerankerModel, setRerankerEnabled, getRerankerStatus,
                getEmbeddingStatus, TokenizerLoaded, ModelLoaded, LoadFailed
  <2> QED
    BY <2>1 DEF InOrder
<1>3. CASE removeEmbeddingModel
  BY <1>0, <1>3 DEF InOrder, removeEmbeddingModel
<1>4. CASE FileOpened
  BY <1>0, <1>4 DEF InOrder, FileOpened
<1>5. CASE FileWritten
  BY <1>0, <1>5 DEF InOrder, FileWritten
<1>6. CASE FetchFailed
  BY <1>0, <1>6 DEF InOrder, FetchFailed
<1>7. CASE Restart
  BY <1>0, <1>7, <1>a DEF InOrder, Restart, BeginFetching
<1>8. CASE UNCHANGED modelVars
  BY <1>8 DEF InOrder, modelVars
<1> QED
  BY <1>1, <1>2, <1>3, <1>4, <1>5, <1>6, <1>7, <1>8 DEF ModelsNext, changeLocalModels

\* What the user chose for the reranker stays chosen.
LEMMA WishStep ==
  ASSUME ModelsTypeOK, WishIsKnown, [ModelsNext]_modelVars
  PROVE  WishIsKnown'
<1> USE DEF embedVars, rerankVars
<1>0. /\ reranker \in [enabled : BOOLEAN, at : BOOLEAN] /\ wish \in {"none", "off"}
      /\ card \in [{"embedding", "reranker"} ->
                     [phase : {"idle", "downloading", "error", "ready"}, installed : BOOLEAN]]
  BY DEF ModelsTypeOK
<1>1. CASE startEmbeddingDownload \/ removeEmbeddingModel \/ FileOpened \/ FileWritten \/ FetchFailed
  <2>1. UNCHANGED <<onnx, loading, rerankPhase, reranker, wish, card>>
    BY <1>1 DEF startEmbeddingDownload, removeEmbeddingModel, FileOpened, FileWritten, FetchFailed
  <2> QED
    BY <2>1 DEF WishIsKnown, ShowReady
<1>2. CASE startRerankerDownload
  BY <1>0, <1>2 DEF WishIsKnown, startRerankerDownload, ShowReady, ShowDownload
<1>3. CASE removeRerankerModel
  BY <1>0, <1>3 DEF WishIsKnown, removeRerankerModel, ShowReady
<1>4. CASE setRerankerEnabled
  BY <1>0, <1>4 DEF WishIsKnown, setRerankerEnabled, onToggleEnabled, ShowReady, isRerankerModelOnDisk
<1>5. CASE getEmbeddingStatus
  BY <1>0, <1>5 DEF WishIsKnown, getEmbeddingStatus, ShowReady
<1>6. CASE getRerankerStatus
  BY <1>0, <1>6 DEF WishIsKnown, getRerankerStatus, ShowReady, Shown, Phase, isRerankerModelOnDisk
<1>7. CASE TokenizerLoaded
  BY <1>0, <1>7 DEF WishIsKnown, TokenizerLoaded, ShowReady
<1>8. CASE ModelLoaded
  BY <1>0, <1>8 DEF WishIsKnown, ModelLoaded, ShowReady
<1>9. CASE LoadFailed
  BY <1>0, <1>9 DEF WishIsKnown, LoadFailed, ShowReady
<1>10. CASE Restart
  BY <1>0, <1>10 DEF WishIsKnown, Restart, ShowReady
<1>11. CASE UNCHANGED modelVars
  BY <1>11 DEF WishIsKnown, ShowReady, modelVars
<1> QED
  BY <1>1, <1>2, <1>3, <1>4, <1>5, <1>6, <1>7, <1>8, <1>9, <1>10, <1>11
  DEF ModelsNext, changeLocalModels

\* A model that counts as ready is whole, but for the last file if its writing was broken
\* off, and a reranker that is enabled is there and wanted, whatever fails and restarts.
THEOREM ModelsStayWhole == ModelsSpec => []ModelsAreWhole
<1>1. ModelsInit => ModelsInv
  <2> SUFFICES ASSUME ModelsInit
               PROVE  ModelsInv
    OBVIOUS
  <2>1. ModelsTypeOK
    <3>1. /\ reranker \in [enabled : BOOLEAN, at : BOOLEAN]
          /\ card \in [{"embedding", "reranker"} ->
                         [phase : {"idle", "downloading", "error", "ready"}, installed : BOOLEAN]]
      BY DEF ModelsInit, Shown
    <3>2. fetching = 1 /\ ~writing /\ writing \in BOOLEAN /\ cut = 0
      BY Zenon DEF ModelsInit
    <3> QED
      <4>1. files \in [EmbeddingFiles -> {"absent", "part", "whole"}]
        BY DEF ModelsInit
      <4>2. onnx = "absent" /\ loading = "none" /\ wish = "none"
        BY DEF ModelsInit
      <4> QED
        BY <3>1, <3>2, <4>1, <4>2 DEF ModelsTypeOK
  <2>2. InOrder
    BY DEF ModelsInit, InOrder, EmbeddingFiles, EmbeddingRequired
  <2>3. WishIsKnown
    BY DEF ModelsInit, WishIsKnown, ShowReady, Shown
  <2> QED
    BY <2>1, <2>2, <2>3 DEF ModelsInv
<1>2. ModelsInv /\ [ModelsNext]_modelVars => ModelsInv'
  BY ModelsTypeStep, InOrderStep, WishStep DEF ModelsInv
<1>3. ModelsInv => ModelsAreWhole
  BY DEF ModelsInv, ModelsTypeOK, InOrder, WishIsKnown, ModelsAreWhole, isEmbeddingModelReady,
         isRerankerModelOnDisk, EmbeddingFiles, EmbeddingRequired
<1> QED
  BY <1>1, <1>2, <1>3, PTL DEF ModelsSpec

-----------------------------------------------------------------------------
(* The editor of workflows. *)

CallFields == {"do", "at", "workflow", "graph", "live", "served"}
IsCall(c) == c = [f \in CallFields |-> c[f]]

\* A call that stores or brings a graph does so for the workflow it is the graph of.
Fits(c) ==
  /\ IsCall(c)
  /\ c.at = "put" => c.workflow \in WorkflowIds /\ c.graph = c.workflow
  /\ c.at = "load" /\ c.served => c.workflow \in WorkflowIds /\ c.graph = c.workflow
  /\ c.at = "post" /\ c.served => c.workflow \in WorkflowIds

\* What is shown, stored and on its way.
GraphsAreTheirs ==
  /\ storedGraph = [w \in WorkflowIds |-> storedGraph[w]]
  /\ \A w \in WorkflowIds : storedGraph[w] \in {w, "none", "gone"}
  /\ ~isNewDraft => opened \in WorkflowIds /\ shown = opened
  /\ \A c \in pending : Fits(c) /\ (c.graph = "draft" => shown = "draft")

EditorInv == crossed \in BOOLEAN /\ (~crossed => GraphsAreTheirs)

\* What a call becomes when the canvas takes another graph, or the draft an id.
LEMMA RenamedCalls ==
  ASSUME NEW open, \A c \in open : Fits(c), NEW whose, whose # "draft", NEW c \in Renamed(open, whose)
  PROVE  Fits(c) /\ c.graph # "draft"
<1>1. PICK b \in open : c = IF b.graph = "draft" THEN [b EXCEPT !.graph = whose] ELSE b
  BY DEF Renamed
<1>2. CASE b.graph = "draft"
  <2>1. Fits(b) /\ b.at # "put" /\ ~(b.at = "load" /\ b.served)
    BY <1>2, IdsAssumption DEF Fits
  <2>2. c = [b EXCEPT !.graph = whose]
    BY <1>1, <1>2
  <2>3. /\ IsCall(c) /\ c.graph = whose /\ c.at = b.at /\ c.served = b.served
        /\ c.workflow = b.workflow
    BY <2>1, <2>2 DEF Fits, IsCall, CallFields
  <2> QED
    BY <2>1, <2>3 DEF Fits
<1>3. CASE b.graph # "draft"
  BY <1>1, <1>3
<1> QED
  BY <1>2, <1>3

\* ... and when the tab names another workflow.
LEMMA FollowingCalls ==
  ASSUME NEW open, \A c \in open : Fits(c), NEW w, NEW c \in Follow(open, w)
  PROVE  Fits(c) /\ (c.graph = "draft" => \E b \in open : b.graph = "draft")
<1>1. CASE c \in open
  BY <1>1
<1>2. ASSUME NEW b \in open, c = [b EXCEPT !.live = FALSE]
      PROVE  Fits(c) /\ (c.graph = "draft" => \E a \in open : a.graph = "draft")
  <2>1. /\ IsCall(c) /\ c.graph = b.graph /\ c.at = b.at /\ c.served = b.served
        /\ c.workflow = b.workflow
    BY <1>2 DEF Fits, IsCall, CallFields
  <2>2. Fits(b)
    OBVIOUS
  <2> QED
    BY <2>1, <2>2 DEF Fits
<1>3. CASE c = RequestWorkflow("effect", "list", w, "none")
  BY <1>3 DEF RequestWorkflow, Fits, IsCall, CallFields
<1>4. c \in open \/ c = RequestWorkflow("effect", "list", w, "none")
      \/ \E b \in open : c = [b EXCEPT !.live = FALSE]
  BY DEF Follow
<1> QED
  BY <1>1, <1>2, <1>3, <1>4

\* A new draft on the canvas.
LEMMA NewDraft ==
  ASSUME GraphsAreTheirs, NEW ended, startNewWorkflow(ended), UNCHANGED storedGraph
  PROVE  GraphsAreTheirs'
<1>1. \A c \in Renamed(pending \ ended, "old") : Fits(c) /\ c.graph # "draft"
  BY RenamedCalls DEF GraphsAreTheirs
<1>2. \A c \in pending' : Fits(c)
  BY <1>1, FollowingCalls DEF startNewWorkflow
<1>3. isNewDraft' /\ shown' = "draft"
  BY DEF startNewWorkflow
<1> QED
  BY <1>2, <1>3 DEF GraphsAreTheirs, Fits

\* One call of the panel follows another.
LEMMA ContinuedCall ==
  ASSUME GraphsAreTheirs, NEW c, NEW next, Fits(next), next.graph # "draft", Continue(c, next),
         UNCHANGED storedGraph
  PROVE  GraphsAreTheirs'
  BY DEF GraphsAreTheirs, Continue, Fits

\* The user starts a call.
LEMMA BegunCall ==
  ASSUME GraphsAreTheirs, NEW request, Fits(request), request.graph = "draft" => shown = "draft",
         BeginCall(request)
  PROVE  GraphsAreTheirs'
  BY DEF GraphsAreTheirs, BeginCall, Fits

\* The user's actions.
LEMMA UserEdits ==
  ASSUME GraphsAreTheirs, Pick \/ saveWorkflow \/ confirmWorkflowDelete \/ discardDraft
  PROVE  GraphsAreTheirs'
<1>0. ASSUME NEW do, NEW at \in {"list", "list again", "load", "delete", "post"}, NEW w, NEW whose,
             whose = "draft" => shown = "draft", BeginCall(RequestWorkflow(do, at, w, whose))
      PROVE  GraphsAreTheirs'
  <2> DEFINE request == RequestWorkflow(do, at, w, whose)
  <2>1. Fits(request) /\ request.graph = whose
    BY DEF RequestWorkflow, Fits, IsCall, CallFields
  <2>2. BeginCall(request)
    BY <1>0
  <2> HIDE DEF request
  <2> QED
    BY <1>0, <2>1, <2>2, BegunCall
<1>1. CASE Pick
  BY <1>0, <1>1 DEF Pick
<1>2. CASE saveWorkflow
  <2>1. PICK do \in {"save", "new"} :
          BeginCall(IF editingWorkflowId = "none" THEN RequestWorkflow(do, "post", "none", shown)
                    ELSE RequestWorkflow(do, "put", editingWorkflowId, shown))
    BY <1>2 DEF saveWorkflow
  <2>2. CASE editingWorkflowId = "none"
    <3>1. PICK whose : whose = shown
      OBVIOUS
    <3>2. BeginCall(RequestWorkflow(do, "post", "none", whose))
      BY <2>1, <2>2, <3>1
    <3> QED
      BY <1>0, <3>1, <3>2
  <2>3. CASE editingWorkflowId # "none"
    <3>1. PICK w \in WorkflowIds : editingWorkflowId = w /\ shown = w
      BY <2>3, IdsAssumption DEF editingWorkflowId, GraphsAreTheirs
    <3> DEFINE request == RequestWorkflow(do, "put", w, w)
    <3>2. Fits(request) /\ request.graph = w
      BY DEF RequestWorkflow, Fits, IsCall, CallFields
    <3>3. BeginCall(request)
      BY <2>1, <2>3, <3>1
    <3> HIDE DEF request
    <3> QED
      BY <3>1, <3>2, <3>3, BegunCall
  <2> QED
    BY <2>2, <2>3
<1>3. CASE confirmWorkflowDelete
  BY <1>0, <1>3 DEF confirmWorkflowDelete
<1>4. CASE discardDraft
  BY <1>0, <1>4, NewDraft DEF discardDraft
<1> QED
  BY <1>1, <1>2, <1>3, <1>4

\* The server's answers.
LEMMA ServerAnswers ==
  ASSUME GraphsAreTheirs, ServeCall
  PROVE  GraphsAreTheirs'
<1>1. PICK c \in pending :
        /\ ~c.served
        /\ \/ c.workflow \in Stored /\ (ServeGet(c) \/ ServePut(c) \/ ServeDelete(c))
           \/ ServePost(c)
  BY DEF ServeCall
<1>2. Fits(c) /\ (c.graph = "draft" => shown = "draft")
  BY DEF GraphsAreTheirs
<1>3. ASSUME NEW whose
      PROVE  /\ IsCall(AnswerOf(c, whose)) /\ AnswerOf(c, whose).graph = whose
             /\ AnswerOf(c, whose).at = c.at /\ AnswerOf(c, whose).workflow = c.workflow
  BY <1>2 DEF AnswerOf, Fits, IsCall, CallFields
<1>4. ASSUME NEW whose, AnswerCall(c, whose), Fits(AnswerOf(c, whose)),
             whose = "draft" => shown = "draft",
             storedGraph' = [w \in WorkflowIds |-> storedGraph'[w]],
             \A w \in WorkflowIds : storedGraph'[w] \in {w, "none", "gone"}
      PROVE  GraphsAreTheirs'
  BY <1>3, <1>4 DEF AnswerCall, GraphsAreTheirs, Fits
<1>5. CASE c.workflow \in Stored /\ ServeGet(c)
  <2>1. storedGraph[c.workflow] = c.workflow /\ c.workflow \in WorkflowIds
    BY <1>5 DEF Stored, GraphsAreTheirs
  <2>2. Fits(AnswerOf(c, c.workflow)) /\ c.workflow # "draft"
    BY <1>3, <1>5, <2>1, IdsAssumption DEF Fits, ServeGet
  <2> QED
    BY <1>4, <1>5, <2>1, <2>2 DEF ServeGet, GraphsAreTheirs
<1>6. CASE c.workflow \in Stored /\ ServePut(c)
  <2>1. c.graph = c.workflow /\ c.workflow \in WorkflowIds
    BY <1>2, <1>6 DEF ServePut, Fits
  <2>2. Fits(AnswerOf(c, c.graph)) /\ c.graph # "draft"
    BY <1>3, <1>6, <2>1, IdsAssumption DEF Fits, ServePut
  <2>3. /\ storedGraph' = [w \in WorkflowIds |-> storedGraph'[w]]
        /\ \A w \in WorkflowIds : storedGraph'[w] \in {w, "none", "gone"}
    BY <1>6, <2>1 DEF ServePut, GraphsAreTheirs
  <2> QED
    BY <1>4, <1>6, <2>2, <2>3 DEF ServePut
<1>7. CASE c.workflow \in Stored /\ ServeDelete(c)
  <2>1. Fits(AnswerOf(c, c.graph))
    BY <1>2, <1>3, <1>7 DEF Fits, ServeDelete
  <2>2. /\ storedGraph' = [w \in WorkflowIds |-> storedGraph'[w]]
        /\ \A w \in WorkflowIds : storedGraph'[w] \in {w, "none", "gone"}
    BY <1>7 DEF ServeDelete, GraphsAreTheirs
  <2> QED
    BY <1>2, <1>4, <1>7, <2>1, <2>2 DEF ServeDelete
<1>8. CASE ServePost(c)
  <2>1. PICK w \in WorkflowIds :
          /\ storedGraph' = [storedGraph EXCEPT ![w] = w]
          /\ shown' = IF c.graph = "draft" THEN w ELSE shown
          /\ pending' = LET rest == (pending \ {c}) \cup {[AnswerOf(c, c.graph) EXCEPT !.workflow = w]}
                        IN IF c.graph = "draft" THEN Renamed(rest, w) ELSE rest
    BY <1>8 DEF ServePost
  <2> DEFINE answer == [AnswerOf(c, c.graph) EXCEPT !.workflow = w]
             rest == (pending \ {c}) \cup {answer}
  <2>2. c.at = "post" /\ UNCHANGED <<opened, isNewDraft>>
    BY <1>8 DEF ServePost
  <2>3. Fits(answer) /\ answer.graph = c.graph
    BY <1>3, <2>2 DEF Fits, IsCall, CallFields
  <2>4. \A b \in rest : Fits(b) /\ (b.graph = "draft" => shown = "draft")
    BY <1>2, <2>3 DEF GraphsAreTheirs
  <2>5. w # "draft" /\ \A v \in WorkflowIds : v # "draft"
    BY IdsAssumption
  <2> HIDE DEF answer, rest
  <2>6. /\ storedGraph' = [v \in WorkflowIds |-> storedGraph'[v]]
        /\ \A v \in WorkflowIds : storedGraph'[v] \in {v, "none", "gone"}
    BY <2>1 DEF GraphsAreTheirs
  <2>7. CASE c.graph = "draft"
    <3>1. pending' = Renamed(rest, w)
      BY <2>1, <2>7 DEF rest, answer
    <3>2. isNewDraft
      BY <1>2, <2>5, <2>7 DEF GraphsAreTheirs
    <3>3. \A b \in pending' : Fits(b) /\ b.graph # "draft"
      BY <2>4, <2>5, <3>1, RenamedCalls
    <3> QED
      BY <2>2, <2>6, <3>2, <3>3 DEF GraphsAreTheirs, Fits
  <2>8. CASE c.graph # "draft"
    <3>1. pending' = rest /\ UNCHANGED shown
      BY <2>1, <2>8 DEF rest, answer
    <3> QED
      BY <2>2, <2>4, <2>6, <3>1 DEF GraphsAreTheirs, Fits
  <2> QED
    BY <2>7, <2>8
<1> QED
  BY <1>1, <1>5, <1>6, <1>7, <1>8

\* The panel's reactions, but for a save that is answered to another graph.
LEMMA PanelReacts ==
  ASSUME GraphsAreTheirs, Receive, ~crossed'
  PROVE  GraphsAreTheirs'
<1>1. PICK c \in pending :
        /\ c.served \/ c.at \in {"list", "list again"}
        /\ Loaded(c) \/ Saved(c) \/ GoneThere(c) \/ Listed(c) \/ ListedAgain(c)
        /\ UNCHANGED storedGraph
  BY DEF Receive
<1>2. Fits(c)
  BY DEF GraphsAreTheirs
<1>a. ASSUME NEW act, NEW at \in {"list again", "list", "load"}, NEW w,
             Continue(c, RequestWorkflow(act, at, w, "none"))
      PROVE  GraphsAreTheirs'
  <2> DEFINE next == RequestWorkflow(act, at, w, "none")
  <2>1. Fits(next) /\ next.graph # "draft"
    BY DEF RequestWorkflow, Fits, IsCall, CallFields
  <2>2. Continue(c, next)
    BY <1>a
  <2> HIDE DEF next
  <2> QED
    BY <1>1, <2>1, <2>2, ContinuedCall
<1>3. CASE Loaded(c)
  <2>1. c.workflow \in WorkflowIds /\ c.graph = c.workflow
    BY <1>1, <1>2, <1>3 DEF Loaded, Fits
  <2>2. opened' = c.workflow /\ shown' = c.graph
    BY <1>3 DEF Loaded, OpenWorkflow
  <2>3. \A b \in Renamed(pending \ {c}, "old") : Fits(b) /\ b.graph # "draft"
    BY RenamedCalls DEF GraphsAreTheirs
  <2>4. \A b \in pending' : Fits(b) /\ b.graph # "draft"
    BY <1>3, <2>3, FollowingCalls DEF Loaded, OpenWorkflow
  <2> QED
    BY <1>1, <2>1, <2>2, <2>4 DEF GraphsAreTheirs, Fits
<1>4. CASE Saved(c)
  <2>1. c.workflow \in WorkflowIds
    BY <1>1, <1>2, <1>4 DEF Saved, Fits
  <2>2. shown = c.workflow /\ shown' = shown /\ opened' = c.workflow
    BY <1>4 DEF Saved
  <2>3. \A b \in pending : b.graph # "draft"
    BY <2>1, <2>2, IdsAssumption DEF GraphsAreTheirs
  <2> DEFINE tab == tabId'
  <2>4. \A b \in Follow(pending \ {c}, tab) : Fits(b) /\ b.graph # "draft"
    <3> HIDE DEF tab
    <3> QED
      BY <2>3, FollowingCalls DEF GraphsAreTheirs
  <2>5. \A b \in pending' : Fits(b) /\ b.graph # "draft"
    <3>1. PICK w : w = c.workflow
      OBVIOUS
    <3>2. pending' = Follow(pending \ {c}, tab) \cup {RequestWorkflow(c.do, "list", w, "none")}
      BY <1>4, <3>1 DEF Saved
    <3>3. Fits(RequestWorkflow(c.do, "list", w, "none"))
          /\ RequestWorkflow(c.do, "list", w, "none").graph # "draft"
      BY DEF RequestWorkflow, Fits, IsCall, CallFields
    <3> HIDE DEF tab
    <3> QED
      BY <2>4, <3>2, <3>3
  <2> QED
    BY <1>1, <2>1, <2>2, <2>5 DEF GraphsAreTheirs, Fits
<1>5. CASE GoneThere(c)
  BY <1>5, <1>a DEF GoneThere
<1>6. CASE Listed(c)
  <2>1. \/ startNewWorkflow({c})
        \/ \E do, w : Continue(c, RequestWorkflow(do, "load", w, "none"))
        \/ Continue(c, RequestWorkflow("new", "list again", c.workflow, "none"))
        \/ pending' = pending \ {c} /\ UNCHANGED <<tabId, opened, isNewDraft, shown>>
    BY <1>6 DEF Listed
  <2>2. CASE pending' = pending \ {c} /\ UNCHANGED <<tabId, opened, isNewDraft, shown>>
    BY <1>1, <2>2 DEF GraphsAreTheirs, Fits
  <2> QED
    BY <1>1, <1>a, <2>1, <2>2, NewDraft
<1>7. CASE ListedAgain(c)
  BY <1>1, <1>7, NewDraft DEF ListedAgain
<1> QED
  BY <1>1, <1>3, <1>4, <1>5, <1>6, <1>7

\* A workflow is only ever overwritten with its own document, unless a save was answered
\* after the user had another document on the canvas.
THEOREM StoredStaysItsOwn == EditorSpec => []StoredIsItsOwn
<1>1. EditorInit => EditorInv
  <2> SUFFICES ASSUME EditorInit
               PROVE  EditorInv
    OBVIOUS
  <2>1. /\ storedGraph = [w \in WorkflowIds |-> storedGraph[w]]
        /\ \A w \in WorkflowIds : storedGraph[w] \in {w, "none", "gone"}
    BY DEF EditorInit
  <2>2. \A c \in pending : Fits(c) /\ c.graph # "draft"
    <3>1. PICK w : w = tabId
      OBVIOUS
    <3>2. pending = {RequestWorkflow("effect", "list", w, "none")}
      BY <3>1 DEF EditorInit
    <3> QED
      BY <3>2 DEF RequestWorkflow, Fits, IsCall, CallFields
  <2> QED
    BY <2>1, <2>2 DEF EditorInit, EditorInv, GraphsAreTheirs
<1>2. EditorInv /\ [EditorNext]_editorVars => EditorInv'
  <2> SUFFICES ASSUME EditorInv, [EditorNext]_editorVars
               PROVE  EditorInv'
    OBVIOUS
  <2>1. crossed' \in BOOLEAN /\ (~crossed' => ~crossed)
    <3>1. crossed' = crossed \/ \E x : crossed' = (crossed \/ x)
      BY DEF EditorNext, editorVars, Pick, saveWorkflow, confirmWorkflowDelete, discardDraft,
             BeginCall, ServeCall, ServeGet, ServePut, ServeDelete, ServePost, AnswerCall, Receive,
             Loaded, Saved, GoneThere, Listed, ListedAgain, Fail
    <3> QED
      BY <3>1 DEF EditorInv
  <2> SUFFICES ASSUME ~crossed', GraphsAreTheirs
               PROVE  GraphsAreTheirs'
    BY <2>1 DEF EditorInv
  <2>2. CASE Fail
    <3>1. \E c \in pending : pending' = pending \ {c}
      BY <2>2, Zenon DEF Fail
    <3>2. UNCHANGED <<storedGraph, opened, isNewDraft, shown>>
      BY <2>2, Zenon DEF Fail
    <3> QED
      BY <3>1, <3>2 DEF GraphsAreTheirs, Fits
  <2>3. CASE UNCHANGED editorVars
    BY <2>3 DEF editorVars, GraphsAreTheirs, Fits
  <2>4. CASE Pick \/ saveWorkflow \/ confirmWorkflowDelete \/ discardDraft
    BY <2>4, UserEdits
  <2>5. CASE ServeCall
    BY <2>5, ServerAnswers
  <2>6. CASE Receive
    BY <2>6, PanelReacts
  <2> QED
    BY <2>2, <2>3, <2>4, <2>5, <2>6, Zenon DEF EditorNext
<1>3. EditorInv => StoredIsItsOwn
  BY DEF EditorInv, GraphsAreTheirs, StoredIsItsOwn, Stored
<1> QED
  BY <1>1, <1>2, <1>3, PTL DEF EditorSpec

-----------------------------------------------------------------------------
(* The hooks. *)

RequestFields == {"does", "hook", "to", "step", "read", "off", "waiting", "said"}
IsRequest(r) == r = [f \in RequestFields |-> r[f]]

HooksTypeOK ==
  /\ asking = [s \in HookSlots |-> asking[s]] /\ \A s \in HookSlots : IsRequest(asking[s])
  /\ hookFiles = [f \in {"hooks", "settings"} |-> hookFiles[f]]
  /\ times \in [OnceOnly -> Nat]
  /\ mixed \in BOOLEAN /\ together \in BOOLEAN /\ overtaken \in BOOLEAN

\* A request at one of these steps ends with a reload of the bus.
Reloads(r) ==
  \/ r.step \in {"open", "write", "read off", "open off", "write off", "load off", "load", "apply"}
  \/ r.step = "read" /\ r.hook = {}

BusFollowsFiles ==
  ~overtaken /\ (\A s \in HookSlots : ~Reloads(asking[s])) =>
    handlers = loadAllHooks(hookFiles["hooks"].keys, hookFiles["settings"].keys)

\* As long as no two changes met, one at most writes the file, and it read what is wanted.
FileFollowsWishes ==
  ~mixed =>
    \/ /\ \A s \in HookSlots : asking[s].step # "write"
       /\ hookFiles["hooks"] = Text(wanted)
    \/ \E s \in HookSlots :
         /\ asking[s].step = "write" /\ asking[s].read = wanted
         /\ \A t \in HookSlots : asking[t].step = "write" => t = s
         /\ hookFiles["hooks"] = Torn

AskedSteps == {"prompt asked", "tool asked", "after asked"}

\* Who was asked once is waited for, or will not be asked again.
AskedOnce ==
  /\ \A s \in HookSlots : asking[s].waiting # {} => asking[s].step \in AskedSteps
  /\ ~together => \A h \in OnceOnly :
       \/ times[h] = 0
       \/ times[h] = 1 /\ (h \in onceConsumed \/ \E s \in HookSlots : h \in asking[s].waiting)

NoDeniedCall == \A s \in HookSlots : asking[s].step = "call" => "deny" \notin asking[s].said

HooksInv == HooksTypeOK /\ BusFollowsFiles /\ FileFollowsWishes /\ AskedOnce /\ NoDeniedCall

\* The requests but one stay as they are.
OnlyChanged(s) ==
  /\ asking' = [t \in HookSlots |-> asking'[t]] /\ IsRequest(asking'[s])
  /\ \A t \in HookSlots : t # s => asking'[t] = asking[t]

\* The free slot.
LEMMA FreeSlot ==
  /\ IsRequest(NoRequest) /\ NoRequest.step = "free" /\ NoRequest.hook = {}
  /\ NoRequest.waiting = {} /\ NoRequest.said = {}
  BY DEF IsRequest, RequestFields, NoRequest

\* A request that begins.
LEMMA AskedServer ==
  ASSUME HooksTypeOK, NEW s \in HookSlots, NEW r, NEW next, IsRequest(r), AskServer(s, r, next)
  PROVE  /\ OnlyChanged(s) /\ asking[s].step = "free"
         /\ asking'[s].step = next /\ asking'[s].waiting = r.waiting /\ asking'[s].hook = r.hook
         /\ UNCHANGED <<hookFiles, handlers, onceConsumed, overtaken, times, together, wanted, mixed>>
<1>1. asking' = [asking EXCEPT ![s] = [r EXCEPT !.step = next]] /\ asking[s].step = "free"
  BY DEF AskServer, To, AtStep
<1>2. UNCHANGED <<hookFiles, handlers, onceConsumed, overtaken, times, together, wanted, mixed>>
  BY DEF AskServer, ghosts
<1> QED
  BY <1>1, <1>2 DEF HooksTypeOK, OnlyChanged, IsRequest, RequestFields

\* What most steps of a request leave alone.
Plain(s) ==
  /\ OnlyChanged(s)
  /\ UNCHANGED <<handlers, onceConsumed, overtaken, times, together, wanted>>
  /\ asking[s].step \notin {"write"} \cup AskedSteps /\ asking'[s].step \notin {"write", "call"}
  /\ asking[s].waiting = {} => asking'[s].waiting = {}
  /\ hookFiles' = [f \in {"hooks", "settings"} |-> hookFiles'[f]]
  /\ hookFiles'["hooks"] = hookFiles["hooks"]
  /\ hookFiles' = hookFiles \/ Reloads(asking'[s])
  /\ Reloads(asking[s]) => Reloads(asking'[s])
  /\ mixed' \in BOOLEAN /\ (mixed => mixed')

\* ... and these are the ones.
LEMMA PlainSteps ==
  ASSUME HooksTypeOK, NEW s \in HookSlots,
         \/ saveHook(s) \/ confirmDeleteHook(s) \/ toggleHook(s) \/ loadHooks(s)
         \/ readUserHooks(s) \/ getDisabledHooks(s) \/ setDisabledHooks(s)
         \/ ReadSettings(s) \/ ReadHooks(s) \/ ShowHooks(s) \/ ToolEnds(s)
  PROVE  Plain(s)
<1> USE DEF ghosts
<1>0. HooksTypeOK /\ IsRequest(asking[s])
  BY DEF HooksTypeOK
<1>1. ASSUME NEW r, NEW next \in {"read", "look", "read off", "load off"}, IsRequest(r),
             r.waiting = {}, AskServer(s, r, next)
      PROVE  Plain(s)
  <2>1. /\ OnlyChanged(s) /\ asking[s].step = "free"
        /\ asking'[s].step = next /\ asking'[s].waiting = r.waiting
        /\ UNCHANGED <<hookFiles, handlers, onceConsumed, overtaken, times, together, wanted, mixed>>
    BY <1>0, <1>1, AskedServer
  <2> QED
    BY <1>0, <1>1, <2>1 DEF Plain, Reloads, AskedSteps, HooksTypeOK
<1>3. CASE saveHook(s)
  <2>1. \E r : IsRequest(r) /\ r.waiting = {} /\ (AskServer(s, r, "read") \/ AskServer(s, r, "look"))
    BY <1>3 DEF saveHook, IsRequest, RequestFields, NoRequest
  <2> QED
    BY <1>1, <2>1
<1>4. CASE confirmDeleteHook(s)
  <2>1. \E r : IsRequest(r) /\ r.waiting = {} /\ AskServer(s, r, "read")
    BY <1>4 DEF confirmDeleteHook, IsRequest, RequestFields, NoRequest
  <2> QED
    BY <1>1, <2>1
<1>5. CASE toggleHook(s)
  <2>1. \E r : IsRequest(r) /\ r.waiting = {} /\ AskServer(s, r, "read off")
    BY <1>5 DEF toggleHook, IsRequest, RequestFields, NoRequest
  <2> QED
    BY <1>1, <2>1
<1>6. CASE loadHooks(s)
  <2>1. \E r : IsRequest(r) /\ r.waiting = {} /\ AskServer(s, r, "load off")
    BY <1>6 DEF loadHooks, IsRequest, RequestFields, NoRequest
  <2> QED
    BY <1>1, <2>1
<1>7. ASSUME NEW r, NEW next, IsRequest(r), asking' = [asking EXCEPT ![s] = [r EXCEPT !.step = next]]
      PROVE  /\ OnlyChanged(s) /\ asking'[s].step = next /\ asking'[s].waiting = r.waiting
             /\ asking'[s].hook = r.hook /\ asking'[s].does = r.does
  BY <1>0, <1>7 DEF HooksTypeOK, OnlyChanged, IsRequest, RequestFields
<1>8. asking' = [asking EXCEPT ![s] = NoRequest] =>
        OnlyChanged(s) /\ asking'[s].step = "free" /\ asking'[s].waiting = {}
  BY <1>0, FreeSlot DEF HooksTypeOK, OnlyChanged
<1>9. \A f, x : /\ IsRequest([asking[s] EXCEPT !.read = x])
                /\ IsRequest([asking[s] EXCEPT !.off = x])
                /\ IsRequest([asking[s] EXCEPT !.hook = x])
                /\ [asking[s] EXCEPT !.read = x].waiting = asking[s].waiting
                /\ [asking[s] EXCEPT !.off = x].waiting = asking[s].waiting
                /\ [asking[s] EXCEPT !.hook = x].waiting = asking[s].waiting
                /\ [asking[s] EXCEPT !.hook = x].hook = x
                /\ [asking[s] EXCEPT !.read = x].hook = asking[s].hook
  BY <1>0 DEF IsRequest, RequestFields
<1>10. CASE readUserHooks(s)
  <2>1. UNCHANGED <<hookFiles, handlers, onceConsumed, overtaken, times, together, wanted, mixed>>
    BY <1>10 DEF readUserHooks
  <2>2. asking[s].step \in {"look", "read"}
    BY <1>10 DEF readUserHooks
  <2>3. \/ asking[s].step = "look" /\ asking' = [asking EXCEPT ![s] = NoRequest]
        \/ asking[s].step = "read" /\ asking[s].hook # {} /\ asking' = [asking EXCEPT ![s] = NoRequest]
        \/ \E r, next : /\ IsRequest(r) /\ r.waiting = asking[s].waiting
                        /\ \/ asking[s].step = "look" /\ next = "read"
                           \/ asking[s].step = "read" /\ next = "open"
                           \/ asking[s].step = "read" /\ r.hook = {} /\ next = "read"
                        /\ asking' = [asking EXCEPT ![s] = [r EXCEPT !.step = next]]
    <3>1. CASE asking[s].step = "look" /\ To(s, [asking[s] EXCEPT !.read = hookFiles["hooks"].keys], "read")
      BY <1>9, <3>1 DEF To
    <3>2. CASE asking[s].step = "read" /\ To(s, [asking[s] EXCEPT !.read = hookFiles["hooks"].keys], "open")
      BY <1>9, <3>2 DEF To
    <3>3. CASE asking[s].step = "read" /\ To(s, [asking[s] EXCEPT !.hook = {}], "read")
      BY <1>9, <3>3 DEF To
    <3> QED
      BY <1>10, <3>1, <3>2, <3>3 DEF readUserHooks
  <2>4. CASE \/ asking[s].step = "look" /\ asking' = [asking EXCEPT ![s] = NoRequest]
             \/ asking[s].step = "read" /\ asking[s].hook # {} /\ asking' = [asking EXCEPT ![s] = NoRequest]
    BY <1>0, <1>8, <2>1, <2>2, <2>4 DEF Plain, Reloads, AskedSteps, HooksTypeOK
  <2>5. ASSUME NEW r, NEW next, IsRequest(r), r.waiting = asking[s].waiting,
               \/ asking[s].step = "look" /\ next = "read"
               \/ asking[s].step = "read" /\ next = "open"
               \/ asking[s].step = "read" /\ r.hook = {} /\ next = "read",
               asking' = [asking EXCEPT ![s] = [r EXCEPT !.step = next]]
        PROVE  Plain(s)
    <3>1. /\ OnlyChanged(s) /\ asking'[s].step = next /\ asking'[s].waiting = asking[s].waiting
          /\ asking'[s].hook = r.hook
      BY <1>7, <2>5
    <3> QED
      BY <1>0, <2>1, <2>2, <2>5, <3>1 DEF Plain, Reloads, AskedSteps, HooksTypeOK
  <2> QED
    BY <2>3, <2>4, <2>5
<1>11. CASE getDisabledHooks(s)
  <2>1. UNCHANGED <<hookFiles, handlers, onceConsumed, overtaken, times, together, wanted, mixed>>
        /\ asking[s].step = "read off"
    BY <1>11 DEF getDisabledHooks
  <2>2. \E r : /\ IsRequest(r) /\ r.waiting = asking[s].waiting
               /\ \/ asking' = [asking EXCEPT ![s] = [r EXCEPT !.step = "load off"]]
                  \/ asking' = [asking EXCEPT ![s] = [r EXCEPT !.step = "open off"]]
    BY <1>0, <1>9, <1>11 DEF getDisabledHooks, To
  <2>3. /\ OnlyChanged(s) /\ (asking'[s].step = "load off" \/ asking'[s].step = "open off")
        /\ asking'[s].waiting = asking[s].waiting
    BY <1>7, <2>2
  <2> QED
    BY <1>0, <2>1, <2>3 DEF Plain, Reloads, AskedSteps, HooksTypeOK
<1>12. CASE setDisabledHooks(s)
  <2>1. UNCHANGED <<handlers, onceConsumed, overtaken, times, together, wanted>>
    BY <1>12 DEF setDisabledHooks
  <2>2. \/ /\ asking[s].step = "open off"
           /\ asking' = [asking EXCEPT ![s] = [asking[s] EXCEPT !.step = "write off"]]
        \/ /\ asking[s].step = "write off"
           /\ asking' = [asking EXCEPT ![s] = [asking[s] EXCEPT !.step = "load off"]]
    BY <1>12 DEF setDisabledHooks, Opened, GoesTo, To
  <2>3. \E text : hookFiles' = [hookFiles EXCEPT !["settings"] = text]
    BY <1>12 DEF setDisabledHooks, Opened, Written
  <2>4. \E x \in BOOLEAN : mixed' = (mixed \/ x)
    BY <1>12 DEF setDisabledHooks, Opened, Written
  <2>5. /\ OnlyChanged(s) /\ asking'[s].waiting = asking[s].waiting
        /\ asking'[s].step \in {"write off", "load off"} /\ asking[s].step \in {"open off", "write off"}
    BY <1>0, <2>2 DEF HooksTypeOK, OnlyChanged, IsRequest, RequestFields
  <2>6. hookFiles' = [f \in {"hooks", "settings"} |-> hookFiles'[f]]
        /\ hookFiles'["hooks"] = hookFiles["hooks"]
    BY <1>0, <2>3 DEF HooksTypeOK
  <2>7. mixed' \in BOOLEAN /\ (mixed => mixed')
    BY <1>0, <2>4 DEF HooksTypeOK
  <2> QED
    BY <2>1, <2>5, <2>6, <2>7 DEF Plain, Reloads, AskedSteps
<1>13. CASE ReadSettings(s)
  <2>1. UNCHANGED <<hookFiles, handlers, onceConsumed, overtaken, times, together, wanted, mixed>>
        /\ asking[s].step = "load off"
    BY <1>13 DEF ReadSettings, AtStep
  <2>2. \E r : /\ IsRequest(r) /\ r.waiting = asking[s].waiting
               /\ asking' = [asking EXCEPT ![s] = [r EXCEPT !.step = "load"]]
    BY <1>9, <1>13 DEF ReadSettings, To
  <2>3. /\ OnlyChanged(s) /\ (asking'[s].step = "load")
        /\ asking'[s].waiting = asking[s].waiting
    BY <1>7, <2>2
  <2> QED
    BY <1>0, <2>1, <2>3 DEF Plain, Reloads, AskedSteps, HooksTypeOK
<1>14. CASE ReadHooks(s)
  <2>1. UNCHANGED <<hookFiles, handlers, onceConsumed, overtaken, times, together, wanted, mixed>>
        /\ asking[s].step = "load"
    BY <1>14 DEF ReadHooks, AtStep
  <2>2. \E r : /\ IsRequest(r) /\ r.waiting = asking[s].waiting
               /\ asking' = [asking EXCEPT ![s] = [r EXCEPT !.step = "apply"]]
    BY <1>9, <1>14 DEF ReadHooks, To
  <2>3. /\ OnlyChanged(s) /\ (asking'[s].step = "apply")
        /\ asking'[s].waiting = asking[s].waiting
    BY <1>7, <2>2
  <2> QED
    BY <1>0, <2>1, <2>3 DEF Plain, Reloads, AskedSteps, HooksTypeOK
<1>15. CASE ShowHooks(s)
  <2>1. UNCHANGED <<hookFiles, handlers, onceConsumed, overtaken, times, together, wanted, mixed>>
        /\ asking[s].step = "answer" /\ asking' = [asking EXCEPT ![s] = NoRequest]
    BY <1>15 DEF ShowHooks, AtStep
  <2> QED
    BY <1>0, <1>8, <2>1 DEF Plain, Reloads, AskedSteps, HooksTypeOK
<1>16. CASE ToolEnds(s)
  <2>1. UNCHANGED <<hookFiles, handlers, onceConsumed, overtaken, times, together, wanted, mixed>>
        /\ asking[s].step = "call"
        /\ asking' = [asking EXCEPT ![s] = [[asking[s] EXCEPT !.said = {}] EXCEPT !.step = "after"]]
    BY <1>16 DEF ToolEnds, AtStep, To
  <2>2. IsRequest([asking[s] EXCEPT !.said = {}])
        /\ [asking[s] EXCEPT !.said = {}].waiting = asking[s].waiting
    BY <1>0 DEF IsRequest, RequestFields
  <2>3. OnlyChanged(s) /\ asking'[s].step = "after" /\ asking'[s].waiting = asking[s].waiting
    BY <1>0, <2>1, <2>2 DEF HooksTypeOK, OnlyChanged, IsRequest, RequestFields
  <2> QED
    BY <1>0, <2>1, <2>3 DEF Plain, Reloads, AskedSteps, HooksTypeOK
<1> QED
  BY <1>3, <1>4, <1>5, <1>6, <1>10, <1>11, <1>12, <1>13, <1>14, <1>15, <1>16

\* Such a step keeps the invariant.
LEMMA PlainKeeps ==
  ASSUME HooksInv, NEW s \in HookSlots, Plain(s)
  PROVE  HooksInv'
<1>0. HooksTypeOK /\ BusFollowsFiles /\ FileFollowsWishes /\ AskedOnce /\ NoDeniedCall /\ OnlyChanged(s)
  BY DEF HooksInv, Plain
<1>1. HooksTypeOK'
  <2>1. /\ asking' = [t \in HookSlots |-> asking'[t]] /\ \A t \in HookSlots : IsRequest(asking'[t])
        /\ \A t \in HookSlots : t # s => asking'[t] = asking[t]
    BY <1>0 DEF HooksTypeOK, OnlyChanged
  <2>2. (\A t \in HookSlots : IsRequest(asking[t]))'
    BY <2>1 DEF IsRequest
  <2> QED
    BY <1>0, <2>1, <2>2 DEF HooksTypeOK, Plain
<1>2. BusFollowsFiles'
  <2>1. \A t \in HookSlots : t # s => asking'[t] = asking[t]
    BY <1>0 DEF OnlyChanged
  <2>2. SUFFICES ASSUME ~overtaken', \A t \in HookSlots : ~Reloads(asking'[t])
                 PROVE  handlers' = loadAllHooks(hookFiles'["hooks"].keys, hookFiles'["settings"].keys)
    BY DEF BusFollowsFiles, Reloads, loadAllHooks
  <2>3. \A t \in HookSlots : ~Reloads(asking[t])
    BY <2>1, <2>2 DEF Plain
  <2>4. hookFiles' = hookFiles /\ overtaken' = overtaken /\ handlers' = handlers
    BY <2>2 DEF Plain
  <2> QED
    BY <1>0, <2>2, <2>3, <2>4 DEF BusFollowsFiles
<1>3. FileFollowsWishes'
  BY <1>0 DEF FileFollowsWishes, OnlyChanged, Plain, Text, Torn
<1>4. AskedOnce'
  <2>1. asking[s].waiting = {} /\ asking'[s].waiting = {}
    BY <1>0 DEF AskedOnce, Plain
  <2>2. \A t \in HookSlots : t # s => asking'[t] = asking[t]
    BY <1>0 DEF OnlyChanged
  <2>3. times' = times /\ together' = together /\ onceConsumed' = onceConsumed
    BY DEF Plain
  <2> QED
    BY <1>0, <2>1, <2>2, <2>3 DEF AskedOnce, AskedSteps
<1>5. NoDeniedCall'
  BY <1>0 DEF NoDeniedCall, OnlyChanged, Plain
<1> QED
  BY <1>1, <1>2, <1>3, <1>4, <1>5 DEF HooksInv

\* The two texts of a file can be told apart.
LEMMA TextsDiffer ==
  /\ \A keys : Text(keys).whole /\ Text(keys).keys = keys /\ Text(keys) # Torn
  /\ ~Torn.whole
  BY DEF Text, Torn

\* The two writes of hooks.json: who opens the file while another has it open, or after
\* another has changed it, is found out.
LEMMA WriteKeeps ==
  ASSUME HooksInv, NEW s \in HookSlots, writeUserHooks(s)
  PROVE  HooksInv'
<1>0. HooksTypeOK /\ BusFollowsFiles /\ FileFollowsWishes /\ AskedOnce /\ NoDeniedCall /\ IsRequest(asking[s])
  BY DEF HooksInv, HooksTypeOK
<1>1. UNCHANGED <<handlers, onceConsumed, overtaken, times, together>>
  BY DEF writeUserHooks
<1>2. PICK r, next : /\ IsRequest(r) /\ r.waiting = asking[s].waiting /\ r.read = asking[s].read
                     /\ asking' = [asking EXCEPT ![s] = [r EXCEPT !.step = next]]
                     /\ \/ asking[s].step = "open" /\ next = "write"
                        \/ asking[s].step = "write" /\ next = "read" /\ r.hook = {}
                        \/ asking[s].step = "write" /\ next \in {"read off", "load off"}
  <2>1. /\ IsRequest([asking[s] EXCEPT !.hook = {}]) /\ [asking[s] EXCEPT !.hook = {}].hook = {}
        /\ [asking[s] EXCEPT !.hook = {}].waiting = asking[s].waiting
        /\ [asking[s] EXCEPT !.hook = {}].read = asking[s].read
    BY <1>0 DEF IsRequest, RequestFields
  <2>2. CASE asking[s].step = "open" /\ To(s, asking[s], "write")
    BY <1>0, <2>2 DEF To
  <2>3. CASE asking[s].step = "write" /\ To(s, [asking[s] EXCEPT !.hook = {}], "read")
    BY <2>1, <2>3 DEF To
  <2>4. CASE asking[s].step = "write" /\ To(s, asking[s], "read off")
    BY <1>0, <2>4 DEF To
  <2>5. CASE asking[s].step = "write" /\ To(s, asking[s], "load off")
    BY <1>0, <2>5 DEF To
  <2> QED
    BY <2>2, <2>3, <2>4, <2>5 DEF writeUserHooks, Opened, GoesTo
<1>3. /\ OnlyChanged(s) /\ asking'[s].step = next /\ asking'[s].waiting = asking[s].waiting
      /\ asking'[s].read = asking[s].read /\ asking'[s].hook = r.hook
  BY <1>0, <1>2 DEF HooksTypeOK, OnlyChanged, IsRequest, RequestFields
<1>4. PICK text : hookFiles' = [hookFiles EXCEPT !["hooks"] = text]
  BY DEF writeUserHooks, Opened, Written
<1>5. /\ hookFiles' = [f \in {"hooks", "settings"} |-> hookFiles'[f]] /\ hookFiles'["hooks"] = text
  BY <1>0, <1>4 DEF HooksTypeOK
<1>6. \A t \in HookSlots : t # s => asking'[t] = asking[t]
  BY <1>3 DEF OnlyChanged
<1>7. mixed' \in BOOLEAN /\ (mixed => mixed')
  <2>1. PICK x \in BOOLEAN : mixed' = (mixed \/ x)
    BY DEF writeUserHooks, Opened, Written
  <2> QED
    BY <1>0, <2>1 DEF HooksTypeOK
<1>8. HooksTypeOK'
  <2>1. asking' = [t \in HookSlots |-> asking'[t]] /\ \A t \in HookSlots : IsRequest(asking'[t])
    BY <1>0, <1>3 DEF HooksTypeOK, OnlyChanged
  <2>2. (\A t \in HookSlots : IsRequest(asking[t]))'
    BY <2>1 DEF IsRequest
  <2> QED
    BY <1>0, <1>1, <1>5, <1>7, <2>1, <2>2 DEF HooksTypeOK
<1>9. BusFollowsFiles'
  <2>1. Reloads(asking'[s])
    BY <1>2, <1>3 DEF Reloads
  <2>2. ~(\A t \in HookSlots : ~Reloads(asking[t]))'
    BY <2>1 DEF Reloads
  <2> QED
    BY <2>2 DEF BusFollowsFiles
<1>10. FileFollowsWishes'
  <2>1. SUFFICES ASSUME ~mixed', ~mixed
                 PROVE  \/ /\ \A t \in HookSlots : asking'[t].step # "write"
                           /\ hookFiles'["hooks"] = Text(wanted')
                        \/ \E t \in HookSlots :
                             /\ asking'[t].step = "write" /\ asking'[t].read = wanted'
                             /\ \A u \in HookSlots : asking'[u].step = "write" => u = t
                             /\ hookFiles'["hooks"] = Torn
    BY <1>7 DEF FileFollowsWishes, Text, Torn
  <2>2. CASE asking[s].step = "open"
    <3>1. /\ hookFiles' = [hookFiles EXCEPT !["hooks"] = Torn] /\ wanted' = wanted
          /\ mixed' = (mixed \/ hookFiles["hooks"] # Text(asking[s].read)) /\ next = "write"
      BY <1>2, <2>2 DEF writeUserHooks, Opened
    <3>2. hookFiles["hooks"] = Text(asking[s].read) /\ hookFiles'["hooks"] = Torn
      BY <1>0, <2>1, <3>1 DEF HooksTypeOK
    <3>3. (\A t \in HookSlots : asking[t].step # "write") /\ hookFiles["hooks"] = Text(wanted)
      BY <1>0, <2>1, <3>2, TextsDiffer DEF FileFollowsWishes
    <3>4. asking[s].read = wanted
      BY <3>2, <3>3, TextsDiffer
    <3> QED
      BY <1>3, <1>6, <3>1, <3>2, <3>3, <3>4
  <2>3. CASE asking[s].step = "write"
    <3> DEFINE keys == IF asking[s].hook # {} THEN asking[s].read \ asking[s].hook
                       ELSE asking[s].read \cup asking[s].to
    <3>1. /\ Written("hooks", keys) /\ next # "write"
          /\ wanted' = IF asking[s].hook # {} THEN wanted \ asking[s].hook ELSE wanted \cup asking[s].to
      BY <1>2, <2>3 DEF writeUserHooks
    <3>2. ~hookFiles["hooks"].whole
      BY <2>1, <3>1 DEF Written
    <3>3. hookFiles' = [hookFiles EXCEPT !["hooks"] = Text(keys)]
      BY <3>1, <3>2 DEF Written
    <3>4. hookFiles'["hooks"] = Text(keys)
      BY <1>0, <3>3 DEF HooksTypeOK
    <3>5. asking[s].read = wanted /\ \A t \in HookSlots : asking[t].step = "write" => t = s
      BY <1>0, <2>1, <2>3 DEF FileFollowsWishes
    <3>6. wanted' = keys
      BY <3>1, <3>5
    <3> QED
      BY <1>3, <1>6, <3>1, <3>4, <3>5, <3>6
  <2> QED
    BY <1>2, <2>2, <2>3
<1>11. AskedOnce'
  <2>1. asking[s].waiting = {} /\ asking'[s].waiting = {}
    BY <1>0, <1>2, <1>3 DEF AskedOnce, AskedSteps
  <2> QED
    BY <1>0, <1>1, <1>6, <2>1 DEF AskedOnce, AskedSteps
<1>12. NoDeniedCall'
  BY <1>0, <1>2, <1>3, <1>6 DEF NoDeniedCall
<1> QED
  BY <1>8, <1>9, <1>10, <1>11, <1>12 DEF HooksInv

\* A reload puts into the bus what it read.
LEMMA ReloadKeeps ==
  ASSUME HooksInv, NEW s \in HookSlots, setHandlers(s)
  PROVE  HooksInv'
<1>0. HooksTypeOK /\ BusFollowsFiles /\ FileFollowsWishes /\ AskedOnce /\ NoDeniedCall /\ IsRequest(asking[s])
  BY DEF HooksInv, HooksTypeOK
<1>1. /\ UNCHANGED <<hookFiles, onceConsumed, wanted, mixed, times, together>> /\ asking[s].step = "apply"
      /\ handlers' = loadAllHooks(asking[s].read, asking[s].off)
      /\ overtaken' <=> handlers' # loadAllHooks(hookFiles["hooks"].keys, hookFiles["settings"].keys)
      /\ overtaken' \in BOOLEAN
  BY DEF setHandlers, AtStep, ghosts
<1>2. PICK r, next : /\ IsRequest(r) /\ (r.waiting = {} \/ r.waiting = asking[s].waiting)
                     /\ next \in {"prompt", "answer", "load off"}
                     /\ asking' = [asking EXCEPT ![s] = [r EXCEPT !.step = next]]
  <2>1. \A d : IsRequest([NoRequest EXCEPT !.does = d]) /\ [NoRequest EXCEPT !.does = d].waiting = {}
    BY DEF IsRequest, RequestFields, NoRequest
  <2>2. CASE To(s, [NoRequest EXCEPT !.does = "run"], "prompt")
    BY <2>1, <2>2 DEF To
  <2>3. CASE GoesTo(s, "answer")
    BY <1>0, <2>3 DEF To, GoesTo
  <2>4. CASE To(s, [NoRequest EXCEPT !.does = "list"], "load off")
    BY <2>1, <2>4 DEF To
  <2> QED
    BY <2>2, <2>3, <2>4 DEF setHandlers
<1>3. /\ OnlyChanged(s) /\ asking'[s].step = next /\ asking'[s].waiting = r.waiting
  BY <1>0, <1>2 DEF HooksTypeOK, OnlyChanged, IsRequest, RequestFields
<1>4. \A t \in HookSlots : t # s => asking'[t] = asking[t]
  BY <1>3 DEF OnlyChanged
<1>5. HooksTypeOK'
  <2>1. asking' = [t \in HookSlots |-> asking'[t]] /\ \A t \in HookSlots : IsRequest(asking'[t])
    BY <1>0, <1>3 DEF HooksTypeOK, OnlyChanged
  <2>2. (\A t \in HookSlots : IsRequest(asking[t]))'
    BY <2>1 DEF IsRequest
  <2> QED
    BY <1>0, <1>1, <2>1, <2>2 DEF HooksTypeOK
<1>6. BusFollowsFiles'
  BY <1>1 DEF BusFollowsFiles
<1>7. FileFollowsWishes'
  <2>1. asking[s].step # "write" /\ asking'[s].step # "write"
    BY <1>1, <1>2, <1>3
  <2> QED
    BY <1>0, <1>1, <1>4, <2>1 DEF FileFollowsWishes, Text, Torn
<1>8. AskedOnce'
  <2>1. asking[s].waiting = {} /\ asking'[s].waiting = {}
    BY <1>0, <1>1, <1>2, <1>3 DEF AskedOnce, AskedSteps
  <2> QED
    BY <1>0, <1>1, <1>4, <2>1 DEF AskedOnce, AskedSteps
<1>9. NoDeniedCall'
  BY <1>0, <1>2, <1>3, <1>4 DEF NoDeniedCall
<1> QED
  BY <1>5, <1>6, <1>7, <1>8, <1>9 DEF HooksInv

\* Where a request waits for the hooks of its event.
LEMMA AskedStep == \A event \in {"prompt", "tool", "after"} : Asked[event] \in AskedSteps
<1>1. Asked["prompt"] = "prompt asked" /\ Asked["tool"] = "tool asked" /\ Asked["after"] = "after asked"
  BY DEF Asked
<1> QED
  BY <1>1 DEF AskedSteps

\* The bus asks: a hook that runs once was never asked, unless another one is asking it.
LEMMA AskingKeeps ==
  ASSUME HooksInv, NEW s \in HookSlots, emit(s)
  PROVE  HooksInv'
<1>0. HooksTypeOK /\ BusFollowsFiles /\ FileFollowsWishes /\ AskedOnce /\ NoDeniedCall /\ IsRequest(asking[s])
  BY DEF HooksInv, HooksTypeOK
<1>1. PICK asked : asked = Candidates(asking[s].step) \ Background
  OBVIOUS
<1>2. /\ UNCHANGED <<hookFiles, handlers, onceConsumed, wanted, mixed, overtaken>>
      /\ asking[s].step \in {"prompt", "tool", "after"}
      /\ times' = [h \in OnceOnly |-> IF h \in asked THEN times[h] + 1 ELSE times[h]]
  BY <1>1 DEF emit
<1>3. together' \in BOOLEAN /\ (together => together')
      /\ (~together' => \A t \in HookSlots : asking[t].waiting \cap asked \cap OnceOnly = {})
  <2>1. PICK x \in BOOLEAN : /\ together' = (together \/ x)
                             /\ x <=> \E t \in HookSlots : asking[t].waiting \cap asked \cap OnceOnly # {}
    BY <1>1 DEF emit
  <2> QED
    BY <1>0, <2>1 DEF HooksTypeOK
<1>4. PICK next \in AskedSteps : asking' = [asking EXCEPT ![s].step = next, ![s].waiting = asked]
  <2>1. PICK next : next = Asked[asking[s].step]
    OBVIOUS
  <2>2. next \in AskedSteps
    BY <1>2, <2>1, AskedStep
  <2> QED
    BY <1>1, <2>1, <2>2 DEF emit
<1>5. /\ asking' = [t \in HookSlots |-> asking'[t]] /\ asking'[s].step = next /\ asking'[s].waiting = asked
      /\ asking'[s].said = asking[s].said
      /\ \A t \in HookSlots : t # s => asking'[t] = asking[t]
  BY <1>0, <1>4 DEF HooksTypeOK, IsRequest, RequestFields
<1>6. IsRequest(asking'[s])
  BY <1>0, <1>4 DEF HooksTypeOK, IsRequest, RequestFields
<1>7. HooksTypeOK'
  <2>1. \A t \in HookSlots : IsRequest(asking'[t])
    BY <1>0, <1>5, <1>6 DEF HooksTypeOK
  <2>2. (\A t \in HookSlots : IsRequest(asking[t]))'
    BY <2>1 DEF IsRequest
  <2>3. times' \in [OnceOnly -> Nat]
    BY <1>0, <1>2 DEF HooksTypeOK
  <2> QED
    BY <1>0, <1>2, <1>3, <1>5, <2>2, <2>3 DEF HooksTypeOK
<1>8. BusFollowsFiles'
  <2>1. \A t \in HookSlots : ~Reloads(asking'[t]) => ~Reloads(asking[t])
    BY <1>2, <1>5 DEF Reloads
  <2>2. SUFFICES ASSUME ~overtaken', \A t \in HookSlots : ~Reloads(asking'[t])
                 PROVE  handlers' = loadAllHooks(hookFiles'["hooks"].keys, hookFiles'["settings"].keys)
    BY DEF BusFollowsFiles, Reloads, loadAllHooks
  <2> QED
    BY <1>0, <1>2, <2>1, <2>2 DEF BusFollowsFiles
<1>9. FileFollowsWishes'
  <2>1. asking[s].step # "write" /\ asking'[s].step # "write"
    BY <1>2, <1>5 DEF AskedSteps
  <2> QED
    BY <1>0, <1>2, <1>5, <2>1 DEF FileFollowsWishes, Text, Torn
<1>10. AskedOnce'
  <2>1. asking[s].waiting = {}
    BY <1>0, <1>2 DEF AskedOnce, AskedSteps
  <2>2. \A t \in HookSlots : asking'[t].waiting # {} => asking'[t].step \in AskedSteps
    BY <1>0, <1>5 DEF AskedOnce
  <2>3. ASSUME ~together', NEW h \in OnceOnly
        PROVE  \/ times'[h] = 0
               \/ times'[h] = 1 /\ (h \in onceConsumed' \/ \E t \in HookSlots : h \in asking'[t].waiting)
    <3>1. ~together
      BY <1>3, <2>3
    <3>2. \/ times[h] = 0
          \/ times[h] = 1 /\ (h \in onceConsumed \/ \E t \in HookSlots : h \in asking[t].waiting)
      BY <1>0, <3>1 DEF AskedOnce
    <3>3. CASE h \in asked
      <4>1. h \notin onceConsumed
        BY <1>1, <3>3 DEF Candidates
      <4>2. \A t \in HookSlots : h \notin asking[t].waiting
        BY <1>3, <2>3, <3>3
      <4> QED
        BY <1>2, <1>5, <3>2, <3>3, <4>1, <4>2
    <3>4. CASE h \notin asked
      BY <1>2, <1>5, <2>1, <3>2, <3>4
    <3> QED
      BY <3>3, <3>4
  <2> QED
    BY <2>2, <2>3 DEF AskedOnce, AskedSteps
<1>11. NoDeniedCall'
  BY <1>0, <1>5 DEF NoDeniedCall, AskedSteps
<1> QED
  BY <1>7, <1>8, <1>9, <1>10, <1>11 DEF HooksInv

\* The hooks have answered: none of them denied a call that is made.
LEMMA AnswerKeeps ==
  ASSUME HooksInv, NEW s \in HookSlots, HookAnswered(s)
  PROVE  HooksInv'
<1>0. HooksTypeOK /\ BusFollowsFiles /\ FileFollowsWishes /\ AskedOnce /\ NoDeniedCall /\ IsRequest(asking[s])
  BY DEF HooksInv, HooksTypeOK
<1>1. /\ UNCHANGED <<hookFiles, handlers, wanted, mixed, overtaken, times, together>>
      /\ asking[s].step \in AskedSteps
      /\ onceConsumed' = onceConsumed \cup (asking[s].waiting \cap OnceOnly)
  <2>1. PICK event \in {"prompt", "tool", "after"} :
          /\ asking[s].step = Asked[event]
          /\ onceConsumed' = onceConsumed \cup (asking[s].waiting \cap OnceOnly)
          /\ UNCHANGED <<hookFiles, handlers, hooksShown, hookSteps, overtaken, ghosts>>
    BY DEF HookAnswered
  <2>2. Asked[event] \in AskedSteps
    BY AskedStep
  <2> QED
    BY <2>1, <2>2 DEF ghosts
<1>2. PICK r, next : /\ IsRequest(r) /\ r.waiting = {}
                     /\ next \in {"free", "tool", "after"} \/ (next = "call" /\ "deny" \notin r.said)
                     /\ asking' = [asking EXCEPT ![s] = [r EXCEPT !.step = next]]
  <2>0. PICK event \in {"prompt", "tool", "after"} : \E said :
          AfterVerdict(s, [asking[s] EXCEPT !.waiting = {}, !.said = said], event, mergeResults(said))
    BY DEF HookAnswered
  <2>1. PICK said : AfterVerdict(s, [asking[s] EXCEPT !.waiting = {}, !.said = said], event, mergeResults(said))
    BY <2>0
  <2>2. PICK q : q = [asking[s] EXCEPT !.waiting = {}, !.said = said]
    OBVIOUS
  <2>3. IsRequest(q) /\ q.waiting = {} /\ q.said = said
    BY <1>0, <2>2 DEF IsRequest, RequestFields
  <2>4. IsRequest([q EXCEPT !.said = {}]) /\ [q EXCEPT !.said = {}].waiting = {}
    BY <2>3 DEF IsRequest, RequestFields
  <2>5. CASE asking' = [asking EXCEPT ![s] = NoRequest]
    <3>1. [NoRequest EXCEPT !.step = "free"] = NoRequest
      BY DEF NoRequest
    <3> QED
      BY <2>5, <3>1, FreeSlot
  <2>6. CASE To(s, [q EXCEPT !.said = {}], "tool") \/ To(s, [q EXCEPT !.said = {}], "after")
    BY <2>4, <2>6 DEF To
  <2>7. CASE "deny" \notin said /\ To(s, q, "call")
    BY <2>3, <2>7 DEF To
  <2>8. mergeResults(said) # "deny" => "deny" \notin said
    BY DEF mergeResults
  <2>9. AfterVerdict(s, q, event, mergeResults(said))
    BY <2>1, <2>2
  <2> QED
    BY <2>5, <2>6, <2>7, <2>8, <2>9 DEF AfterVerdict
<1>3. /\ OnlyChanged(s) /\ asking'[s].step = next /\ asking'[s].waiting = {} /\ asking'[s].said = r.said
  BY <1>0, <1>2 DEF HooksTypeOK, OnlyChanged, IsRequest, RequestFields
<1>4. \A t \in HookSlots : t # s => asking'[t] = asking[t]
  BY <1>3 DEF OnlyChanged
<1>5. HooksTypeOK'
  <2>1. asking' = [t \in HookSlots |-> asking'[t]] /\ \A t \in HookSlots : IsRequest(asking'[t])
    BY <1>0, <1>3 DEF HooksTypeOK, OnlyChanged
  <2>2. (\A t \in HookSlots : IsRequest(asking[t]))'
    BY <2>1 DEF IsRequest
  <2> QED
    BY <1>0, <1>1, <2>1, <2>2 DEF HooksTypeOK
<1>6. BusFollowsFiles'
  <2>1. \A t \in HookSlots : ~Reloads(asking'[t]) => ~Reloads(asking[t])
    BY <1>1, <1>4 DEF Reloads, AskedSteps
  <2>2. SUFFICES ASSUME ~overtaken', \A t \in HookSlots : ~Reloads(asking'[t])
                 PROVE  handlers' = loadAllHooks(hookFiles'["hooks"].keys, hookFiles'["settings"].keys)
    BY DEF BusFollowsFiles, Reloads, loadAllHooks
  <2> QED
    BY <1>0, <1>1, <2>1, <2>2 DEF BusFollowsFiles
<1>7. FileFollowsWishes'
  <2>1. asking[s].step # "write" /\ asking'[s].step # "write"
    BY <1>1, <1>2, <1>3 DEF AskedSteps
  <2> QED
    BY <1>0, <1>1, <1>4, <2>1 DEF FileFollowsWishes, Text, Torn
<1>8. AskedOnce'
  <2>1. \A h \in OnceOnly, t \in HookSlots :
          h \in asking[t].waiting => h \in onceConsumed' \/ h \in asking'[t].waiting
    BY <1>1, <1>4
  <2> QED
    BY <1>0, <1>1, <1>3, <1>4, <2>1 DEF AskedOnce, AskedSteps
<1>9. NoDeniedCall'
  BY <1>0, <1>2, <1>3, <1>4 DEF NoDeniedCall
<1> QED
  BY <1>5, <1>6, <1>7, <1>8, <1>9 DEF HooksInv

\* The server stops.
LEMMA StopKeeps ==
  ASSUME HooksInv, HookServerStops
  PROVE  HooksInv'
<1>0. HooksTypeOK /\ FileFollowsWishes
  BY DEF HooksInv
<1>1. /\ asking' = [s \in HookSlots |-> NoRequest] /\ overtaken' = TRUE
      /\ times' = [h \in OnceOnly |-> 0] /\ UNCHANGED <<hookFiles, wanted, together>>
  BY DEF HookServerStops
<1>2. mixed' \in BOOLEAN /\ (~mixed' => ~mixed /\ hookFiles["hooks"].whole)
  <2>1. PICK x \in BOOLEAN, y \in BOOLEAN : /\ mixed' = (mixed \/ x \/ y)
                                            /\ ~hookFiles["hooks"].whole => y
    BY DEF HookServerStops
  <2> QED
    BY <1>0, <2>1 DEF HooksTypeOK
<1>3. \A s \in HookSlots : asking'[s] = NoRequest
  BY <1>1
<1>4. HooksTypeOK'
  <2>1. \A t \in HookSlots : IsRequest(asking'[t])
    BY <1>3, FreeSlot
  <2>2. (\A t \in HookSlots : IsRequest(asking[t]))'
    BY <2>1 DEF IsRequest
  <2> QED
    BY <1>0, <1>1, <1>2, <2>2 DEF HooksTypeOK
<1>5. FileFollowsWishes'
  BY <1>0, <1>1, <1>2, <1>3, FreeSlot, TextsDiffer DEF FileFollowsWishes
<1>6. BusFollowsFiles' /\ AskedOnce' /\ NoDeniedCall'
  BY <1>1, <1>3, FreeSlot DEF BusFollowsFiles, AskedOnce, NoDeniedCall
<1> QED
  BY <1>4, <1>5, <1>6 DEF HooksInv

\* The bus and the files say what the user asked for unless changes met or were cut
\* off, no denied call is made, and a hook that runs once is asked once, for every set
\* of hooks and of requests at a time (bus.ts, user-hooks-store.ts).
THEOREM HooksStayObeyed == HooksSpec => []HooksAreObeyed
<1>1. HooksInit => HooksInv
  <2>1. SUFFICES ASSUME HooksInit PROVE HooksInv
    OBVIOUS
  <2>2. asking = [s \in HookSlots |-> NoRequest] /\ \A s \in HookSlots : asking[s] = NoRequest
    BY <2>1 DEF HooksInit
  <2>3. HooksTypeOK
    <3>1. hookFiles = [f \in {"hooks", "settings"} |-> hookFiles[f]]
      BY <2>1 DEF HooksInit
    <3>2. mixed = FALSE /\ overtaken = FALSE /\ together = FALSE /\ times = [h \in OnceOnly |-> 0]
      BY <2>1 DEF HooksInit
    <3> QED
      BY <2>2, <3>1, <3>2, FreeSlot DEF HooksTypeOK
  <2>4. BusFollowsFiles
    BY <2>1 DEF BusFollowsFiles, HooksInit, Text
  <2>5. FileFollowsWishes
    BY <2>1, <2>2, FreeSlot DEF FileFollowsWishes, HooksInit
  <2>6. AskedOnce /\ NoDeniedCall
    BY <2>1, <2>2, FreeSlot DEF AskedOnce, NoDeniedCall, HooksInit
  <2> QED
    BY <2>3, <2>4, <2>5, <2>6 DEF HooksInv
<1>2. HooksInv /\ [HooksNext]_hookVars => HooksInv'
  <2>1. SUFFICES ASSUME HooksInv, [HooksNext]_hookVars PROVE HooksInv'
    OBVIOUS
  <2>2. CASE HookServerStops
    BY <2>1, <2>2, StopKeeps
  <2>3. ASSUME NEW s \in HookSlots, writeUserHooks(s) PROVE HooksInv'
    BY <2>1, <2>3, WriteKeeps
  <2>4. ASSUME NEW s \in HookSlots, setHandlers(s) PROVE HooksInv'
    BY <2>1, <2>4, ReloadKeeps
  <2>5. ASSUME NEW s \in HookSlots, emit(s) PROVE HooksInv'
    BY <2>1, <2>5, AskingKeeps
  <2>6. ASSUME NEW s \in HookSlots, HookAnswered(s) PROVE HooksInv'
    BY <2>1, <2>6, AnswerKeeps
  <2>7. ASSUME NEW s \in HookSlots,
               \/ saveHook(s) \/ confirmDeleteHook(s) \/ toggleHook(s) \/ loadHooks(s)
               \/ readUserHooks(s) \/ getDisabledHooks(s) \/ setDisabledHooks(s)
               \/ ReadSettings(s) \/ ReadHooks(s) \/ ShowHooks(s) \/ ToolEnds(s)
        PROVE  HooksInv'
    <3>1. HooksTypeOK
      BY <2>1 DEF HooksInv
    <3>2. Plain(s)
      BY <2>7, <3>1, PlainSteps
    <3> QED
      BY <2>1, <3>2, PlainKeeps
  <2>8. CASE UNCHANGED hookVars
    BY <2>1, <2>8 DEF hookVars, HooksInv, HooksTypeOK, IsRequest, BusFollowsFiles, Reloads, FileFollowsWishes,
      AskedOnce, NoDeniedCall, loadAllHooks, Text, Torn
  <2> QED
    BY <2>1, <2>2, <2>3, <2>4, <2>5, <2>6, <2>7, <2>8 DEF HooksNext
<1>3. HooksInv => HooksAreObeyed
  <2>1. SUFFICES ASSUME HooksInv PROVE HooksAreObeyed
    OBVIOUS
  <2>2. ASSUME \A s \in HookSlots : AtStep(s, "free")
        PROVE  /\ ~overtaken => handlers = loadAllHooks(hookFiles["hooks"].keys, hookFiles["settings"].keys)
               /\ ~mixed => hookFiles["hooks"] = Text(wanted)
    BY <2>1, <2>2 DEF HooksInv, BusFollowsFiles, FileFollowsWishes, AtStep, Reloads
  <2>3. \A s \in HookSlots : AtStep(s, "call") => "deny" \notin asking[s].said
    BY <2>1 DEF HooksInv, NoDeniedCall, AtStep
  <2>4. ASSUME ~together, NEW h \in OnceOnly PROVE times[h] <= 1
    BY <2>1, <2>4 DEF HooksInv, AskedOnce
  <2> QED
    BY <2>2, <2>3, <2>4 DEF HooksAreObeyed
<1> QED
  BY <1>1, <1>2, <1>3, PTL DEF HooksSpec

-----------------------------------------------------------------------------
(* Plugins. *)

PluginEntries == {NoEntry} \cup [from : {"path", "git"}, enabled : BOOLEAN]
PluginFiles == Ready("path") \cup Ready("git")
CallEntries == [from : {"none", "path", "git"}, enabled : BOOLEAN]
InstallSteps == {"clone", "clear", "rename", "copy", "copyOn", "venv", "pip", "mark", "undo"}
EntrySteps == {"read", "open", "write"}
EndSteps == {"reload", "list", "answer"}
CallSteps == {"none", "get", "remove"} \cup InstallSteps \cup EntrySteps \cup EndSteps
PluginCallFields == {"at", "op", "name", "entry", "read", "retried", "enabling", "alone"}

\* One request: the step it is at, and the entry it is to write.
CallOK(c) ==
  /\ c = [f \in PluginCallFields |-> c[f]]
  /\ c.op \in {"none", "open", "dialog", "market", "enable", "delete"}
  /\ c.at \in CallSteps /\ (c.at = "none" <=> c.op = "none")
  /\ c.op = "open" => c.at \in {"list", "answer"}
  /\ c.at \in InstallSteps => c.op \in {"dialog", "market"}
  /\ c.at = "get" => c.op # "dialog"
  /\ c.at = "remove" => c.op = "delete"
  /\ c.at \notin {"none", "list", "answer"} => c.name \in PluginNames
  /\ c.entry \in CallEntries /\ c.read \in [PluginNames -> PluginEntries]
  /\ c.alone \in BOOLEAN /\ c.enabling \in BOOLEAN /\ c.retried \in BOOLEAN
  /\ c.op = "delete" => c.entry = NoEntry
  /\ c.op \in {"dialog", "market"} => c.entry.from # "none"
  /\ c.op = "enable" /\ c.at \in EntrySteps => c.entry.from # "none"
  /\ c.enabling => c.op = "market" /\ c.at \in {"get"} \cup EntrySteps \cup EndSteps
  /\ c.op = "market" /\ c.at = "get" => c.enabling

PluginTypeOK ==
  /\ entries \in [PluginNames -> PluginEntries] /\ entriesOpen \in BOOLEAN /\ fileThere \in BOOLEAN
  /\ migration \in {"due", "query", "write", "done"}
  /\ pluginRows \in [PluginNames -> {NoEntry, Entry("path", TRUE)}]
  /\ pluginDir \in [PluginNames -> SUBSET PluginFiles]
  /\ DOMAIN call = PluginRequests /\ \A r \in PluginRequests : CallOK(call[r])
  /\ spoilt \in SUBSET PluginNames /\ stopped \in BOOLEAN

Whole(n) == pluginDir[n] = IF entries[n] = NoEntry THEN {} ELSE Ready(entries[n].from)
Busy(r) == call[r].at \notin {"none", "list", "answer"}
\* Two requests at work on one plugin know it, unless both only enable it.
MeetingsAreKnown ==
  /\ \A r \in PluginRequests : Busy(r) /\ ~call[r].alone => call[r].name \in spoilt
  /\ \A r, q \in PluginRequests :
       r # q /\ Busy(r) /\ Busy(q) /\ call[r].name = call[q].name /\ ~(call[r].op = "enable" /\ call[q].op = "enable")
         => ~call[r].alone

\* How far a request that is alone has got with its plugin.
Placing(c, dir) ==
  /\ c.at \in {"rename", "copy"} => dir = {}
  /\ c.at = "copyOn" => dir = {"dir", "file1"} /\ c.entry.from = "path"
  /\ c.at = "copy" => c.entry.from = "path"
  /\ c.at = "rename" => c.entry.from = "git"
  /\ c.at = "venv" => dir = Place(c.entry.from)
  /\ c.at \in {"pip", "mark"} => dir = Place(c.entry.from) \cup {"venv"}
  /\ c.at \in EntrySteps /\ c.op \in {"dialog", "market"} /\ ~c.enabling => dir = Ready(c.entry.from)

Keeping(c) ==
  LET n == c.name IN
  /\ c.at \in {"clone", "clear", "get", "reload"} => Whole(n)
  /\ c.at \in EntrySteps /\ (c.op \in {"enable", "delete"} \/ c.enabling) => Whole(n)
  /\ c.at \in EntrySteps /\ (c.op = "enable" \/ c.enabling) => entries[n].from = c.entry.from
  /\ c.at = "remove" => entries[n] = NoEntry

Progress ==
  \A r \in PluginRequests :
    Busy(r) /\ call[r].alone =>
      /\ Placing(call[r], pluginDir[call[r].name])
      /\ call[r].name \notin spoilt => Keeping(call[r])

RowsDir(n) == pluginDir[n] = IF pluginRows[n] = NoEntry THEN {} ELSE Ready("path")
Migrating ==
  /\ migration # "done" => \A r \in PluginRequests : ~Busy(r)
  /\ migration = "write" => fileThere /\ entriesOpen
  /\ migration = "query" => ~fileThere
  /\ \A r \in PluginRequests : call[r].at \in {"write", "remove"} => fileThere
  /\ (~fileThere \/ migration = "write") => entries = NoPlugins
  /\ (~fileThere \/ migration = "write") /\ migration # "done" => \A n \in PluginNames \ spoilt : RowsDir(n)
  /\ ~fileThere /\ migration = "done" => \A n \in PluginNames \ spoilt : pluginRows[n] = NoEntry

NoneAtWork(n) == \A r \in PluginRequests : Busy(r) => call[r].name # n
AtRestWhole ==
  migration = "done" \/ (fileThere /\ migration # "write") =>
    \A n \in PluginNames \ spoilt : NoneAtWork(n) => Whole(n)

PluginsInv == PluginTypeOK /\ MeetingsAreKnown /\ Progress /\ Migrating /\ AtRestWhole

LEMMA NoCallOK == CallOK(NoCall) /\ NoCall.at = "none"
<1>1. NoEntry \in PluginEntries /\ NoEntry \in CallEntries
  BY DEF PluginEntries, CallEntries, NoEntry, Entry
<1>2. NoPlugins \in [PluginNames -> PluginEntries]
  BY <1>1 DEF NoPlugins
<1> QED  BY <1>1, <1>2 DEF CallOK, NoCall, PluginCallFields, CallSteps, InstallSteps, EntrySteps, EndSteps

LEMMA PluginsInitial == PluginsInit => PluginsInv
<1> SUFFICES ASSUME PluginsInit PROVE PluginsInv
  OBVIOUS
<1> USE DEF PluginsInit
<1>1. NoEntry \in PluginEntries /\ Entry("path", TRUE) \in PluginEntries /\ NoEntry \in CallEntries
  BY DEF PluginEntries, CallEntries, NoEntry, Entry
<1>2. NoPlugins \in [PluginNames -> PluginEntries]
  BY <1>1 DEF NoPlugins
<1>3. CallOK(NoCall)
  BY <1>1, <1>2 DEF CallOK, NoCall, PluginCallFields, CallSteps, InstallSteps, EntrySteps, EndSteps
<1>4. \A r \in PluginRequests : call[r] = NoCall /\ ~Busy(r)
  BY DEF Busy, NoCall
<1>5. pluginDir \in [PluginNames -> SUBSET PluginFiles] /\ \A n \in PluginNames : RowsDir(n)
  BY DEF PluginFiles, RowsDir
<1>6. PluginTypeOK
  BY <1>2, <1>3, <1>4, <1>5 DEF PluginTypeOK
<1>7. \A r \in PluginRequests : call[r].at = "none"
  BY <1>4, NoCallOK
<1> QED  BY <1>4, <1>5, <1>6, <1>7 DEF PluginsInv, MeetingsAreKnown, Progress, Migrating, AtRestWhole

\* A step of a request that does not write the list leaves it as it is, there or not.
FileAsBefore(c) ==
  fileThere' = fileThere /\ entries' = entries /\ spoilt \subseteq spoilt' /\ c.at \notin {"write", "remove"}

\* What a request that is at work may do without disturbing the others: it changes
\* its own plugin, and of the entries of others only those it spoils.
LEMMA OneCallMoves ==
  ASSUME PluginsInv, NEW r \in PluginRequests, NEW c, NEW n, n = call[r].name, Busy(r),
         call' = [call EXCEPT ![r] = c], CallOK(c),
         c.at \notin {"none", "list", "answer"} => c.name = n /\ c.op = call[r].op /\ c.alone = call[r].alone,
         entries' \in [PluginNames -> PluginEntries], entriesOpen' \in BOOLEAN, fileThere' = TRUE \/ FileAsBefore(c),
         pluginDir' \in [PluginNames -> SUBSET PluginFiles], spoilt' \in SUBSET PluginNames,
         UNCHANGED <<migration, pluginRows, stopped>>,
         \A m \in PluginNames : m # n =>
            /\ pluginDir'[m] = pluginDir[m]
            /\ m \in spoilt => m \in spoilt'
            /\ m \notin spoilt' => entries'[m] = entries[m],
         call[r].alone /\ c.at \notin {"none", "list", "answer"} =>
            Placing(c, pluginDir'[n]) /\ (n \notin spoilt' => Keeping(c)'),
         call[r].alone /\ c.at \in {"none", "list", "answer"} /\ n \notin spoilt' => Whole(n)',
         ~call[r].alone => n \in spoilt',
         call[r].op = "enable" =>
            /\ pluginDir' = pluginDir
            /\ n \notin spoilt' => n \notin spoilt /\ entries'[n].from = entries[n].from
                                  /\ (entries'[n] = NoEntry <=> entries[n] = NoEntry)
  PROVE  PluginsInv'
<1>1. migration = "done" /\ migration' = "done"
  BY DEF PluginsInv, Migrating
<1>2. n \in PluginNames /\ DOMAIN call = PluginRequests /\ \A q \in PluginRequests : CallOK(call[q])
  BY DEF PluginsInv, PluginTypeOK, CallOK, Busy
<1>3. DOMAIN call' = PluginRequests /\ call'[r] = c /\ \A q \in PluginRequests : q # r => call'[q] = call[q]
  BY <1>2
<1>4. PluginTypeOK'
  <2>1. PluginTypeOK
    BY DEF PluginsInv
  <2>2. \A q \in PluginRequests : CallOK(call'[q])
    BY <1>2, <1>3
  <2>3. \A q \in PluginRequests : CallOK(call[q])'
    BY <2>2 DEF CallOK
  <2>4. fileThere' \in BOOLEAN
    BY <2>1 DEF PluginTypeOK, FileAsBefore
  <2> QED  BY <2>1, <2>3, <2>4, <1>3 DEF PluginTypeOK
<1>5. ASSUME NEW q \in PluginRequests, q # r, Busy(q), call[q].name = n
      PROVE  /\ call[q].alone => call[q].op = "enable" /\ call[r].op = "enable"
             /\ ~call[q].alone => n \in spoilt'
  <2>1. ~(call[r].op = "enable" /\ call[q].op = "enable") => ~call[r].alone /\ ~call[q].alone
    BY <1>5 DEF PluginsInv, MeetingsAreKnown
  <2>2. ~call[q].alone => n \in spoilt
    BY <1>5 DEF PluginsInv, MeetingsAreKnown
  <2> QED  BY <2>1, <2>2
<1>6. \A q \in PluginRequests : q # r => (Busy(q)' <=> Busy(q))
  BY <1>3 DEF Busy
<1>7. Busy(r)' <=> c.at \notin {"none", "list", "answer"}
  BY <1>3 DEF Busy
<1>8. MeetingsAreKnown'
  <2>1. ASSUME NEW q \in PluginRequests, Busy(q)', ~call'[q].alone  PROVE call'[q].name \in spoilt'
    <3>1. CASE q = r
      BY <2>1, <3>1, <1>3, <1>7
    <3>2. CASE q # r /\ call[q].name = n
      BY <2>1, <3>2, <1>3, <1>5, <1>6
    <3>3. CASE q # r /\ call[q].name # n
      <4>1. call[q].name \in spoilt /\ call[q].name \in PluginNames
        BY <2>1, <3>3, <1>2, <1>3, <1>6 DEF PluginsInv, MeetingsAreKnown, CallOK, Busy
      <4> QED  BY <4>1, <3>3, <1>3
    <3> QED  BY <3>1, <3>2, <3>3
  <2>2. ASSUME NEW p \in PluginRequests, NEW q \in PluginRequests, p # q, Busy(p)', Busy(q)',
               call'[p].name = call'[q].name, ~(call'[p].op = "enable" /\ call'[q].op = "enable")
        PROVE  ~call'[p].alone
    <3>1. Busy(p) /\ Busy(q)
      BY <2>2, <1>6
    <3>2. /\ call'[p].name = call[p].name /\ call'[p].op = call[p].op /\ call'[p].alone = call[p].alone
          /\ call'[q].name = call[q].name /\ call'[q].op = call[q].op
      BY <2>2, <1>3, <1>7
    <3> QED  BY <2>2, <3>1, <3>2 DEF PluginsInv, MeetingsAreKnown
  <2> QED  BY <2>1, <2>2 DEF MeetingsAreKnown
<1>9. Progress'
  <2> SUFFICES ASSUME NEW q \in PluginRequests, Busy(q)', call'[q].alone
               PROVE  /\ Placing(call'[q], pluginDir'[call'[q].name])
                      /\ call'[q].name \notin spoilt' => Keeping(call[q])'
    BY DEF Progress
  <2>1. CASE q = r
    BY <2>1, <1>3, <1>7
  <2>2. CASE q # r /\ call[q].name # n
    <3>1. call'[q] = call[q] /\ Busy(q) /\ call[q].name \in PluginNames
      BY <2>2, <1>2, <1>3, <1>6 DEF CallOK, Busy
    <3>2. Placing(call[q], pluginDir[call[q].name]) /\ (call[q].name \notin spoilt => Keeping(call[q]))
      BY <3>1 DEF PluginsInv, Progress
    <3>3. pluginDir'[call[q].name] = pluginDir[call[q].name]
      BY <2>2, <3>1
    <3>4. ASSUME call[q].name \notin spoilt'  PROVE  Keeping(call[q])'
      <4>1. Keeping(call[q]) /\ entries'[call[q].name] = entries[call[q].name]
        BY <3>4, <3>1, <3>2, <2>2
      <4> QED  BY <4>1, <3>1, <3>3 DEF Keeping, Whole
    <3> QED  BY <3>1, <3>2, <3>3, <3>4
  <2>3. CASE q # r /\ call[q].name = n
    <3>1. call'[q] = call[q] /\ Busy(q)
      BY <2>3, <1>3, <1>6
    <3>2. call[q].op = "enable" /\ call[r].op = "enable"
      BY <2>3, <3>1, <1>5
    <3>3. Placing(call[q], pluginDir[n]) /\ (n \notin spoilt => Keeping(call[q]))
      BY <3>1, <2>3 DEF PluginsInv, Progress
    <3>4. ASSUME n \notin spoilt'  PROVE  Keeping(call[q])'
      <4>1. Keeping(call[q]) /\ entries'[n].from = entries[n].from /\ (entries'[n] = NoEntry <=> entries[n] = NoEntry)
        BY <3>2, <3>3, <3>4
      <4>2. Whole(n) => Whole(n)'
        BY <4>1, <3>2 DEF Whole
      <4>3. call[q].at # "remove"
        BY <3>2, <1>2 DEF CallOK
      <4> QED  BY <4>1, <4>2, <4>3, <3>1, <2>3 DEF Keeping
    <3> QED  BY <3>1, <3>2, <3>3, <3>4, <2>3
  <2> QED  BY <2>1, <2>2, <2>3
<1>10. Migrating'
  <2>1. Migrating /\ (fileThere' = TRUE \/ FileAsBefore(c))
    BY DEF PluginsInv
  <2>2. ASSUME NEW q \in PluginRequests, call'[q].at \in {"write", "remove"}  PROVE fileThere'
    BY <2>1, <2>2, <1>3 DEF Migrating, FileAsBefore
  <2>3. ~fileThere' => ~fileThere /\ entries' = entries /\ spoilt \subseteq spoilt'
    BY <2>1 DEF FileAsBefore
  <2> QED  BY <1>1, <2>1, <2>2, <2>3 DEF Migrating
<1>11. AtRestWhole'
  <2> SUFFICES ASSUME NEW m \in PluginNames, m \notin spoilt', NoneAtWork(m)'  PROVE Whole(m)'
    BY DEF AtRestWhole
  <2>1. CASE m # n
    <3>1. NoneAtWork(m)
      BY <2>1, <1>3, <1>6 DEF NoneAtWork
    <3>2. Whole(m)
      BY <3>1, <2>1, <1>1 DEF PluginsInv, AtRestWhole
    <3> QED  BY <3>2, <2>1 DEF Whole
  <2>2. CASE m = n
    BY <2>2, <1>3, <1>7 DEF NoneAtWork
  <2> QED  BY <2>1, <2>2
<1> QED  BY <1>4, <1>8, <1>9, <1>10, <1>11 DEF PluginsInv

\* The record of a request that only goes to another step.
Turned(c, d, at) ==
  /\ c = [f \in PluginCallFields |-> c[f]]
  /\ c.at = at /\ c.op = d.op /\ c.name = d.name /\ c.entry = d.entry /\ c.read = d.read
  /\ c.alone = d.alone /\ c.enabling = d.enabling /\ c.retried = d.retried

LEMMA CallTurns ==
  ASSUME PluginTypeOK, NEW r \in PluginRequests, NEW at, TurnsTo(r, at)
  PROVE  \E c : call' = [call EXCEPT ![r] = c] /\ Turned(c, call[r], at)
<1>1. PICK d : d = call[r] /\ d = [f \in PluginCallFields |-> d[f]]
  BY DEF PluginTypeOK, CallOK
<1>2. PICK c : c = [d EXCEPT !.at = at]
  OBVIOUS
<1>3. call' = [call EXCEPT ![r] = c]
  BY <1>1, <1>2 DEF TurnsTo
<1>4. Turned(c, d, at)
  BY <1>1, <1>2 DEF Turned, PluginCallFields
<1> QED  BY <1>1, <1>3, <1>4

\* What is known of a request at work.
LEMMA BusyFacts ==
  ASSUME PluginsInv, NEW r \in PluginRequests, Busy(r)
  PROVE  /\ PluginTypeOK /\ CallOK(call[r]) /\ call[r].name \in PluginNames
         /\ migration = "done" /\ (call[r].at \in {"write", "remove"} => fileThere = TRUE)
         /\ ~call[r].alone => call[r].name \in spoilt
         /\ call[r].alone => Placing(call[r], pluginDir[call[r].name])
         /\ call[r].alone /\ call[r].name \notin spoilt => Keeping(call[r])
<1>1. PluginTypeOK /\ CallOK(call[r]) /\ migration = "done" /\ (call[r].at \in {"write", "remove"} => fileThere)
  BY DEF PluginsInv, PluginTypeOK, Migrating
<1>2. call[r].at \in {"write", "remove"} => fileThere = TRUE
  BY <1>1 DEF PluginTypeOK
<1>3. call[r].name \in PluginNames
  BY <1>1 DEF CallOK, Busy
<1> QED  BY <1>1, <1>2, <1>3 DEF PluginsInv, MeetingsAreKnown, Progress

\* A step that leaves plugins, entries and the spoilt ones as they are.
LEMMA CallOnly ==
  ASSUME PluginsInv, NEW r \in PluginRequests, NEW c, NEW n, n = call[r].name, Busy(r),
         call' = [call EXCEPT ![r] = c], CallOK(c),
         c.at \notin {"none", "list", "answer"} => c.name = n /\ c.op = call[r].op /\ c.alone = call[r].alone,
         UNCHANGED <<entries, pluginDir, spoilt, migration, pluginRows, stopped>>,
         entriesOpen' \in BOOLEAN, fileThere' = TRUE \/ (fileThere' = fileThere /\ c.at \notin {"write", "remove"}),
         call[r].alone /\ c.at \notin {"none", "list", "answer"} =>
            Placing(c, pluginDir[n]) /\ (n \notin spoilt => Keeping(c)),
         call[r].alone /\ c.at \in {"none", "list", "answer"} /\ n \notin spoilt => Whole(n)
  PROVE  PluginsInv'
<1>1. PluginTypeOK /\ (~call[r].alone => n \in spoilt)
  BY BusyFacts
<1>2. Whole(n)' <=> Whole(n)
  BY DEF Whole
<1>3. Keeping(c)' <=> Keeping(c)
  BY DEF Keeping, Whole
<1>4. fileThere' = TRUE \/ FileAsBefore(c)
  BY DEF FileAsBefore
<1> QED  BY <1>1, <1>2, <1>3, <1>4, OneCallMoves DEF PluginTypeOK

LEMMA CloneStep ==
  ASSUME PluginsInv, NEW r \in PluginRequests, runGitClone(r)  PROVE PluginsInv'
<1>1. Busy(r) /\ call[r].at = "clone"
  BY DEF runGitClone, Stands, Busy
<1>2. PICK n : n = call[r].name
  OBVIOUS
<1>3. PluginTypeOK /\ CallOK(call[r]) /\ fileThere' = fileThere /\ entriesOpen' \in BOOLEAN
  BY <1>1, BusyFacts DEF runGitClone, fileState, PluginTypeOK
<1>4. call[r].alone /\ n \notin spoilt => Whole(n)
  BY <1>1, <1>2, BusyFacts DEF Keeping
<1>5. CASE TurnsTo(r, "clear")
  <2>1. PICK c : call' = [call EXCEPT ![r] = c] /\ Turned(c, call[r], "clear")
    BY <1>3, <1>5, CallTurns
  <2>2. CallOK(c)
    BY <2>1, <1>1, <1>3 DEF CallOK, Turned, CallSteps, InstallSteps, EntrySteps, EndSteps
  <2>3. Placing(c, pluginDir[n])
    BY <2>1 DEF Placing, Turned, EntrySteps
  <2>4. Whole(n) => Keeping(c)
    BY <2>1, <1>2 DEF Keeping, Turned, EntrySteps
  <2> QED  BY <1>1, <1>2, <1>3, <1>4, <2>1, <2>2, <2>3, <2>4, CallOnly DEF Turned, runGitClone, fileState
<1>6. CASE EndsCall(r)
  BY <1>1, <1>2, <1>3, <1>4, <1>6, NoCallOK, CallOnly DEF EndsCall, runGitClone, fileState
<1> QED  BY <1>5, <1>6 DEF runGitClone

LEMMA ClearStep ==
  ASSUME PluginsInv, NEW r \in PluginRequests, ClearDirectory(r)  PROVE PluginsInv'
<1>1. Busy(r) /\ call[r].at = "clear"
  BY DEF ClearDirectory, Stands, Busy
<1>2. PICK n : n = call[r].name
  OBVIOUS
<1>3. PluginTypeOK /\ CallOK(call[r]) /\ fileThere' = fileThere /\ n \in PluginNames /\ (~call[r].alone => n \in spoilt)
  BY <1>1, <1>2, BusyFacts DEF ClearDirectory, fileState
<1>4. PICK at : at = (IF call[r].entry.from = "git" THEN "rename" ELSE "copy") /\ TurnsTo(r, at)
  BY DEF ClearDirectory
<1>5. PICK c : call' = [call EXCEPT ![r] = c] /\ Turned(c, call[r], at)
  BY <1>3, <1>4, CallTurns
<1>6. CallOK(c)
  BY <1>1, <1>3, <1>4, <1>5 DEF CallOK, Turned, CallSteps, InstallSteps, EntrySteps, EndSteps
<1>7. pluginDir' = [pluginDir EXCEPT ![n] = {}] /\ UNCHANGED <<fileState, spoilt, stopped>>
  BY <1>2 DEF ClearDirectory
<1>8. pluginDir'[n] = {} /\ pluginDir' \in [PluginNames -> SUBSET PluginFiles]
  BY <1>3, <1>7 DEF PluginTypeOK
<1>9. call[r].op \in {"dialog", "market"} /\ call[r].entry.from \in {"path", "git"}
  BY <1>1, <1>3 DEF CallOK, InstallSteps, CallEntries
<1>10. Placing(c, pluginDir'[n]) /\ Keeping(c)'
  BY <1>4, <1>5, <1>8, <1>9 DEF Placing, Keeping, Turned, EntrySteps
<1>11. FileAsBefore(c)
  BY <1>3, <1>4, <1>5, <1>7 DEF FileAsBefore, Turned, fileState
<1> QED  BY <1>1, <1>2, <1>3, <1>4, <1>5, <1>6, <1>7, <1>8, <1>9, <1>10, <1>11, OneCallMoves DEF Turned, fileState, PluginTypeOK

LEMMA RenameStep ==
  ASSUME PluginsInv, NEW r \in PluginRequests, RenameClone(r)  PROVE PluginsInv'
<1>1. Busy(r) /\ call[r].at = "rename"
  BY DEF RenameClone, Stands, Busy
<1>2. PICK n : n = call[r].name
  OBVIOUS
<1>3. PluginTypeOK /\ CallOK(call[r]) /\ fileThere' = fileThere /\ n \in PluginNames /\ (~call[r].alone => n \in spoilt)
      /\ (call[r].alone => Placing(call[r], pluginDir[n]))
  BY <1>1, <1>2, BusyFacts DEF RenameClone, fileState
<1>4. call[r].op \in {"dialog", "market"} /\ call[r].op # "enable"
  BY <1>1, <1>3 DEF CallOK, InstallSteps
<1>5. CASE pluginDir[n] = {}
  <2>1. PICK c : call' = [call EXCEPT ![r] = c] /\ Turned(c, call[r], "venv")
    BY <1>2, <1>3, <1>5, CallTurns DEF RenameClone
  <2>2. CallOK(c)
    BY <1>1, <1>3, <2>1 DEF CallOK, Turned, CallSteps, InstallSteps, EntrySteps, EndSteps
  <2>3. pluginDir' = [pluginDir EXCEPT ![n] = Place("git")] /\ UNCHANGED <<fileState, spoilt, stopped>>
    BY <1>2, <1>5 DEF RenameClone
  <2>4. pluginDir'[n] = Place("git") /\ pluginDir' \in [PluginNames -> SUBSET PluginFiles]
    BY <1>3, <2>3 DEF PluginTypeOK, PluginFiles, Ready
  <2>5. call[r].alone => Placing(c, pluginDir'[n]) /\ Keeping(c)'
    BY <1>1, <1>3, <2>1, <2>4 DEF Placing, Keeping, Turned, EntrySteps
  <2>6. FileAsBefore(c)
    BY <1>3, <2>1, <2>3 DEF FileAsBefore, Turned, fileState
  <2> QED  BY <1>1, <1>2, <1>3, <1>4, <2>1, <2>2, <2>3, <2>4, <2>5, <2>6, OneCallMoves DEF Turned, fileState, PluginTypeOK
<1>6. CASE pluginDir[n] # {}
  <2>1. call' = [call EXCEPT ![r] = NoCall] /\ spoilt' = spoilt \cup {n} /\ UNCHANGED <<fileState, pluginDir, stopped>>
    BY <1>2, <1>6 DEF RenameClone, EndsCall, Spoil
  <2>2. FileAsBefore(NoCall)
    BY <2>1, NoCallOK DEF FileAsBefore, fileState
  <2> QED  BY <1>1, <1>2, <1>3, <1>4, <2>1, <2>2, NoCallOK, OneCallMoves DEF fileState, PluginTypeOK
<1> QED  BY <1>5, <1>6

LEMMA CopyStep ==
  ASSUME PluginsInv, NEW r \in PluginRequests, copyDir(r)  PROVE PluginsInv'
<1>1. Busy(r) /\ call[r].at \in {"copy", "copyOn"}
  BY DEF copyDir, Stands, Busy
<1>2. PICK n : n = call[r].name
  OBVIOUS
<1>3. PluginTypeOK /\ CallOK(call[r]) /\ fileThere' = fileThere /\ n \in PluginNames /\ (~call[r].alone => n \in spoilt)
      /\ (call[r].alone => Placing(call[r], pluginDir[n]))
  BY <1>1, <1>2, BusyFacts DEF copyDir, fileState
<1>4. call[r].op \in {"dialog", "market"} /\ call[r].op # "enable"
  BY <1>1, <1>3 DEF CallOK, InstallSteps
<1>5. ASSUME NEW file, NEW next, TurnsTo(r, next), UNCHANGED spoilt,
             pluginDir' = [pluginDir EXCEPT ![n] = @ \cup {"dir", file}],
             \/ call[r].at = "copy" /\ file = "file1" /\ next = "copyOn"
             \/ call[r].at = "copyOn" /\ file = "file2" /\ next = "venv"
      PROVE  PluginsInv'
  <2>1. PICK c : call' = [call EXCEPT ![r] = c] /\ Turned(c, call[r], next)
    BY <1>3, <1>5, CallTurns
  <2>2. CallOK(c)
    BY <1>1, <1>3, <1>5, <2>1 DEF CallOK, Turned, CallSteps, InstallSteps, EntrySteps, EndSteps
  <2>3. pluginDir'[n] = pluginDir[n] \cup {"dir", file} /\ UNCHANGED <<fileState, spoilt, stopped>>
    BY <1>3, <1>5 DEF PluginTypeOK, copyDir
  <2>4. {"dir", file} \subseteq PluginFiles
    BY <1>5 DEF PluginFiles, Ready, Place
  <2>5. pluginDir' \in [PluginNames -> SUBSET PluginFiles]
    BY <1>3, <1>5, <2>4 DEF PluginTypeOK
  <2>6. Keeping(c)'
    BY <1>5, <2>1 DEF Keeping, Turned, EntrySteps
  <2>7. call[r].alone /\ next = "copyOn" => Placing(c, pluginDir'[n])
    BY <1>1, <1>3, <1>5, <2>1, <2>3 DEF Placing, Turned, EntrySteps
  <2>8. call[r].alone /\ next = "venv" => Placing(c, pluginDir'[n])
    <3>1. SUFFICES ASSUME call[r].alone, next = "venv"  PROVE c.at = "venv" /\ pluginDir'[n] = Place("path") /\ c.entry.from = "path"
      BY <1>5, <2>1 DEF Placing, Turned, EntrySteps
    <3>2. pluginDir[n] = {"dir", "file1"} /\ call[r].entry.from = "path" /\ file = "file2"
      BY <3>1, <1>3, <1>5 DEF Placing
    <3>3. Place("path") = {"dir", "file1", "file2"}
      BY DEF Place
    <3> QED  BY <3>1, <3>2, <3>3, <2>1, <2>3 DEF Turned
  <2>9. call[r].alone => Placing(c, pluginDir'[n])
    BY <1>5, <2>7, <2>8
  <2>10. /\ c.at \notin {"none", "list", "answer"}
         /\ c.name = n /\ c.op = call[r].op /\ c.alone = call[r].alone
    BY <1>2, <1>5, <2>1 DEF Turned
  <2>11. \A m \in PluginNames : m # n => pluginDir'[m] = pluginDir[m]
    BY <1>3, <1>5 DEF PluginTypeOK
  <2>12. FileAsBefore(c)
    BY <1>5, <2>1, <2>3 DEF FileAsBefore, Turned, fileState
  <2> QED  BY <1>1, <1>2, <1>3, <1>4, <2>1, <2>2, <2>3, <2>5, <2>6, <2>9, <2>10, <2>11, <2>12, OneCallMoves DEF fileState, PluginTypeOK
<1>6. ASSUME EndsCall(r), Spoil({n}), UNCHANGED pluginDir  PROVE PluginsInv'
  <2>1. call' = [call EXCEPT ![r] = NoCall] /\ spoilt' = spoilt \cup {n} /\ UNCHANGED <<fileState, pluginDir, stopped>>
    BY <1>6 DEF copyDir, EndsCall, Spoil
  <2>2. FileAsBefore(NoCall)
    BY <2>1, NoCallOK DEF FileAsBefore, fileState
  <2> QED  BY <1>1, <1>2, <1>3, <1>4, <2>1, <2>2, NoCallOK, OneCallMoves DEF fileState, PluginTypeOK
<1> QED  BY <1>2, <1>5, <1>6 DEF copyDir, Stands

LEMMA RuntimeStep ==
  ASSUME PluginsInv, NEW r \in PluginRequests, ensurePluginRuntime(r)  PROVE PluginsInv'
<1>1. Busy(r) /\ call[r].at \in {"venv", "pip", "mark"}
  BY DEF ensurePluginRuntime, Stands, Busy
<1>2. PICK n : n = call[r].name
  OBVIOUS
<1>3. PluginTypeOK /\ CallOK(call[r]) /\ fileThere' = fileThere /\ n \in PluginNames /\ (~call[r].alone => n \in spoilt)
      /\ (call[r].alone => Placing(call[r], pluginDir[n])) /\ UNCHANGED <<fileState, spoilt, stopped>>
  BY <1>1, <1>2, BusyFacts DEF ensurePluginRuntime, fileState
<1>4. call[r].op \in {"dialog", "market"} /\ call[r].op # "enable" /\ ~call[r].enabling
  BY <1>1, <1>3 DEF CallOK, InstallSteps, EntrySteps, EndSteps
<1>5. ASSUME NEW at, TurnsTo(r, at), pluginDir'[n] \subseteq PluginFiles,
             pluginDir' = [pluginDir EXCEPT ![n] = pluginDir'[n]],
             at \in {"read", "pip", "mark", "undo"},
             call[r].alone /\ at = "read" => pluginDir'[n] = Ready(call[r].entry.from),
             call[r].alone /\ at \in {"pip", "mark"} => pluginDir'[n] = Place(call[r].entry.from) \cup {"venv"}
      PROVE  PluginsInv'
  <2>1. PICK c : call' = [call EXCEPT ![r] = c] /\ Turned(c, call[r], at)
    BY <1>3, <1>5, CallTurns
  <2>2. CallOK(c)
    BY <1>1, <1>3, <1>4, <1>5, <2>1 DEF CallOK, Turned, CallSteps, InstallSteps, EntrySteps, EndSteps
  <2>3. call[r].alone => Placing(c, pluginDir'[n])
    BY <1>4, <1>5, <2>1 DEF Placing, Turned, EntrySteps
  <2>4. Keeping(c)'
    BY <1>4, <1>5, <2>1 DEF Keeping, Turned, EntrySteps
  <2>5. pluginDir' \in [PluginNames -> SUBSET PluginFiles] /\ \A m \in PluginNames : m # n => pluginDir'[m] = pluginDir[m]
    BY <1>3, <1>5 DEF PluginTypeOK
  <2>6. c.at \notin {"none", "list", "answer"} /\ c.name = n /\ c.op = call[r].op /\ c.alone = call[r].alone
    BY <1>2, <1>5, <2>1 DEF Turned
  <2>7. FileAsBefore(c)
    BY <1>3, <1>5, <2>1 DEF FileAsBefore, Turned, fileState
  <2> QED  BY <1>1, <1>2, <1>3, <1>4, <2>1, <2>2, <2>3, <2>4, <2>5, <2>6, <2>7, OneCallMoves DEF fileState, PluginTypeOK
<1>6. pluginDir[n] \subseteq PluginFiles /\ {"venv", "ready"} \subseteq PluginFiles
  BY <1>3 DEF PluginTypeOK, PluginFiles, Ready
<1>7. \A from : "ready" \notin Place(from) /\ Ready(from) = Place(from) \cup {"venv"} \cup {"ready"}
  BY DEF Place, Ready
<1>8. ASSUME UNCHANGED pluginDir  PROVE pluginDir' = [pluginDir EXCEPT ![n] = pluginDir'[n]] /\ pluginDir'[n] = pluginDir[n]
  BY <1>3, <1>8 DEF PluginTypeOK
<1>9. ASSUME NEW held, pluginDir' = [pluginDir EXCEPT ![n] = held]
      PROVE  pluginDir' = [pluginDir EXCEPT ![n] = pluginDir'[n]] /\ pluginDir'[n] = held
  BY <1>3, <1>9 DEF PluginTypeOK
<1>10. CASE Stands(r, "venv") /\ "ready" \in pluginDir[n] /\ TurnsTo(r, "read") /\ UNCHANGED pluginDir
  <2>1. ~call[r].alone
    BY <1>3, <1>7, <1>10 DEF Placing, Stands
  <2> QED  BY <1>5, <1>6, <1>8, <1>10, <2>1
<1>11. CASE Stands(r, "venv") /\ pluginDir' = [pluginDir EXCEPT ![n] = pluginDir[n] \cup {"venv"}] /\ TurnsTo(r, "pip")
  <2>1. call[r].alone => pluginDir[n] = Place(call[r].entry.from)
    BY <1>3, <1>11 DEF Placing, Stands
  <2>2. pluginDir' = [pluginDir EXCEPT ![n] = pluginDir'[n]] /\ pluginDir'[n] = pluginDir[n] \cup {"venv"}
    BY <1>9, <1>11
  <2>3. pluginDir'[n] \subseteq PluginFiles
    BY <1>6, <2>2
  <2> QED  BY <1>5, <1>11, <2>1, <2>2, <2>3
<1>12. CASE Stands(r, "pip") /\ TurnsTo(r, "mark") /\ UNCHANGED pluginDir
  <2>1. call[r].alone => pluginDir[n] = Place(call[r].entry.from) \cup {"venv"}
    BY <1>3, <1>12 DEF Placing, Stands
  <2> QED  BY <1>5, <1>6, <1>8, <1>12, <2>1
<1>13. CASE /\ Stands(r, "pip")
            /\ pluginDir' = [pluginDir EXCEPT ![n] = pluginDir[n] \cup {"venv"}]
            /\ call' = [call EXCEPT ![r].retried = TRUE]
  <2>1. PICK d : d = call[r] /\ d = [f \in PluginCallFields |-> d[f]]
    BY <1>3 DEF CallOK
  <2>2. PICK c : c = [d EXCEPT !.retried = TRUE]
    OBVIOUS
  <2>3. call' = [call EXCEPT ![r] = c]
    BY <2>1, <2>2, <1>13
  <2>4. /\ c = [f \in PluginCallFields |-> c[f]] /\ c.at = "pip" /\ c.op = d.op /\ c.name = n /\ c.entry = d.entry
        /\ c.read = d.read /\ c.alone = d.alone /\ c.enabling = d.enabling /\ c.retried = TRUE
    BY <1>2, <1>13, <2>1, <2>2 DEF PluginCallFields, Stands
  <2>5. CallOK(c)
    BY <1>3, <1>4, <2>1, <2>4 DEF CallOK, CallSteps, InstallSteps, EntrySteps, EndSteps
  <2>6. pluginDir'[n] = pluginDir[n] \cup {"venv"} /\ pluginDir' \in [PluginNames -> SUBSET PluginFiles]
        /\ \A m \in PluginNames : m # n => pluginDir'[m] = pluginDir[m]
    BY <1>3, <1>6, <1>13 DEF PluginTypeOK
  <2>7. call[r].alone => pluginDir'[n] = Place(call[r].entry.from) \cup {"venv"}
    BY <1>3, <1>13, <2>6 DEF Placing, Stands
  <2>8. call[r].alone => Placing(c, pluginDir'[n])
    BY <2>1, <2>4, <2>7 DEF Placing, EntrySteps
  <2>9. Keeping(c)'
    BY <2>4 DEF Keeping, EntrySteps
  <2>10. c.at \notin {"none", "list", "answer"} /\ c.name = n /\ c.op = call[r].op /\ c.alone = call[r].alone
    BY <2>1, <2>4
  <2>11. FileAsBefore(c)
    BY <1>3, <2>4 DEF FileAsBefore, fileState
  <2> QED  BY <1>1, <1>2, <1>3, <1>4, <2>3, <2>5, <2>6, <2>8, <2>9, <2>10, <2>11, OneCallMoves DEF fileState, PluginTypeOK
<1>14. CASE Stands(r, "mark") /\ pluginDir' = [pluginDir EXCEPT ![n] = pluginDir[n] \cup {"ready"}] /\ TurnsTo(r, "read")
  <2>1. call[r].alone => pluginDir[n] = Place(call[r].entry.from) \cup {"venv"}
    BY <1>3, <1>14 DEF Placing, Stands
  <2>2. pluginDir' = [pluginDir EXCEPT ![n] = pluginDir'[n]] /\ pluginDir'[n] = pluginDir[n] \cup {"ready"}
    BY <1>9, <1>14
  <2>3. pluginDir'[n] \subseteq PluginFiles
    BY <1>6, <2>2
  <2>4. call[r].alone => pluginDir'[n] = Ready(call[r].entry.from)
    BY <2>1, <2>2, <1>7
  <2> QED  BY <1>5, <1>14, <2>2, <2>3, <2>4
<1>15. CASE TurnsTo(r, "undo") /\ UNCHANGED pluginDir
  BY <1>5, <1>6, <1>8, <1>15
<1> QED  BY <1>2, <1>10, <1>11, <1>12, <1>13, <1>14, <1>15 DEF ensurePluginRuntime

LEMMA UndoStep ==
  ASSUME PluginsInv, NEW r \in PluginRequests, RemoveUnready(r)  PROVE PluginsInv'
<1>1. Busy(r) /\ call[r].at = "undo"
  BY DEF RemoveUnready, Stands, Busy
<1>2. PICK n : n = call[r].name
  OBVIOUS
<1>3. PluginTypeOK /\ CallOK(call[r]) /\ fileThere' = fileThere /\ n \in PluginNames /\ (~call[r].alone => n \in spoilt)
  BY <1>1, <1>2, BusyFacts DEF RemoveUnready, fileState
<1>4. call[r].op # "enable"
  BY <1>1, <1>3 DEF CallOK, InstallSteps
<1>5. /\ call' = [call EXCEPT ![r] = NoCall] /\ pluginDir' = [pluginDir EXCEPT ![n] = {}]
      /\ spoilt' = (IF entries[n] # NoEntry THEN spoilt \cup {n} ELSE spoilt) /\ UNCHANGED <<fileState, stopped>>
  BY <1>2 DEF RemoveUnready, EndsCall, Spoil
<1>6. n \notin spoilt' => Whole(n)'
  BY <1>3, <1>5 DEF Whole, fileState, PluginTypeOK
<1>7. pluginDir' \in [PluginNames -> SUBSET PluginFiles] /\ \A m \in PluginNames : m # n => pluginDir'[m] = pluginDir[m]
  BY <1>3, <1>5 DEF PluginTypeOK
<1>8. spoilt' \in SUBSET PluginNames /\ spoilt \subseteq spoilt'
  BY <1>3, <1>5 DEF PluginTypeOK
<1>9. FileAsBefore(NoCall)
  BY <1>5, <1>8, NoCallOK DEF FileAsBefore, fileState
<1> QED  BY <1>1, <1>2, <1>3, <1>4, <1>5, <1>6, <1>7, <1>8, <1>9, NoCallOK, OneCallMoves DEF fileState, PluginTypeOK

LEMMA ReadTyped == PluginTypeOK => /\ readPluginsFile \in [PluginNames -> PluginEntries]
                                   /\ \A n \in PluginNames : readPluginsFile[n] = NoEntry \/ readPluginsFile[n] = entries[n]
<1>1. NoEntry \in PluginEntries
  BY DEF PluginEntries
<1> QED  BY <1>1 DEF PluginTypeOK, readPluginsFile, NoPlugins

LEMMA EntryGotStep ==
  ASSUME PluginsInv, NEW r \in PluginRequests, getPluginInstall(r)  PROVE PluginsInv'
<1>1. Busy(r) /\ call[r].at = "get"
  BY DEF getPluginInstall, Stands, Busy
<1>2. PICK n : n = call[r].name
  OBVIOUS
<1>3. PluginTypeOK /\ CallOK(call[r]) /\ fileThere' = fileThere /\ n \in PluginNames /\ (~call[r].alone => n \in spoilt)
      /\ (call[r].alone /\ n \notin spoilt => Keeping(call[r]))
      /\ UNCHANGED <<fileState, pluginDir, spoilt, stopped>>
  BY <1>1, <1>2, BusyFacts DEF getPluginInstall, fileState
<1>4. call[r].alone /\ n \notin spoilt => Whole(n)
  BY <1>1, <1>2, <1>3 DEF Keeping
<1>5. PICK found : found = readPluginsFile[n]
  OBVIOUS
<1>6. found \in PluginEntries /\ (found # NoEntry => found = entries[n])
  BY <1>3, <1>5, ReadTyped
<1>7. entriesOpen' \in BOOLEAN
  BY <1>3 DEF PluginTypeOK, fileState
<1>8. CASE found # NoEntry
  <2>1. PICK from : from = IF call[r].op = "delete" THEN "none" ELSE found.from
    OBVIOUS
  <2>2. call' = [call EXCEPT ![r].at = "read", ![r].entry.from = from]
    BY <1>2, <1>5, <1>8, <2>1 DEF getPluginInstall
  <2>3. PICK d : d = call[r] /\ d = [f \in PluginCallFields |-> d[f]]
    BY <1>3 DEF CallOK
  <2>4. PICK e : e = [d.entry EXCEPT !.from = from]
    OBVIOUS
  <2>5. PICK c : c = [d EXCEPT !.at = "read", !.entry = e]
    OBVIOUS
  <2>6. call' = [call EXCEPT ![r] = c]
    BY <2>2, <2>3, <2>4, <2>5
  <2>7. /\ c = [f \in PluginCallFields |-> c[f]] /\ c.at = "read" /\ c.op = d.op /\ c.name = n /\ c.entry = e
        /\ c.read = d.read /\ c.alone = d.alone /\ c.enabling = d.enabling /\ c.retried = d.retried
    BY <1>2, <2>3, <2>5 DEF PluginCallFields
  <2>8. found \in [from : {"path", "git"}, enabled : BOOLEAN]
    BY <1>6, <1>8 DEF PluginEntries
  <2>9. from \in {"none", "path", "git"} /\ (call[r].op # "delete" => from # "none" /\ from = found.from)
    BY <2>1, <2>8
  <2>10. e \in CallEntries /\ e.from = from /\ e.enabled = d.entry.enabled
    BY <2>3, <2>4, <2>9, <1>3 DEF CallOK, CallEntries
  <2>11. call[r].op = "delete" => e = NoEntry
    <3>1. call[r].op = "delete" => d.entry = [from |-> "none", enabled |-> FALSE]
      BY <1>3, <2>3 DEF CallOK, NoEntry, Entry
    <3> QED  BY <3>1, <2>1, <2>4 DEF NoEntry, Entry
  <2>12. call[r].op \in {"market", "enable", "delete"} /\ (call[r].op = "market" => call[r].enabling)
    BY <1>1, <1>3 DEF CallOK
  <2>13. CallOK(c)
    BY <1>1, <1>3, <2>3, <2>7, <2>9, <2>10, <2>11, <2>12 DEF CallOK, CallSteps, InstallSteps, EntrySteps, EndSteps
  <2>14. Placing(c, pluginDir[n])
    BY <2>3, <2>7, <2>12 DEF Placing, EntrySteps
  <2>15. call[r].op # "delete" => entries[n].from = c.entry.from
    BY <1>6, <1>8, <2>7, <2>9, <2>10
  <2>16. call[r].enabling => call[r].op # "delete"
    BY <1>3 DEF CallOK
  <2>17. Whole(n) => Keeping(c)
    BY <2>3, <2>7, <2>15, <2>16 DEF Keeping, EntrySteps
  <2> QED  BY <1>1, <1>2, <1>3, <1>4, <1>7, <2>3, <2>6, <2>7, <2>13, <2>14, <2>17, CallOnly DEF fileState
<1>9. CASE found = NoEntry /\ TurnsTo(r, "reload")
  <2>1. PICK c : call' = [call EXCEPT ![r] = c] /\ Turned(c, call[r], "reload")
    BY <1>3, <1>9, CallTurns
  <2>2. CallOK(c)
    BY <1>1, <1>3, <2>1 DEF CallOK, Turned, CallSteps, InstallSteps, EntrySteps, EndSteps
  <2>3. Placing(c, pluginDir[n])
    BY <2>1 DEF Placing, Turned, EntrySteps
  <2>4. Whole(n) => Keeping(c)
    BY <1>2, <2>1 DEF Keeping, Turned, EntrySteps
  <2>5. c.name = n /\ c.op = call[r].op /\ c.alone = call[r].alone
    BY <1>2, <2>1 DEF Turned
  <2>6. c.at \notin {"none", "list", "answer"}
    BY <2>1 DEF Turned
  <2>7. c.at \notin {"write", "remove"}
    BY <2>1 DEF Turned
  <2> QED  BY <1>1, <1>2, <1>3, <1>4, <1>7, <2>1, <2>2, <2>3, <2>4, <2>5, <2>6, <2>7, CallOnly DEF fileState
<1>10. CASE EndsCall(r)
  <2>1. call' = [call EXCEPT ![r] = NoCall]
    BY <1>10 DEF EndsCall
  <2> QED  BY <1>1, <1>2, <1>3, <1>4, <1>7, <2>1, NoCallOK, CallOnly DEF fileState
<1> QED  BY <1>2, <1>5, <1>8, <1>9, <1>10 DEF getPluginInstall

LEMMA EntryReadStep ==
  ASSUME PluginsInv, NEW r \in PluginRequests, ReadFile(r)  PROVE PluginsInv'
<1>1. Busy(r) /\ call[r].at = "read"
  BY DEF ReadFile, Stands, Busy
<1>2. PICK n : n = call[r].name
  OBVIOUS
<1>3. PluginTypeOK /\ CallOK(call[r]) /\ fileThere' = fileThere /\ entriesOpen' \in BOOLEAN
      /\ (call[r].alone => Placing(call[r], pluginDir[n])) /\ (call[r].alone /\ n \notin spoilt => Keeping(call[r]))
  BY <1>1, <1>2, BusyFacts DEF ReadFile, fileState, PluginTypeOK
<1>4. PICK read : read = readPluginsFile /\ read \in [PluginNames -> PluginEntries]
  BY <1>3, ReadTyped
<1>5. PICK d : d = call[r] /\ d = [f \in PluginCallFields |-> d[f]]
  BY <1>3 DEF CallOK
<1>6. PICK c : c = [d EXCEPT !.at = "open", !.read = read]
  OBVIOUS
<1>7. call' = [call EXCEPT ![r] = c]
  BY <1>4, <1>5, <1>6 DEF ReadFile
<1>8. /\ c = [f \in PluginCallFields |-> c[f]] /\ c.at = "open" /\ c.op = d.op /\ c.name = n /\ c.entry = d.entry
      /\ c.read = read /\ c.alone = d.alone /\ c.enabling = d.enabling /\ c.retried = d.retried
  BY <1>2, <1>5, <1>6 DEF PluginCallFields
<1>9. CallOK(c)
  <2>1. CallOK(d) /\ d.at = "read"
    BY <1>1, <1>3, <1>5
  <2>2. c.at = "open" /\ d.op \notin {"none", "open"}
    BY <2>1, <1>8 DEF CallOK
  <2>3. c.op = "enable" => c.entry.from # "none"
    BY <2>1, <1>8 DEF CallOK, EntrySteps
  <2>4. c.enabling => c.op = "market"
    BY <2>1, <1>8 DEF CallOK
  <2>5. c.at \in CallSteps /\ c.at \in EntrySteps /\ c.at \notin InstallSteps
    BY <2>2 DEF CallSteps, InstallSteps, EntrySteps, EndSteps
  <2>6. /\ c = [f \in PluginCallFields |-> c[f]] /\ c.read \in [PluginNames -> PluginEntries]
        /\ c.op = d.op /\ c.name = n /\ n = d.name /\ c.entry = d.entry /\ c.alone = d.alone
        /\ c.enabling = d.enabling /\ c.retried = d.retried
    BY <1>2, <1>4, <1>5, <1>8
  <2>7. d.name \in PluginNames
    BY <2>1 DEF CallOK
  <2> QED  BY <2>1, <2>2, <2>3, <2>4, <2>5, <2>6, <2>7 DEF CallOK
<1>10. Placing(d, pluginDir[n]) => Placing(c, pluginDir[n])
  BY <1>1, <1>5, <1>8 DEF Placing, EntrySteps
<1>11. Keeping(d) => Keeping(c)
  BY <1>1, <1>2, <1>5, <1>8 DEF Keeping, EntrySteps
<1>12. c.at \notin {"none", "list", "answer"} /\ c.name = n /\ c.op = call[r].op /\ c.alone = call[r].alone
  BY <1>5, <1>8
<1>13. c.at \notin {"write", "remove"}
  BY <1>8
<1> QED  BY <1>1, <1>2, <1>3, <1>5, <1>7, <1>9, <1>10, <1>11, <1>12, <1>13, CallOnly DEF ReadFile, fileState

LEMMA OpenStep ==
  ASSUME PluginsInv, NEW r \in PluginRequests, OpenFile(r)  PROVE PluginsInv'
<1>1. Busy(r) /\ call[r].at = "open"
  BY DEF OpenFile, Stands, Busy
<1>2. PICK n : n = call[r].name
  OBVIOUS
<1>3. PluginTypeOK /\ CallOK(call[r]) /\ fileThere' = TRUE /\ entriesOpen' \in BOOLEAN
      /\ (call[r].alone => Placing(call[r], pluginDir[n])) /\ (call[r].alone /\ n \notin spoilt => Keeping(call[r]))
  BY <1>1, <1>2, BusyFacts DEF OpenFile
<1>4. PICK c : call' = [call EXCEPT ![r] = c] /\ Turned(c, call[r], "write")
  BY <1>3, CallTurns DEF OpenFile
<1>5. CallOK(c)
  BY <1>1, <1>3, <1>4 DEF CallOK, Turned, CallSteps, InstallSteps, EntrySteps, EndSteps
<1>6. Placing(call[r], pluginDir[n]) => Placing(c, pluginDir[n])
  BY <1>1, <1>4 DEF Placing, EntrySteps, Turned
<1>7. Keeping(call[r]) => Keeping(c)
  BY <1>1, <1>2, <1>4 DEF Keeping, EntrySteps, Turned
<1>8. c.at \notin {"none", "list", "answer"} /\ c.name = n /\ c.op = call[r].op /\ c.alone = call[r].alone
  BY <1>2, <1>4 DEF Turned
<1> QED  BY <1>1, <1>2, <1>3, <1>4, <1>5, <1>6, <1>7, <1>8, CallOnly DEF OpenFile

\* The write of the whole list: of the plugins that it does not spoil it changes the
\* one it is about, to the entry of what stands in its directory.
LEMMA FileWrittenStep ==
  ASSUME PluginsInv, NEW r \in PluginRequests, writePluginsFile(r)  PROVE PluginsInv'
<1>1. Busy(r) /\ call[r].at = "write"
  BY DEF writePluginsFile, Stands, Busy
<1>2. PICK n : n = call[r].name
  OBVIOUS
<1>3. PICK d : d = call[r] /\ d = [f \in PluginCallFields |-> d[f]]
  BY <1>1, BusyFacts DEF CallOK
<1>4. PluginTypeOK /\ CallOK(d) /\ fileThere' = TRUE /\ n \in PluginNames /\ (~d.alone => n \in spoilt)
      /\ (d.alone => Placing(d, pluginDir[n])) /\ (d.alone /\ n \notin spoilt => Keeping(d))
  BY <1>1, <1>2, <1>3, BusyFacts DEF writePluginsFile
<1>5. /\ entriesOpen' = FALSE /\ entries' = [d.read EXCEPT ![n] = d.entry]
      /\ UNCHANGED <<migration, pluginRows, pluginDir, stopped>>
  BY <1>2, <1>3 DEF writePluginsFile
<1>6. PICK again : again = (d.op = "market" /\ d.entry.from = "git" /\ ~d.enabling) /\ again \in BOOLEAN
  OBVIOUS
<1>7. PICK at : at = IF d.op = "delete" THEN "remove" ELSE IF again THEN "get" ELSE "reload"
  OBVIOUS
<1>8. PICK c : c = [d EXCEPT !.at = at, !.enabling = again]
  OBVIOUS
<1>9. call' = [call EXCEPT ![r].at = at, ![r].enabling = again]
  BY <1>3, <1>6, <1>7, Zenon DEF writePluginsFile
<1>10. call' = [call EXCEPT ![r] = c]
  BY <1>3, <1>8, <1>9
<1>11. /\ c = [f \in PluginCallFields |-> c[f]] /\ c.at = at /\ c.op = d.op /\ c.name = n /\ c.entry = d.entry
       /\ c.read = d.read /\ c.alone = d.alone /\ c.enabling = again /\ c.retried = d.retried
  BY <1>2, <1>3, <1>8 DEF PluginCallFields
<1>12. CallOK(c)
  <2>1. d.at = "write" /\ d.op \notin {"none", "open"}
    BY <1>1, <1>3, <1>4 DEF CallOK
  <2>2. \/ d.op = "delete" /\ at = "remove" /\ ~again
        \/ d.op = "market" /\ at = "get" /\ again
        \/ d.op # "delete" /\ at = "reload" /\ ~again
    BY <1>6, <1>7
  <2>3. at \in {"remove", "get", "reload"} /\ (at = "remove" <=> d.op = "delete") /\ (at = "get" => d.op = "market" /\ again)
        /\ (again => d.op = "market" /\ at = "get")
    BY <2>2
  <2> QED  BY <2>1, <2>3, <1>4, <1>6, <1>11 DEF CallOK, CallSteps, InstallSteps, EntrySteps, EndSteps
<1>13. PICK fresh : fresh = (d.alone /\ ~d.enabling /\ d.op \in {"dialog", "market"}) /\ fresh \in BOOLEAN
  OBVIOUS
<1>14. spoilt' = (IF fresh THEN spoilt \ {n} ELSE spoilt) \cup EntriesUndone(d.read, {n})
  BY <1>2, <1>3, <1>13 DEF writePluginsFile
<1>15. /\ spoilt' \in SUBSET PluginNames
       /\ \A m \in PluginNames : m # n => (m \in spoilt => m \in spoilt')
       /\ n \in spoilt' <=> n \in spoilt /\ ~fresh
  BY <1>4, <1>14 DEF EntriesUndone, PluginTypeOK
<1>16. d.entry \in PluginEntries /\ (d.op # "delete" => d.entry # NoEntry)
  <2>1. d.op \in {"dialog", "market", "enable", "delete"} /\ d.entry \in CallEntries /\ (d.op # "delete" => d.entry.from # "none")
    BY <1>1, <1>3, <1>4 DEF CallOK, EntrySteps
  <2>2. d.op = "delete" => d.entry = NoEntry
    BY <1>4 DEF CallOK
  <2>3. d.op # "delete" => d.entry \in [from : {"path", "git"}, enabled : BOOLEAN] /\ d.entry # NoEntry
    BY <2>1 DEF CallEntries, NoEntry, Entry
  <2> QED  BY <2>2, <2>3 DEF PluginEntries
<1>17. entries' \in [PluginNames -> PluginEntries] /\ entries'[n] = d.entry
       /\ \A m \in PluginNames : m # n => entries'[m] = d.read[m]
  BY <1>4, <1>5, <1>16 DEF CallOK
<1>18. \A m \in PluginNames : m # n /\ m \notin spoilt' => entries'[m] = entries[m]
  BY <1>14, <1>17 DEF EntriesUndone
<1>19. fresh => pluginDir[n] = Ready(d.entry.from) /\ d.op # "delete"
  BY <1>1, <1>3, <1>4, <1>13 DEF Placing, EntrySteps
<1>20. ~fresh /\ n \notin spoilt /\ d.op # "delete" =>
         Whole(n) /\ entries[n].from = d.entry.from /\ d.alone
  <2>1. ~fresh /\ n \notin spoilt /\ d.op # "delete" => d.alone /\ (d.op = "enable" \/ d.enabling)
    BY <1>1, <1>3, <1>4, <1>13 DEF CallOK
  <2> QED  BY <2>1, <1>1, <1>2, <1>3, <1>4 DEF Keeping, EntrySteps
<1>21. ~fresh /\ n \notin spoilt /\ d.op # "delete" => entries[n] # NoEntry /\ d.entry # NoEntry
  <2>1. d.op # "delete" => d.entry.from # "none"
    BY <1>1, <1>3, <1>4 DEF CallOK, EntrySteps
  <2> QED  BY <2>1, <1>16, <1>20 DEF NoEntry, Entry
<1>22. n \notin spoilt' /\ d.op # "delete" => Whole(n)'
  BY <1>5, <1>15, <1>16, <1>17, <1>19, <1>20, <1>21 DEF Whole
<1>23. d.op = "delete" => entries'[n] = NoEntry
  BY <1>4, <1>17 DEF CallOK
<1>24. Placing(c, pluginDir'[n])
  BY <1>7, <1>11 DEF Placing, EntrySteps
<1>25. n \notin spoilt' => Keeping(c)'
  <2>1. d.op = "delete" <=> c.at = "remove"
    BY <1>7, <1>11
  <2>2. c.at \notin EntrySteps
    BY <1>7, <1>11 DEF EntrySteps
  <2> QED  BY <2>1, <2>2, <1>11, <1>22, <1>23, <1>7 DEF Keeping
<1>26. d.op = "enable" => ~fresh
  BY <1>13
<1>27. c.at \notin {"none", "list", "answer"} /\ c.name = n /\ c.op = call[r].op /\ c.alone = call[r].alone
  BY <1>3, <1>7, <1>11
<1>28. ~call[r].alone => n \in spoilt'
  BY <1>3, <1>4, <1>13, <1>15
<1>29. call[r].op = "enable" /\ n \notin spoilt' =>
         n \notin spoilt /\ entries'[n].from = entries[n].from /\ (entries'[n] = NoEntry <=> entries[n] = NoEntry)
  BY <1>3, <1>15, <1>17, <1>20, <1>21, <1>26
<1>30. entriesOpen' \in BOOLEAN /\ pluginDir' \in [PluginNames -> SUBSET PluginFiles] /\ UNCHANGED pluginDir
  BY <1>4, <1>5 DEF PluginTypeOK
<1> QED  BY <1>1, <1>2, <1>4, <1>5, <1>10, <1>12, <1>15, <1>17, <1>18, <1>24, <1>25, <1>27, <1>28, <1>29, <1>30, OneCallMoves

\* A write that is refused spoils what it empties, and what an installation put down.
LEMMA WriteFailsStep ==
  ASSUME PluginsInv, NEW r \in PluginRequests, WriteFails(r)  PROVE PluginsInv'
<1>1. Busy(r) /\ call[r].at \in EntrySteps
  BY DEF WriteFails, Stands, Busy, EntrySteps
<1>2. PICK n : n = call[r].name
  OBVIOUS
<1>3. PluginTypeOK /\ CallOK(call[r]) /\ n \in PluginNames /\ (~call[r].alone => n \in spoilt)
      /\ (call[r].alone /\ n \notin spoilt => Keeping(call[r]))
  BY <1>1, <1>2, BusyFacts
<1>4. PICK installs : installs = (call[r].op \in {"dialog", "market"} /\ ~call[r].enabling) /\ installs \in BOOLEAN
  OBVIOUS
<1>5. /\ call' = [call EXCEPT ![r] = NoCall]
      /\ UNCHANGED <<fileThere, migration, pluginRows, pluginDir, stopped>>
      /\ spoilt' = spoilt \cup ({m \in PluginNames : entries'[m] # entries[m]} \cup IF installs THEN {n} ELSE {})
  BY <1>2, <1>4 DEF WriteFails, EndsCall, Spoil
<1>6. \/ call[r].at = "open" /\ entries' = entries /\ entriesOpen' = entriesOpen
      \/ call[r].at = "write" /\ entriesOpen' = FALSE /\ entries' = readPluginsFile
  BY DEF WriteFails, Stands
<1>7. entries' \in [PluginNames -> PluginEntries] /\ entriesOpen' \in BOOLEAN
  BY <1>3, <1>6, ReadTyped DEF PluginTypeOK
<1>8. spoilt' \in SUBSET PluginNames /\ spoilt \subseteq spoilt' /\ pluginDir' \in [PluginNames -> SUBSET PluginFiles]
      /\ \A m \in PluginNames : m \notin spoilt' => entries'[m] = entries[m]
  BY <1>3, <1>5 DEF PluginTypeOK
<1>9. call[r].at = "write" => fileThere' = TRUE
  BY <1>1, <1>5, BusyFacts
<1>10. fileThere' = TRUE \/ FileAsBefore(NoCall)
  BY <1>5, <1>6, <1>8, <1>9, NoCallOK DEF FileAsBefore
<1>11. n \notin spoilt' => n \notin spoilt /\ ~installs /\ entries'[n] = entries[n]
  BY <1>3, <1>5
<1>12. call[r].alone /\ n \notin spoilt' => Whole(n)'
  <2> SUFFICES ASSUME call[r].alone, n \notin spoilt'  PROVE Whole(n)'
    OBVIOUS
  <2>1. call[r].op \in {"enable", "delete"} \/ call[r].enabling
    BY <1>1, <1>3, <1>4, <1>11 DEF CallOK, EntrySteps
  <2>2. Whole(n)
    BY <2>1, <1>1, <1>2, <1>3, <1>11 DEF Keeping
  <2> QED  BY <2>2, <1>5, <1>11 DEF Whole
<1>13. PICK c : c = NoCall /\ CallOK(c) /\ c.at = "none"
  BY NoCallOK
<1>14. \A m \in PluginNames : m # n =>
         /\ pluginDir'[m] = pluginDir[m]
         /\ m \in spoilt => m \in spoilt'
         /\ m \notin spoilt' => entries'[m] = entries[m]
  BY <1>5, <1>8
<1>15. call' = [call EXCEPT ![r] = c] /\ UNCHANGED <<migration, pluginRows, stopped>> /\ pluginDir' = pluginDir
  BY <1>5, <1>13
<1>16. fileThere' = TRUE \/ FileAsBefore(c)
  BY <1>10, <1>13
<1>17. spoilt' \in SUBSET PluginNames /\ pluginDir' \in [PluginNames -> SUBSET PluginFiles]
       /\ (~call[r].alone => n \in spoilt')
       /\ (n \notin spoilt' => n \notin spoilt /\ entries'[n] = entries[n])
  BY <1>3, <1>8, <1>11
<1>18. CallOK(c) /\ c.at \in {"none", "list", "answer"}
  BY <1>13
<1>19. call[r].op = "enable" =>
         /\ pluginDir' = pluginDir
         /\ n \notin spoilt' => n \notin spoilt /\ entries'[n].from = entries[n].from
                               /\ (entries'[n] = NoEntry <=> entries[n] = NoEntry)
  BY <1>15, <1>17
<1> HIDE <1>13
<1> QED  BY <1>1, <1>2, <1>7, <1>12, <1>14, <1>15, <1>16, <1>17, <1>18, <1>19, OneCallMoves, ZenonT(60)

LEMMA PluginRemovedStep ==
  ASSUME PluginsInv, NEW r \in PluginRequests, RemoveUninstalled(r)  PROVE PluginsInv'
<1>1. Busy(r) /\ call[r].at = "remove"
  BY DEF RemoveUninstalled, Stands, Busy
<1>2. PICK n : n = call[r].name
  OBVIOUS
<1>3. PluginTypeOK /\ CallOK(call[r]) /\ fileThere' = TRUE /\ n \in PluginNames /\ (~call[r].alone => n \in spoilt)
      /\ (call[r].alone /\ n \notin spoilt => Keeping(call[r]))
  BY <1>1, <1>2, BusyFacts DEF RemoveUninstalled, fileState
<1>4. call[r].op = "delete"
  BY <1>1, <1>3 DEF CallOK
<1>5. /\ pluginDir' = [pluginDir EXCEPT ![n] = {}] /\ TurnsTo(r, "reload") /\ UNCHANGED <<fileState, stopped>>
      /\ spoilt' = IF call[r].alone /\ entries[n] = NoEntry THEN spoilt \ {n} ELSE spoilt
  BY <1>2 DEF RemoveUninstalled
<1>6. PICK c : call' = [call EXCEPT ![r] = c] /\ Turned(c, call[r], "reload")
  BY <1>3, <1>5, CallTurns
<1>7. CallOK(c)
  BY <1>1, <1>3, <1>6 DEF CallOK, Turned, CallSteps, InstallSteps, EntrySteps, EndSteps
<1>8. n \notin spoilt' => entries[n] = NoEntry
  BY <1>1, <1>2, <1>3, <1>5 DEF Keeping
<1>9. n \notin spoilt' => Whole(n)'
  BY <1>3, <1>5, <1>8 DEF Whole, fileState, PluginTypeOK
<1>10. Placing(c, pluginDir'[n]) /\ (n \notin spoilt' => Keeping(c)')
  BY <1>2, <1>6, <1>9 DEF Placing, Keeping, Turned, EntrySteps
<1>11. pluginDir' \in [PluginNames -> SUBSET PluginFiles] /\ \A m \in PluginNames : m # n => pluginDir'[m] = pluginDir[m]
  BY <1>3, <1>5 DEF PluginTypeOK
<1>12. c.at \notin {"none", "list", "answer"} /\ c.name = n /\ c.op = call[r].op /\ c.alone = call[r].alone
  BY <1>2, <1>6 DEF Turned
<1>13. spoilt' \in SUBSET PluginNames /\ (\A m \in PluginNames : m # n => (m \in spoilt => m \in spoilt')) /\ (~call[r].alone => n \in spoilt')
  BY <1>3, <1>5 DEF PluginTypeOK
<1> QED  BY <1>1, <1>2, <1>3, <1>4, <1>5, <1>6, <1>7, <1>10, <1>11, <1>12, <1>13, OneCallMoves DEF fileState, PluginTypeOK

LEMMA ReloadStep ==
  ASSUME PluginsInv, NEW r \in PluginRequests, ReloadAll(r)  PROVE PluginsInv'
<1>1. Busy(r) /\ call[r].at = "reload"
  BY DEF ReloadAll, Stands, Busy
<1>2. PICK n : n = call[r].name
  OBVIOUS
<1>3. PluginTypeOK /\ CallOK(call[r]) /\ fileThere' = fileThere /\ entriesOpen' \in BOOLEAN
      /\ (call[r].alone /\ n \notin spoilt => Whole(n))
  BY <1>1, <1>2, BusyFacts DEF ReloadAll, fileState, Keeping, PluginTypeOK
<1>4. CASE TurnsTo(r, "list")
  <2>1. PICK c : call' = [call EXCEPT ![r] = c] /\ Turned(c, call[r], "list")
    BY <1>3, <1>4, CallTurns
  <2>2. CallOK(c) /\ c.at = "list"
    BY <2>1, <1>1, <1>3 DEF CallOK, Turned, CallSteps, InstallSteps, EntrySteps, EndSteps
  <2> QED  BY <1>1, <1>2, <1>3, <2>1, <2>2, CallOnly DEF ReloadAll, fileState
<1>5. CASE EndsCall(r)
  BY <1>1, <1>2, <1>3, <1>5, NoCallOK, CallOnly DEF EndsCall, ReloadAll, fileState
<1> QED  BY <1>4, <1>5 DEF ReloadAll

\* Requests that only read: the list, and what is shown of it.
LEMMA IdleCalls ==
  ASSUME PluginsInv, NEW r \in PluginRequests, NEW c, ~Busy(r), call' = [call EXCEPT ![r] = c], CallOK(c),
         c.at \in {"none", "list", "answer"}, UNCHANGED <<fileState, pluginDir, spoilt, stopped>>
  PROVE  PluginsInv'
<1>1. PluginTypeOK /\ DOMAIN call' = PluginRequests /\ call'[r] = c /\ \A q \in PluginRequests : q # r => call'[q] = call[q]
  BY DEF PluginsInv, PluginTypeOK
<1>2. \A q \in PluginRequests : CallOK(call'[q])
  BY <1>1 DEF PluginTypeOK
<1>3. \A q \in PluginRequests : CallOK(call[q])'
  BY <1>2 DEF CallOK
<1>4. PluginTypeOK'
  BY <1>1, <1>3 DEF PluginTypeOK, fileState
<1>5. \A q \in PluginRequests : (Busy(q)' <=> Busy(q)) /\ (Busy(q) => call'[q] = call[q])
  BY <1>1 DEF Busy
<1>6. MeetingsAreKnown'
  BY <1>5 DEF PluginsInv, MeetingsAreKnown
<1>7. \A n : Whole(n)' <=> Whole(n)
  BY DEF Whole, fileState
<1>8. Progress'
  BY <1>5, <1>7 DEF PluginsInv, Progress, Keeping, fileState
<1>9. Migrating'
  BY <1>5 DEF PluginsInv, Migrating, RowsDir, fileState
<1>10. AtRestWhole'
  BY <1>5, <1>7 DEF PluginsInv, AtRestWhole, NoneAtWork, fileState
<1> QED  BY <1>4, <1>6, <1>8, <1>9, <1>10 DEF PluginsInv

LEMMA ListingSteps ==
  ASSUME PluginsInv, NEW r \in PluginRequests, OpenPluginsScreen(r) \/ listPluginInstalls(r) \/ loadPlugins(r)
  PROVE  PluginsInv'
<1>1. PluginTypeOK /\ CallOK(call[r]) /\ CallOK(NoCall)
  BY NoCallOK DEF PluginsInv, PluginTypeOK
<1>2. CASE OpenPluginsScreen(r)
  <2>1. call[r].at = "none"
    BY <1>2 DEF OpenPluginsScreen, Calls
  <2>2. PICK d : d = call[r] /\ d = [f \in PluginCallFields |-> d[f]]
    BY <1>1 DEF CallOK
  <2>3. PICK c : c = [d EXCEPT !.at = "list", !.op = "open"]
    OBVIOUS
  <2>4. call' = [call EXCEPT ![r] = c]
    BY <1>2, <2>2, <2>3 DEF OpenPluginsScreen
  <2>5. /\ c = [f \in PluginCallFields |-> c[f]] /\ c.at = "list" /\ c.op = "open" /\ c.name = d.name /\ c.entry = d.entry
        /\ c.read = d.read /\ c.alone = d.alone /\ c.enabling = d.enabling /\ c.retried = d.retried
    BY <2>2, <2>3 DEF PluginCallFields
  <2>6. CallOK(d) /\ ~d.enabling
    BY <1>1, <2>1, <2>2 DEF CallOK
  <2>7. CallOK(c)
    BY <2>5, <2>6 DEF CallOK, CallSteps, InstallSteps, EntrySteps, EndSteps
  <2>8. ~Busy(r) /\ UNCHANGED <<fileState, pluginDir, spoilt, stopped>>
    BY <1>2, <2>1 DEF Busy, OpenPluginsScreen
  <2> QED  BY <2>4, <2>5, <2>7, <2>8, IdleCalls
<1>3. CASE listPluginInstalls(r)
  <2>1. call[r].at = "list" /\ ~Busy(r) /\ UNCHANGED <<fileState, pluginDir, spoilt, stopped>>
    BY <1>3 DEF listPluginInstalls, Stands, Busy
  <2>2. PICK d : d = call[r] /\ d = [f \in PluginCallFields |-> d[f]]
    BY <1>1 DEF CallOK
  <2>3. PICK read : read = readPluginsFile /\ read \in [PluginNames -> PluginEntries]
    BY <1>1, ReadTyped
  <2>4. PICK c : c = [d EXCEPT !.at = "answer", !.read = read]
    OBVIOUS
  <2>5. call' = [call EXCEPT ![r] = c]
    BY <1>3, <2>2, <2>3, <2>4 DEF listPluginInstalls
  <2>6. /\ c = [f \in PluginCallFields |-> c[f]] /\ c.at = "answer" /\ c.op = d.op /\ c.name = d.name /\ c.entry = d.entry
        /\ c.read = read /\ c.alone = d.alone /\ c.enabling = d.enabling /\ c.retried = d.retried
    BY <2>2, <2>4 DEF PluginCallFields
  <2>7. CallOK(d) /\ d.at = "list"
    BY <1>1, <2>1, <2>2
  <2>8. CallOK(c)
    BY <2>3, <2>6, <2>7 DEF CallOK, CallSteps, InstallSteps, EntrySteps, EndSteps
  <2> QED  BY <2>1, <2>5, <2>6, <2>8, IdleCalls
<1>4. CASE loadPlugins(r)
  <2>1. ~Busy(r) /\ call' = [call EXCEPT ![r] = NoCall] /\ UNCHANGED <<fileState, pluginDir, spoilt, stopped>>
    BY <1>4 DEF loadPlugins, Stands, Busy, EndsCall
  <2> QED  BY <2>1, NoCallOK, IdleCalls
<1> QED  BY <1>2, <1>3, <1>4

\* A request begins.  If it meets another at the same plugin both know it.
LEMMA PluginBeginStep ==
  ASSUME PluginsInv, NEW r \in PluginRequests, NEW op \in {"dialog", "market", "enable", "delete"},
         NEW n \in PluginNames, NEW entry \in CallEntries, BeginChange(r, op, n, entry),
         op = "delete" => entry = NoEntry, op \in {"dialog", "market"} => entry.from # "none"
  PROVE  PluginsInv'
<1> DEFINE others == {q \in Changing : call[q].name = n /\ ~(op = "enable" /\ call[q].op = "enable")}
<1>1. PluginTypeOK /\ migration = "done" /\ migration' = "done" /\ call[r] = NoCall
  BY DEF PluginsInv, BeginChange, fileState, Migrating
<1>2. PICK at : at = FirstStep(op, entry.from)
  OBVIOUS
<1>3. PICK alone : alone = (others = {}) /\ alone \in BOOLEAN
  OBVIOUS
<1>4. PICK c : c = [NoCall EXCEPT !.at = at, !.op = op, !.name = n, !.entry = entry, !.alone = alone]
  OBVIOUS
<1>5. /\ call' = [q \in PluginRequests |-> IF q = r THEN c
                                          ELSE IF q \in others THEN [call[q] EXCEPT !.alone = FALSE] ELSE call[q]]
      /\ spoilt' = (IF alone THEN spoilt ELSE spoilt \cup {n})
      /\ UNCHANGED <<fileState, pluginDir, stopped>>
  BY <1>2, <1>3, <1>4 DEF BeginChange, Spoil
<1>6. /\ c = [f \in PluginCallFields |-> c[f]] /\ c.at = at /\ c.op = op /\ c.name = n /\ c.entry = entry /\ c.alone = alone
      /\ c.read = NoPlugins /\ c.retried = FALSE /\ c.enabling = FALSE
  BY <1>4 DEF PluginCallFields, NoCall
<1>7. at \in {"get", "clone", "clear"} /\ (at = "get" <=> op \in {"enable", "delete"})
  BY <1>2 DEF FirstStep
<1>8. CallOK(c)
  <2>1. NoPlugins \in [PluginNames -> PluginEntries]
    BY DEF NoPlugins, PluginEntries
  <2> QED  BY <1>3, <1>6, <1>7, <2>1 DEF CallOK, CallSteps, InstallSteps, EntrySteps, EndSteps
<1>9. \A q \in PluginRequests : Busy(q) <=> q \in Changing
  BY DEF Busy, Changing, Calls
<1>10. ~Busy(r) /\ r \notin others
  BY <1>1, <1>9 DEF Busy, NoCall
<1>11. ASSUME NEW q \in PluginRequests, q # r
       PROVE  /\ CallOK(call'[q])
              /\ call'[q].at = call[q].at /\ call'[q].name = call[q].name /\ call'[q].op = call[q].op
              /\ call'[q].alone = (call[q].alone /\ q \notin others)
              /\ call'[q].entry = call[q].entry /\ call'[q].enabling = call[q].enabling
              /\ q \notin others => call'[q] = call[q]
  <2>1. PICK d : d = call[q] /\ CallOK(d) /\ d = [f \in PluginCallFields |-> d[f]]
    BY <1>1 DEF PluginTypeOK, CallOK
  <2>2. CASE q \notin others
    BY <2>1, <2>2, <1>5, <1>11 DEF CallOK
  <2>3. CASE q \in others
    <3>1. PICK e : e = [d EXCEPT !.alone = FALSE]
      OBVIOUS
    <3>2. call'[q] = e
      BY <2>1, <2>3, <3>1, <1>5, <1>11
    <3>3. /\ e = [f \in PluginCallFields |-> e[f]] /\ e.at = d.at /\ e.op = d.op /\ e.name = d.name /\ e.entry = d.entry
          /\ e.read = d.read /\ e.alone = FALSE /\ e.enabling = d.enabling /\ e.retried = d.retried
      BY <2>1, <3>1 DEF PluginCallFields
    <3>4. CallOK(e)
      BY <2>1, <3>3 DEF CallOK
    <3> QED  BY <2>1, <2>3, <3>2, <3>3, <3>4
  <2> QED  BY <2>2, <2>3
<1>12. call'[r] = c /\ DOMAIN call' = PluginRequests
  BY <1>5
<1>13. PluginTypeOK'
  <2>1. \A q \in PluginRequests : CallOK(call'[q])
    BY <1>8, <1>11, <1>12
  <2>2. \A q \in PluginRequests : CallOK(call[q])'
    BY <2>1 DEF CallOK
  <2> QED  BY <1>1, <1>5, <1>12, <2>2 DEF PluginTypeOK, fileState
<1>14. \A q \in PluginRequests : q # r => (Busy(q)' <=> Busy(q))
  BY <1>11 DEF Busy
<1>15. Busy(r)'
  BY <1>6, <1>7, <1>12 DEF Busy
<1>16. \A q \in PluginRequests : Busy(q) /\ call[q].name = n /\ q \notin others => op = "enable" /\ call[q].op = "enable"
  BY <1>9
<1>17. \A q \in others : q \in PluginRequests /\ Busy(q) /\ call[q].name = n
  BY <1>9 DEF Changing, Calls
<1>18. MeetingsAreKnown'
  <2>1. ASSUME NEW q \in PluginRequests, Busy(q)', ~call'[q].alone  PROVE call'[q].name \in spoilt'
    <3>1. CASE q = r
      BY <2>1, <3>1, <1>5, <1>6, <1>12
    <3>2. CASE q # r /\ q \in others
      <4>1. others # {}
        BY <3>2
      <4>2. ~alone
        BY <4>1, <1>3
      <4>3. call'[q].name = n /\ spoilt' = spoilt \cup {n}
        BY <3>2, <4>2, <1>5, <1>11, <1>17
      <4> QED  BY <4>3
    <3>3. CASE q # r /\ q \notin others
      <4>1. call[q].name \in spoilt
        BY <2>1, <3>3, <1>11, <1>14 DEF PluginsInv, MeetingsAreKnown
      <4> QED  BY <4>1, <3>3, <1>5, <1>11
    <3> QED  BY <3>1, <3>2, <3>3
  <2>2. ASSUME NEW p \in PluginRequests, NEW q \in PluginRequests, p # q, Busy(p)', Busy(q)',
               call'[p].name = call'[q].name, ~(call'[p].op = "enable" /\ call'[q].op = "enable")
        PROVE  ~call'[p].alone
    <3>1. CASE p # r /\ q # r
      <4>1. ~call[p].alone
        BY <2>2, <3>1, <1>11, <1>14 DEF PluginsInv, MeetingsAreKnown
      <4> QED  BY <4>1, <3>1, <1>11
    <3>2. CASE p = r /\ q # r
      <4>1. Busy(q) /\ call[q].name = n /\ ~(op = "enable" /\ call[q].op = "enable")
        BY <2>2, <3>2, <1>6, <1>11, <1>12, <1>14
      <4>2. q \in others
        BY <4>1, <1>9
      <4> QED  BY <4>2, <3>2, <1>3, <1>6, <1>12
    <3>3. CASE q = r /\ p # r
      <4>1. Busy(p) /\ call[p].name = n /\ ~(op = "enable" /\ call[p].op = "enable")
        BY <2>2, <3>3, <1>6, <1>11, <1>12, <1>14
      <4>2. p \in others
        BY <4>1, <1>9
      <4> QED  BY <4>2, <3>3, <1>11
    <3> QED  BY <2>2, <3>1, <3>2, <3>3
  <2> QED  BY <2>1, <2>2 DEF MeetingsAreKnown
<1>19. \A m : Whole(m)' <=> Whole(m)
  BY <1>5 DEF Whole, fileState
<1>20. ASSUME alone, n \notin spoilt  PROVE Whole(n)
  <2>1. others = {}
    BY <1>3, <1>20
  <2>2. CASE NoneAtWork(n)
    BY <2>2, <1>1, <1>20 DEF PluginsInv, AtRestWhole
  <2>3. ASSUME NEW q \in PluginRequests, Busy(q), call[q].name = n  PROVE Whole(n)
    <3>1. call[q].op = "enable" /\ CallOK(call[q])
      BY <2>1, <2>3, <1>1, <1>16 DEF PluginTypeOK
    <3>2. call[q].alone
      BY <2>3, <1>20 DEF PluginsInv, MeetingsAreKnown
    <3>3. Keeping(call[q])
      BY <2>3, <3>2, <1>20 DEF PluginsInv, Progress
    <3>4. call[q].at \in {"get", "reload"} \cup EntrySteps
      BY <2>3, <3>1 DEF Busy, CallOK, CallSteps, EndSteps, InstallSteps
    <3> QED  BY <2>3, <3>1, <3>3, <3>4 DEF Keeping
  <2> QED  BY <2>2, <2>3 DEF NoneAtWork
<1>21. Progress'
  <2> SUFFICES ASSUME NEW q \in PluginRequests, Busy(q)', call'[q].alone
               PROVE  /\ Placing(call'[q], pluginDir'[call'[q].name])
                      /\ call'[q].name \notin spoilt' => Keeping(call[q])'
    BY DEF Progress
  <2>1. CASE q = r
    <3>1. Placing(c, pluginDir'[n])
      BY <1>6, <1>7 DEF Placing, EntrySteps
    <3>2. n \notin spoilt' => Keeping(c)'
      <4>1. n \notin spoilt' => Whole(n)'
        BY <2>1, <1>5, <1>6, <1>12, <1>19, <1>20
      <4> QED  BY <4>1, <1>6, <1>7 DEF Keeping, EntrySteps
    <3> QED  BY <2>1, <3>1, <3>2, <1>6, <1>12
  <2>2. CASE q # r
    <3>1. call'[q] = call[q] /\ Busy(q) /\ call[q].alone
      BY <2>2, <1>11, <1>14
    <3>2. Placing(call[q], pluginDir[call[q].name]) /\ (call[q].name \notin spoilt => Keeping(call[q]))
      BY <3>1 DEF PluginsInv, Progress
    <3>3. pluginDir' = pluginDir /\ entries' = entries /\ spoilt \subseteq spoilt'
      BY <1>5 DEF fileState
    <3>4. Keeping(call[q]) => Keeping(call[q])'
      BY <3>1, <3>3, <1>19 DEF Keeping
    <3> QED  BY <3>1, <3>2, <3>3, <3>4
  <2> QED  BY <2>1, <2>2
<1>22. Migrating'
  <2>1. Migrating /\ migration' = "done" /\ UNCHANGED <<entries, fileThere, pluginRows>> /\ spoilt \subseteq spoilt'
    BY <1>1, <1>5 DEF PluginsInv, fileState
  <2>2. c.at \notin {"write", "remove"}
    BY <1>6, <1>7
  <2>3. ASSUME NEW q \in PluginRequests, call'[q].at \in {"write", "remove"}  PROVE fileThere
    BY <2>1, <2>2, <2>3, <1>1, <1>11, <1>12 DEF Migrating
  <2> QED  BY <2>1, <2>3, <1>1 DEF Migrating
<1>23. AtRestWhole'
  <2> SUFFICES ASSUME NEW m \in PluginNames, m \notin spoilt', NoneAtWork(m)'  PROVE Whole(m)
    BY <1>19 DEF AtRestWhole
  <2>1. m # n
    BY <1>6, <1>12, <1>15 DEF NoneAtWork
  <2>2. NoneAtWork(m)
    BY <2>1, <1>10, <1>11, <1>14 DEF NoneAtWork
  <2> QED  BY <2>1, <2>2, <1>1, <1>5 DEF PluginsInv, AtRestWhole
<1> QED  BY <1>13, <1>18, <1>21, <1>22, <1>23 DEF PluginsInv

LEMMA MigrationStep ==
  ASSUME PluginsInv, migratePluginsFromDb  PROVE PluginsInv'
<1>1. PluginTypeOK /\ UNCHANGED <<call, pluginRows, pluginDir, stopped>> /\ migration # "done"
  BY DEF PluginsInv, migratePluginsFromDb
<1>2. \A r \in PluginRequests : ~Busy(r) /\ ~Busy(r)'
  BY <1>1 DEF PluginsInv, Migrating, Busy
<1>3. MeetingsAreKnown' /\ Progress'
  BY <1>2 DEF MeetingsAreKnown, Progress
<1>4. \A r \in PluginRequests : CallOK(call[r])'
  BY <1>1 DEF PluginTypeOK, CallOK
<1>5. \A n \in PluginNames : RowsDir(n)' <=> RowsDir(n)
  BY <1>1 DEF RowsDir
<1>6. \A n : Whole(n)' <=> pluginDir[n] = IF entries'[n] = NoEntry THEN {} ELSE Ready(entries'[n].from)
  BY <1>1 DEF Whole
<1>7. Migrating /\ AtRestWhole
  BY DEF PluginsInv
<1>8. CASE migration = "due"
  <2>1. UNCHANGED <<entries, entriesOpen, fileThere, spoilt>> /\ migration' = IF fileThere THEN "done" ELSE "query"
    BY <1>8 DEF migratePluginsFromDb
  <2>2. PluginTypeOK'
    BY <1>1, <1>4, <2>1 DEF PluginTypeOK
  <2>3. Migrating'
    BY <1>1, <1>2, <1>5, <1>7, <1>8, <2>1 DEF Migrating
  <2>4. AtRestWhole'
    BY <1>2, <1>1, <1>6, <1>7, <1>8, <2>1 DEF AtRestWhole, NoneAtWork, Whole
  <2> QED  BY <1>3, <2>2, <2>3, <2>4 DEF PluginsInv
<1>9. CASE migration = "query" /\ migration' = "write"
  <2>1. UNCHANGED <<entries, spoilt>> /\ entriesOpen' = TRUE /\ fileThere' = TRUE
    BY <1>9 DEF migratePluginsFromDb
  <2>2. PluginTypeOK'
    BY <1>1, <1>4, <1>9, <2>1 DEF PluginTypeOK
  <2>3. Migrating'
    BY <1>2, <1>5, <1>7, <1>9, <2>1 DEF Migrating
  <2>4. AtRestWhole'
    BY <1>9, <2>1 DEF AtRestWhole
  <2> QED  BY <1>3, <2>2, <2>3, <2>4 DEF PluginsInv
<1>11. CASE migration = "query" /\ migration' = "done"
  <2>1. UNCHANGED <<entries, entriesOpen, fileThere>> /\ spoilt' = spoilt \cup EntriesUndone(pluginRows, {})
    BY <1>11 DEF migratePluginsFromDb, Spoil
  <2>2. ~fileThere /\ entries = NoPlugins /\ \A n \in PluginNames \ spoilt : RowsDir(n)
    BY <1>7, <1>11 DEF Migrating
  <2>3. PluginTypeOK'
    BY <1>1, <1>4, <1>11, <2>1 DEF PluginTypeOK, EntriesUndone
  <2>4. ASSUME NEW n \in PluginNames, n \notin spoilt'
        PROVE  n \notin spoilt /\ entries[n] = NoEntry /\ pluginRows[n] = NoEntry
    BY <2>1, <2>2, <2>4 DEF EntriesUndone, NoPlugins
  <2>5. Migrating'
    BY <1>1, <1>7, <1>11, <2>1, <2>2, <2>4 DEF Migrating
  <2>6. ASSUME NEW n \in PluginNames, n \notin spoilt'  PROVE Whole(n)'
    <3>1. pluginDir[n] = {}
      BY <2>2, <2>4, <2>6 DEF RowsDir
    <3> QED  BY <3>1, <2>1, <2>4, <2>6, <1>6
  <2>7. AtRestWhole'
    BY <2>6 DEF AtRestWhole
  <2> QED  BY <1>3, <2>3, <2>5, <2>7 DEF PluginsInv
<1>10. CASE migration = "write"
  <2>1. /\ migration' = "done" /\ entriesOpen' = FALSE /\ UNCHANGED fileThere
        /\ \/ entries' = pluginRows /\ spoilt' = spoilt
           \/ entries' = NoPlugins /\ spoilt' = spoilt \cup EntriesUndone(pluginRows, {})
    BY <1>10 DEF migratePluginsFromDb, Spoil
  <2>2. fileThere /\ entries = NoPlugins /\ \A n \in PluginNames \ spoilt : RowsDir(n)
    BY <1>7, <1>10 DEF Migrating
  <2>3. NoPlugins \in [PluginNames -> PluginEntries] /\ pluginRows \in [PluginNames -> PluginEntries]
    <3>1. NoEntry \in PluginEntries /\ Entry("path", TRUE) \in PluginEntries
      BY DEF PluginEntries, NoEntry, Entry
    <3> QED  BY <3>1, <1>1 DEF PluginTypeOK, NoPlugins
  <2>4. PluginTypeOK'
    BY <1>1, <1>4, <2>1, <2>3 DEF PluginTypeOK, EntriesUndone
  <2>5. Migrating'
    BY <1>1, <1>7, <2>1, <2>2 DEF Migrating
  <2>6. ASSUME NEW n \in PluginNames, n \notin spoilt'  PROVE Whole(n)'
    <3>1. pluginRows[n] \in {NoEntry, Entry("path", TRUE)} /\ NoPlugins[n] = NoEntry
      BY <1>1 DEF PluginTypeOK, NoPlugins
    <3>2. CASE entries' = pluginRows
      <4>1. entries'[n] # NoEntry => entries'[n].from = "path"
        BY <3>1, <3>2 DEF Entry
      <4>2. pluginDir[n] = IF entries'[n] = NoEntry THEN {} ELSE Ready("path")
        BY <3>2, <2>1, <2>2, <2>6 DEF RowsDir
      <4> QED  BY <4>1, <4>2, <1>6
    <3>3. CASE entries' = NoPlugins /\ spoilt' = spoilt \cup EntriesUndone(pluginRows, {})
      <4>1. pluginRows[n] = NoEntry
        BY <2>2, <2>6, <3>1, <3>3 DEF EntriesUndone
      <4>2. pluginDir[n] = {}
        BY <4>1, <3>3, <2>2, <2>6 DEF RowsDir
      <4> QED  BY <4>2, <3>1, <3>3, <1>6
    <3> QED  BY <2>1, <3>2, <3>3
  <2>7. AtRestWhole'
    BY <2>6 DEF AtRestWhole
  <2> QED  BY <1>3, <2>4, <2>5, <2>7 DEF PluginsInv
<1>12. migration = "query" => migration' \in {"write", "done"}
  BY DEF migratePluginsFromDb
<1> QED  BY <1>1, <1>8, <1>9, <1>10, <1>11, <1>12 DEF PluginTypeOK

LEMMA StopStep ==
  ASSUME PluginsInv, ServerStops  PROVE PluginsInv'
<1>1. PluginTypeOK /\ call' = [r \in PluginRequests |-> NoCall]
      /\ entriesOpen' = FALSE /\ entries' = readPluginsFile /\ migration' = "due" /\ stopped' = TRUE
      /\ spoilt' = spoilt \cup ({call[r].name : r \in Changing} \cup IF entriesOpen THEN PluginNames ELSE {})
      /\ UNCHANGED <<fileThere, pluginRows, pluginDir>>
  BY DEF PluginsInv, ServerStops, Spoil
<1>2. \A r \in PluginRequests : call'[r] = NoCall /\ ~Busy(r)'
  BY <1>1 DEF Busy, NoCall
<1>3. \A r \in PluginRequests : Busy(r) <=> r \in Changing
  BY DEF Busy, Changing, Calls
<1>4. PluginTypeOK'
  <2>1. \A r \in PluginRequests : CallOK(call[r])'
    BY <1>2, NoCallOK DEF CallOK
  <2>2. \A r \in Changing : call[r].name \in PluginNames
    BY <1>1 DEF PluginTypeOK, CallOK, Changing, Calls
  <2>3. spoilt' \in SUBSET PluginNames
    BY <1>1, <2>2 DEF PluginTypeOK
  <2>4. readPluginsFile \in [PluginNames -> PluginEntries]
    BY <1>1, ReadTyped
  <2>5. DOMAIN call' = PluginRequests
    BY <1>1
  <2> QED  BY <1>1, <2>1, <2>3, <2>4, <2>5 DEF PluginTypeOK
<1>5. MeetingsAreKnown' /\ Progress'
  BY <1>2 DEF MeetingsAreKnown, Progress
<1>6. Migrating'
  <2>1. Migrating /\ AtRestWhole /\ spoilt \subseteq spoilt'
    BY <1>1 DEF PluginsInv
  <2>2. \A r \in PluginRequests : call'[r].at \notin {"write", "remove"}
    BY <1>2, NoCallOK
  <2>3. ~fileThere => entries' = NoPlugins
    BY <1>1, <2>1 DEF Migrating, readPluginsFile
  <2>4. ASSUME ~fileThere, NEW n \in PluginNames, n \notin spoilt'  PROVE RowsDir(n)
    <3>1. CASE migration # "done"
      BY <2>1, <2>4, <3>1 DEF Migrating
    <3>2. CASE migration = "done"
      <4>1. NoneAtWork(n)
        BY <2>4, <1>1, <1>3 DEF NoneAtWork
      <4>2. Whole(n) /\ pluginRows[n] = NoEntry /\ entries = NoPlugins
        BY <2>1, <2>4, <3>2, <4>1 DEF AtRestWhole, Migrating
      <4> QED  BY <4>2 DEF Whole, RowsDir, NoPlugins
    <3> QED  BY <3>1, <3>2
  <2>5. \A n \in PluginNames : RowsDir(n)' <=> RowsDir(n)
    BY <1>1 DEF RowsDir
  <2> QED  BY <1>1, <1>2, <2>2, <2>3, <2>4, <2>5 DEF Migrating
<1>7. AtRestWhole'
  <2> SUFFICES ASSUME fileThere, NEW n \in PluginNames, n \notin spoilt'  PROVE Whole(n)'
    BY <1>1 DEF AtRestWhole
  <2>1. ~entriesOpen /\ n \notin spoilt /\ entries' = entries /\ NoneAtWork(n)
    BY <1>1, <1>3 DEF readPluginsFile, NoneAtWork
  <2>2. CASE migration # "write"
    BY <2>1, <2>2, <1>1 DEF PluginsInv, AtRestWhole, Whole
  <2>3. CASE migration = "write"
    BY <2>1, <2>3, <1>1 DEF PluginsInv, Migrating, PluginTypeOK
  <2> QED  BY <2>2, <2>3
<1> QED  BY <1>4, <1>5, <1>6, <1>7 DEF PluginsInv

LEMMA PluginsStep == PluginsInv /\ [PluginsNext]_pluginVars => PluginsInv'
<1> SUFFICES ASSUME PluginsInv, [PluginsNext]_pluginVars  PROVE PluginsInv'
  OBVIOUS
<1>1. CASE migratePluginsFromDb
  BY <1>1, MigrationStep
<1>2. CASE ServerStops
  BY <1>2, StopStep
<1>3. ASSUME NEW r \in PluginRequests, install(r) \/ installFromMarket(r) \/ toggleEnabled(r) \/ confirmUninstall(r)
      PROVE  PluginsInv'
  <2>1. CASE install(r)
    <3>1. PICK n \in PluginNames : \E from \in SourcesOf(n) : BeginChange(r, "dialog", n, Entry(from, TRUE))
      BY <2>1 DEF install
    <3>2. PICK from \in SourcesOf(n) : BeginChange(r, "dialog", n, Entry(from, TRUE))
      BY <3>1
    <3>3. Entry(from, TRUE) \in CallEntries /\ Entry(from, TRUE).from # "none"
      BY <3>2 DEF Entry, CallEntries, SourcesOf
    <3> QED  BY <3>2, <3>3, PluginBeginStep
  <2>2. CASE installFromMarket(r)
    <3>1. PICK n \in PluginNames : BeginChange(r, "market", n, Entry(CatalogSource(n), TRUE))
      BY <2>2 DEF installFromMarket
    <3>2. PICK from : from = CatalogSource(n) /\ from \in {"git", "path"}
      BY DEF CatalogSource
    <3>3. Entry(from, TRUE) \in CallEntries /\ Entry(from, TRUE).from # "none"
      BY <3>2 DEF Entry, CallEntries
    <3> QED  BY <3>1, <3>2, <3>3, PluginBeginStep
  <2>3. CASE toggleEnabled(r)
    <3>1. PICK n \in PluginNames : BeginChange(r, "enable", n, Entry("none", ~shownPlugins[n].enabled))
      BY <2>3 DEF toggleEnabled
    <3>2. Entry("none", ~shownPlugins[n].enabled) \in CallEntries
      BY DEF Entry, CallEntries
    <3> QED  BY <3>1, <3>2, PluginBeginStep
  <2>4. CASE confirmUninstall(r)
    <3>1. PICK n \in PluginNames : BeginChange(r, "delete", n, NoEntry)
      BY <2>4 DEF confirmUninstall
    <3>2. NoEntry \in CallEntries
      BY DEF Entry, CallEntries, NoEntry
    <3> QED  BY <3>1, <3>2, PluginBeginStep
  <2> QED  BY <1>3, <2>1, <2>2, <2>3, <2>4
<1>4. CASE UNCHANGED pluginVars
  <2>1. UNCHANGED <<entries, entriesOpen, fileThere, migration, pluginRows, pluginDir, call, spoilt, stopped>>
    BY <1>4 DEF pluginVars, fileState
  <2>2. PluginTypeOK'
    BY <2>1 DEF PluginsInv, PluginTypeOK, CallOK
  <2>3. MeetingsAreKnown' /\ Migrating' /\ AtRestWhole'
    BY <2>1 DEF PluginsInv, MeetingsAreKnown, Migrating, AtRestWhole, Busy, Whole, RowsDir, NoneAtWork
  <2>4. Progress'
    BY <2>1 DEF PluginsInv, Progress, Busy, Keeping, Whole
  <2> QED  BY <2>2, <2>3, <2>4 DEF PluginsInv
<1> QED  BY <1>1, <1>2, <1>3, <1>4, ListingSteps, CloneStep, ClearStep, RenameStep, CopyStep, RuntimeStep, UndoStep,
            EntryGotStep, EntryReadStep, OpenStep, FileWrittenStep, WriteFailsStep, PluginRemovedStep, ReloadStep
         DEF PluginsNext

\* A plugin that is listed has the whole directory of the source its entry names, and
\* one that is not listed has none, whatever was installed, enabled and deleted and
\* whichever writes of the list were refused, once nothing is at work on it and nothing
\* spoilt it (plugin-store.ts:69-72, 182-299).
THEOREM PluginsStayWhole == PluginsSpec => []PluginsAreWhole
<1>1. PluginsInv => PluginsAreWhole
  <2> SUFFICES ASSUME PluginsInv, NEW n \in PluginNames \ spoilt, migration = "done",
                      \A r \in Changing : call[r].name # n
               PROVE  Whole(n)
    BY DEF PluginsAreWhole, Whole
  <2>1. NoneAtWork(n)
    BY DEF NoneAtWork, Busy, Changing, Calls
  <2> QED  BY <2>1 DEF PluginsInv, AtRestWhole
<1> QED  BY <1>1, PluginsInitial, PluginsStep, PTL DEF PluginsSpec

-----------------------------------------------------------------------------
(* The user's rules, skills and settings. *)

FileSteps == {"access", "read", "find", "write", "remove", "delete", "answer"}
SettingsOps == {"toggleSkill", "toggleHook"}
SaveFields == {"at", "op", "key", "name", "base", "text", "answer", "read", "wants"}
IsText(t) == t = <<t[1], t[2]>> /\ t[1] \in FileNames /\ t[2] \in Nat /\ t[2] <= saves
IsFile(f) == f = NoFile \/ (f = File(f.inner, f.text) /\ f.inner \in FileNames /\ IsText(f.text))

FilesTypeOK ==
  /\ topic \in {"rules", "skills", "settings"} /\ saves \in Nat
  /\ DOMAIN userFile = FileNames /\ \A n \in FileNames : IsFile(userFile[n])
  /\ settings = Settings(settings.skills, settings.hooks) /\ meantOff = Settings(meantOff.skills, meantOff.hooks)
  /\ rulesToMove \subseteq FileNames /\ NoText \notin meant
SavesTypeOK == DOMAIN save = SaveSlots /\ \A r \in SaveSlots : save[r] = [f \in SaveFields |-> save[r][f]]

\* Rules that an earlier version left are moved before anything else is done.
MovedFirst ==
  rulesToMove # {} =>
    /\ \A r \in SaveSlots : save[r].at = "none"
    /\ \A n \in FileNames : userFile[n] = NoFile \/ (n \notin rulesToMove /\ userFile[n] = File(n, <<n, 0>>))
    /\ \A n \in rulesToMove : <<n, 0>> \in meant

\* Each text is meant and in one file.
Filed(held, due, but) ==
  \A t \in (due \cup TextsIn(held)) \ but :
    t \in due /\ \E n \in FileNames : held[n].text = t /\ \A m \in FileNames : held[m].text = t => m = n

\* A change of a file: what it is to do, and what it will leave once the file of the
\* old name is removed.
ChangingFile(s) ==
  /\ s.at \in FileSteps => s.key \in FileNames
  /\ s.at = "access" => IF topic = "rules" THEN s.op = "create" ELSE s.op = "delete"
  /\ s.at = "read" => s.op \in {"edit", "toggle"}
  /\ s.at = "read" => topic = "rules"
  /\ s.at = "find" => s.op = "edit" /\ s.key = s.name
  /\ s.at \in {"write", "remove", "answer"} => s.op \in {"create", "edit", "toggle"} /\ s.name \in FileNames
  /\ s.at = "write" /\ topic # "rules" => s.name = s.key
  /\ s.at \in {"access", "read", "find", "write"} /\ s.op \in {"create", "edit"} =>
       IsText(s.text) /\ s.name \in FileNames /\ \A n \in FileNames : userFile[n].text # s.text
  /\ s.at = "access" /\ s.op = "create" => s.name = s.key
  /\ s.at = "write" /\ s.op = "toggle" =>
       s.text = userFile[s.key].text /\ s.base = s.text /\ userFile[s.key] # NoFile
  /\ s.at = "remove" =>
       Filed([userFile EXCEPT ![s.key] = NoFile], meant,
             lost \cup ({userFile[s.key].text} \ {s.base, NoText}))

\* A change of settings.json: what is off when it is written.
ChangingSettings(s) ==
  /\ s.at \in {"get", "patch", "store"} => s.op \in SettingsOps
  /\ s.op \in SettingsOps => s.at \in {"get", "patch", "store", "list", "show"}
  /\ s.at = "get" => /\ s.op = "toggleHook" /\ off = settings.skills /\ meantOff.skills = settings.skills
                     /\ meantOff.hooks = (settings.hooks \cup {s.key}) \ (settings.hooks \cap {s.key})
  /\ s.at \in {"patch", "store"} /\ s.op = "toggleSkill" =>
       s.wants.skills = meantOff.skills /\ off = meantOff.skills /\ settings.hooks = meantOff.hooks
  /\ s.at \in {"patch", "store"} /\ s.op = "toggleHook" =>
       s.wants.hooks = meantOff.hooks /\ off = meantOff.skills /\ settings.skills = meantOff.skills
  /\ s.at \in {"store", "show"} => s.read = settings
  /\ s.at \in {"list", "show"} => settings = meantOff

OneByOne ==
  /\ FilesTypeOK /\ SavesTypeOK /\ MovedFirst
  /\ \A r, q \in SaveSlots : save[r].at # "none" /\ save[q].at # "none" => r = q
  /\ \A r \in SaveSlots : ChangingFile(save[r]) /\ ChangingSettings(save[r])
  /\ (\A r \in SaveSlots : save[r].at # "remove") => Filed(userFile, meant, lost \cup {<<n, 0>> : n \in rulesToMove})
  /\ (\A r \in SaveSlots : save[r].op \notin SettingsOps) => settings = meantOff /\ off = settings.skills

FilesInv == ~overlapping => OneByOne

\* What a change of some files does to the texts: those it takes out are the one it
\* replaces or are lost, and it puts one in, or none.
TextsChange(F, G, M, N, L, K, S, base, text) ==
  /\ S \subseteq FileNames /\ \A n \in FileNames \ S : G[n] = F[n]
  /\ NoText \notin M /\ L \subseteq K /\ M \ {base} \subseteq N /\ N \subseteq (M \ {base}) \cup {text}
  /\ \A n \in S : F[n].text \in {base, NoText} \/ F[n].text \in K
  /\ \A n \in FileNames \ S : F[n].text = base => base \in K \/ base = NoText
  /\ \/ N \subseteq M \ {base} /\ \A n \in S : G[n].text = NoText
     \/ /\ text \in N /\ text # NoText
        /\ \A m \in FileNames \ S : F[m].text = text => text \in K
        /\ \E n \in S : G[n].text = text /\ \A m \in S : m # n => G[m].text = NoText

LEMMA TextsMove ==
  ASSUME NEW F, NEW G, NEW M, NEW N, NEW L, NEW K, NEW S, NEW base, NEW text,
         Filed(F, M, L), TextsChange(F, G, M, N, L, K, S, base, text)
  PROVE  Filed(G, N, K)
<1> USE DEF TextsChange
<1> DEFINE In(H, W, t) == t \in W /\ \E n \in FileNames : H[n].text = t /\ \A m \in FileNames : H[m].text = t => m = n
<1>1. \A t \in (M \cup TextsIn(F)) \ L : In(F, M, t)
  BY Zenon DEF Filed
<1> SUFFICES ASSUME NEW t \in (N \cup TextsIn(G)) \ K  PROVE In(G, N, t)
  BY Zenon DEF Filed
<1>2. CASE t \in M \ {base} /\ \A n \in S : G[n].text # t
  <2>1. In(F, M, t)
    BY <1>1, <1>2
  <2>2. PICK n \in FileNames : F[n].text = t /\ \A m \in FileNames : F[m].text = t => m = n
    BY <2>1
  <2>3. n \notin S
    BY <2>2, <1>2
  <2> QED  BY <1>2, <2>2, <2>3
<1>3. CASE t = text /\ \E n \in S : G[n].text = text
  <2>1. text # NoText
    <3>1. t # NoText
      BY DEF TextsIn
    <3> QED  BY <3>1, <1>3
  <2>2. /\ text \in N /\ \A m \in FileNames \ S : F[m].text = text => text \in K
        /\ \E n \in S : G[n].text = text /\ \A m \in S : m # n => G[m].text = NoText
    BY <1>3, <2>1
  <2>3. PICK n \in S : G[n].text = text /\ \A m \in S : m # n => G[m].text = NoText
    BY <2>2
  <2> QED  BY <1>3, <2>1, <2>2, <2>3
<1>4. CASE \E m \in FileNames \ S : G[m].text = t /\ t # NoText
  <2>1. PICK m \in FileNames \ S : F[m].text = t
    BY <1>4
  <2>2. t \in TextsIn(F) /\ t # base
    BY <1>4, <2>1 DEF TextsIn
  <2>3. In(F, M, t)
    BY <1>1, <2>2
  <2>4. \A n \in S : G[n].text # t
    BY <1>3, <1>4, <2>1
  <2> QED  BY <1>2, <2>2, <2>3, <2>4
<1>5. CASE t \in M \ {base} /\ \E n \in S : G[n].text = t
  <2>1. t # NoText
    BY <1>5
  <2> QED  BY <1>3, <1>5, <2>1
<1>6. t \in N => t \in M \ {base} \/ (t = text /\ \E n \in S : G[n].text = text)
  OBVIOUS
<1>7. t \in TextsIn(G) => (\E m \in FileNames \ S : G[m].text = t /\ t # NoText) \/ (t = text /\ \E n \in S : G[n].text = text)
  BY DEF TextsIn
<1> QED  BY <1>2, <1>3, <1>4, <1>5, <1>6, <1>7

LEMMA FilesInitial == UserFilesInit => FilesInv
<1> SUFFICES ASSUME UserFilesInit PROVE OneByOne
  BY DEF FilesInv
<1>1. PICK held \in SUBSET FileNames, inner \in [FileNames -> FileNames], moved \in {FileNames, {}} :
       /\ userFile = [n \in FileNames |-> IF n \in held THEN File(inner[n], <<n, 0>>) ELSE NoFile]
       /\ rulesToMove = IF topic = "rules" /\ held = {} THEN moved ELSE {}
  BY DEF UserFilesInit
<1>2. /\ topic \in {"rules", "skills", "settings"} /\ saves = 0 /\ lost = {} /\ meantOff = settings /\ off = {}
      /\ settings = Settings({}, {}) /\ save = [r \in SaveSlots |-> NoSave]
      /\ meant = TextsIn(userFile) \cup {<<n, 0>> : n \in rulesToMove}
  BY DEF UserFilesInit
<1>3. \A n \in FileNames : IsText(<<n, 0>>) /\ <<n, 0>> # NoText
  BY <1>2, FileNamesAssumption DEF IsText, NoText
<1>4. ASSUME NEW n \in FileNames
      PROVE  /\ IsFile(userFile[n]) /\ userFile[n].text \in {NoText, <<n, 0>>}
             /\ userFile[n] = NoFile \/ rulesToMove = {}
  <2>1. CASE n \in held
    <3>1. userFile[n] = File(inner[n], <<n, 0>>) /\ rulesToMove = {} /\ inner[n] \in FileNames
      BY <1>1, <2>1
    <3>2. userFile[n].inner = inner[n] /\ userFile[n].text = <<n, 0>>
      BY <3>1 DEF File
    <3> QED  BY <3>1, <3>2, <1>3 DEF IsFile
  <2>2. CASE n \notin held
    BY <1>1, <2>2 DEF IsFile, NoFile, File
  <2> QED  BY <2>1, <2>2
<1>5. NoText \notin meant
  <2>1. rulesToMove \subseteq FileNames
    BY <1>1
  <2>2. meant = TextsIn(userFile) \cup {<<n, 0>> : n \in rulesToMove}
    BY <1>2
  <2>3. NoText \notin TextsIn(userFile)
    BY DEF TextsIn
  <2>4. \A n \in rulesToMove : NoText # <<n, 0>>
    BY <2>1, <1>3
  <2> QED  BY <2>2, <2>3, <2>4
<1>6. settings = Settings(settings.skills, settings.hooks) /\ settings.skills = {}
  BY <1>2 DEF Settings
<1>7. FilesTypeOK
  BY <1>1, <1>2, <1>4, <1>5, <1>6 DEF FilesTypeOK
<1>8. \A r \in SaveSlots : save[r] = NoSave /\ save[r].at = "none" /\ save[r].op = "none" /\ save[r] = [f \in SaveFields |-> save[r][f]]
  BY <1>2 DEF NoSave, SaveFields
<1>9. MovedFirst
  BY <1>1, <1>2, <1>4, <1>8 DEF MovedFirst
<1>10. \A r \in SaveSlots : ChangingFile(save[r]) /\ ChangingSettings(save[r])
  BY <1>8 DEF ChangingFile, ChangingSettings, FileSteps, SettingsOps
<1>11. Filed(userFile, meant, lost \cup {<<n, 0>> : n \in rulesToMove})
  <2>1. \A n \in FileNames : userFile[n].text = NoText \/ userFile[n].text = <<n, 0>>
    BY <1>4
  <2> QED  BY <1>2, <2>1 DEF Filed, TextsIn
<1>12. SavesTypeOK
  BY <1>2, <1>8 DEF SavesTypeOK
<1> QED  BY <1>2, <1>6, <1>7, <1>8, <1>9, <1>10, <1>11, <1>12 DEF OneByOne

\* One change takes a step, or begins, while no other is at work.
LEMMA OneSaveMoves ==
  ASSUME OneByOne, NEW r \in SaveSlots, \A q \in SaveSlots : q # r => save[q].at = "none",
         NEW c, save' = [save EXCEPT ![r] = c], c = [f \in SaveFields |-> c[f]],
         FilesTypeOK', rulesToMove' = {}, ChangingFile(c)', ChangingSettings(c)',
         c.at # "remove" => Filed(userFile', meant', lost'),
         c.op \notin SettingsOps => settings' = meantOff' /\ off' = settings'.skills
  PROVE  OneByOne'
<1>1. DOMAIN save' = SaveSlots /\ save'[r] = c /\ \A q \in SaveSlots : q # r => save'[q] = save[q]
  BY DEF OneByOne, SavesTypeOK
<1>2. SavesTypeOK'
  BY <1>1 DEF OneByOne, SavesTypeOK
<1>3. MovedFirst'
  BY DEF MovedFirst
<1>4. \A q \in SaveSlots : q # r => save[q].op \notin SettingsOps
  BY DEF OneByOne, ChangingSettings
<1>5. \A q \in SaveSlots : ChangingFile(save[q])' /\ ChangingSettings(save[q])'
  <2> TAKE q \in SaveSlots
  <2>1. CASE q = r
    BY <2>1, <1>1 DEF ChangingFile, ChangingSettings
  <2>2. CASE q # r
    <3>1. save'[q] = save[q] /\ save[q].at = "none" /\ save[q].op \notin SettingsOps
      BY <2>2, <1>1, <1>4
    <3> QED  BY <3>1 DEF ChangingFile, ChangingSettings, FileSteps
  <2> QED  BY <2>1, <2>2
<1>6. \A p, q \in SaveSlots : save'[p].at # "none" /\ save'[q].at # "none" => p = q
  BY <1>1
<1>7. lost \cup {<<n, 0>> : n \in {}} = lost
  OBVIOUS
<1>8. ASSUME \A q \in SaveSlots : save'[q].at # "remove"
      PROVE  Filed(userFile', meant', lost' \cup {<<n, 0>> : n \in rulesToMove'})
  <2>1. lost' \cup {<<n, 0>> : n \in rulesToMove'} = lost'
    OBVIOUS
  <2> QED  BY <1>1, <1>8, <2>1
<1>9. (\A q \in SaveSlots : save'[q].op \notin SettingsOps) => settings' = meantOff' /\ off' = settings'.skills
  BY <1>1
<1> QED  BY <1>2, <1>3, <1>5, <1>6, <1>8, <1>9 DEF OneByOne

\* It is the only one, and the rules were moved before.
LEMMA AtWork ==
  ASSUME OneByOne, NEW r \in SaveSlots, save[r].at # "none"
  PROVE  /\ \A q \in SaveSlots : q # r => save[q].at = "none"
         /\ rulesToMove = {} /\ FilesTypeOK /\ ChangingFile(save[r]) /\ ChangingSettings(save[r])
         /\ save[r] = [f \in SaveFields |-> save[r][f]]
         /\ save[r].at # "remove" => Filed(userFile, meant, lost)
         /\ save[r].op \notin SettingsOps => settings = meantOff /\ off = settings.skills
<1>1. rulesToMove = {}
  BY DEF OneByOne, MovedFirst
<1>2. lost \cup {<<n, 0>> : n \in rulesToMove} = lost
  BY <1>1
<1>3. \A q \in SaveSlots : q # r => save[q].at = "none" /\ save[q].op \notin SettingsOps
  BY DEF OneByOne, ChangingSettings
<1> QED  BY <1>1, <1>2, <1>3 DEF OneByOne, SavesTypeOK

\* The record of a change that only goes to another step.
SaveTurned(c, d, at) ==
  /\ c = [f \in SaveFields |-> c[f]]
  /\ c.at = at /\ c.op = d.op /\ c.key = d.key /\ c.name = d.name /\ c.base = d.base /\ c.text = d.text
  /\ c.answer = d.answer /\ c.read = d.read /\ c.wants = d.wants

LEMMA SaveTurns ==
  ASSUME NEW r \in SaveSlots, save[r] = [f \in SaveFields |-> save[r][f]], NEW at, Leads(r, at)
  PROVE  \E c : save' = [save EXCEPT ![r] = c] /\ SaveTurned(c, save[r], at)
<1>1. PICK d : d = save[r] /\ d = [f \in SaveFields |-> d[f]]
  OBVIOUS
<1>2. PICK c : c = [d EXCEPT !.at = at]
  OBVIOUS
<1>3. save' = [save EXCEPT ![r] = c]
  BY <1>1, <1>2 DEF Leads
<1>4. SaveTurned(c, d, at)
  BY <1>1, <1>2 DEF SaveTurned, SaveFields
<1> QED  BY <1>1, <1>3, <1>4

LEMMA NoSaveFields == NoSave = [f \in SaveFields |-> NoSave[f]] /\ NoSave.at = "none" /\ NoSave.op = "none"
BY DEF NoSave, SaveFields

\* A step that leaves the files and the settings as they are.
LEMMA SaveOnly ==
  ASSUME OneByOne, NEW r \in SaveSlots, save[r].at \notin {"none", "remove"}, NEW c, save' = [save EXCEPT ![r] = c],
         c = [f \in SaveFields |-> c[f]], UNCHANGED <<topic, diskVars, off, meant, meantOff, lost, saves>>,
         ChangingFile(c), ChangingSettings(c), c.op = save[r].op \/ (save[r].op \notin SettingsOps /\ c.op \notin SettingsOps)
  PROVE  OneByOne'
<1>1. /\ \A q \in SaveSlots : q # r => save[q].at = "none"
      /\ rulesToMove = {} /\ FilesTypeOK /\ Filed(userFile, meant, lost)
      /\ save[r].op \notin SettingsOps => settings = meantOff /\ off = settings.skills
  BY AtWork
<1>2. FilesTypeOK'
  BY <1>1 DEF FilesTypeOK, diskVars, IsFile, IsText
<1>3. ChangingFile(c)' /\ ChangingSettings(c)'
  BY DEF ChangingFile, ChangingSettings, diskVars, IsText
<1> QED  BY <1>1, <1>2, <1>3, OneSaveMoves DEF diskVars

LEMMA Beginning ==
  ASSUME FilesInv, ~overlapping', NEW r \in SaveSlots, NEW c, BeginSave(r, c)
  PROVE  /\ OneByOne /\ \A q \in SaveSlots : save[q].at = "none"
         /\ rulesToMove = {} /\ saves' = saves + 1 /\ save' = [save EXCEPT ![r] = c]
         /\ FilesTypeOK /\ Filed(userFile, meant, lost) /\ settings = meantOff /\ off = settings.skills
<1>1. /\ Saving = {} /\ ~overlapping /\ rulesToMove = {} /\ saves' = saves + 1 /\ save' = [save EXCEPT ![r] = c]
  BY DEF BeginSave
<1>2. OneByOne /\ \A q \in SaveSlots : save[q].at = "none"
  BY <1>1 DEF FilesInv, Saving
<1>3. \A q \in SaveSlots : save[q].op \notin SettingsOps
  BY <1>2 DEF OneByOne, ChangingSettings
<1>4. lost \cup {<<n, 0>> : n \in rulesToMove} = lost
  BY <1>1
<1> QED  BY <1>1, <1>2, <1>3, <1>4 DEF OneByOne

LEMMA SavesGrow ==
  ASSUME FilesTypeOK, saves' = saves + 1
  PROVE  \A t : IsText(t) => IsText(t)'
<1>1. saves \in Nat /\ \A k \in Nat : k <= saves => k <= saves + 1
  BY DEF FilesTypeOK
<1> QED  BY <1>1 DEF IsText

\* A change of a file begins.
LEMMA FileChangeBegins ==
  ASSUME FilesInv, ~overlapping', NEW r \in SaveSlots, NEW c, BeginSave(r, c), c = [f \in SaveFields |-> c[f]],
         UNCHANGED <<topic, diskVars, off, meant, meantOff, lost>>,
         OneByOne /\ saves' = saves + 1 => ChangingFile(c)',
         c.op \notin SettingsOps, c.at \notin {"remove", "get", "patch", "store", "list", "show"}
  PROVE  OneByOne'
<1>1. /\ OneByOne /\ \A q \in SaveSlots : save[q].at = "none"
      /\ rulesToMove = {} /\ saves' = saves + 1 /\ save' = [save EXCEPT ![r] = c]
      /\ FilesTypeOK /\ Filed(userFile, meant, lost) /\ settings = meantOff /\ off = settings.skills
  BY Beginning
<1>2. FilesTypeOK'
  <2>1. \A n \in FileNames : IsFile(userFile[n])'
    BY <1>1, SavesGrow DEF FilesTypeOK, IsFile, diskVars
  <2>2. saves' \in Nat
    BY <1>1 DEF FilesTypeOK
  <2> QED  BY <1>1, <2>1, <2>2 DEF FilesTypeOK, diskVars
<1>3. ChangingSettings(c)'
  BY DEF ChangingSettings, SettingsOps
<1> QED  BY <1>1, <1>2, <1>3, OneSaveMoves DEF diskVars

LEMMA FreshText ==
  ASSUME FilesTypeOK, NEW n \in FileNames, saves' = saves + 1, NEW text, text = NewText(n)
  PROVE  IsText(text)' /\ text # NoText /\ \A m \in FileNames : userFile[m].text # text
<1>1. saves \in Nat
  BY DEF FilesTypeOK
<1>2. PICK k \in Nat : k = saves + 1 /\ text = <<n, k>> /\ k # 0 /\ ~(k <= saves)
  BY <1>1 DEF NewText
<1>3. text[1] = n /\ text[2] = k /\ text = <<text[1], text[2]>>
  BY <1>2
<1>4. IsText(text)' /\ ~IsText(text) /\ text # NoText
  BY <1>2, <1>3 DEF IsText, NoText
<1>5. \A m \in FileNames : userFile[m].text = NoText \/ IsText(userFile[m].text)
  BY DEF FilesTypeOK, IsFile, NoFile, File
<1> QED  BY <1>4, <1>5

LEMMA ChangeFields ==
  ASSUME NEW op, NEW at, NEW key, NEW name, NEW base, NEW text
  PROVE  \E c : /\ c = Change(op, at, key, name, base, text) /\ c = [f \in SaveFields |-> c[f]]
               /\ c.op = op /\ c.at = at /\ c.key = key /\ c.name = name /\ c.base = base /\ c.text = text
<1>1. PICK d : d = NoSave /\ d = [f \in SaveFields |-> d[f]]
  BY DEF NoSave, SaveFields
<1>2. PICK c : c = [d EXCEPT !.op = op, !.at = at, !.key = key, !.name = name, !.base = base, !.text = text]
  OBVIOUS
<1>3. c = Change(op, at, key, name, base, text)
  BY <1>1, <1>2 DEF Change
<1>4. /\ c = [f \in SaveFields |-> c[f]] /\ c.op = op /\ c.at = at /\ c.key = key /\ c.name = name /\ c.base = base
      /\ c.text = text
  BY <1>1, <1>2 DEF SaveFields
<1> QED  BY <1>3, <1>4

LEMMA SaveRuleStep ==
  ASSUME FilesInv, ~overlapping', NEW r \in SaveSlots, SaveRule(r)  PROVE OneByOne'
<1>1. topic = "rules" /\ topic' = "rules" /\ UNCHANGED <<topic, diskVars, off, meant, meantOff, lost>>
      /\ UNCHANGED <<topic, userFile>>
  <2>1. UNCHANGED meantOff
    BY DEF SaveRule
  <2> QED  BY <2>1 DEF SaveRule, screenVars, diskVars
<1>2. PICK n \in FileNames :
        \/ BeginSave(r, Change("create", "access", n, n, NoText, NewText(n)))
        \/ \E name \in FileNames : BeginSave(r, Change("edit", "read", n, name, listed[n].text, NewText(n)))
        \/ BeginSave(r, Change("toggle", "read", n, "none", NoText, NoText))
        \/ BeginSave(r, Change("delete", "delete", n, n, listed[n].text, NoText))
  BY DEF SaveRule
<1>3. CASE BeginSave(r, Change("create", "access", n, n, NoText, NewText(n)))
  <2>1. PICK text : text = NewText(n)
    OBVIOUS
  <2>2. PICK c : /\ c = Change("create", "access", n, n, NoText, text) /\ c = [f \in SaveFields |-> c[f]]
                 /\ c.op = "create" /\ c.at = "access" /\ c.key = n /\ c.name = n /\ c.base = NoText /\ c.text = text
    BY ChangeFields
  <2>3. ASSUME OneByOne, saves' = saves + 1  PROVE ChangingFile(c)'
    <3>1. IsText(text)' /\ \A m \in FileNames : userFile[m].text # text
      BY <2>1, <2>3, FreshText DEF OneByOne
    <3> QED  BY <3>1, <2>2, <1>1 DEF ChangingFile
  <2> QED  BY <1>1, <1>3, <2>1, <2>2, <2>3, FileChangeBegins DEF SettingsOps
<1>4. ASSUME NEW name \in FileNames, BeginSave(r, Change("edit", "read", n, name, listed[n].text, NewText(n)))  PROVE OneByOne'
  <2>1. PICK text, base : text = NewText(n) /\ base = listed[n].text
    OBVIOUS
  <2>2. PICK c : /\ c = Change("edit", "read", n, name, base, text) /\ c = [f \in SaveFields |-> c[f]]
                 /\ c.op = "edit" /\ c.at = "read" /\ c.key = n /\ c.name = name /\ c.base = base /\ c.text = text
    BY ChangeFields
  <2>3. ASSUME OneByOne, saves' = saves + 1  PROVE ChangingFile(c)'
    <3>1. IsText(text)' /\ \A m \in FileNames : userFile[m].text # text
      BY <2>1, <2>3, FreshText DEF OneByOne
    <3> QED  BY <3>1, <2>2, <1>1, <1>4 DEF ChangingFile
  <2> QED  BY <1>1, <1>4, <2>1, <2>2, <2>3, FileChangeBegins DEF SettingsOps
<1>5. CASE BeginSave(r, Change("toggle", "read", n, "none", NoText, NoText))
  <2>1. PICK c : /\ c = Change("toggle", "read", n, "none", NoText, NoText) /\ c = [f \in SaveFields |-> c[f]]
                 /\ c.op = "toggle" /\ c.at = "read" /\ c.key = n
    BY ChangeFields
  <2>2. ChangingFile(c)'
    BY <2>1, <1>1 DEF ChangingFile
  <2> QED  BY <1>1, <1>5, <2>1, <2>2, FileChangeBegins DEF SettingsOps
<1>6. CASE BeginSave(r, Change("delete", "delete", n, n, listed[n].text, NoText))
  <2>1. PICK c : /\ c = Change("delete", "delete", n, n, listed[n].text, NoText) /\ c = [f \in SaveFields |-> c[f]]
                 /\ c.op = "delete" /\ c.at = "delete" /\ c.key = n
    BY ChangeFields
  <2>2. ChangingFile(c)'
    BY <2>1, <1>1 DEF ChangingFile
  <2> QED  BY <1>1, <1>6, <2>1, <2>2, FileChangeBegins DEF SettingsOps
<1> QED  BY <1>2, <1>3, <1>4, <1>5, <1>6

LEMMA SaveSkillStep ==
  ASSUME FilesInv, ~overlapping', NEW r \in SaveSlots, SaveSkill(r)  PROVE OneByOne'
<1>1. topic = "skills" /\ topic' = "skills" /\ UNCHANGED <<topic, diskVars, off, meant, meantOff, lost>>
      /\ UNCHANGED <<topic, userFile>>
  BY DEF SaveSkill, screenVars, diskVars
<1>2. PICK n \in FileNames :
        \/ BeginSave(r, Change("create", "write", n, n, NoText, NewText(n)))
        \/ BeginSave(r, Change("edit", "find", n, n, listed[n].text, NewText(n)))
        \/ BeginSave(r, Change("delete", "access", n, n, listed[n].text, NoText))
  BY DEF SaveSkill
<1>3. ASSUME NEW op, NEW at, NEW base, BeginSave(r, Change(op, at, n, n, base, NewText(n))),
             \/ op = "create" /\ at = "write"
             \/ op = "edit" /\ at = "find"
      PROVE OneByOne'
  <2>1. PICK text : text = NewText(n)
    OBVIOUS
  <2>2. PICK c : /\ c = Change(op, at, n, n, base, text) /\ c = [f \in SaveFields |-> c[f]]
                 /\ c.op = op /\ c.at = at /\ c.key = n /\ c.name = n /\ c.base = base /\ c.text = text
    BY ChangeFields
  <2>3. ASSUME OneByOne, saves' = saves + 1  PROVE ChangingFile(c)'
    <3>1. IsText(text)' /\ \A m \in FileNames : userFile[m].text # text
      BY <2>1, <2>3, FreshText DEF OneByOne
    <3> QED  BY <3>1, <2>2, <1>1, <1>3 DEF ChangingFile
  <2> QED  BY <1>1, <1>3, <2>1, <2>2, <2>3, FileChangeBegins DEF SettingsOps
<1>4. CASE BeginSave(r, Change("delete", "access", n, n, listed[n].text, NoText))
  <2>1. PICK c : /\ c = Change("delete", "access", n, n, listed[n].text, NoText) /\ c = [f \in SaveFields |-> c[f]]
                 /\ c.op = "delete" /\ c.at = "access" /\ c.key = n /\ c.name = n
    BY ChangeFields
  <2>2. ChangingFile(c)'
    BY <2>1, <1>1 DEF ChangingFile
  <2> QED  BY <1>1, <1>4, <2>1, <2>2, FileChangeBegins DEF SettingsOps
<1> QED  BY <1>2, <1>3, <1>4

LEMMA EndsOrLeads ==
  ASSUME OneByOne, NEW r \in SaveSlots, save[r].at \notin {"none", "remove"},
         UNCHANGED <<topic, diskVars, off, meant, meantOff, lost, saves>>, save[r].op \notin SettingsOps,
         \/ Done(r)
         \/ \E at : Leads(r, at) /\ \A c : SaveTurned(c, save[r], at) => ChangingFile(c) /\ ChangingSettings(c)
  PROVE  OneByOne'
<1>1. CASE Done(r)
  <2>1. ChangingFile(NoSave) /\ ChangingSettings(NoSave)
    BY NoSaveFields DEF ChangingFile, ChangingSettings, FileSteps, SettingsOps
  <2> QED  BY <1>1, <2>1, NoSaveFields, SaveOnly DEF Done, SettingsOps
<1>2. ASSUME NEW at, Leads(r, at), \A c : SaveTurned(c, save[r], at) => ChangingFile(c) /\ ChangingSettings(c)
      PROVE  OneByOne'
  <2>1. save[r] = [f \in SaveFields |-> save[r][f]]
    BY AtWork
  <2>2. PICK c : save' = [save EXCEPT ![r] = c] /\ SaveTurned(c, save[r], at)
    BY <1>2, <2>1, SaveTurns
  <2> QED  BY <1>2, <2>2, SaveOnly DEF SaveTurned
<1> QED  BY <1>1, <1>2

LEMMA CheckingSteps ==
  ASSUME OneByOne, NEW r \in SaveSlots,
         createRule(r) \/ updateUserSkill(r) \/ deleteVeylinSkill(r)
  PROVE  OneByOne'
<1>1. /\ save[r].at \in {"access", "find"} /\ UNCHANGED <<topic, diskVars, off, meant, meantOff, lost, saves>>
  BY DEF createRule, updateUserSkill, deleteVeylinSkill, Step, screenVars, intentVars
<1>2. ChangingFile(save[r]) /\ ChangingSettings(save[r])
  BY <1>1, AtWork
<1>3. save[r].op \notin SettingsOps
  BY <1>1, <1>2 DEF ChangingSettings
<1>4. CASE createRule(r)
  <2>1. ASSUME NEW c, SaveTurned(c, save[r], "write")  PROVE ChangingFile(c) /\ ChangingSettings(c)
    <3>1. save[r].at = "access" /\ topic = "rules" /\ save[r].op = "create"
      BY <1>2, <1>4 DEF createRule, Step, ChangingFile
    <3> QED  BY <2>1, <3>1, <1>2, <1>3 DEF SaveTurned, ChangingFile, ChangingSettings, FileSteps
  <2>2. Done(r) \/ Leads(r, "write")
    BY <1>4 DEF createRule
  <2> QED  BY <1>1, <1>3, <2>1, <2>2, EndsOrLeads
<1>5. CASE updateUserSkill(r)
  <2>1. ASSUME NEW c, SaveTurned(c, save[r], "write")  PROVE ChangingFile(c) /\ ChangingSettings(c)
    <3>1. save[r].at = "find" /\ save[r].op = "edit"
      BY <1>2, <1>5 DEF updateUserSkill, Step, ChangingFile
    <3> QED  BY <2>1, <3>1, <1>2, <1>3 DEF SaveTurned, ChangingFile, ChangingSettings, FileSteps
  <2>2. Done(r) \/ Leads(r, "write")
    BY <1>5 DEF updateUserSkill
  <2> QED  BY <1>1, <1>3, <2>1, <2>2, EndsOrLeads
<1>6. CASE deleteVeylinSkill(r)
  <2>1. ASSUME NEW c, SaveTurned(c, save[r], "delete")  PROVE ChangingFile(c) /\ ChangingSettings(c)
    <3>1. save[r].at = "access" /\ topic = "skills"
      BY <1>6 DEF deleteVeylinSkill, Step
    <3> QED  BY <2>1, <3>1, <1>2, <1>3 DEF SaveTurned, ChangingFile, ChangingSettings, FileSteps
  <2>2. Done(r) \/ Leads(r, "delete")
    BY <1>6 DEF deleteVeylinSkill
  <2> QED  BY <1>1, <1>3, <2>1, <2>2, EndsOrLeads
<1> QED  BY <1>4, <1>5, <1>6

LEMMA UpdateRuleStep ==
  ASSUME OneByOne, NEW r \in SaveSlots, updateRule(r)  PROVE OneByOne'
<1>1. save[r].at = "read" /\ UNCHANGED <<topic, diskVars, off, meant, meantOff, lost, saves>>
  BY DEF updateRule, Step, screenVars, intentVars
<1>2. PICK d : d = save[r] /\ d = [f \in SaveFields |-> d[f]] /\ ChangingFile(d) /\ ChangingSettings(d) /\ FilesTypeOK
  BY <1>1, AtWork
<1>3. d.op \in {"edit", "toggle"} /\ d.op \notin SettingsOps /\ d.key \in FileNames /\ d.at = "read"
  BY <1>1, <1>2 DEF ChangingFile, ChangingSettings, FileSteps, SettingsOps
<1>4. PICK k : k = d.key
  OBVIOUS
<1>5. CASE Done(r)
  BY <1>1, <1>2, <1>3, <1>5, EndsOrLeads
<1>6. topic = "rules"
  BY <1>2, <1>3 DEF ChangingFile
<1>7. CASE k \in Kept /\ d.op = "edit" /\ Leads(r, "write")
  <2>1. ASSUME NEW c, SaveTurned(c, d, "write")  PROVE ChangingFile(c) /\ ChangingSettings(c)
    BY <2>1, <1>2, <1>3, <1>6, <1>7 DEF SaveTurned, ChangingFile, ChangingSettings, FileSteps
  <2> QED  BY <1>1, <1>2, <1>3, <1>7, <2>1, EndsOrLeads
<1>8. CASE k \in Kept /\ save' = [save EXCEPT ![r].at = "write", ![r].name = userFile[k].inner,
                                        ![r].base = userFile[k].text, ![r].text = userFile[k].text] /\ d.op # "edit"
  <2>1. PICK f : f = userFile[k] /\ f # NoFile /\ f.inner \in FileNames
    BY <1>2, <1>3, <1>4, <1>8 DEF Kept, FilesTypeOK, IsFile
  <2>2. PICK c : c = [d EXCEPT !.at = "write", !.name = f.inner, !.base = f.text, !.text = f.text]
    OBVIOUS
  <2>3. save' = [save EXCEPT ![r] = c]
    BY <1>2, <1>8, <2>1, <2>2
  <2>4. /\ c = [g \in SaveFields |-> c[g]] /\ c.at = "write" /\ c.op = "toggle" /\ c.key = k /\ c.name = f.inner
        /\ c.base = f.text /\ c.text = f.text
    BY <1>2, <1>3, <1>4, <1>8, <2>2 DEF SaveFields
  <2>5. ChangingFile(c) /\ ChangingSettings(c)
    BY <1>3, <1>4, <1>6, <2>1, <2>4 DEF ChangingFile, ChangingSettings, SettingsOps
  <2> QED  BY <1>1, <1>2, <1>3, <2>3, <2>4, <2>5, SaveOnly DEF SettingsOps
<1> QED  BY <1>2, <1>4, <1>5, <1>7, <1>8 DEF updateRule

LEMMA ScreenListSteps ==
  ASSUME FilesInv, ~overlapping, NEW r \in SaveSlots, OpenListScreen(r) \/ SaveAnswered(r) \/ List(r) \/ loadList(r)
  PROVE  OneByOne'
<1>1. OneByOne /\ SavesTypeOK
  BY DEF FilesInv, OneByOne
<1>2. CASE OpenListScreen(r)
  <2>1. /\ \A q \in SaveSlots : save[q].at = "none"
        /\ rulesToMove = {} /\ save' = [save EXCEPT ![r].at = "list", ![r].op = "open"]
        /\ UNCHANGED <<topic, diskVars, off, meant, meantOff, lost, saves>>
    BY <1>2 DEF OpenListScreen, Saving, screenVars, intentVars
  <2>2. PICK d : d = save[r] /\ d = [f \in SaveFields |-> d[f]]
    BY <1>1 DEF SavesTypeOK
  <2>3. PICK c : c = [d EXCEPT !.at = "list", !.op = "open"]
    OBVIOUS
  <2>4. save' = [save EXCEPT ![r] = c]
    BY <2>1, <2>2, <2>3
  <2>5. c = [f \in SaveFields |-> c[f]] /\ c.at = "list" /\ c.op = "open"
    BY <2>2, <2>3 DEF SaveFields
  <2>6. \A q \in SaveSlots : save[q].op \notin SettingsOps
    BY <1>1, <2>1 DEF OneByOne, ChangingSettings
  <2>7. settings = meantOff /\ off = settings.skills /\ Filed(userFile, meant, lost)
    <3>1. lost \cup {<<n, 0>> : n \in rulesToMove} = lost
      BY <2>1
    <3> QED  BY <1>1, <2>1, <2>6, <3>1 DEF OneByOne
  <2>8. FilesTypeOK'
    BY <1>1, <2>1 DEF OneByOne, FilesTypeOK, diskVars, IsFile, IsText
  <2>9. ChangingFile(c)' /\ ChangingSettings(c)'
    BY <2>1, <2>5, <2>7 DEF ChangingFile, ChangingSettings, diskVars, FileSteps, SettingsOps
  <2> QED  BY <1>1, <2>1, <2>4, <2>5, <2>7, <2>8, <2>9, OneSaveMoves DEF diskVars
<1>3. CASE SaveAnswered(r)
  <2>1. save[r].at = "answer" /\ Leads(r, "list") /\ UNCHANGED <<topic, diskVars, off, meant, meantOff, lost, saves>>
    BY <1>3 DEF SaveAnswered, Step, intentVars
  <2>2. ChangingFile(save[r]) /\ ChangingSettings(save[r]) /\ (save[r].op \notin SettingsOps => settings = meantOff)
    BY <1>1, <2>1, AtWork
  <2>3. save[r].op \notin SettingsOps
    BY <2>1, <2>2 DEF ChangingSettings
  <2>4. ASSUME NEW c, SaveTurned(c, save[r], "list")  PROVE ChangingFile(c) /\ ChangingSettings(c)
    BY <2>2, <2>3, <2>4 DEF SaveTurned, ChangingFile, ChangingSettings, FileSteps
  <2> QED  BY <1>1, <2>1, <2>3, <2>4, EndsOrLeads
<1>4. CASE List(r)
  <2>1. save[r].at = "list" /\ UNCHANGED <<topic, diskVars, off, meant, meantOff, lost, saves>>
    BY <1>4 DEF List, Step, screenVars, intentVars
  <2>2. PICK l \in Listings : save' = [save EXCEPT ![r].at = "show", ![r].answer = l, ![r].read = settings]
    BY <1>4 DEF List
  <2>3. PICK d, read : d = save[r] /\ read = settings /\ d = [f \in SaveFields |-> d[f]] /\ ChangingSettings(d)
    BY <1>1, <2>1, AtWork
  <2>4. PICK c : c = [d EXCEPT !.at = "show", !.answer = l, !.read = read]
    OBVIOUS
  <2>5. save' = [save EXCEPT ![r] = c]
    BY <2>2, <2>3, <2>4
  <2>6. c = [f \in SaveFields |-> c[f]] /\ c.at = "show" /\ c.op = d.op /\ c.read = settings
    BY <2>3, <2>4 DEF SaveFields
  <2>7. ChangingFile(c) /\ ChangingSettings(c)
    BY <2>1, <2>3, <2>6 DEF ChangingFile, ChangingSettings, FileSteps
  <2> QED  BY <1>1, <2>1, <2>3, <2>5, <2>6, <2>7, SaveOnly
<1>5. CASE loadList(r)
  <2>1. /\ save[r].at = "show" /\ off' = save[r].read.skills /\ save' = [save EXCEPT ![r] = NoSave]
        /\ UNCHANGED <<topic, diskVars, meant, meantOff, lost, saves>>
    BY <1>5 DEF loadList, Step, Done, intentVars
  <2>2. /\ \A q \in SaveSlots : q # r => save[q].at = "none"
        /\ rulesToMove = {} /\ FilesTypeOK /\ Filed(userFile, meant, lost) /\ ChangingSettings(save[r])
    BY <1>1, <2>1, AtWork
  <2>3. settings = meantOff /\ off' = settings.skills
    BY <2>1, <2>2 DEF ChangingSettings
  <2>4. ChangingFile(NoSave)' /\ ChangingSettings(NoSave)'
    BY NoSaveFields DEF ChangingFile, ChangingSettings, FileSteps, SettingsOps, NoSave
  <2>5. FilesTypeOK'
    BY <2>1, <2>2 DEF FilesTypeOK, diskVars, IsFile, IsText
  <2> QED  BY <1>1, <2>1, <2>2, <2>3, <2>4, <2>5, NoSaveFields, OneSaveMoves DEF diskVars
<1> QED  BY <1>2, <1>3, <1>4, <1>5

\* The text is written under the name inside.  If that is another file than the one it
\* came from, that one is to be removed.
LEMMA TextWrittenStep ==
  ASSUME OneByOne, NEW r \in SaveSlots, WriteText(r)  PROVE OneByOne'
<1>1. save[r].at = "write"
  BY DEF WriteText, Step
<1>2. PICK d : d = save[r] /\ d = [f \in SaveFields |-> d[f]] /\ ChangingFile(d) /\ ChangingSettings(d)
  BY <1>1, AtWork
<1>3. /\ \A q \in SaveSlots : q # r => save[q].at = "none"
      /\ rulesToMove = {} /\ FilesTypeOK /\ Filed(userFile, meant, lost)
      /\ d.op \notin SettingsOps => settings = meantOff /\ off = settings.skills
  BY <1>1, <1>2, AtWork
<1>4. d.op \notin SettingsOps
  BY <1>1, <1>2 DEF ChangingSettings
<1>5. PICK name, key, base, text : name = d.name /\ key = d.key /\ base = d.base /\ text = d.text
  OBVIOUS
<1>6. PICK over : over = {userFile[name].text} \ {base, NoText}
  OBVIOUS
<1>7. PICK next : next = (IF topic = "rules" /\ name # key THEN "remove" ELSE "answer") /\ Leads(r, next)
  BY <1>2, <1>5 DEF WriteText
<1>8. /\ userFile' = [userFile EXCEPT ![name] = File(name, text)]
      /\ meant' = (meant \ {base}) \cup {text}
      /\ lost' = lost \cup over \cup LeftBehind(base, {name, key})
      /\ UNCHANGED <<topic, rulesToMove, settings, off, meantOff, saves>>
  BY <1>2, <1>5, <1>6, Zenon DEF WriteText, screenVars
<1>9. name \in FileNames /\ key \in FileNames /\ d.op \in {"create", "edit", "toggle"}
      /\ (topic # "rules" => name = key)
  BY <1>1, <1>2, <1>5 DEF ChangingFile, FileSteps
<1>10. /\ IsText(text)
       /\ \/ \A n \in FileNames : userFile[n].text # text
          \/ text = userFile[key].text /\ base = text
  <2>1. CASE d.op = "toggle"
    <3>1. text = userFile[key].text /\ base = text /\ userFile[key] # NoFile
      BY <1>1, <1>2, <1>5, <2>1 DEF ChangingFile
    <3> QED  BY <3>1, <1>3, <1>9 DEF FilesTypeOK, IsFile
  <2>2. CASE d.op \in {"create", "edit"}
    BY <1>1, <1>2, <1>5, <2>2 DEF ChangingFile
  <2>3. d.op = "toggle" \/ d.op \in {"create", "edit"}
    BY <1>9
  <2> QED  BY <2>1, <2>2, <2>3, Zenon
<1>11. text # NoText
  <2>1. text[1] \in FileNames
    BY <1>10 DEF IsText
  <2> QED  BY <2>1, FileNamesAssumption DEF NoText
<1>12. File(name, text).inner = name /\ File(name, text).text = text /\ NoFile.text = NoText
  BY DEF File, NoFile
<1>13. FilesTypeOK'
  <2>1. DOMAIN userFile' = FileNames /\ \A n \in FileNames : userFile'[n] = IF n = name THEN File(name, text) ELSE userFile[n]
    BY <1>3, <1>8 DEF FilesTypeOK
  <2>2. IsFile(File(name, text))
    <3>1. PICK f : f = File(name, text)
      OBVIOUS
    <3>2. f.inner = name /\ f.text = text
      BY <1>12, <3>1
    <3>3. f = File(f.inner, f.text) /\ f.inner \in FileNames /\ IsText(f.text)
      BY <1>9, <1>10, <3>1, <3>2
    <3> QED  BY <3>1, <3>3 DEF IsFile
  <2>3. \A n \in FileNames : IsFile(userFile'[n])
    BY <1>3, <2>1, <2>2 DEF FilesTypeOK
  <2>4. \A n \in FileNames : IsFile(userFile[n])'
    BY <1>8, <2>3 DEF IsFile, IsText
  <2> QED  BY <1>3, <1>8, <1>11, <2>1, <2>4 DEF FilesTypeOK
<1>14. PICK c : save' = [save EXCEPT ![r] = c] /\ SaveTurned(c, d, next)
  BY <1>2, <1>7, SaveTurns
<1>15. PICK F : F = [userFile EXCEPT ![name] = File(name, text)] /\ F = userFile'
  BY <1>8
<1>16. DOMAIN userFile = FileNames /\ NoText \notin meant
  BY <1>3 DEF FilesTypeOK
<1>17. LeftBehind(base, {name, key}) = {base} \cap ({userFile[n].text : n \in FileNames \ {name, key}} \ {NoText})
  BY DEF LeftBehind
<1>18. PICK H, M, N, L, K : H = userFile /\ M = meant /\ N = meant' /\ L = lost /\ K = lost'
  OBVIOUS
<1>19. /\ Filed(H, M, L) /\ NoText \notin M /\ L \subseteq K /\ M \ {base} \subseteq N /\ N \subseteq (M \ {base}) \cup {text}
       /\ text \in N /\ F = [H EXCEPT ![name] = File(name, text)] /\ DOMAIN H = FileNames
       /\ H[name].text \in {base, NoText} \/ H[name].text \in K
       /\ \A n \in FileNames \ {name, key} : H[n].text = base => base \in K \/ base = NoText
  <2>1. H[name].text \in {base, NoText} \/ H[name].text \in K
    BY <1>6, <1>8, <1>18
  <2>2. \A n \in FileNames \ {name, key} : H[n].text = base => base \in K \/ base = NoText
    BY <1>8, <1>17, <1>18
  <2> QED  BY <1>3, <1>8, <1>15, <1>16, <1>18, <2>1, <2>2
<1>20. \A m \in FileNames \ {name, key} : H[m].text = text => text \in K
  BY <1>10, <1>11, <1>18, <1>19
<1>21. ASSUME name = key  PROVE Filed(F, N, K)
  <2>1. PICK S \in SUBSET FileNames : S = {name}
    BY <1>9
  <2>2. /\ \A n \in FileNames \ S : F[n] = H[n]
        /\ \A n \in S : H[n].text \in {base, NoText} \/ H[n].text \in K
        /\ \A n \in FileNames \ S : H[n].text = base => base \in K \/ base = NoText
        /\ \A m \in FileNames \ S : H[m].text = text => text \in K
    BY <1>19, <1>20, <1>21, <2>1
  <2>3. \E n \in S : F[n].text = text /\ \A m \in S : m # n => F[m].text = NoText
    BY <1>9, <1>12, <1>19, <2>1
  <2>4. /\ text \in N /\ text # NoText
        /\ \A m \in FileNames \ S : H[m].text = text => text \in K
        /\ \E n \in S : F[n].text = text /\ \A m \in S : m # n => F[m].text = NoText
    BY <1>11, <1>19, <2>2, <2>3
  <2>5. TextsChange(H, F, M, N, L, K, S, base, text)
    BY <1>19, <2>2, <2>4 DEF TextsChange
  <2> QED  BY <1>19, <2>5, TextsMove
<1>22. ASSUME name # key
       PROVE  Filed([F EXCEPT ![key] = NoFile], N, K \cup ({F[key].text} \ {base, NoText}))
  <2>1. PICK G, Q : G = [F EXCEPT ![key] = NoFile] /\ Q = K \cup ({F[key].text} \ {base, NoText})
    OBVIOUS
  <2>2. PICK S \in SUBSET FileNames : S = {name, key}
    BY <1>9
  <2>3. /\ \A n \in FileNames \ S : G[n] = H[n]
        /\ G[name] = File(name, text) /\ G[key] = NoFile /\ F[key] = H[key]
    BY <1>9, <1>19, <1>22, <2>1, <2>2
  <2>4. /\ \A n \in S : H[n].text \in {base, NoText} \/ H[n].text \in Q
        /\ \A n \in FileNames \ S : H[n].text = base => base \in Q \/ base = NoText
        /\ \A m \in FileNames \ S : H[m].text = text => text \in Q
    BY <1>19, <1>20, <2>1, <2>2, <2>3
  <2>5. \E n \in S : G[n].text = text /\ \A m \in S : m # n => G[m].text = NoText
    BY <1>12, <2>2, <2>3
  <2>6. L \subseteq Q
    BY <1>19, <2>1
  <2>7. Filed(G, N, Q)
    <3>1. /\ text \in N /\ text # NoText
          /\ \A m \in FileNames \ S : H[m].text = text => text \in Q
          /\ \E n \in S : G[n].text = text /\ \A m \in S : m # n => G[m].text = NoText
      BY <1>11, <1>19, <2>4, <2>5
    <3>2. TextsChange(H, G, M, N, L, Q, S, base, text)
      BY <1>19, <2>3, <2>4, <2>6, <3>1 DEF TextsChange
    <3> QED  BY <1>19, <3>2, TextsMove
  <2> QED  BY <2>1, <2>7
<1>23. c.at = "remove" <=> name # key
  BY <1>7, <1>9, <1>14 DEF SaveTurned
<1>24. ChangingFile(c)'
  <2>1. c.at \in {"remove", "answer"} /\ c.op = d.op /\ c.name = name /\ c.key = key /\ c.base = base
    BY <1>5, <1>7, <1>14 DEF SaveTurned
  <2> QED  BY <1>9, <1>15, <1>18, <1>22, <1>23, <2>1 DEF ChangingFile
<1>25. ChangingSettings(c)'
  BY <1>4, <1>7, <1>14 DEF ChangingSettings, SaveTurned
<1>26. c.at # "remove" => Filed(userFile', meant', lost')
  BY <1>15, <1>18, <1>21, <1>23
<1> QED  BY <1>3, <1>4, <1>8, <1>13, <1>14, <1>24, <1>25, <1>26, OneSaveMoves DEF SaveTurned

LEMMA OldFileStep ==
  ASSUME OneByOne, NEW r \in SaveSlots, RemoveOld(r)  PROVE OneByOne'
<1>1. save[r].at = "remove"
  BY DEF RemoveOld, Step
<1>2. PICK d : d = save[r] /\ d = [f \in SaveFields |-> d[f]] /\ ChangingFile(d) /\ ChangingSettings(d)
  BY <1>1, AtWork
<1>3. /\ \A q \in SaveSlots : q # r => save[q].at = "none"
      /\ rulesToMove = {} /\ FilesTypeOK
      /\ d.op \notin SettingsOps => settings = meantOff /\ off = settings.skills
  BY <1>1, <1>2, AtWork
<1>4. d.op \notin SettingsOps /\ d.op \in {"create", "edit", "toggle"} /\ d.key \in FileNames /\ d.name \in FileNames
  BY <1>1, <1>2 DEF ChangingSettings, ChangingFile, FileSteps
<1>5. /\ userFile' = [userFile EXCEPT ![d.key] = NoFile]
      /\ lost' = lost \cup ({userFile[d.key].text} \ {d.base, NoText}) /\ Leads(r, "answer")
      /\ UNCHANGED <<topic, rulesToMove, settings, off, meant, meantOff, saves>>
  BY <1>2 DEF RemoveOld, screenVars
<1>6. Filed(userFile', meant', lost')
  BY <1>1, <1>2, <1>5 DEF ChangingFile
<1>7. FilesTypeOK'
  <2>1. DOMAIN userFile' = FileNames /\ \A n \in FileNames : userFile'[n] = NoFile \/ userFile'[n] = userFile[n]
    BY <1>3, <1>5 DEF FilesTypeOK
  <2>2. \A n \in FileNames : IsFile(userFile[n])'
    BY <1>3, <1>5, <2>1 DEF FilesTypeOK, IsFile, IsText
  <2> QED  BY <1>3, <1>5, <2>1, <2>2 DEF FilesTypeOK
<1>8. PICK c : save' = [save EXCEPT ![r] = c] /\ SaveTurned(c, d, "answer")
  BY <1>2, <1>5, SaveTurns
<1>9. ChangingFile(c)' /\ ChangingSettings(c)'
  BY <1>4, <1>8 DEF ChangingFile, ChangingSettings, SaveTurned
<1> QED  BY <1>3, <1>4, <1>5, <1>6, <1>7, <1>8, <1>9, OneSaveMoves DEF SaveTurned

\* The text of one file is taken out, or replaced by a new one.
OneTextChange(F, G, M, N, L, K, key, base, text) ==
  /\ \A n \in FileNames : n # key => G[n] = F[n]
  /\ NoText \notin M /\ L \subseteq K /\ M \ {base} \subseteq N /\ N \subseteq (M \ {base}) \cup {text}
  /\ F[key].text \in {base, NoText} \/ F[key].text \in K
  /\ \A n \in FileNames : n # key /\ F[n].text = base => base \in K \/ base = NoText
  /\ \/ N \subseteq M \ {base} /\ G[key].text = NoText
     \/ text \in N /\ text # NoText /\ G[key].text = text /\ \A m \in FileNames : F[m].text # text

LEMMA OneTextMoves ==
  ASSUME NEW F, NEW G, NEW M, NEW N, NEW L, NEW K, NEW key \in FileNames, NEW base, NEW text,
         Filed(F, M, L), OneTextChange(F, G, M, N, L, K, key, base, text)
  PROVE  Filed(G, N, K)
<1>1. PICK S : S = {key}
  OBVIOUS
<1>2. TextsChange(F, G, M, N, L, K, S, base, text)
  BY <1>1 DEF TextsChange, OneTextChange
<1> QED  BY <1>2, TextsMove

LEMMA OneFileMoves ==
  ASSUME FilesTypeOK, Filed(userFile, meant, lost), NEW key \in FileNames, NEW base, NEW text, NEW f,
         userFile' = [userFile EXCEPT ![key] = f], f.text = text, lost \subseteq lost',
         userFile[key].text \in {base, NoText} \/ userFile[key].text \in lost',
         LeftBehind(base, {key}) \subseteq lost',
         \/ f = NoFile /\ meant' = meant \ {base}
         \/ text # NoText /\ (\A n \in FileNames : userFile[n].text # text) /\ meant' = (meant \ {base}) \cup {text}
  PROVE  Filed(userFile', meant', lost')
<1>1. DOMAIN userFile = FileNames /\ NoText \notin meant
  BY DEF FilesTypeOK
<1>2. userFile'[key] = f /\ \A n \in FileNames : n # key => userFile'[n] = userFile[n]
  BY <1>1
<1>3. \A n \in FileNames : n # key /\ userFile[n].text = base => base \in lost' \/ base = NoText
  BY DEF LeftBehind
<1>4. \/ meant' \subseteq meant \ {base} /\ userFile'[key].text = NoText
      \/ text \in meant' /\ text # NoText /\ userFile'[key].text = text /\ \A m \in FileNames : userFile[m].text # text
  BY <1>2 DEF NoFile, File
<1>5. meant \ {base} \subseteq meant' /\ meant' \subseteq (meant \ {base}) \cup {text}
  OBVIOUS
<1>6. OneTextChange(userFile, userFile', meant, meant', lost, lost', key, base, text)
  BY <1>1, <1>2, <1>3, <1>4, <1>5 DEF OneTextChange
<1> QED  BY <1>6, OneTextMoves

LEMMA DeleteStep ==
  ASSUME OneByOne, NEW r \in SaveSlots, deleteRule(r)  PROVE OneByOne'
<1>1. save[r].at = "delete"
  BY DEF deleteRule, Step
<1>2. PICK d : d = save[r] /\ d = [f \in SaveFields |-> d[f]] /\ ChangingFile(d) /\ ChangingSettings(d)
  BY <1>1, AtWork
<1>3. /\ \A q \in SaveSlots : q # r => save[q].at = "none"
      /\ rulesToMove = {} /\ FilesTypeOK /\ Filed(userFile, meant, lost)
      /\ d.op \notin SettingsOps => settings = meantOff /\ off = settings.skills
  BY <1>1, <1>2, AtWork
<1>4. d.op \notin SettingsOps /\ d.key \in FileNames
  BY <1>1, <1>2 DEF ChangingSettings, ChangingFile, FileSteps
<1>5. PICK key, base : key = d.key /\ base = d.base
  OBVIOUS
<1>6. /\ userFile' = [userFile EXCEPT ![key] = NoFile] /\ meant' = meant \ {base}
      /\ lost' = lost \cup ({userFile[key].text} \ {base, NoText}) \cup LeftBehind(base, {key})
      /\ Leads(r, "list") /\ UNCHANGED <<topic, rulesToMove, settings, off, meantOff, saves>>
  BY <1>2, <1>5, Zenon DEF deleteRule, screenVars
<1>7. Filed(userFile', meant', lost')
  <2>1. NoFile.text = NoText
    BY DEF NoFile, File
  <2>2. userFile[key].text \in {base, NoText} \/ userFile[key].text \in lost'
    BY <1>6
  <2>3. lost \subseteq lost' /\ LeftBehind(base, {key}) \subseteq lost' /\ key \in FileNames
    BY <1>4, <1>5, <1>6
  <2> QED  BY <1>3, <1>6, <2>1, <2>2, <2>3, OneFileMoves
<1>8. FilesTypeOK'
  <2>1. DOMAIN userFile' = FileNames /\ \A n \in FileNames : userFile'[n] = NoFile \/ userFile'[n] = userFile[n]
    BY <1>3, <1>6 DEF FilesTypeOK
  <2>2. \A n \in FileNames : IsFile(userFile[n])'
    BY <1>3, <1>6, <2>1 DEF FilesTypeOK, IsFile, IsText
  <2> QED  BY <1>3, <1>6, <2>1, <2>2 DEF FilesTypeOK
<1>9. PICK c : save' = [save EXCEPT ![r] = c] /\ SaveTurned(c, d, "list")
  BY <1>2, <1>6, SaveTurns
<1>10. ChangingFile(c)' /\ ChangingSettings(c)'
  BY <1>3, <1>4, <1>6, <1>9 DEF ChangingFile, ChangingSettings, SaveTurned, FileSteps
<1> QED  BY <1>3, <1>4, <1>6, <1>7, <1>8, <1>9, <1>10, OneSaveMoves DEF SaveTurned

\* Steps taken while no change of the user's is under way.
LEMMA NobodySaves ==
  ASSUME OneByOne, \A q \in SaveSlots : save[q].at = "none", UNCHANGED <<topic, save, settings, off, meantOff>>,
         FilesTypeOK', MovedFirst', Filed(userFile', meant', lost' \cup {<<n, 0>> : n \in rulesToMove'})
  PROVE  OneByOne'
<1>1. \A q \in SaveSlots : save[q].op \notin SettingsOps
  BY DEF OneByOne, ChangingSettings
<1>2. \A q \in SaveSlots : ChangingFile(save[q])' /\ ChangingSettings(save[q])'
  BY <1>1 DEF ChangingFile, ChangingSettings, FileSteps
<1>3. SavesTypeOK' /\ settings' = meantOff' /\ off' = settings'.skills
  BY <1>1 DEF OneByOne, SavesTypeOK
<1> QED  BY <1>1, <1>2, <1>3 DEF OneByOne

LEMMA AgentStep ==
  ASSUME FilesInv, ~overlapping', configWrite  PROVE OneByOne'
<1>1. /\ ~overlapping /\ Saving = {} /\ rulesToMove = {} /\ saves' = saves + 1
      /\ UNCHANGED <<topic, save, settings, off, meantOff, rulesToMove>>
  BY DEF configWrite, screenVars
<1>2. OneByOne /\ FilesTypeOK /\ \A q \in SaveSlots : save[q].at = "none"
  BY <1>1 DEF FilesInv, OneByOne, Saving
<1>3. lost \cup {<<n, 0>> : n \in rulesToMove} = lost /\ lost' \cup {<<n, 0>> : n \in rulesToMove'} = lost'
  BY <1>1
<1>4. Filed(userFile, meant, lost)
  BY <1>2, <1>3 DEF OneByOne
<1>5. PICK n \in FileNames :
       /\ \/ \E inner \in FileNames :
               /\ userFile' = [userFile EXCEPT ![n] = File(inner, NewText(n))]
               /\ meant' = (meant \ {userFile[n].text}) \cup {NewText(n)}
          \/ userFile' = [userFile EXCEPT ![n] = NoFile] /\ meant' = meant \ {userFile[n].text}
       /\ lost' = lost \cup LeftBehind(userFile[n].text, {n})
  BY DEF configWrite
<1>6. PICK base, text : base = userFile[n].text /\ text = NewText(n)
  OBVIOUS
<1>7. IsText(text)' /\ text # NoText /\ \A m \in FileNames : userFile[m].text # text
  BY <1>1, <1>2, <1>6, FreshText
<1>8. \A m \in FileNames : IsFile(userFile[m]) /\ (userFile'[m] = userFile[m] => IsFile(userFile[m])')
  BY <1>1, <1>2, SavesGrow DEF FilesTypeOK, IsFile
<1>9. NoFile.text = NoText
  BY DEF NoFile, File
<1>10. DOMAIN userFile = FileNames /\ NoText \notin meant /\ saves' \in Nat
  BY <1>1, <1>2 DEF FilesTypeOK
<1>11. CASE userFile' = [userFile EXCEPT ![n] = NoFile] /\ meant' = meant \ {userFile[n].text}
  <2>1. Filed(userFile', meant', lost')
    BY <1>2, <1>4, <1>5, <1>6, <1>9, <1>11, OneFileMoves
  <2>2. \A m \in FileNames : IsFile(userFile[m])'
    BY <1>8, <1>10, <1>11 DEF IsFile
  <2>3. FilesTypeOK'
    BY <1>1, <1>2, <1>10, <1>11, <2>2 DEF FilesTypeOK
  <2> QED  BY <1>1, <1>2, <1>3, <2>1, <2>3, NobodySaves DEF MovedFirst
<1>12. ASSUME NEW inner \in FileNames, userFile' = [userFile EXCEPT ![n] = File(inner, NewText(n))],
              meant' = (meant \ {userFile[n].text}) \cup {NewText(n)}
       PROVE  OneByOne'
  <2>1. PICK f : f = File(inner, text) /\ f.inner = inner /\ f.text = text
    <3>1. PICK f : f = File(inner, text)
      OBVIOUS
    <3>2. f.inner = inner /\ f.text = text
      BY <3>1 DEF File
    <3> QED  BY <3>1, <3>2
  <2>2. userFile' = [userFile EXCEPT ![n] = f] /\ meant' = (meant \ {base}) \cup {text}
    BY <1>6, <1>12, <2>1
  <2>3. Filed(userFile', meant', lost')
    BY <1>2, <1>4, <1>5, <1>6, <1>7, <2>1, <2>2, OneFileMoves
  <2>4. \A m \in FileNames : IsFile(userFile[m])'
    <3>1. f = File(f.inner, f.text) /\ f.inner \in FileNames /\ IsText(f.text)'
      BY <1>7, <1>12, <2>1
    <3>2. userFile'[n] = f /\ \A m \in FileNames : m # n => userFile'[m] = userFile[m]
      BY <1>10, <2>2
    <3>3. IsFile(userFile[n])'
      BY <3>1, <3>2 DEF IsFile, IsText
    <3> QED  BY <1>8, <3>2, <3>3
  <2>5. FilesTypeOK'
    BY <1>1, <1>2, <1>7, <1>10, <2>2, <2>4 DEF FilesTypeOK
  <2> QED  BY <1>1, <1>2, <1>3, <2>3, <2>5, NobodySaves DEF MovedFirst
<1> QED  BY <1>5, <1>11, <1>12

\* A rule of an earlier version gets its file, or the rest of them are given up.
LEMMA MoveStep ==
  ASSUME OneByOne, migrateRulesFromDb  PROVE OneByOne'
<1>1. rulesToMove # {} /\ UNCHANGED <<topic, save, settings, off, meant, meantOff, saves>>
  BY DEF migrateRulesFromDb, screenVars
<1>2. FilesTypeOK /\ MovedFirst /\ \A q \in SaveSlots : save[q].at = "none"
  BY <1>1 DEF OneByOne, MovedFirst
<1>3. /\ \A n \in FileNames : userFile[n] = NoFile \/ (n \notin rulesToMove /\ userFile[n] = File(n, <<n, 0>>))
      /\ \A n \in rulesToMove : n \in FileNames /\ <<n, 0>> \in meant
  BY <1>1, <1>2 DEF MovedFirst, FilesTypeOK
<1>4. PICK moved : moved = {<<n, 0>> : n \in rulesToMove}
  OBVIOUS
<1>5. Filed(userFile, meant, lost \cup moved)
  BY <1>2, <1>4 DEF OneByOne
<1>6. DOMAIN userFile = FileNames /\ NoText \notin meant /\ NoFile.text = NoText
      /\ \A n : File(n, <<n, 0>>).inner = n /\ File(n, <<n, 0>>).text = <<n, 0>>
  BY <1>2 DEF FilesTypeOK, NoFile, File
<1>7. CASE rulesToMove' = {} /\ lost' = lost \cup moved /\ userFile' = userFile
  <2>1. lost' \cup {<<n, 0>> : n \in rulesToMove'} = lost \cup moved
    BY <1>7
  <2>2. FilesTypeOK'
    BY <1>1, <1>2, <1>7 DEF FilesTypeOK, IsFile, IsText
  <2>3. Filed(userFile', meant', lost' \cup {<<n, 0>> : n \in rulesToMove'})
    BY <1>1, <1>5, <1>7, <2>1
  <2> QED  BY <1>1, <1>2, <1>7, <2>2, <2>3, NobodySaves DEF MovedFirst
<1>8. ASSUME NEW n \in rulesToMove, userFile' = [userFile EXCEPT ![n] = File(n, <<n, 0>>)],
             rulesToMove' = rulesToMove \ {n}, UNCHANGED lost
      PROVE  OneByOne'
  <2>1. PICK f, text : f = File(n, <<n, 0>>) /\ f.inner = n /\ f.text = text /\ text = <<n, 0>>
    BY <1>6
  <2>2. n \in FileNames /\ userFile[n] = NoFile /\ text \in meant
    BY <1>3, <2>1
  <2>3. userFile'[n] = f /\ DOMAIN userFile' = FileNames /\ \A m \in FileNames : m # n => userFile'[m] = userFile[m]
    BY <1>6, <1>8, <2>1, <2>2
  <2>4. \A m \in FileNames : IsFile(userFile[m])'
    <3>1. text = <<text[1], text[2]>> /\ text[1] = n /\ text[2] = 0 /\ saves \in Nat
      BY <1>2, <2>1 DEF FilesTypeOK
    <3>2. IsText(text)'
      BY <1>1, <2>2, <3>1 DEF IsText
    <3>3. IsFile(userFile[n])'
      BY <2>1, <2>2, <2>3, <3>2 DEF IsFile, IsText
    <3> QED  BY <1>1, <1>2, <2>3, <3>3 DEF FilesTypeOK, IsFile, IsText
  <2>5. FilesTypeOK'
    BY <1>1, <1>2, <1>8, <2>3, <2>4 DEF FilesTypeOK
  <2>6. MovedFirst'
    BY <1>1, <1>2, <1>3, <1>8, <2>1, <2>3 DEF MovedFirst
  <2>7. PICK left : left = {<<m, 0>> : m \in rulesToMove'} /\ moved = left \cup {text} /\ text \notin left
    <3>1. PICK left : left = {<<m, 0>> : m \in rulesToMove \ {n}}
      OBVIOUS
    <3>2. \A m : <<m, 0>> = <<n, 0>> => m = n
      OBVIOUS
    <3>3. text \notin left
      BY <2>1, <3>1, <3>2
    <3>4. moved = left \cup {text}
      BY <1>4, <2>1, <3>1
    <3> QED  BY <1>8, <3>1, <3>3, <3>4
  <2>8. text # NoText
    BY <1>6, <2>2
  <2>9. ASSUME NEW m \in FileNames  PROVE userFile[m].text # text
    <3>1. CASE userFile[m] = NoFile
      BY <3>1, <1>6, <2>8
    <3>2. CASE m \notin rulesToMove /\ userFile[m] = File(m, <<m, 0>>)
      <4>1. userFile[m].text = <<m, 0>> /\ m # n
        BY <3>2, <1>6
      <4> QED  BY <4>1, <2>1
    <3> QED  BY <3>1, <3>2, <1>3
  <2>10. Filed(userFile', meant', lost' \cup left)
    <3> SUFFICES ASSUME NEW t \in (meant \cup TextsIn(userFile')) \ (lost \cup left)
                 PROVE  t \in meant /\ \E k \in FileNames : userFile'[k].text = t /\ \A m \in FileNames : userFile'[m].text = t => m = k
      BY <1>1, <1>8 DEF Filed
    <3>1. CASE t = text
      BY <3>1, <2>1, <2>2, <2>3, <2>9
    <3>2. CASE t # text
      <4>1. t \in (meant \cup TextsIn(userFile)) \ (lost \cup moved)
        BY <3>2, <2>1, <2>2, <2>3, <2>7 DEF TextsIn
      <4>2. t \in meant /\ \E k \in FileNames : userFile[k].text = t /\ \A m \in FileNames : userFile[m].text = t => m = k
        BY <1>5, <4>1 DEF Filed
      <4>3. PICK k \in FileNames : userFile[k].text = t /\ \A m \in FileNames : userFile[m].text = t => m = k
        BY <4>2
      <4>4. k # n
        BY <4>2, <4>3, <2>2, <1>6
      <4> QED  BY <3>2, <4>2, <4>3, <4>4, <2>1, <2>3
    <3> QED  BY <3>1, <3>2
  <2> QED  BY <1>1, <1>2, <2>5, <2>6, <2>7, <2>10, NobodySaves
<1> QED  BY <1>4, <1>7, <1>8 DEF migrateRulesFromDb

LEMMA SettingsFields == \A a, b : Settings(a, b).skills = a /\ Settings(a, b).hooks = b
BY DEF Settings

LEMMA MoreSaves ==
  ASSUME FilesTypeOK, saves' = saves + 1, UNCHANGED <<topic, diskVars, meant>>,
         NEW skills, NEW hooks, meantOff' = Settings(skills, hooks)
  PROVE  FilesTypeOK'
<1>1. \A n \in FileNames : IsFile(userFile[n])'
  BY SavesGrow DEF FilesTypeOK, IsFile, diskVars
<1>2. meantOff' = Settings(meantOff'.skills, meantOff'.hooks)
  BY SettingsFields
<1> QED  BY <1>1, <1>2 DEF FilesTypeOK, diskVars

LEMMA ToggleSkillStep ==
  ASSUME FilesInv, ~overlapping', NEW r \in SaveSlots, toggleSkill(r)  PROVE OneByOne'
<1>1. PICK n \in FileNames :
        /\ BeginSave(r, [NoSave EXCEPT !.op = "toggleSkill", !.at = "patch",
                                       !.wants.skills = (off \cup {n}) \ (off \cap {n})])
        /\ off' = (off \cup {n}) \ (off \cap {n})
        /\ meantOff' = [meantOff EXCEPT !.skills = (@ \cup {n}) \ (@ \cap {n})]
  BY DEF toggleSkill
<1>2. PICK next : next = (off \cup {n}) \ (off \cap {n})
  OBVIOUS
<1>3. PICK c : c = [NoSave EXCEPT !.op = "toggleSkill", !.at = "patch", !.wants.skills = next]
  OBVIOUS
<1>4. c.at = "patch" /\ c.op = "toggleSkill" /\ c.wants.skills = next /\ c = [f \in SaveFields |-> c[f]]
  BY <1>3 DEF NoSave, SaveFields, Settings
<1>5. BeginSave(r, c)
  BY <1>1, <1>2, <1>3, Zenon
<1>6. /\ OneByOne /\ (\A q \in SaveSlots : save[q].at = "none")
      /\ rulesToMove = {} /\ saves' = saves + 1 /\ save' = [save EXCEPT ![r] = c]
      /\ FilesTypeOK /\ Filed(userFile, meant, lost) /\ settings = meantOff /\ off = settings.skills
  BY <1>5, Beginning
<1>7. UNCHANGED <<topic, diskVars, meant, lost>>
  BY DEF toggleSkill
<1>8. PICK hooks : meantOff = Settings(off, hooks)
  BY <1>6 DEF FilesTypeOK
<1>9. meantOff' = Settings(next, hooks)
  BY <1>1, <1>2, <1>8 DEF Settings
<1>10. FilesTypeOK'
  BY <1>6, <1>7, <1>9, MoreSaves
<1>11. meantOff'.skills = next /\ meantOff'.hooks = hooks /\ settings'.hooks = hooks /\ off' = next
  BY <1>1, <1>2, <1>6, <1>7, <1>8, <1>9, SettingsFields DEF diskVars
<1>12. ChangingFile(c)' /\ ChangingSettings(c)'
  BY <1>4, <1>11 DEF ChangingFile, ChangingSettings, FileSteps, SettingsOps
<1>13. c.op \in SettingsOps
  BY <1>4 DEF SettingsOps
<1> QED  BY <1>4, <1>6, <1>7, <1>10, <1>12, <1>13, OneSaveMoves DEF diskVars

HookBegins(r) ==
  /\ \E n \in FileNames :
       /\ BeginSave(r, [NoSave EXCEPT !.op = "toggleHook", !.at = "get", !.key = n])
       /\ meantOff' = [meantOff EXCEPT !.hooks = (@ \cup {n}) \ (@ \cap {n})]
  /\ UNCHANGED <<topic, diskVars, off, meant, lost>>

LEMMA HookBeginsStep ==
  ASSUME FilesInv, ~overlapping', NEW r \in SaveSlots, HookBegins(r)  PROVE OneByOne'
<1>1. PICK n \in FileNames :
       /\ BeginSave(r, [NoSave EXCEPT !.op = "toggleHook", !.at = "get", !.key = n])
       /\ meantOff' = [meantOff EXCEPT !.hooks = (@ \cup {n}) \ (@ \cap {n})]
  BY DEF HookBegins
<1>2. UNCHANGED <<topic, diskVars, off, meant, lost>>
  BY DEF HookBegins
<1>3. PICK c : c = [NoSave EXCEPT !.op = "toggleHook", !.at = "get", !.key = n]
  OBVIOUS
<1>4. c.at = "get" /\ c.op = "toggleHook" /\ c.key = n /\ c = [f \in SaveFields |-> c[f]]
  BY <1>3 DEF NoSave, SaveFields
<1>5. BeginSave(r, c)
  BY <1>1, <1>3, Zenon
<1>6. /\ OneByOne /\ (\A q \in SaveSlots : save[q].at = "none")
      /\ rulesToMove = {} /\ saves' = saves + 1 /\ save' = [save EXCEPT ![r] = c]
      /\ FilesTypeOK /\ Filed(userFile, meant, lost) /\ settings = meantOff /\ off = settings.skills
  BY <1>5, Beginning
<1>7. PICK skills, hooks : meantOff = Settings(skills, hooks)
  BY <1>6 DEF FilesTypeOK
<1>8. PICK next : next = (hooks \cup {n}) \ (hooks \cap {n})
  OBVIOUS
<1>9. meantOff' = Settings(skills, next)
  BY <1>1, <1>7, <1>8 DEF Settings
<1>10. FilesTypeOK'
  BY <1>2, <1>6, <1>9, MoreSaves
<1>11. /\ meantOff'.skills = skills /\ meantOff'.hooks = next /\ settings' = settings
       /\ settings.hooks = hooks /\ settings.skills = skills /\ off' = skills
  BY <1>2, <1>6, <1>7, <1>9, SettingsFields DEF diskVars
<1>12. ChangingFile(c)' /\ ChangingSettings(c)'
  BY <1>4, <1>8, <1>11 DEF ChangingFile, ChangingSettings, FileSteps, SettingsOps
<1>13. c.op \in SettingsOps
  BY <1>4 DEF SettingsOps
<1> QED  BY <1>2, <1>4, <1>6, <1>10, <1>12, <1>13, OneSaveMoves DEF diskVars

HookIsRead(r) ==
  /\ Step(r, "get")
  /\ LET n == save[r].key
         hooks == (settings.hooks \cup {n}) \ (settings.hooks \cap {n})
     IN save' = [save EXCEPT ![r].at = "patch", ![r].wants.hooks = hooks]
  /\ UNCHANGED <<topic, diskVars, off, meant, meantOff, lost, saves>>

LEMMA HookReadStep ==
  ASSUME OneByOne, NEW r \in SaveSlots, HookIsRead(r)  PROVE OneByOne'
<1>1. save[r].at = "get" /\ UNCHANGED <<topic, diskVars, off, meant, meantOff, lost, saves>>
  BY DEF HookIsRead, Step
<1>2. PICK d : d = save[r] /\ d = [f \in SaveFields |-> d[f]] /\ ChangingFile(d) /\ ChangingSettings(d)
  BY <1>1, AtWork
<1>3. PICK hooks : hooks = (settings.hooks \cup {d.key}) \ (settings.hooks \cap {d.key})
  OBVIOUS
<1>4. PICK w : w = [d.wants EXCEPT !.hooks = hooks]
  OBVIOUS
<1>5. PICK c : c = [d EXCEPT !.at = "patch", !.wants = w]
  OBVIOUS
<1>6. save' = [save EXCEPT ![r] = c]
  BY <1>2, <1>3, <1>4, <1>5 DEF HookIsRead
<1>7. c = [f \in SaveFields |-> c[f]] /\ c.at = "patch" /\ c.op = d.op /\ c.wants = w
  BY <1>2, <1>5 DEF SaveFields
<1>8. /\ d.op = "toggleHook" /\ off = settings.skills /\ meantOff.skills = settings.skills
      /\ meantOff.hooks = hooks
  BY <1>1, <1>2, <1>3 DEF ChangingSettings
<1>9. w.hooks = hooks
  BY <1>4
<1>10. ChangingFile(c) /\ ChangingSettings(c)
  BY <1>7, <1>8, <1>9 DEF ChangingFile, ChangingSettings, FileSteps, SettingsOps
<1> QED  BY <1>1, <1>2, <1>6, <1>7, <1>10, SaveOnly

LEMMA PatchStep ==
  ASSUME OneByOne, NEW r \in SaveSlots, patchVeylinSettings(r)  PROVE OneByOne'
<1>1. /\ save[r].at \in {"patch", "store"} /\ save[r].at \notin {"none", "remove"}
      /\ UNCHANGED <<topic, userFile, rulesToMove, off, meant, meantOff, lost, saves>>
  BY DEF patchVeylinSettings, Step, screenVars, intentVars
<1>2. PICK d : d = save[r] /\ d = [f \in SaveFields |-> d[f]] /\ ChangingFile(d) /\ ChangingSettings(d)
  BY <1>1, AtWork
<1>3. d.op \in SettingsOps
  BY <1>1, <1>2 DEF ChangingSettings
<1>4. CASE Step(r, "patch") /\ save' = [save EXCEPT ![r].at = "store", ![r].read = settings] /\ UNCHANGED settings
  <2>1. PICK c : c = [d EXCEPT !.at = "store", !.read = settings]
    OBVIOUS
  <2>2. save' = [save EXCEPT ![r] = c]
    BY <1>2, <1>4, <2>1
  <2>3. c = [f \in SaveFields |-> c[f]] /\ c.at = "store" /\ c.op = d.op /\ c.wants = d.wants /\ c.read = settings
    BY <1>2, <2>1 DEF SaveFields
  <2>4. d.at = "patch"
    BY <1>2, <1>4 DEF Step
  <2>5. ChangingFile(c) /\ ChangingSettings(c)
    BY <1>2, <1>3, <2>3, <2>4 DEF ChangingFile, ChangingSettings, FileSteps
  <2> QED  BY <1>1, <1>2, <1>4, <2>2, <2>3, <2>5, SaveOnly DEF diskVars
<1>5. ASSUME Step(r, "store"), Done(r), NEW next, settings' = next,
             next = IF d.op = "toggleSkill" THEN Settings(d.wants.skills, d.read.hooks)
                    ELSE Settings(d.read.skills, d.wants.hooks)
      PROVE  OneByOne'
  <2>1. /\ \A q \in SaveSlots : q # r => save[q].at = "none"
        /\ rulesToMove = {} /\ FilesTypeOK /\ Filed(userFile, meant, lost)
    BY <1>1, AtWork
  <2>2. d.at = "store" /\ d.read = settings
    BY <1>2, <1>5 DEF Step, ChangingSettings
  <2>3. PICK skills, hooks : meantOff = Settings(skills, hooks) /\ meantOff.skills = skills /\ meantOff.hooks = hooks
    BY <2>1, SettingsFields DEF FilesTypeOK
  <2>4. next = meantOff /\ off = skills
    BY <1>2, <1>3, <1>5, <2>2, <2>3 DEF ChangingSettings, SettingsOps
  <2>5. settings' = meantOff' /\ off' = settings'.skills
    BY <1>1, <1>5, <2>3, <2>4
  <2>6. FilesTypeOK'
    BY <1>1, <2>1, <2>3, <2>5 DEF FilesTypeOK, IsFile, IsText
  <2>7. ChangingFile(NoSave)' /\ ChangingSettings(NoSave)'
    BY NoSaveFields DEF ChangingFile, ChangingSettings, FileSteps, SettingsOps
  <2>8. save' = [save EXCEPT ![r] = NoSave]
    BY <1>5 DEF Done
  <2> QED  BY <1>1, <2>1, <2>5, <2>6, <2>7, <2>8, NoSaveFields, OneSaveMoves
<1>6. \/ Step(r, "patch") /\ save' = [save EXCEPT ![r].at = "store", ![r].read = settings] /\ UNCHANGED settings
      \/ /\ Step(r, "store") /\ Done(r)
         /\ settings' = IF d.op = "toggleSkill" THEN Settings(d.wants.skills, d.read.hooks)
                        ELSE Settings(d.read.skills, d.wants.hooks)
  BY <1>2 DEF patchVeylinSettings
<1> QED  BY <1>4, <1>5, <1>6

LEMMA SettingsFailStep ==
  ASSUME OneByOne, NEW r \in SaveSlots, SettingsFail(r)  PROVE OneByOne'
<1>1. /\ save[r].at \in {"patch", "store"} /\ save[r].at \notin {"none", "remove"}
      /\ Leads(r, "list") /\ meantOff' = settings /\ UNCHANGED settings
      /\ UNCHANGED <<topic, userFile, rulesToMove, off, meant, lost, saves>>
  BY DEF SettingsFail, screenVars, diskVars
<1>2. PICK d : d = save[r] /\ d = [f \in SaveFields |-> d[f]] /\ ChangingFile(d) /\ ChangingSettings(d)
  BY <1>1, AtWork
<1>3. d.op \in SettingsOps
  BY <1>1, <1>2 DEF ChangingSettings
<1>4. /\ \A q \in SaveSlots : q # r => save[q].at = "none"
      /\ rulesToMove = {} /\ FilesTypeOK /\ Filed(userFile, meant, lost)
  BY <1>1, AtWork
<1>5. PICK c : save' = [save EXCEPT ![r] = c] /\ SaveTurned(c, d, "list")
  BY <1>1, <1>2, SaveTurns
<1>6. FilesTypeOK'
  BY <1>1, <1>4 DEF FilesTypeOK, IsFile, IsText
<1>7. ChangingFile(c)' /\ ChangingSettings(c)'
  BY <1>1, <1>3, <1>5 DEF ChangingFile, ChangingSettings, SaveTurned, FileSteps, SettingsOps
<1>8. c = [f \in SaveFields |-> c[f]] /\ c.at # "remove" /\ c.op \in SettingsOps
  BY <1>3, <1>5 DEF SaveTurned
<1> QED  BY <1>1, <1>4, <1>5, <1>6, <1>7, <1>8, OneSaveMoves

LEMMA FilesStep == FilesInv /\ [UserFilesNext]_userVars => FilesInv'
<1> SUFFICES ASSUME FilesInv, [UserFilesNext]_userVars, ~overlapping' PROVE OneByOne'
  BY DEF FilesInv
<1>1. CASE migrateRulesFromDb
  BY <1>1, MoveStep DEF FilesInv, migrateRulesFromDb
<1>2. CASE configWrite
  BY <1>2, AgentStep
<1>3. ASSUME NEW r \in SaveSlots, overlapping' = overlapping,
             \/ OpenListScreen(r) \/ createRule(r) \/ updateRule(r) \/ updateUserSkill(r) \/ WriteText(r)
             \/ RemoveOld(r) \/ deleteRule(r) \/ deleteVeylinSkill(r) \/ SaveAnswered(r) \/ List(r) \/ loadList(r)
             \/ HookIsRead(r) \/ patchVeylinSettings(r) \/ SettingsFail(r)
      PROVE  OneByOne'
  <2>1. OneByOne
    BY <1>3 DEF FilesInv
  <2> QED  BY <1>3, <2>1, CheckingSteps, UpdateRuleStep, TextWrittenStep, OldFileStep, DeleteStep, ScreenListSteps,
              HookReadStep, PatchStep, SettingsFailStep
<1>4. ASSUME NEW r \in SaveSlots, SaveRule(r) \/ SaveSkill(r) \/ toggleSkill(r) \/ HookBegins(r)  PROVE OneByOne'
  BY <1>4, SaveRuleStep, SaveSkillStep, ToggleSkillStep, HookBeginsStep
<1>5. \A r \in SaveSlots : setHookDisabled(r) => HookBegins(r) \/ (HookIsRead(r) /\ overlapping' = overlapping)
  BY DEF setHookDisabled, HookBegins, HookIsRead, screenVars
<1>6. \A r \in SaveSlots :
        \/ OpenListScreen(r) \/ createRule(r) \/ updateRule(r) \/ updateUserSkill(r) \/ WriteText(r)
        \/ RemoveOld(r) \/ deleteRule(r) \/ deleteVeylinSkill(r) \/ SaveAnswered(r) \/ List(r) \/ loadList(r)
        \/ patchVeylinSettings(r) \/ SettingsFail(r)
        => overlapping' = overlapping
  BY DEF OpenListScreen, createRule, updateRule, updateUserSkill, WriteText, RemoveOld, deleteRule, deleteVeylinSkill,
         SaveAnswered, List, loadList, patchVeylinSettings, SettingsFail, intentVars
<1>7. CASE UserFilesNext
  <2>1. CASE \E r \in SaveSlots : setHookDisabled(r)
    BY <2>1, <1>3, <1>4, <1>5
  <2>2. CASE \E r \in SaveSlots :
        \/ OpenListScreen(r) \/ createRule(r) \/ updateRule(r) \/ updateUserSkill(r) \/ WriteText(r)
        \/ RemoveOld(r) \/ deleteRule(r) \/ deleteVeylinSkill(r) \/ SaveAnswered(r) \/ List(r) \/ loadList(r)
        \/ patchVeylinSettings(r) \/ SettingsFail(r)
    BY <2>2, <1>3, <1>6, Zenon
  <2> QED  BY <1>1, <1>2, <1>4, <1>7, <2>1, <2>2 DEF UserFilesNext
<1>8. CASE UNCHANGED userVars
  <2>1. OneByOne
    BY <1>8 DEF FilesInv, userVars, intentVars
  <2>2. UNCHANGED <<topic, userFile, rulesToMove, settings, off, save, meant, meantOff, lost, saves>>
    BY <1>8 DEF userVars, diskVars, screenVars, intentVars
  <2> QED  BY <2>1, <2>2 DEF OneByOne, FilesTypeOK, SavesTypeOK, MovedFirst, ChangingFile, ChangingSettings, IsFile, IsText, Filed, TextsIn
<1> QED  BY <1>7, <1>8

\* Of every interleaving of saves that do not overlap, with the agent's own writes and
\* failed requests among them: what was saved and not replaced is in one file, and
\* what the user switched off is off (rules-store.ts:183-242,
\* discover-standard-skills.ts:24-58, veylin-settings-file.ts:95-114).
THEOREM ChoicesStay == UserFilesSpec => []ChoicesAreKept
<1>1. UserFilesInit => FilesInv
  BY FilesInitial
<1>2. FilesInv /\ [UserFilesNext]_userVars => FilesInv'
  BY FilesStep
<1>3. FilesInv => ChoicesAreKept
  <2> SUFFICES ASSUME FilesInv, Saving = {}, ~overlapping
               PROVE  /\ settings = meantOff
                      /\ \A t \in (meant \cup TextsIn(userFile)) \ (lost \cup {<<n, 0>> : n \in rulesToMove}) :
                           t \in meant /\ Cardinality({n \in FileNames : userFile[n].text = t}) = 1
    BY DEF ChoicesAreKept
  <2>1. OneByOne /\ \A r \in SaveSlots : save[r].at = "none"
    BY DEF FilesInv, Saving
  <2>2. \A r \in SaveSlots : save[r].op \notin SettingsOps
    BY <2>1 DEF OneByOne, ChangingSettings
  <2>3. settings = meantOff /\ Filed(userFile, meant, lost \cup {<<n, 0>> : n \in rulesToMove})
    BY <2>1, <2>2 DEF OneByOne
  <2>4. ASSUME NEW t \in (meant \cup TextsIn(userFile)) \ (lost \cup {<<n, 0>> : n \in rulesToMove})
        PROVE  t \in meant /\ Cardinality({n \in FileNames : userFile[n].text = t}) = 1
    <3>1. t \in meant /\ \E n \in FileNames : userFile[n].text = t /\ \A m \in FileNames : userFile[m].text = t => m = n
      BY <2>3 DEF Filed
    <3>2. PICK n \in FileNames : userFile[n].text = t /\ \A m \in FileNames : userFile[m].text = t => m = n
      BY <3>1
    <3>3. {m \in FileNames : userFile[m].text = t} = {n}
      BY <3>2
    <3> QED  BY <3>1, <3>3, FS_Singleton
  <2> QED  BY <2>3, <2>4
<1> QED  BY <1>1, <1>2, <1>3, PTL DEF UserFilesSpec

-----------------------------------------------------------------------------
(* The panel of the background tasks.                                      *)
KnownIds == {TaskId(t) : t \in {u \in Tasks : status[u] # "none"}} \cup {CallId(t) : t \in Tasks}
KnownRows == [id : KnownIds, status : Active \cup Terminal]
KnownParts ==
  {p \in [Tasks -> Parts] : \A t \in Tasks : p[t] \in {"dispatched", "summary"} => status[t] # "none"}
PanelFetches == [served : BOOLEAN, old : BOOLEAN, rows : SUBSET KnownRows, part : KnownParts]
PanelTypeOK ==
  /\ status \in [Tasks -> {"none"} \cup Active \cup Terminal] /\ part \in KnownParts
  /\ tasks \subseteq KnownRows /\ batchTasks \subseteq KnownRows
  /\ dispatchTaskIds \subseteq KnownIds
  /\ interruptedTaskIds \subseteq interruptedRef /\ interruptedRef \subseteq KnownIds
  /\ news \in BOOLEAN /\ connected \in BOOLEAN
  /\ fetches \in Seq(PanelFetches)
OldAreServed == \A i \in DOMAIN fetches : fetches[i].old => fetches[i].served
ActiveArePinned ==
  \A t \in Tasks, r \in tasks \cup batchTasks :
    r.id = TaskId(t) /\ r.status \in Active => TaskId(t) \in dispatchTaskIds
StopHolds ==
  "notStopped" \notin odd => \A t \in Tasks : TaskId(t) \in interruptedRef => status[t] \in Terminal
StoreIsTrue ==
  \A t \in Tasks, r \in tasks \cup batchTasks :
    r.id = TaskId(t) /\ r.status \in Terminal /\ status[t] \in Active => TaskId(t) \in interruptedRef
OnItsWay == ~connected \/ news \/ \E i \in DOMAIN fetches : ~fetches[i].served
LastIsTrue ==
  /\ fetches # <<>>
  /\ fetches[Len(fetches)].served /\ ~fetches[Len(fetches)].old
  /\ fetches[Len(fetches)].rows = Snapshot
AllAreOld == \A i \in DOMAIN fetches : fetches[i].old
StoreCatchesUp ==
  ("lost" \notin odd /\ "untold" \notin odd) =>
    OnItsWay \/ LastIsTrue \/ (AllAreOld /\ (StoreIsTrue \/ "overtaken" \in odd))
PanelInv == PanelTypeOK /\ OldAreServed /\ ActiveArePinned /\ StopHolds /\ StoreCatchesUp

(* What the merges keep, and what they make of a row.                      *)
LEMMA MergeShows ==
  ASSUME NEW rows, NEW pinned, NEW interrupted, NEW r \in mergeFromThread(rows, pinned, interrupted)
  PROVE  \E x \in rows \cup collectRows(part) :
           \/ r = x
           \/ x.id \in interrupted /\ r = [x EXCEPT !.status = "cancelled"]
BY DEF mergeFromThread, applyInterruptedTaskIds, overlay

LEMMA TranscriptRows ==
  ASSUME NEW p, NEW r \in collectRows(p)
  PROVE  \E t \in Tasks :
           \/ p[t] = "dispatched" /\ r = Row(TaskId(t), "queued")
           \/ p[t] = "summary" /\ r = Row(TaskId(t), "done")
           \/ p[t] = "call" /\ r = Row(CallId(t), "running")
BY DEF collectRows, taskDispatchRow

LEMMA TranscriptRowsAreKnown ==
  ASSUME NEW p \in KnownParts
  PROVE  collectRows(p) \subseteq KnownRows /\ collectDispatchIds(p) \subseteq KnownIds
<1>1. collectRows(p) \subseteq KnownRows
  <2> SUFFICES ASSUME NEW r \in collectRows(p) PROVE r \in KnownRows
    OBVIOUS
  <2>1. PICK t \in Tasks : \/ p[t] = "dispatched" /\ r = Row(TaskId(t), "queued")
                           \/ p[t] = "summary" /\ r = Row(TaskId(t), "done")
                           \/ p[t] = "call" /\ r = Row(CallId(t), "running")
    BY TranscriptRows
  <2>2. r.id \in KnownIds
    BY <2>1 DEF KnownParts, KnownIds, Row
  <2> QED BY <2>1, <2>2 DEF Row, KnownRows, Active, Terminal
<1> QED BY <1>1 DEF collectDispatchIds, KnownIds, KnownParts

LEMMA TaskIdsDiffer ==
  /\ \A t, u : TaskId(t) = TaskId(u) => t = u
  /\ \A t, u : TaskId(t) # CallId(u)
BY DEF TaskId, CallId

LEMMA SnapshotRows ==
  ASSUME status \in [Tasks -> {"none"} \cup Active \cup Terminal]
  PROVE  /\ Snapshot \subseteq KnownRows
         /\ \A t \in Tasks, r \in Snapshot : r.id = TaskId(t) => r.status = status[t]
         /\ \A t \in Tasks : status[t] # "none" => Row(TaskId(t), status[t]) \in Snapshot
<1>1. \A r \in Snapshot : \E t \in Tasks : status[t] # "none" /\ r = Row(TaskId(t), status[t])
  BY DEF Snapshot
<1>2. Snapshot \subseteq KnownRows
  <2> SUFFICES ASSUME NEW r \in Snapshot PROVE r \in KnownRows
    OBVIOUS
  <2>1. PICK t \in Tasks : status[t] # "none" /\ r = Row(TaskId(t), status[t])
    BY <1>1
  <2>2. TaskId(t) \in KnownIds /\ status[t] \in Active \cup Terminal
    BY <2>1 DEF KnownIds
  <2> QED BY <2>1, <2>2 DEF Row, KnownRows
<1>3. \A t \in Tasks, r \in Snapshot : r.id = TaskId(t) => r.status = status[t]
  BY <1>1, TaskIdsDiffer DEF Row
<1>4. \A t \in Tasks : status[t] # "none" => Row(TaskId(t), status[t]) \in Snapshot
  BY DEF Snapshot
<1> QED BY <1>2, <1>3, <1>4

(* Removing one element from the answers awaited.                          *)
LEMMA WithoutOne ==
  ASSUME NEW S, fetches \in Seq(S), NEW i \in DOMAIN fetches
  PROVE  /\ FetchesWithout(i) \in Seq(S)
         /\ Len(FetchesWithout(i)) = Len(fetches) - 1
         /\ \A j \in DOMAIN FetchesWithout(i) :
              FetchesWithout(i)[j] = IF j < i THEN fetches[j] ELSE fetches[j + 1]
<1> DEFINE left == SubSeq(fetches, 1, i - 1)
           right == SubSeq(fetches, i + 1, Len(fetches))
<1>1. i \in 1 .. Len(fetches) /\ Len(fetches) \in Nat
  OBVIOUS
<1>2. /\ left \in Seq(S) /\ Len(left) = i - 1
      /\ \A j \in 1 .. i - 1 : left[j] = fetches[j]
  BY <1>1
<1>3. /\ right \in Seq(S) /\ Len(right) = Len(fetches) - i
      /\ \A j \in 1 .. Len(fetches) - i : right[j] = fetches[i + j]
  BY <1>1
<1>4. FetchesWithout(i) = left \o right
  BY DEF FetchesWithout
<1> HIDE DEF left, right
<1>5. left \o right \in Seq(S) /\ Len(left \o right) = Len(fetches) - 1
  BY <1>1, <1>2, <1>3
<1>6. ASSUME NEW j \in 1 .. Len(fetches) - 1
      PROVE  (left \o right)[j] = IF j < i THEN fetches[j] ELSE fetches[j + 1]
  <2>1. CASE j < i
    <3>1. (left \o right)[j] = left[j]
      BY <2>1, <1>1, <1>2, <1>3
    <3> QED BY <3>1, <2>1, <1>1, <1>2
  <2>2. CASE ~(j < i)
    <3>1. (left \o right)[j] = right[j - (i - 1)]
      BY <2>2, <1>1, <1>2, <1>3
    <3>2. j - (i - 1) \in 1 .. Len(fetches) - i /\ i + (j - (i - 1)) = j + 1
      BY <2>2, <1>1
    <3> QED BY <3>1, <3>2, <2>2, <1>3
  <2> QED BY <2>1, <2>2
<1>7. DOMAIN FetchesWithout(i) = 1 .. Len(fetches) - 1
  BY <1>4, <1>5
<1> QED BY <1>4, <1>5, <1>6, <1>7

LEMMA BatchRows ==
  ASSUME NEW p, NEW rows, NEW pinned, NEW r \in mergePanelTasks(p, rows, pinned)
  PROVE  r \in rows \cup collectRows(p)
BY DEF mergePanelTasks, resolvePanelTasks, overlay

(* When a task has a row among those merged and the transcript is asked    *)
(* for its summary, the row wins.                                          *)
LEMMA RowBeatsSummary ==
  ASSUME NEW p, NEW rows, NEW pinned, NEW t \in Tasks, NEW x \in rows,
         x.id = TaskId(t), x.status \in Active, TaskId(t) \in pinned,
         NEW r \in mergePanelTasks(p, rows, pinned),
         r.id = TaskId(t), r \notin rows
  PROVE  p[t] = "dispatched"
<1> DEFINE ids == IF collectDispatchIds(p) # {} THEN collectDispatchIds(p) ELSE pinned
           matched == {y \in rows : y.id \in ids}
           fromApi == IF matched # {} THEN matched ELSE {y \in rows : y.status \in Active}
<1>1. ids # {}
  OBVIOUS
<1>2. r \in overlay(collectRows(p), fromApi) /\ r.id \in ids
  BY <1>1 DEF mergePanelTasks, resolvePanelTasks
<1>3. r.id \notin IdsOf(fromApi)
  BY <1>2 DEF overlay
<1>4. matched # {} /\ x \in fromApi
  BY <1>2
<1>5. x.id \in IdsOf(fromApi)
  BY <1>4 DEF IdsOf
<1> QED BY <1>3, <1>5

LEMMA AppliedRows ==
  ASSUME PanelTypeOK, NEW f \in PanelFetches, NEW last, Apply(f, last), status' = status
  PROVE  /\ tasks' \subseteq KnownRows /\ batchTasks' \subseteq KnownRows
         /\ dispatchTaskIds' \subseteq KnownIds
         /\ interruptedRef' \subseteq interruptedRef /\ interruptedTaskIds' = interruptedRef'
         /\ ActiveArePinned'
         /\ f.rows = Snapshot => StoreIsTrue'
<1> DEFINE ended == {r.id : r \in {x \in f.rows : x.status \in Terminal}}
           told == {IF r.id \in interruptedRef /\ r.status \in Active
                    THEN [r EXCEPT !.status = "cancelled"] ELSE r : r \in f.rows}
           pinned == dispatchTaskIds \cup collectDispatchIds(f.part)
                       \cup IdsOf({r \in told : r.status \in Active})
<1>1. /\ interruptedRef' = interruptedRef \ ended /\ interruptedTaskIds' = interruptedRef'
      /\ tasks' = told /\ dispatchTaskIds' = pinned
      /\ batchTasks' = mergePanelTasks(f.part, told, pinned)
  BY DEF Apply
<1>2. /\ f.rows \subseteq KnownRows /\ f.part \in KnownParts
      /\ dispatchTaskIds \subseteq KnownIds
  BY DEF PanelTypeOK, PanelFetches
<1>3. \A r \in told : \E x \in f.rows :
        /\ r \in KnownRows /\ r.id = x.id
        /\ \/ x.id \in interruptedRef /\ x.status \in Active /\ r.status = "cancelled"
           \/ ~(x.id \in interruptedRef /\ x.status \in Active) /\ r = x
  <2> SUFFICES ASSUME NEW x \in f.rows,
                      NEW r, r = IF x.id \in interruptedRef /\ x.status \in Active
                                 THEN [x EXCEPT !.status = "cancelled"] ELSE x
               PROVE  /\ r \in KnownRows /\ r.id = x.id
                      /\ \/ x.id \in interruptedRef /\ x.status \in Active /\ r.status = "cancelled"
                         \/ ~(x.id \in interruptedRef /\ x.status \in Active) /\ r = x
    OBVIOUS
  <2>1. x \in KnownRows
    BY <1>2
  <2> QED BY <2>1 DEF KnownRows, Active, Terminal
<1>4. collectRows(f.part) \subseteq KnownRows /\ collectDispatchIds(f.part) \subseteq KnownIds
  BY <1>2, TranscriptRowsAreKnown
<1>5. \A r \in told : r \in KnownRows /\ r.id \in KnownIds
  BY <1>3 DEF KnownRows
<1>6. pinned \subseteq KnownIds
  BY <1>2, <1>4, <1>5 DEF IdsOf
<1>7. \A r \in batchTasks' : r \in told \cup collectRows(f.part)
  BY <1>1, BatchRows
<1>8. \A r \in told : r.status \in Active => r.id \in pinned
  BY DEF IdsOf
<1>9. ASSUME NEW t \in Tasks, NEW r \in collectRows(f.part), r.id = TaskId(t)
      PROVE  \/ f.part[t] = "dispatched" /\ r.status = "queued" /\ TaskId(t) \in collectDispatchIds(f.part)
             \/ f.part[t] = "summary" /\ r.status = "done"
  <2>1. PICK u \in Tasks : \/ f.part[u] = "dispatched" /\ r = Row(TaskId(u), "queued")
                           \/ f.part[u] = "summary" /\ r = Row(TaskId(u), "done")
                           \/ f.part[u] = "call" /\ r = Row(CallId(u), "running")
    BY TranscriptRows
  <2>2. u = t
    BY <2>1, <1>9, TaskIdsDiffer DEF Row
  <2>3. f.part[u] # "call"
    BY <2>1, <1>9, TaskIdsDiffer DEF Row
  <2> QED BY <2>1, <2>2, <2>3 DEF Row, collectDispatchIds
<1>10. ActiveArePinned'
  <2> SUFFICES ASSUME NEW t \in Tasks, NEW r \in tasks' \cup batchTasks',
                      r.id = TaskId(t), r.status \in Active
               PROVE  TaskId(t) \in dispatchTaskIds'
    BY DEF ActiveArePinned
  <2>1. CASE r \in told
    BY <2>1, <1>8, <1>1
  <2>2. CASE r \notin told
    <3>1. r \in collectRows(f.part)
      BY <2>2, <1>1, <1>7
    <3> QED BY <3>1, <1>9, <1>1 DEF Active
  <2> QED BY <2>1, <2>2
<1>11. ASSUME f.rows = Snapshot PROVE StoreIsTrue'
  <2> SUFFICES ASSUME NEW t \in Tasks, NEW r \in tasks' \cup batchTasks',
                      r.id = TaskId(t), r.status \in Terminal, status[t] \in Active,
                      TaskId(t) \notin interruptedRef'
               PROVE  FALSE
    BY DEF StoreIsTrue
  <2>0. /\ \A u \in Tasks, x \in Snapshot : x.id = TaskId(u) => x.status = status[u]
        /\ Row(TaskId(t), status[t]) \in Snapshot
    BY SnapshotRows DEF PanelTypeOK, Active
  <2>1. TaskId(t) \notin ended
    BY <2>0, <1>11 DEF Active, Terminal
  <2>2. TaskId(t) \notin interruptedRef
    BY <2>1, <1>1
  <2>3. \A x \in told : x.id = TaskId(t) => x.status \in Active
    <3> SUFFICES ASSUME NEW x \in told, x.id = TaskId(t) PROVE x.status \in Active
      OBVIOUS
    <3>1. PICK y \in f.rows :
            /\ x.id = y.id
            /\ \/ y.id \in interruptedRef /\ y.status \in Active /\ x.status = "cancelled"
               \/ ~(y.id \in interruptedRef /\ y.status \in Active) /\ x = y
      BY <1>3
    <3> QED BY <3>1, <2>0, <2>2, <1>11
  <2>4. r \notin told
    BY <2>3 DEF Active, Terminal
  <2>5. r \in collectRows(f.part) /\ r \in batchTasks'
    BY <2>4, <1>1, <1>7
  <2>6. f.part[t] = "summary"
    BY <2>5, <1>9 DEF Terminal
  <2>7. PICK x \in told : x.id = TaskId(t) /\ x.status \in Active
    <3>1. Row(TaskId(t), status[t]) \in f.rows
      BY <2>0, <1>11
    <3>2. Row(TaskId(t), status[t]).id = TaskId(t)
      BY DEF Row
    <3>3. Row(TaskId(t), status[t]) \in told
      BY <3>1, <3>2, <2>2
    <3> QED BY <3>2, <3>3, <2>3
  <2>8. TaskId(t) \in pinned
    BY <2>7, <1>8
  <2> HIDE DEF told, pinned
  <2>9. f.part[t] = "dispatched"
    BY <2>4, <2>5, <2>7, <2>8, <1>1, RowBeatsSummary
  <2> QED BY <2>6, <2>9
<1> QED
  <2>1. tasks' \subseteq KnownRows /\ batchTasks' \subseteq KnownRows
    BY <1>1, <1>4, <1>5, <1>7
  <2> QED BY <2>1, <1>1, <1>6, <1>10, <1>11

LEMMA KnownGrows ==
  ASSUME \A t \in Tasks : status[t] # "none" => status'[t] # "none"
  PROVE  /\ KnownIds \subseteq KnownIds' /\ KnownRows \subseteq KnownRows'
         /\ KnownParts \subseteq KnownParts' /\ Seq(PanelFetches) \subseteq Seq(PanelFetches')
<1>1. KnownIds \subseteq KnownIds'
  BY DEF KnownIds
<1>2. KnownRows \subseteq KnownRows'
  BY <1>1 DEF KnownRows
<1>3. KnownParts \subseteq KnownParts'
  BY DEF KnownParts
<1>4. PanelFetches \subseteq PanelFetches'
  BY <1>2, <1>3 DEF PanelFetches
<1>5. \A S, T : S \subseteq T => Seq(S) \subseteq Seq(T)
  OBVIOUS
<1> QED BY <1>1, <1>2, <1>3, <1>4, <1>5

(* A step that leaves the store alone.                                     *)
LEMMA StoreUntouched ==
  ASSUME PanelTypeOK, ActiveArePinned,
         \A t \in Tasks : status[t] # "none" => status'[t] # "none",
         status' \in [Tasks -> {"none"} \cup Active \cup Terminal],
         UNCHANGED <<panelStore, interruptedRef>>,
         part' \in KnownParts', news' \in BOOLEAN, connected' \in BOOLEAN,
         fetches' \in Seq(PanelFetches')
  PROVE  PanelTypeOK' /\ ActiveArePinned'
<1>1. /\ KnownIds \subseteq KnownIds' /\ KnownRows \subseteq KnownRows'
  BY KnownGrows
<1>2. /\ tasks' = tasks /\ batchTasks' = batchTasks /\ dispatchTaskIds' = dispatchTaskIds
      /\ interruptedTaskIds' = interruptedTaskIds /\ interruptedRef' = interruptedRef
  BY DEF panelStore
<1>3. PanelTypeOK'
  BY <1>1, <1>2 DEF PanelTypeOK
<1>4. ActiveArePinned'
  BY <1>2 DEF ActiveArePinned
<1> QED BY <1>3, <1>4

(* A step that changes neither the tasks nor what is on its way.           *)
LEMMA NothingOnItsWayChanges ==
  ASSUME StoreCatchesUp, OldAreServed, StopHolds,
         UNCHANGED <<status, panelStore, interruptedRef, news, connected, fetches, odd>>
  PROVE  StoreCatchesUp' /\ OldAreServed' /\ StopHolds'
<1>1. Snapshot' = Snapshot
  BY DEF Snapshot
<1>2. StoreIsTrue' = StoreIsTrue
  BY DEF StoreIsTrue, panelStore
<1>3. OnItsWay' = OnItsWay /\ AllAreOld' = AllAreOld /\ LastIsTrue' = LastIsTrue
  BY <1>1 DEF OnItsWay, AllAreOld, LastIsTrue
<1>4. StoreCatchesUp'
  BY <1>2, <1>3 DEF StoreCatchesUp
<1>5. OldAreServed' /\ StopHolds'
  BY DEF OldAreServed, StopHolds
<1> QED BY <1>4, <1>5

LEMMA PanelStarts ==
  PanelInit => PanelInv
<1> SUFFICES ASSUME PanelInit PROVE PanelInv
  OBVIOUS
<1>1. part \in KnownParts
  BY DEF PanelInit, KnownParts, Parts
<1>2. PanelTypeOK
  <2>1. status \in [Tasks -> {"none"} \cup Active \cup Terminal]
    BY DEF PanelInit
  <2>2. fetches \in Seq(PanelFetches)
    BY DEF PanelInit
  <2> QED BY <1>1, <2>1, <2>2 DEF PanelInit, PanelTypeOK
<1>3. OldAreServed /\ ActiveArePinned /\ StopHolds
  BY DEF PanelInit, OldAreServed, ActiveArePinned, StopHolds
<1>4. StoreCatchesUp
  BY DEF PanelInit, StoreCatchesUp, OnItsWay
<1> QED BY <1>2, <1>3, <1>4 DEF PanelInv

LEMMA CallsKeepPanel ==
  ASSUME PanelInv, NEW t \in Tasks, TaskCalled(t) \/ CallAnswered(t)
  PROVE  PanelInv'
<1>1. /\ UNCHANGED <<status, panelStore, interruptedRef, news, connected, fetches, odd>>
  BY DEF TaskCalled, CallAnswered
<1>2. part' \in KnownParts'
  <2>1. part \in KnownParts /\ status' = status
    BY <1>1 DEF PanelInv, PanelTypeOK
  <2>2. CASE TaskCalled(t)
    BY <2>1, <2>2 DEF TaskCalled, KnownParts, Parts
  <2>3. CASE CallAnswered(t)
    BY <2>1, <2>3 DEF CallAnswered, KnownParts, Parts
  <2> QED BY <2>2, <2>3
<1>3. KnownParts' = KnownParts /\ PanelFetches' = PanelFetches
  BY <1>1 DEF KnownParts, PanelFetches, KnownRows, KnownIds
<1>4. PanelTypeOK' /\ ActiveArePinned'
  <2>1. /\ status' = status /\ fetches' = fetches /\ news' = news /\ connected' = connected
    BY <1>1
  <2>2. /\ fetches' \in Seq(PanelFetches') /\ news' \in BOOLEAN /\ connected' \in BOOLEAN
        /\ status' \in [Tasks -> {"none"} \cup Active \cup Terminal]
    BY <2>1, <1>3 DEF PanelInv, PanelTypeOK
  <2>3. \A u \in Tasks : status[u] # "none" => status'[u] # "none"
    BY <2>1
  <2> QED BY <1>1, <1>2, <2>2, <2>3, StoreUntouched DEF PanelInv
<1> QED BY <1>1, <1>4, NothingOnItsWayChanges DEF PanelInv

(* A step of a task that is told leaves an event on its way, or nobody is  *)
(* listening; one that is not told is known.                               *)
LEMMA TasksKeepPanel ==
  ASSUME PanelInv, NEW t \in Tasks, TaskCreated(t) \/ TaskMoves(t) \/ TaskContinued(t)
  PROVE  PanelInv'
<1>1. /\ UNCHANGED <<part, panelStore, interruptedRef, connected, fetches>>
  BY DEF TaskCreated, TaskMoves, TaskContinued
<1>2. PICK s \in Active \cup Terminal : status' = [status EXCEPT ![t] = s]
  BY DEF TaskCreated, TaskMoves, TaskContinued, Active, Terminal
<1>3. status \in [Tasks -> {"none"} \cup Active \cup Terminal]
  BY DEF PanelInv, PanelTypeOK
<1>4. /\ status' \in [Tasks -> {"none"} \cup Active \cup Terminal]
      /\ \A u \in Tasks : status[u] # "none" => status'[u] # "none"
  BY <1>2, <1>3 DEF Active, Terminal
<1>5. news' = connected \/ (news' = news /\ "untold" \in odd')
  <2>1. CASE TaskCreated(t)
    BY <2>1 DEF TaskCreated, publishTaskEvent
  <2>2. CASE TaskMoves(t)
    BY <2>2 DEF TaskMoves, publishTaskEvent
  <2>3. CASE TaskContinued(t)
    <3>1. publishTaskEvent \/ (odd' = odd \cup {"untold"} /\ news' = news)
      BY <2>3 DEF TaskContinued
    <3> QED BY <3>1 DEF publishTaskEvent
  <2> QED BY <2>1, <2>2, <2>3
<1>6. PanelTypeOK' /\ ActiveArePinned'
  <2>1. KnownParts \subseteq KnownParts' /\ Seq(PanelFetches) \subseteq Seq(PanelFetches')
    BY <1>4, KnownGrows
  <2>2. part \in KnownParts /\ fetches \in Seq(PanelFetches) /\ news \in BOOLEAN /\ connected \in BOOLEAN
    BY DEF PanelInv, PanelTypeOK
  <2>3. part' = part /\ fetches' = fetches /\ connected' = connected
    BY <1>1
  <2>4. news' \in BOOLEAN
    BY <1>5, <2>2
  <2>5. /\ part' \in KnownParts' /\ fetches' \in Seq(PanelFetches') /\ connected' \in BOOLEAN
    BY <2>1, <2>2, <2>3
  <2> QED BY <1>1, <1>4, <2>4, <2>5, StoreUntouched DEF PanelInv
<1>7. OldAreServed'
  BY <1>1 DEF PanelInv, OldAreServed
<1>8. StopHolds'
  <2> SUFFICES ASSUME "notStopped" \notin odd', NEW u \in Tasks, TaskId(u) \in interruptedRef
               PROVE  status'[u] \in Terminal
    BY <1>1 DEF StopHolds
  <2>1. "notStopped" \notin odd
    BY DEF TaskCreated, TaskMoves, TaskContinued
  <2>2. status[u] \in Terminal
    BY <2>1 DEF PanelInv, StopHolds
  <2>3. CASE TaskCreated(t)
    BY <2>2, <2>3, <1>2, <1>3 DEF TaskCreated, Terminal
  <2>4. CASE TaskMoves(t)
    BY <2>2, <2>4, <1>2, <1>3 DEF TaskMoves, Terminal
  <2>5. CASE TaskContinued(t)
    BY <2>5 DEF TaskContinued
  <2> QED BY <2>3, <2>4, <2>5
<1>9. StoreCatchesUp'
  BY <1>1, <1>5 DEF StoreCatchesUp, OnItsWay
<1> QED BY <1>6, <1>7, <1>8, <1>9 DEF PanelInv

(* A step of the subscription that leaves the tasks and the store alone.   *)
LEMMA ListeningKeepsTypes ==
  ASSUME PanelInv, UNCHANGED <<status, part, panelStore, interruptedRef>>,
         news' \in BOOLEAN, connected' \in BOOLEAN, fetches' \in Seq(PanelFetches)
  PROVE  /\ PanelTypeOK' /\ ActiveArePinned'
         /\ (odd \cap {"notStopped"} = odd' \cap {"notStopped"}) => StopHolds'
         /\ Snapshot' = Snapshot /\ StoreIsTrue' = StoreIsTrue
<1>1. KnownParts' = KnownParts /\ PanelFetches' = PanelFetches
  BY DEF KnownParts, PanelFetches, KnownRows, KnownIds
<1>2. /\ part' \in KnownParts' /\ fetches' \in Seq(PanelFetches')
      /\ status' \in [Tasks -> {"none"} \cup Active \cup Terminal]
  BY <1>1 DEF PanelInv, PanelTypeOK
<1>3. \A t \in Tasks : status[t] # "none" => status'[t] # "none"
  OBVIOUS
<1>4. PanelTypeOK' /\ ActiveArePinned'
  BY <1>2, <1>3, StoreUntouched DEF PanelInv
<1>5. (odd \cap {"notStopped"} = odd' \cap {"notStopped"}) => StopHolds'
  BY DEF PanelInv, StopHolds
<1>6. Snapshot' = Snapshot
  BY DEF Snapshot
<1>7. StoreIsTrue' = StoreIsTrue
  BY DEF StoreIsTrue, panelStore
<1> QED BY <1>4, <1>5, <1>6, <1>7

LEMMA AskingAgain ==
  ASSUME PanelInv, refreshBackgroundTasks
  PROVE  /\ fetches' \in Seq(PanelFetches) /\ OldAreServed'
         /\ \E i \in DOMAIN fetches' : ~fetches'[i].served
<1> DEFINE new == [served |-> FALSE, old |-> FALSE, rows |-> {}, part |-> part]
<1>1. fetches \in Seq(PanelFetches) /\ new \in PanelFetches
  BY DEF PanelInv, PanelTypeOK, PanelFetches
<1>2. fetches' = Append(fetches, new) /\ ~new.served /\ ~new.old
  BY DEF refreshBackgroundTasks
<1> HIDE DEF new
<1>3. /\ fetches' \in Seq(PanelFetches) /\ Len(fetches') = Len(fetches) + 1
      /\ fetches'[Len(fetches) + 1] = new
      /\ \A i \in 1 .. Len(fetches) : fetches'[i] = fetches[i]
  BY <1>1, <1>2
<1>4. OldAreServed'
  BY <1>1, <1>2, <1>3 DEF PanelInv, OldAreServed
<1>5. Len(fetches) + 1 \in DOMAIN fetches'
  BY <1>1, <1>3
<1> QED BY <1>2, <1>3, <1>4, <1>5

LEMMA HearingKeepsPanel ==
  ASSUME PanelInv, HearTask \/ Disconnect \/ Reconnect
  PROVE  PanelInv'
<1>1. /\ UNCHANGED <<status, part, panelStore, interruptedRef, odd>>
      /\ news' \in BOOLEAN /\ connected' \in BOOLEAN
  BY DEF HearTask, Disconnect, Reconnect, PanelInv, PanelTypeOK
<1>2. /\ fetches' \in Seq(PanelFetches) /\ OldAreServed' /\ OnItsWay'
  <2>1. CASE HearTask
    <3>1. refreshBackgroundTasks
      BY <2>1 DEF HearTask
    <3> QED BY <3>1, AskingAgain DEF OnItsWay
  <2>2. CASE Disconnect \/ Reconnect
    <3>1. fetches' = fetches /\ (~connected' \/ news')
      BY <2>2 DEF Disconnect, Reconnect
    <3>2. fetches' \in Seq(PanelFetches)
      BY <3>1 DEF PanelInv, PanelTypeOK
    <3>3. OldAreServed'
      BY <3>1 DEF PanelInv, OldAreServed
    <3> QED BY <3>1, <3>2, <3>3 DEF OnItsWay
  <2> QED BY <2>1, <2>2
<1>3. PanelTypeOK' /\ ActiveArePinned' /\ StopHolds'
  BY <1>1, <1>2, ListeningKeepsTypes
<1>4. StoreCatchesUp'
  BY <1>2 DEF StoreCatchesUp
<1> QED BY <1>2, <1>3, <1>4 DEF PanelInv

LEMMA ServingKeepsPanel ==
  ASSUME PanelInv, FetchServed
  PROVE  PanelInv'
<1>1. PICK i \in DOMAIN fetches :
        /\ ~fetches[i].served
        /\ fetches' = Append(FetchesWithout(i), [fetches[i] EXCEPT !.served = TRUE, !.rows = Snapshot])
  BY DEF FetchServed
<1> DEFINE new == [fetches[i] EXCEPT !.served = TRUE, !.rows = Snapshot]
<1>2. fetches \in Seq(PanelFetches) /\ fetches[i] \in PanelFetches
  BY ElementOfSeq DEF PanelInv, PanelTypeOK
<1>3. ~fetches[i].old
  BY <1>1 DEF PanelInv, OldAreServed
<1>4. Snapshot \subseteq KnownRows
  BY SnapshotRows DEF PanelInv, PanelTypeOK
<1>5. new \in PanelFetches /\ new.served /\ ~new.old /\ new.rows = Snapshot
  BY <1>2, <1>3, <1>4 DEF PanelFetches
<1>6. /\ FetchesWithout(i) \in Seq(PanelFetches)
      /\ \A j \in DOMAIN FetchesWithout(i) :
           FetchesWithout(i)[j] = IF j < i THEN fetches[j] ELSE fetches[j + 1]
      /\ Len(FetchesWithout(i)) = Len(fetches) - 1
  BY <1>2, WithoutOne
<1>7. fetches' = Append(FetchesWithout(i), new)
  BY <1>1
<1>8. i \in 1 .. Len(fetches) /\ Len(fetches) \in Nat
  BY <1>2
<1> HIDE DEF new
<1>9. /\ fetches' \in Seq(PanelFetches) /\ Len(fetches') = Len(fetches)
      /\ fetches'[Len(fetches)] = new
      /\ \A j \in 1 .. Len(fetches) - 1 : fetches'[j] = FetchesWithout(i)[j]
  BY <1>5, <1>6, <1>7, <1>8
<1>10. OldAreServed'
  <2> SUFFICES ASSUME NEW j \in 1 .. Len(fetches), fetches'[j].old PROVE fetches'[j].served
    BY <1>9 DEF OldAreServed
  <2>1. CASE j = Len(fetches)
    BY <2>1, <1>9, <1>5
  <2>2. CASE j # Len(fetches)
    <3>1. j \in 1 .. Len(fetches) - 1 /\ j \in DOMAIN FetchesWithout(i)
      BY <2>2, <1>6, <1>8
    <3>2. fetches'[j] = IF j < i THEN fetches[j] ELSE fetches[j + 1]
      BY <3>1, <1>6, <1>9
    <3>3. j \in DOMAIN fetches /\ j + 1 \in DOMAIN fetches
      BY <3>1, <1>8, <1>2
    <3> QED BY <3>2, <3>3 DEF PanelInv, OldAreServed
  <2> QED BY <2>1, <2>2
<1>11. /\ UNCHANGED <<status, part, panelStore, interruptedRef, odd, news, connected>>
  BY DEF FetchServed
<1>12. news' \in BOOLEAN /\ connected' \in BOOLEAN
  BY <1>11 DEF PanelInv, PanelTypeOK
<1>13. PanelTypeOK' /\ ActiveArePinned' /\ StopHolds' /\ Snapshot' = Snapshot
  BY <1>9, <1>11, <1>12, ListeningKeepsTypes
<1>14. LastIsTrue'
  BY <1>5, <1>8, <1>9, <1>13 DEF LastIsTrue
<1>15. StoreCatchesUp'
  BY <1>14 DEF StoreCatchesUp
<1> QED BY <1>10, <1>13, <1>15 DEF PanelInv

LEMMA LosingKeepsPanel ==
  ASSUME PanelInv, FetchLost
  PROVE  PanelInv'
<1>1. PICK i \in DOMAIN fetches : fetches' = FetchesWithout(i)
  BY DEF FetchLost
<1>2. fetches \in Seq(PanelFetches)
  BY DEF PanelInv, PanelTypeOK
<1>3. /\ FetchesWithout(i) \in Seq(PanelFetches)
      /\ \A j \in DOMAIN FetchesWithout(i) :
           FetchesWithout(i)[j] = IF j < i THEN fetches[j] ELSE fetches[j + 1]
      /\ Len(FetchesWithout(i)) = Len(fetches) - 1
  BY <1>2, WithoutOne
<1>4. OldAreServed'
  <2> SUFFICES ASSUME NEW j \in DOMAIN FetchesWithout(i), FetchesWithout(i)[j].old
               PROVE  FetchesWithout(i)[j].served
    BY <1>1 DEF OldAreServed
  <2>1. j \in DOMAIN fetches /\ j + 1 \in DOMAIN fetches
    BY <1>2, <1>3
  <2> QED BY <2>1, <1>3 DEF PanelInv, OldAreServed
<1>5. /\ UNCHANGED <<status, part, panelStore, interruptedRef, news, connected>>
      /\ odd' = odd \cup {"lost"}
  BY DEF FetchLost
<1>6. news' \in BOOLEAN /\ connected' \in BOOLEAN
  BY <1>5 DEF PanelInv, PanelTypeOK
<1>7. odd \cap {"notStopped"} = odd' \cap {"notStopped"}
  BY <1>5
<1>8. PanelTypeOK' /\ ActiveArePinned' /\ StopHolds'
  BY <1>1, <1>3, <1>5, <1>6, <1>7, ListeningKeepsTypes
<1>9. StoreCatchesUp'
  BY <1>5 DEF StoreCatchesUp
<1> QED BY <1>4, <1>8, <1>9 DEF PanelInv

(* An answer is applied: one given after it is on its way, or the store is *)
(* as true as the last answer given, or the old answer is known.           *)
LEMMA AnsweringKeepsPanel ==
  ASSUME PanelInv, FetchArrives
  PROVE  PanelInv'
<1>1. PICK i \in DOMAIN fetches :
        /\ fetches[i].served /\ Apply(fetches[i], i = Len(fetches))
        /\ fetches' = [j \in DOMAIN FetchesWithout(i) |->
                         [FetchesWithout(i)[j] EXCEPT !.old = @ \/ (FetchesWithout(i)[j].served /\ j < i)]]
  BY DEF FetchArrives
<1>2. fetches \in Seq(PanelFetches) /\ fetches[i] \in PanelFetches
  BY ElementOfSeq DEF PanelInv, PanelTypeOK
<1>3. /\ FetchesWithout(i) \in Seq(PanelFetches)
      /\ \A j \in DOMAIN FetchesWithout(i) :
           FetchesWithout(i)[j] = IF j < i THEN fetches[j] ELSE fetches[j + 1]
      /\ Len(FetchesWithout(i)) = Len(fetches) - 1
  BY <1>2, WithoutOne
<1>4. i \in 1 .. Len(fetches) /\ Len(fetches) \in Nat
  BY <1>2
<1>5. UNCHANGED <<status, steps, part, news, connected>>
  BY DEF FetchArrives
<1>6. ASSUME NEW j \in DOMAIN FetchesWithout(i)
      PROVE  /\ FetchesWithout(i)[j] \in PanelFetches /\ fetches'[j] \in PanelFetches
             /\ fetches'[j].served = FetchesWithout(i)[j].served
             /\ fetches'[j].rows = FetchesWithout(i)[j].rows
             /\ fetches'[j].old = (FetchesWithout(i)[j].old \/ (FetchesWithout(i)[j].served /\ j < i))
  <2>1. FetchesWithout(i)[j] \in PanelFetches
    BY <1>3, ElementOfSeq
  <2>2. PICK o \in BOOLEAN : o = (FetchesWithout(i)[j].old \/ (FetchesWithout(i)[j].served /\ j < i))
    OBVIOUS
  <2>3. fetches'[j] = [FetchesWithout(i)[j] EXCEPT !.old = o]
    BY <1>1, <2>2
  <2> QED BY <2>1, <2>2, <2>3 DEF PanelFetches
<1>7. DOMAIN FetchesWithout(i) = 1 .. Len(fetches) - 1
  BY <1>3, <1>4
<1>8. /\ fetches' \in Seq(PanelFetches) /\ Len(fetches') = Len(fetches) - 1
      /\ DOMAIN fetches' = 1 .. Len(fetches) - 1
  <2>1. DOMAIN fetches' = 1 .. Len(fetches) - 1 /\ Len(fetches) - 1 \in Nat
    BY <1>1, <1>4, <1>7
  <2>2. fetches' \in [1 .. Len(fetches) - 1 -> PanelFetches]
    BY <1>1, <1>6, <1>7
  <2> QED BY <2>1, <2>2
<1>9. /\ tasks' \subseteq KnownRows /\ batchTasks' \subseteq KnownRows
      /\ dispatchTaskIds' \subseteq KnownIds
      /\ interruptedRef' \subseteq interruptedRef /\ interruptedTaskIds' = interruptedRef'
      /\ ActiveArePinned'
      /\ fetches[i].rows = Snapshot => StoreIsTrue'
  BY <1>1, <1>2, <1>5, AppliedRows DEF PanelInv
<1>10. KnownIds' = KnownIds /\ KnownRows' = KnownRows /\ PanelFetches' = PanelFetches /\ KnownParts' = KnownParts
  BY <1>5 DEF KnownParts, PanelFetches, KnownRows, KnownIds
<1>11. PanelTypeOK'
  BY <1>5, <1>8, <1>9, <1>10 DEF PanelInv, PanelTypeOK
<1>12. OldAreServed'
  <2> SUFFICES ASSUME NEW j \in DOMAIN FetchesWithout(i), fetches'[j].old
               PROVE  fetches'[j].served
    BY <1>7, <1>8 DEF OldAreServed
  <2>1. FetchesWithout(i)[j].old => FetchesWithout(i)[j].served
    <3>1. j \in DOMAIN fetches /\ j + 1 \in DOMAIN fetches
      BY <1>2, <1>3
    <3> QED BY <3>1, <1>3 DEF PanelInv, OldAreServed
  <2> QED BY <2>1, <1>6
<1>13. odd' = {o \in odd \cup {"overtaken"} :
                  \/ o = "notStopped" /\ interruptedRef' # {}
                  \/ o = "lost" /\ ~(i = Len(fetches) /\ fetches[i].rows = Snapshot)
                  \/ o = "untold"
                  \/ o = "overtaken" /\ fetches[i].rows # Snapshot /\ (fetches[i].old \/ o \in odd)}
  BY <1>1 DEF Apply
<1>14. StopHolds'
  <2> SUFFICES ASSUME "notStopped" \notin odd', NEW t \in Tasks, TaskId(t) \in interruptedRef'
               PROVE  status[t] \in Terminal
    BY <1>5 DEF StopHolds
  <2>1. "notStopped" \notin odd
    BY <1>13
  <2> QED BY <2>1, <1>9 DEF PanelInv, StopHolds
<1>15. Snapshot' = Snapshot
  BY <1>5 DEF Snapshot
<1>16. StoreCatchesUp'
  <2> SUFFICES ASSUME "lost" \notin odd', "untold" \notin odd', ~OnItsWay'
               PROVE  LastIsTrue' \/ (AllAreOld' /\ (StoreIsTrue' \/ "overtaken" \in odd'))
    BY DEF StoreCatchesUp
  <2>1. "untold" \notin odd
    BY <1>13
  <2>2. connected /\ ~news
    BY <1>5 DEF OnItsWay
  <2>3. \A j \in DOMAIN FetchesWithout(i) : FetchesWithout(i)[j].served
    BY <1>6, <1>7, <1>8 DEF OnItsWay
  <2>4. \A j \in DOMAIN fetches : fetches[j].served
    <3> SUFFICES ASSUME NEW j \in DOMAIN fetches PROVE fetches[j].served
      OBVIOUS
    <3>1. CASE j = i
      BY <3>1, <1>1
    <3>2. CASE j < i
      <4>1. j \in DOMAIN FetchesWithout(i)
        BY <3>2, <1>2, <1>4, <1>7
      <4> QED BY <4>1, <3>2, <1>3, <2>3
    <3>3. CASE j > i
      <4>1. j - 1 \in DOMAIN FetchesWithout(i) /\ ~(j - 1 < i) /\ (j - 1) + 1 = j
        BY <3>3, <1>2, <1>4, <1>7
      <4>2. FetchesWithout(i)[j - 1] = fetches[j]
        BY <4>1, <1>3
      <4> QED BY <4>1, <4>2, <2>3
    <3> QED BY <3>1, <3>2, <3>3, <1>2, <1>4
  <2>5. ~OnItsWay
    BY <2>2, <2>4 DEF OnItsWay
  <2>6. CASE i = Len(fetches) /\ fetches[i].rows = Snapshot
    <3>1. AllAreOld'
      <4> SUFFICES ASSUME NEW j \in DOMAIN FetchesWithout(i) PROVE fetches'[j].old
        BY <1>7, <1>8 DEF AllAreOld
      <4>1. FetchesWithout(i)[j].served /\ j < i
        BY <2>3, <2>6, <1>4, <1>7
      <4> QED BY <4>1, <1>6
    <3> QED BY <3>1, <2>6, <1>9
  <2>7. CASE ~(i = Len(fetches) /\ fetches[i].rows = Snapshot)
    <3>1. "lost" \notin odd
      BY <2>7, <1>13
    <3>2. LastIsTrue \/ (AllAreOld /\ (StoreIsTrue \/ "overtaken" \in odd))
      BY <2>1, <2>5, <3>1 DEF PanelInv, StoreCatchesUp
    <3>3. CASE LastIsTrue
      <4>1. i # Len(fetches)
        BY <3>3, <2>7 DEF LastIsTrue
      <4>2. /\ Len(fetches) - 1 \in DOMAIN FetchesWithout(i)
            /\ ~(Len(fetches) - 1 < i) /\ (Len(fetches) - 1) + 1 = Len(fetches)
        BY <4>1, <1>4, <1>7
      <4>3. FetchesWithout(i)[Len(fetches) - 1] = fetches[Len(fetches)]
        BY <4>2, <1>3
      <4>4. /\ fetches'[Len(fetches) - 1].served /\ ~fetches'[Len(fetches) - 1].old
            /\ fetches'[Len(fetches) - 1].rows = Snapshot
        BY <4>2, <4>3, <1>6, <3>3 DEF LastIsTrue
      <4>5. fetches' # <<>>
        BY <4>1, <1>4, <1>8
      <4> QED BY <4>4, <4>5, <1>8, <1>15 DEF LastIsTrue
    <3>4. CASE AllAreOld
      <4>1. AllAreOld'
        <5> SUFFICES ASSUME NEW j \in DOMAIN FetchesWithout(i) PROVE fetches'[j].old
          BY <1>7, <1>8 DEF AllAreOld
        <5>1. j \in DOMAIN fetches /\ j + 1 \in DOMAIN fetches
          BY <1>2, <1>3
        <5>2. FetchesWithout(i)[j].old
          BY <5>1, <3>4, <1>3 DEF AllAreOld
        <5> QED BY <5>2, <1>6
      <4>2. fetches[i].old
        BY <3>4 DEF AllAreOld
      <4>3. fetches[i].rows # Snapshot => "overtaken" \in odd'
        BY <4>2, <1>13
      <4> QED BY <4>1, <4>3, <1>9
    <3> QED BY <3>2, <3>3, <3>4
  <2> QED BY <2>6, <2>7
<1> QED BY <1>9, <1>11, <1>12, <1>14, <1>16 DEF PanelInv

(* Stop shows only rows it knows, none of them at work.                    *)
LEMMA InterruptedRows ==
  ASSUME NEW rows \in SUBSET KnownRows, NEW over \in SUBSET KnownRows, NEW ids \in SUBSET KnownIds,
         NEW r \in buildInterruptedRows(rows, over, ids)
  PROVE  r \in KnownRows /\ r.status \notin Active
<1> DEFINE all == overlay(over, rows)
           extra == {Row(id, "running") : id \in ids \ IdsOf(all)}
<1>1. all \subseteq KnownRows
  BY DEF overlay
<1>2. extra \subseteq KnownRows
  <2> SUFFICES ASSUME NEW x \in extra PROVE x \in KnownRows
    OBVIOUS
  <2>1. PICK id \in ids : x = Row(id, "running")
    OBVIOUS
  <2>2. id \in KnownIds
    BY <2>1
  <2> QED BY <2>1, <2>2 DEF Row, KnownRows, Active
<1>3. PICK x \in all \cup extra :
        r = IF x.status \in Active THEN [x EXCEPT !.status = "cancelled"] ELSE x
  BY DEF buildInterruptedRows
<1>4. x \in KnownRows
  BY <1>1, <1>2, <1>3
<1> QED BY <1>3, <1>4 DEF KnownRows, Active, Terminal

LEMMA StoppingKeepsPanel ==
  ASSUME PanelInv, InterruptTasks
  PROVE  PanelInv'
<1> DEFINE rows == buildInterruptedRows(overlay(tasks, batchTasks), collectRows(part),
                                        dispatchTaskIds \cup collectDispatchIds(part))
<1>1. /\ tasks' = rows /\ batchTasks' = rows
      /\ dispatchTaskIds' = dispatchTaskIds \cup collectDispatchIds(part)
                              \cup IdsOf(collectRows(part)) \cup IdsOf(rows)
      /\ interruptedTaskIds' = interruptedTaskIds \cup IdsOf(rows)
      /\ interruptedRef' = interruptedRef \cup interruptedTaskIds'
  BY DEF InterruptTasks
<1>2. /\ part \in KnownParts /\ tasks \subseteq KnownRows /\ batchTasks \subseteq KnownRows
      /\ dispatchTaskIds \subseteq KnownIds /\ interruptedRef \subseteq KnownIds
      /\ interruptedTaskIds \subseteq interruptedRef
      /\ news \in BOOLEAN /\ connected \in BOOLEAN
      /\ status \in [Tasks -> {"none"} \cup Active \cup Terminal]
  BY DEF PanelInv, PanelTypeOK
<1>3. collectRows(part) \subseteq KnownRows /\ collectDispatchIds(part) \subseteq KnownIds
  BY <1>2, TranscriptRowsAreKnown
<1>4. overlay(tasks, batchTasks) \subseteq KnownRows
  BY <1>2 DEF overlay
<1>5. \A r \in rows : r \in KnownRows /\ r.status \notin Active
  BY <1>2, <1>3, <1>4, InterruptedRows
<1>6. IdsOf(rows) \subseteq KnownIds /\ IdsOf(collectRows(part)) \subseteq KnownIds
  BY <1>3, <1>5 DEF IdsOf, KnownRows
<1> HIDE DEF rows
<1>7. \/ cancelThreadTasks /\ odd' = odd
      \/ odd' = odd \cup {"notStopped"} /\ status' = status /\ news' = news
  BY DEF InterruptTasks
<1>8. /\ status' \in [Tasks -> {"none"} \cup Active \cup Terminal]
      /\ \A t \in Tasks : status[t] # "none" => status'[t] # "none"
      /\ \A t \in Tasks : cancelThreadTasks /\ status[t] # "none" => status'[t] \in Terminal
      /\ \A t \in Tasks : status[t] \in Terminal => status'[t] \in Terminal
  <2>1. CASE cancelThreadTasks
    BY <2>1, <1>2 DEF cancelThreadTasks, Terminal, Active
  <2>2. CASE ~cancelThreadTasks
    BY <2>2, <1>2, <1>7
  <2> QED BY <2>1, <2>2
<1>9. news' \in BOOLEAN /\ connected' = connected
  BY <1>2, <1>7 DEF InterruptTasks, cancelThreadTasks
<1>10. /\ KnownIds \subseteq KnownIds' /\ KnownRows \subseteq KnownRows'
       /\ KnownParts \subseteq KnownParts' /\ Seq(PanelFetches) \subseteq Seq(PanelFetches')
  BY <1>8, KnownGrows
<1>11. refreshBackgroundTasks
  BY DEF InterruptTasks
<1>12. /\ fetches' \in Seq(PanelFetches) /\ OldAreServed' /\ OnItsWay'
  BY <1>11, AskingAgain DEF OnItsWay
<1>13. part' \in KnownParts'
  <2>1. part' = [t \in Tasks |-> IF part[t] = "call" THEN "refused" ELSE part[t]]
    BY DEF InterruptTasks
  <2>2. part' \in KnownParts
    BY <2>1, <1>2 DEF KnownParts, Parts
  <2> QED BY <2>2, <1>10
<1>14. PanelTypeOK'
  <2>1. tasks' \subseteq KnownRows' /\ batchTasks' \subseteq KnownRows'
    BY <1>1, <1>5, <1>10
  <2>2. dispatchTaskIds' \subseteq KnownIds' /\ interruptedRef' \subseteq KnownIds'
    BY <1>1, <1>2, <1>3, <1>6, <1>10
  <2>3. interruptedTaskIds' \subseteq interruptedRef'
    BY <1>1
  <2> QED BY <2>1, <2>2, <2>3, <1>2, <1>8, <1>9, <1>10, <1>12, <1>13 DEF PanelTypeOK
<1>15. ActiveArePinned'
  BY <1>1, <1>5 DEF ActiveArePinned
<1>16. StopHolds'
  <2> SUFFICES ASSUME "notStopped" \notin odd', NEW t \in Tasks, TaskId(t) \in interruptedRef'
               PROVE  status'[t] \in Terminal
    BY DEF StopHolds
  <2>1. cancelThreadTasks
    BY <1>7
  <2>2. TaskId(t) \in KnownIds
    BY <1>1, <1>2, <1>6
  <2>3. status[t] # "none"
    BY <2>2, TaskIdsDiffer DEF KnownIds
  <2> QED BY <2>1, <2>3, <1>8
<1>17. StoreCatchesUp'
  BY <1>12 DEF StoreCatchesUp
<1> QED BY <1>12, <1>14, <1>15, <1>16, <1>17 DEF PanelInv

LEMMA NewTurnKeepsPanel ==
  ASSUME PanelInv, NewTurn
  PROVE  PanelInv'
<1>1. /\ part' = [t \in Tasks |-> "none"]
      /\ tasks' = {} /\ batchTasks' = {} /\ dispatchTaskIds' = {} /\ interruptedTaskIds' = {}
      /\ interruptedRef' = {} /\ odd' = odd \ {"notStopped"}
      /\ UNCHANGED <<status, news, connected, fetches>>
  BY DEF NewTurn
<1>2. PanelFetches' = PanelFetches /\ KnownParts' = KnownParts /\ Snapshot' = Snapshot
  BY <1>1 DEF KnownParts, PanelFetches, KnownRows, KnownIds, Snapshot
<1>3. part' \in KnownParts'
  BY <1>1 DEF KnownParts, Parts
<1>4. PanelTypeOK'
  BY <1>1, <1>2, <1>3 DEF PanelInv, PanelTypeOK
<1>5. ActiveArePinned' /\ StoreIsTrue' /\ StopHolds' /\ OldAreServed'
  BY <1>1 DEF ActiveArePinned, StoreIsTrue, StopHolds, OldAreServed, PanelInv
<1>6. StoreCatchesUp'
  <2>1. OnItsWay' = OnItsWay /\ AllAreOld' = AllAreOld /\ LastIsTrue' = LastIsTrue
    BY <1>1, <1>2 DEF OnItsWay, AllAreOld, LastIsTrue
  <2>2. ("lost" \in odd' <=> "lost" \in odd) /\ ("untold" \in odd' <=> "untold" \in odd)
    BY <1>1
  <2> QED BY <2>1, <2>2, <1>5 DEF PanelInv, StoreCatchesUp
<1> QED BY <1>4, <1>5, <1>6 DEF PanelInv

LEMMA PanelStepsKeep ==
  PanelInv /\ [PanelNext]_panelVars => PanelInv'
<1> SUFFICES ASSUME PanelInv, [PanelNext]_panelVars PROVE PanelInv'
  OBVIOUS
<1>1. CASE \E t \in Tasks : TaskCalled(t) \/ TaskCreated(t) \/ CallAnswered(t) \/ TaskMoves(t) \/ TaskContinued(t)
  BY <1>1, CallsKeepPanel, TasksKeepPanel
<1>2. CASE HearTask \/ Disconnect \/ Reconnect
  BY <1>2, HearingKeepsPanel
<1>3. CASE FetchServed
  BY <1>3, ServingKeepsPanel
<1>4. CASE FetchArrives
  BY <1>4, AnsweringKeepsPanel
<1>5. CASE FetchLost
  BY <1>5, LosingKeepsPanel
<1>6. CASE InterruptTasks
  BY <1>6, StoppingKeepsPanel
<1>7. CASE NewTurn
  BY <1>7, NewTurnKeepsPanel
<1>8. CASE Poll \/ UNCHANGED panelVars
  <2>1. UNCHANGED <<status, part, panelStore, interruptedRef, news, connected, fetches, odd>>
    BY <1>8 DEF Poll, panelVars, panelStore
  <2>2. KnownParts' = KnownParts /\ PanelFetches' = PanelFetches /\ KnownRows' = KnownRows /\ KnownIds' = KnownIds
    BY <2>1 DEF KnownParts, PanelFetches, KnownRows, KnownIds
  <2>3. PanelTypeOK' /\ ActiveArePinned'
    BY <2>1, <2>2 DEF PanelInv, PanelTypeOK, ActiveArePinned, panelStore
  <2> QED BY <2>1, <2>3, NothingOnItsWayChanges DEF PanelInv
<1> QED BY <1>1, <1>2, <1>3, <1>4, <1>5, <1>6, <1>7, <1>8 DEF PanelNext, PanelStep

-----------------------------------------------------------------------------
LEMMA PanelInvSettles ==
  ASSUME PanelInv
  PROVE  PanelSettles
<1> SUFFICES ASSUME connected, ~news, fetches = <<>>, ~needsTaskFallbackPoll,
                    NEW t \in Tasks, NEW r \in displayTasks, r.id = TaskId(t)
             PROVE  /\ ~(r.status \in Active /\ status[t] \in Terminal)
                    /\ (r.status \in Terminal /\ status[t] \in Active) => (odd # {} \/ SummaryStands(t))
  BY DEF PanelSettles
<1>1. /\ part \in KnownParts /\ tasks \subseteq KnownRows /\ batchTasks \subseteq KnownRows
      /\ interruptedTaskIds \subseteq interruptedRef
  BY DEF PanelInv, PanelTypeOK
<1>2. collectRows(part) \subseteq KnownRows
  BY <1>1, TranscriptRowsAreKnown
<1>3. ASSUME NEW rows, NEW x \in applyInterruptedTaskIds(rows, interruptedTaskIds), rows \subseteq KnownRows
      PROVE  \E y \in rows : /\ x.id = y.id
                             /\ x = y \/ (y.id \in interruptedTaskIds /\ x.status = "cancelled")
  BY <1>3 DEF applyInterruptedTaskIds, KnownRows
<1>4. ASSUME NEW rows, NEW pinned, rows \subseteq KnownRows,
             NEW x \in mergeFromThread(rows, pinned, interruptedTaskIds)
      PROVE  \E y \in rows \cup collectRows(part) :
               /\ x.id = y.id
               /\ x = y \/ (y.id \in interruptedTaskIds /\ x.status = "cancelled")
  <2>1. PICK y \in rows \cup collectRows(part) :
           \/ x = y
           \/ y.id \in interruptedTaskIds /\ x = [y EXCEPT !.status = "cancelled"]
    BY MergeShows
  <2>2. y \in KnownRows
    BY <1>2, <1>4
  <2> QED BY <2>1, <2>2 DEF KnownRows
<1> DEFINE seen(x) == \E y \in tasks \cup batchTasks \cup collectRows(part) :
                         /\ x.id = y.id
                         /\ x = y \/ (y.id \in interruptedTaskIds /\ x.status = "cancelled")
           pins == IF dispatchTaskIds # {} THEN dispatchTaskIds ELSE IdsOf(batchTasks)
           fromStore == mergeFromThread(batchTasks, pins, interruptedTaskIds)
<1>5. \A x \in mergeFromThread(tasks, pinnedTaskIds, interruptedTaskIds) : seen(x)
  BY <1>1, <1>4
<1>6. \A x \in fromStore : seen(x)
  BY <1>1, <1>4
<1>7. \A x \in mergeFromThread(tasks, dispatchTaskIds, interruptedTaskIds) : seen(x)
  BY <1>1, <1>4
<1>8. \A x \in applyInterruptedTaskIds(collectRows(part), interruptedTaskIds) : seen(x)
  BY <1>2, <1>3
<1>9. \A x \in barTasks : seen(x)
  BY <1>6, <1>7, <1>8 DEF barTasks
<1>10. displayTasks = IF barTasks # {} THEN applyInterruptedTaskIds(barTasks, interruptedTaskIds)
                      ELSE mergeFromThread(tasks, pinnedTaskIds, interruptedTaskIds)
  BY DEF displayTasks
<1>11. \A x \in applyInterruptedTaskIds(barTasks, interruptedTaskIds) :
         \E y \in barTasks :
           x = y \/ (y.id \in interruptedTaskIds /\ x = [y EXCEPT !.status = "cancelled"])
  BY DEF applyInterruptedTaskIds
<1>12. ASSUME NEW x \in KnownRows, NEW y, y = x \/ y = [x EXCEPT !.status = "cancelled"]
       PROVE  y \in KnownRows /\ y.id = x.id /\ (y # x => y.status = "cancelled")
  BY <1>12 DEF KnownRows, Terminal
<1>13. ASSUME NEW x \in barTasks PROVE x \in KnownRows
  <2>1. \A rows, pinned : rows \subseteq KnownRows =>
          mergeFromThread(rows, pinned, interruptedTaskIds) \subseteq KnownRows
    <3> SUFFICES ASSUME NEW rows, NEW pinned, rows \subseteq KnownRows,
                        NEW z \in mergeFromThread(rows, pinned, interruptedTaskIds)
                 PROVE  z \in KnownRows
      OBVIOUS
    <3>1. PICK y \in rows \cup collectRows(part) :
             \/ z = y
             \/ y.id \in interruptedTaskIds /\ z = [y EXCEPT !.status = "cancelled"]
      BY MergeShows
    <3> QED BY <3>1, <1>2, <1>12
  <2>2. applyInterruptedTaskIds(collectRows(part), interruptedTaskIds) \subseteq KnownRows
    BY <1>2, <1>12 DEF applyInterruptedTaskIds
  <2>3. \/ barTasks = fromStore
        \/ barTasks = mergeFromThread(tasks, dispatchTaskIds, interruptedTaskIds)
        \/ barTasks = applyInterruptedTaskIds(collectRows(part), interruptedTaskIds)
    BY DEF barTasks
  <2> HIDE DEF fromStore
  <2>4. fromStore \subseteq KnownRows
    BY <2>1, <1>1 DEF fromStore
  <2>5. mergeFromThread(tasks, dispatchTaskIds, interruptedTaskIds) \subseteq KnownRows
    BY <2>1, <1>1
  <2> QED BY <2>2, <2>3, <2>4, <2>5
<1>14. barTasks # {} => \E b \in barTasks :
          b.id = r.id /\ (r = b \/ (b.id \in interruptedTaskIds /\ r.status = "cancelled"))
  <2> SUFFICES ASSUME barTasks # {}
               PROVE  \E b \in barTasks :
                        b.id = r.id /\ (r = b \/ (b.id \in interruptedTaskIds /\ r.status = "cancelled"))
    OBVIOUS
  <2>1. PICK b \in barTasks :
          r = b \/ (b.id \in interruptedTaskIds /\ r = [b EXCEPT !.status = "cancelled"])
    BY <1>10, <1>11
  <2>2. b \in KnownRows
    BY <1>13
  <2> QED BY <2>1, <2>2, <1>12
<1>15. PICK y \in tasks \cup batchTasks \cup collectRows(part) :
         /\ r.id = y.id
         /\ r = y \/ (y.id \in interruptedTaskIds /\ r.status = "cancelled")
  <2>1. CASE barTasks = {}
    BY <2>1, <1>5, <1>10
  <2>2. CASE barTasks # {}
    <3>1. PICK b \in barTasks :
            b.id = r.id /\ (r = b \/ (b.id \in interruptedTaskIds /\ r.status = "cancelled"))
      BY <2>2, <1>14
    <3>2. PICK y \in tasks \cup batchTasks \cup collectRows(part) :
            /\ b.id = y.id
            /\ b = y \/ (y.id \in interruptedTaskIds /\ b.status = "cancelled")
      BY <1>9
    <3> QED BY <3>1, <3>2
  <2> QED BY <2>1, <2>2
<1>16. ASSUME NEW x \in collectRows(part), x.id = TaskId(t), x.status \in Terminal
       PROVE  part[t] = "summary"
  <2>1. PICK u \in Tasks : \/ part[u] = "dispatched" /\ x = Row(TaskId(u), "queued")
                           \/ part[u] = "summary" /\ x = Row(TaskId(u), "done")
                           \/ part[u] = "call" /\ x = Row(CallId(u), "running")
    BY TranscriptRows
  <2> QED BY <2>1, <1>16, TaskIdsDiffer DEF Row, Terminal
<1>17. ASSUME r.status \in Active
       PROVE  FALSE
  <2>1. r = y /\ y.status \in Active /\ y.id = TaskId(t)
    BY <1>15, <1>17 DEF Active
  <2>2. pinnedTaskIds # {}
    <3>1. CASE y \in tasks \cup batchTasks
      BY <3>1, <2>1 DEF PanelInv, ActiveArePinned, pinnedTaskIds
    <3>2. CASE y \in collectRows(part)
      BY <3>2 DEF pinnedTaskIds, IdsOf
    <3> QED BY <3>1, <3>2
  <2>3. barTasks # {} /\ \A b \in barTasks : b.status \notin Active
    BY <2>2 DEF needsTaskFallbackPoll, hasActiveBackgroundTasks
  <2> QED BY <2>3, <1>14, <1>17 DEF Active
<1>18. ASSUME r.status \in Terminal, status[t] \in Active, odd = {}, ~SummaryStands(t)
       PROVE  FALSE
  <2>1. StoreIsTrue
    <3>1. ~OnItsWay /\ ~LastIsTrue
      BY DEF OnItsWay, LastIsTrue
    <3> QED BY <3>1, <1>18 DEF PanelInv, StoreCatchesUp
  <2>2. TaskId(t) \notin interruptedTaskIds /\ TaskId(t) \notin interruptedRef
    BY <1>1, <1>18 DEF PanelInv, StopHolds, Active, Terminal
  <2>3. \A x \in tasks \cup batchTasks : ~(x.id = TaskId(t) /\ x.status \in Terminal)
    BY <2>1, <2>2, <1>18 DEF StoreIsTrue
  <2>4. r = y /\ y \in collectRows(part)
    BY <1>15, <1>18, <2>2, <2>3
  <2>5. part[t] = "summary"
    BY <2>4, <1>16, <1>18
  <2>6. PICK b \in batchTasks : b.id = TaskId(t)
    BY <2>5, <1>18 DEF SummaryStands, IdsOf
  <2> DEFINE kept == {x \in batchTasks : x.status \in Terminal /\ x.id \in pins \cup interruptedTaskIds}
             ids == IdsOf(collectRows(part)) \cup IdsOf(kept)
             over == {x \in batchTasks : x.id \in ids}
             base == {x \in overlay(collectRows(part), over) : x.id \in ids}
  <2>7. TaskId(t) \in ids
    BY <2>4 DEF IdsOf
  <2>8. fromStore = applyInterruptedTaskIds(base, interruptedTaskIds)
    <3>1. collectRows(part) # {}
      BY <2>4
    <3>2. ids # {}
      BY <2>7
    <3> QED BY <3>1, <3>2 DEF mergeFromThread
  <2>9. b \in over /\ b \in base
    BY <2>6, <2>7 DEF overlay
  <2>10. ASSUME NEW z \in base, z.id = TaskId(t) PROVE z \in batchTasks
    <3>1. TaskId(t) \in IdsOf(over)
      BY <2>6, <2>9 DEF IdsOf
    <3> QED BY <3>1, <2>10 DEF overlay
  <2> HIDE DEF base, over, ids, fromStore
  <2>11. b \in fromStore
    BY <2>2, <2>6, <2>8, <2>9 DEF applyInterruptedTaskIds
  <2>12. barTasks = fromStore
    BY <2>6, <2>11 DEF barTasks, fromStore
  <2>13. r \in fromStore
    BY <2>2, <2>11, <2>12, <1>14
  <2>14. base \subseteq KnownRows
    BY <1>1, <1>2 DEF base, over, overlay
  <2>15. PICK z \in base :
          \/ r = z
          \/ z.id \in interruptedTaskIds /\ r = [z EXCEPT !.status = "cancelled"]
    BY <2>8, <2>13 DEF applyInterruptedTaskIds
  <2>16. r = z
    BY <2>2, <2>14, <2>15, <1>12
  <2> QED BY <2>3, <2>10, <2>16, <1>18
<1> QED BY <1>17, <1>18

(* The status bar, for any tasks, answers and acts: once nothing is on its *)
(* way a task shown at work is at work or is polled, and one shown ended   *)
(* has ended, but for the ways that are known (applyBackgroundTaskSnapshot,*)
(* needsTaskFallbackPoll, interruptChatRun).                               *)
THEOREM PanelsSettle ==
  PanelSpec => []PanelSettles
<1>1. PanelInv /\ [PanelNext]_panelVars => PanelInv'
  BY PanelStepsKeep
<1>2. PanelInv => PanelSettles
  BY PanelInvSettles
<1> QED BY PanelStarts, <1>1, <1>2, PTL DEF PanelSpec
=============================================================================
