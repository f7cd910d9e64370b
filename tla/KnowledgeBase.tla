--------------------------- MODULE KnowledgeBase ---------------------------
(***************************************************************************)
(* The knowledge base of a thread: uploaded documents cut into pieces that    *)
(* are stored one by one, and a graph of what they name (rag-store.ts,           *)
(* rag-entities.ts, packages/db/src/rag-repos.ts, routes/rag.ts), and the panel    *)
(* that uploads, lists and deletes documents (rag-panel.tsx).  An upload and a      *)
(* deletion are series of writes, each awaited, and the server may stop between      *)
(* any two; at its start it marks the documents it was indexing as failed.         *)
(*                                                                         *)
(* One thing stands for all a piece names.  One list is fetched at a time.  Left out:  *)
(* ranking, embeddings, citations, the drawing of the graph, and other threads,     *)
(* which every query excludes.  An UPDATE of a row that is gone stores nothing.    *)
(***************************************************************************)
EXTENDS Naturals, Sequences

CONSTANTS Documents, Pieces    \* a document has the pieces 1..Pieces
ASSUME PiecesAssumption == Pieces \in Nat \ {0}

VARIABLES
  document,    \* its status; "new" before it is inserted, "gone" once deleted
  chunk, entity, chunkEntity, relates,    \* what is stored of each document, by piece
  ingest,      \* where its ingestion is: [step, piece]
  deletion,    \* the next step of its deletion, 0 without one
  documentsShown,    \* what the panel lists
  fetched,     \* the answers on their way to the panel, at most one
  overlapped,  \* was it deleted, or its deletion begun, while it was ingested?
  halted       \* has the server stopped in the middle of its deletion?

stored == <<chunk, entity, chunkEntity, relates>>
panel == <<documentsShown, fetched>>
knowledgeVars == <<document, stored, ingest, deletion, panel, overlapped, halted>>

AllPieces == 1..Pieces
Stage(step, piece) == [step |-> step, piece |-> piece]
Idle == Stage("none", 0)
Ingesting(d) == ingest[d] # Idle

KnowledgeInit ==
  /\ document = [d \in Documents |-> "new"]
  /\ chunk = [d \in Documents |-> {}]
  /\ entity = [d \in Documents |-> {}]
  /\ chunkEntity = [d \in Documents |-> {}]
  /\ relates = [d \in Documents |-> {}]
  /\ ingest = [d \in Documents |-> Idle]
  /\ deletion = [d \in Documents |-> 0]
  /\ documentsShown = {} /\ fetched = {}
  /\ overlapped = [d \in Documents |-> FALSE]
  /\ halted = [d \in Documents |-> FALSE]

-----------------------------------------------------------------------------
\* ingestDocumentText.
updateDocumentStatus(d, status) ==
  document' = [document EXCEPT ![d] = IF @ = "gone" THEN @ ELSE status]
Proceed(d, step, piece) == ingest' = [ingest EXCEPT ![d] = Stage(step, piece)]

insertDocument(d) ==
  /\ document[d] = "new"
  /\ document' = [document EXCEPT ![d] = "pending"]
  /\ Proceed(d, "begin", 0)
  /\ UNCHANGED <<stored, deletion, panel, overlapped, halted>>

BeginIndexing(d) ==
  /\ ingest[d].step = "begin"
  /\ updateDocumentStatus(d, "indexing")
  /\ Proceed(d, "chunk", 1)
  /\ UNCHANGED <<stored, deletion, panel, overlapped, halted>>

insertChunk(d) ==
  LET p == ingest[d].piece
  IN /\ ingest[d].step = "chunk"
     /\ chunk' = [chunk EXCEPT ![d] = @ \cup {p}]
     /\ IF p < Pieces THEN Proceed(d, "chunk", p + 1) ELSE Proceed(d, "entity", 1)
     /\ UNCHANGED <<document, entity, chunkEntity, relates, deletion, panel, overlapped, halted>>

\* extractAndStoreGraph: what a piece names, the link to it, and how it is related
\* to what else is named; the model may find nothing of either.
NextPiece(d, p) == IF p < Pieces THEN Proceed(d, "entity", p + 1) ELSE Proceed(d, "ready", 0)
llmExtractChunk == {{}, {"thing"}}
upsertEntity(d) ==
  LET p == ingest[d].piece
  IN /\ ingest[d].step = "entity"
     /\ \E extracted \in llmExtractChunk :
          IF extracted = {} THEN NextPiece(d, p) /\ UNCHANGED entity
          ELSE entity' = [entity EXCEPT ![d] = @ \cup {p}] /\ Proceed(d, "link", p)
     /\ UNCHANGED <<document, chunk, chunkEntity, relates, deletion, panel, overlapped, halted>>

linkChunkEntity(d) ==
  LET p == ingest[d].piece
  IN /\ ingest[d].step = "link"
     /\ chunkEntity' = [chunkEntity EXCEPT ![d] = @ \cup {p}]
     /\ Proceed(d, "relate", p)
     /\ UNCHANGED <<document, chunk, entity, relates, deletion, panel, overlapped, halted>>

insertRelates(d) ==
  LET p == ingest[d].piece
  IN /\ ingest[d].step = "relate"
     /\ relates' \in {relates, [relates EXCEPT ![d] = @ \cup {p}]}
     /\ NextPiece(d, p)
     /\ UNCHANGED <<document, chunk, entity, chunkEntity, deletion, panel, overlapped, halted>>

IngestEnds(d) ==
  /\ ingest[d].step = "ready"
  /\ updateDocumentStatus(d, "ready")
  /\ ingest' = [ingest EXCEPT ![d] = Idle]
  /\ UNCHANGED <<stored, deletion, panel, overlapped, halted>>

\* A write fails: before the pieces nothing is caught, among them the document has
\* failed, and a graph that fails is only logged.
IngestFails(d) ==
  /\ Ingesting(d)
  /\ CASE ingest[d].step \in {"begin", "ready"} ->
            ingest' = [ingest EXCEPT ![d] = Idle] /\
            (IF ingest[d].step = "begin" THEN UNCHANGED document
             ELSE updateDocumentStatus(d, "failed"))
       [] ingest[d].step = "chunk" ->
            ingest' = [ingest EXCEPT ![d] = Idle] /\ updateDocumentStatus(d, "failed")
       [] OTHER -> Proceed(d, "ready", 0) /\ UNCHANGED document
  /\ UNCHANGED <<stored, deletion, panel, overlapped, halted>>

-----------------------------------------------------------------------------
\* deleteDocument: five queries, the document last.
DocumentFirst == <<"document", "chunkEntity", "chunk", "relates", "entity">>    \* a bug
DeletionOrder == <<"chunkEntity", "chunk", "relates", "entity", "document">>

confirmDelete(d) ==
  /\ d \in documentsShown /\ deletion[d] = 0
  /\ document[d] # "gone"
  /\ deletion' = [deletion EXCEPT ![d] = 1]
  /\ overlapped' = [overlapped EXCEPT ![d] = @ \/ Ingesting(d)]
  /\ UNCHANGED <<document, stored, ingest, panel, halted>>

Without(f, d, table, t) == IF table = t THEN [f EXCEPT ![d] = {}] ELSE f
DeletionStep(d) ==
  /\ deletion[d] > 0
  /\ LET table == DeletionOrder[deletion[d]]
     IN
     /\ chunkEntity' = Without(chunkEntity, d, table, "chunkEntity")
     /\ chunk' = Without(chunk, d, table, "chunk")
     /\ relates' = Without(relates, d, table, "relates")
     /\ entity' = Without(entity, d, table, "entity")
     /\ document' = IF table = "document" THEN [document EXCEPT ![d] = "gone"] ELSE document
     /\ deletion' = [deletion EXCEPT ![d] = IF @ = 5 THEN 0 ELSE @ + 1]
     /\ UNCHANGED <<ingest, panel, overlapped, halted>>

-----------------------------------------------------------------------------
\* The panel asks again and again, and shows the list when it comes.
listDocuments ==
  /\ fetched = {}
  /\ fetched' = {{d \in Documents : document[d] \notin {"new", "gone"}}}
  /\ UNCHANGED <<document, stored, ingest, deletion, documentsShown, overlapped, halted>>
refresh ==
  /\ documentsShown' \in fetched
  /\ fetched' = {}
  /\ UNCHANGED <<document, stored, ingest, deletion, overlapped, halted>>

-----------------------------------------------------------------------------
\* The server stops and starts: sweepInterruptedRagIngests looks for "indexing".
sweepInterruptedRagIngests ==
  /\ document' = [d \in Documents |-> IF document[d] = "indexing" THEN "failed" ELSE document[d]]
  /\ ingest' = [d \in Documents |-> Idle]
  /\ deletion' = [d \in Documents |-> 0]
  /\ fetched' = {}
  /\ halted' = [d \in Documents |-> halted[d] \/ deletion[d] > 0]
  /\ UNCHANGED <<stored, documentsShown, overlapped>>

KnowledgeNext ==
  \/ \E d \in Documents :
       \/ insertDocument(d) \/ BeginIndexing(d) \/ insertChunk(d)
       \/ upsertEntity(d) \/ linkChunkEntity(d) \/ insertRelates(d)
       \/ IngestEnds(d) \/ IngestFails(d)
       \/ confirmDelete(d) \/ DeletionStep(d)
  \/ listDocuments \/ refresh \/ sweepInterruptedRagIngests
KnowledgeSpec == KnowledgeInit /\ [][KnowledgeNext]_knowledgeVars

-----------------------------------------------------------------------------
\* What a search can find of a document: any piece by its text, and the pieces that
\* are linked to what it names.  Neither looks at the document itself.
searchChunksByText(d) == chunk[d]
getChunksForEntities(d) == {p \in chunkEntity[d] : p \in chunk[d] /\ p \in entity[d]}
hybridSearchChunks(d) == searchChunksByText(d) \cup getChunksForEntities(d)
listGraphForTenant(d) == entity[d] \cup (IF entity[d] = {} THEN {} ELSE relates[d])

\* Unless a deletion overlapped the ingestion (whose remaining writes nothing
\* takes back), a document that is gone leaves nothing a search or the graph finds, and no
\* link dangles, wherever the server stopped.  A document is "indexing" only while
\* it is being indexed, and one that is ready, and not partly deleted, has every
\* piece in the store.
KnowledgeConsistent ==
  \A d \in Documents :
    /\ ~overlapped[d] =>
         /\ document[d] = "gone" =>
              hybridSearchChunks(d) \cup listGraphForTenant(d) \cup chunkEntity[d] = {}
         /\ chunkEntity[d] = getChunksForEntities(d)
         /\ document[d] = "ready" /\ deletion[d] = 0 /\ ~halted[d] =>
              hybridSearchChunks(d) = AllPieces
    /\ document[d] = "indexing" => Ingesting(d)
=============================================================================
