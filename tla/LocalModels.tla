---------------------------- MODULE LocalModels ----------------------------
(***************************************************************************)
(* The two local models of the knowledge base: the embedding model, whose     *)
(* files are fetched one after the other (apps/server/src/embedding-service.ts,  *)
(* hf-download.ts), the reranker, which a library fetches and loads              *)
(* (reranker-service.ts), the routes to download, remove, switch and look at      *)
(* them (routes/rag.ts, local-models-service.ts) and the card that offers this    *)
(* (rag-local-models-card.tsx).  The server may stop at any time.               *)
(*                                                                         *)
(* A file is absent, part or whole; part also while it is being written.  The    *)
(* status of a model is read and put right in one step: nothing it awaits lets     *)
(* another request in.  One card is open.  Left out: progress, endpoints,  *)
(* the file of the reranker's tokenizer, which no check looks at, and the runtime   *)
(* in memory, which a search uses only after it looked for the file.              *)
(***************************************************************************)
EXTENDS Naturals

\* EMBEDDING_FILES in the order of the download: the model, config.json,
\* tokenizer.json, and one for the rest, which nothing requires.
EmbeddingFiles == 1..4
EmbeddingRequired == 1..3

VARIABLES
  files,      \* the files of the embedding model
  fetching,   \* the file that is fetched, 0 without a download
  writing,    \* is it being written?
  embedPhase, \* downloadState.phase
  embedAt,    \* is installedAt set?
  cut,        \* the file whose writing was broken off, 0 if none was
  onnx,       \* the file of the reranker
  loading,    \* what the reranker's download is at: "none", "tokenizer", "model"
  rerankPhase,
  reranker,   \* its settings: enabled, installedAt
  wish,       \* what the user last chose for it: "none", "off"
  card        \* what the card shows of each: phase and installed

modelVars == <<files, fetching, writing, embedPhase, embedAt, cut,
               onnx, loading, rerankPhase, reranker, wish, card>>
embedVars == <<files, fetching, writing, embedPhase, embedAt, cut>>
rerankVars == <<onnx, loading, rerankPhase, reranker, wish>>

SomeEmbeddingModel == \E f \in EmbeddingRequired : files[f] # "absent"  \* a bug
isEmbeddingModelReady == \A f \in EmbeddingRequired : files[f] # "absent"
isRerankerModelOnDisk == onnx # "absent"

\* What the card lets the user do.
Shown(phase, installed) == [phase |-> phase, installed |-> installed]
ShowReady(m) == card[m].installed /\ card[m].phase \notin {"downloading", "error"}
ShowDownload(m) == ~ShowReady(m) /\ card[m].phase # "downloading"

ModelsInit ==
  /\ files = [f \in EmbeddingFiles |-> "absent"]
  /\ fetching = 1 /\ writing = FALSE /\ embedPhase = "downloading"
  /\ embedAt = FALSE /\ cut = 0
  /\ onnx = "absent" /\ loading = "none" /\ rerankPhase = "idle"
  /\ reranker = [enabled |-> FALSE, at |-> FALSE]
  /\ wish = "none"
  /\ card = [m \in {"embedding", "reranker"} |-> Shown("idle", FALSE)]

-----------------------------------------------------------------------------
\* The embedding model.
BeginFetching == fetching' = 1 /\ writing' = FALSE /\ embedPhase' = "downloading"

startEmbeddingDownload ==
  /\ ShowDownload("embedding") /\ fetching = 0
  /\ IF isEmbeddingModelReady
     THEN embedAt' = TRUE /\ embedPhase' = "ready" /\ UNCHANGED <<fetching, writing>>
     ELSE BeginFetching /\ UNCHANGED embedAt
  /\ UNCHANGED <<files, cut, rerankVars, card>>

\* downloadFile: the answer opens the file, which empties it.
FileOpened ==
  /\ fetching # 0 /\ ~writing
  /\ files' = [files EXCEPT ![fetching] = "part"]
  /\ writing' = TRUE
  /\ UNCHANGED <<fetching, embedPhase, embedAt, cut, rerankVars, card>>

FileWritten ==
  /\ writing
  /\ files' = [files EXCEPT ![fetching] = "whole"]
  /\ writing' = FALSE
  /\ IF fetching < 4
     THEN fetching' = fetching + 1 /\ UNCHANGED <<embedPhase, embedAt, cut>>
     ELSE fetching' = 0 /\ embedPhase' = "ready" /\ embedAt' = TRUE /\ cut' = 0
  /\ UNCHANGED <<rerankVars, card>>

\* A refusal leaves the file alone, a request that fails takes it away, an answer
\* that breaks off leaves what was written.
FetchFailed ==
  /\ fetching # 0
  /\ \/ ~writing /\ UNCHANGED <<files, cut>>
     \/ files' = [files EXCEPT ![fetching] = "absent"] /\ UNCHANGED cut
     \/ writing /\ cut' = fetching /\ UNCHANGED files
  /\ fetching' = 0 /\ writing' = FALSE
  /\ embedPhase' = "error" /\ embedAt' = FALSE
  /\ UNCHANGED <<rerankVars, card>>

removeEmbeddingModel ==
  /\ ShowReady("embedding") /\ fetching = 0
  /\ files' = [f \in EmbeddingFiles |-> "absent"]
  /\ embedPhase' = "idle" /\ embedAt' = FALSE /\ cut' = 0
  /\ UNCHANGED <<fetching, writing, rerankVars, card>>

\* The phase that is reported: an error stays until the next download.
Phase(phase, installed) ==
  IF phase \in {"downloading", "error"} THEN phase ELSE IF installed THEN "ready" ELSE "idle"

getEmbeddingStatus ==
  LET installed == embedPhase # "downloading" /\ isEmbeddingModelReady
  IN /\ embedAt' = IF embedPhase = "downloading" THEN embedAt ELSE installed
     /\ card' = [card EXCEPT !["embedding"] = Shown(Phase(embedPhase, installed), installed)]
     /\ UNCHANGED <<files, fetching, writing, embedPhase, cut, rerankVars>>

-----------------------------------------------------------------------------
\* The reranker.
startRerankerDownload ==
  /\ ShowDownload("reranker") /\ loading = "none"
  /\ loading' = "tokenizer" /\ rerankPhase' = "downloading" /\ wish' = "none"
  /\ UNCHANGED <<embedVars, onnx, reranker, card>>

TokenizerLoaded ==
  /\ loading = "tokenizer"
  /\ loading' = "model"
  /\ UNCHANGED <<embedVars, onnx, rerankPhase, reranker, wish, card>>

ModelLoaded ==
  /\ loading = "model"
  /\ onnx' = "whole"
  /\ loading' = "none" /\ rerankPhase' = "ready"
  /\ reranker' = [enabled |-> TRUE, at |-> TRUE]
  /\ UNCHANGED <<embedVars, wish, card>>

LoadFailed ==
  /\ loading # "none"
  /\ onnx' \in (IF loading = "model" THEN {onnx, "part"} ELSE {onnx})
  /\ loading' = "none" /\ rerankPhase' = "error"
  /\ reranker' = [enabled |-> FALSE, at |-> FALSE]
  /\ UNCHANGED <<embedVars, wish, card>>

removeRerankerModel ==
  /\ ShowReady("reranker") /\ loading = "none"
  /\ onnx' = "absent" /\ rerankPhase' = "idle"
  /\ reranker' = [enabled |-> FALSE, at |-> FALSE]
  /\ wish' = "none"
  /\ UNCHANGED <<embedVars, loading, card>>

onToggleEnabled(on) == ShowReady("reranker") /\ wish' = IF on THEN "none" ELSE "off"

setRerankerEnabled ==
  \E on \in BOOLEAN :
    /\ onToggleEnabled(on) /\ (on => isRerankerModelOnDisk)
    /\ reranker' = [reranker EXCEPT !.enabled = on]
    /\ UNCHANGED <<embedVars, onnx, loading, rerankPhase, card>>

\* A model found on the disk without a record of it is recorded and enabled.
getRerankerStatus ==
  LET installed == rerankPhase # "downloading" /\ isRerankerModelOnDisk
  IN /\ reranker' = CASE installed /\ ~reranker.at -> [enabled |-> TRUE, at |-> TRUE]
                      [] ~installed /\ reranker.at /\ rerankPhase # "downloading"
                           -> [enabled |-> FALSE, at |-> FALSE]
                      [] OTHER -> reranker
     /\ card' = [card EXCEPT !["reranker"] = Shown(Phase(rerankPhase, installed), installed)]
     /\ UNCHANGED <<embedVars, onnx, loading, rerankPhase, wish>>

-----------------------------------------------------------------------------
\* The server stops, and starts a download of an embedding model that is missing.
Restart ==
  /\ cut' = IF writing THEN fetching ELSE cut
  /\ IF isEmbeddingModelReady
     THEN fetching' = 0 /\ writing' = FALSE /\ embedPhase' = "idle"
     ELSE BeginFetching
  /\ loading' = "none" /\ rerankPhase' = "idle"
  /\ onnx' \in (IF loading = "model" THEN {onnx, "part"} ELSE {onnx})
  /\ UNCHANGED <<files, embedAt, reranker, wish, card>>

\* downloadLocalModel, updateLocalModel, removeLocalModel and getLocalModelsStatus
\* choose by model.
changeLocalModels ==
  \/ startEmbeddingDownload \/ startRerankerDownload
  \/ removeEmbeddingModel \/ removeRerankerModel \/ setRerankerEnabled
  \/ getEmbeddingStatus \/ getRerankerStatus

ModelsNext ==
  \/ changeLocalModels
  \/ FileOpened \/ FileWritten \/ FetchFailed
  \/ TokenizerLoaded \/ ModelLoaded \/ LoadFailed
  \/ Restart
ModelsSpec == ModelsInit /\ [][ModelsNext]_modelVars

-----------------------------------------------------------------------------
\* The files the comment calls safe to use: an embedding model that counts as
\* ready while nothing is fetched is whole, but for the last required file, which
\* is half there when its writing was broken off (no later start fetches it again).
\* A reranker that is enabled is on the disk, and one the user switched off stays
\* off until the user downloads it or switches it on, whatever fails and restarts.
ModelsAreWhole ==
  /\ fetching = 0 /\ isEmbeddingModelReady =>
       \A f \in EmbeddingRequired : files[f] = "whole" \/ (f = 3 /\ cut = 3)
  /\ reranker.enabled => isRerankerModelOnDisk /\ wish # "off"
=============================================================================
