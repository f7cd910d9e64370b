--------------------------- MODULE ComposerRuns ----------------------------
(***************************************************************************)
(* What the composer of a thread sends and stops: the queue of messages that   *)
(* wait for the run before them (create-message-queue-with-drafts.ts,              *)
(* composer-queue.tsx), the runs the page begins and interrupts, and the answer      *)
(* to a question a run was suspended with (use-aisdk-runtime-with-queue.ts, the          *)
(* ask panel, read-open-page-submit-bridge.ts, native-suspend-resume.ts).              *)
(*                                                                         *)
(* The chat of the library streams whatever it is told to send and stops only     *)
(* the stream it began last (external).  Bounds: Messages, each typed once, and       *)
(* Edits of an earlier message.  Left out: transcripts, goals, attachments, the         *)
(* rows of background tasks, and a resume that fails and is offered again.          *)
(***************************************************************************)
EXTENDS Naturals, Sequences, SequencesExt, FiniteSets

CONSTANTS UserMessages, Edits

ASSUME ComposerAssumption == UserMessages \cap {"resume", "edit", "none"} = {}

VARIABLES
  at,       \* where each message is
  queue,    \* the items of the queue
  running, suppressIdle,
  streams,  \* the streams that are on: of a message, "resume" or "edit"
  activeTurn,   \* the one chat.stop() stops
  turn,     \* the last turn: does it wait for an answer, did the user stop it,
            \* is it the one of suppressedForAssistantIdRef?
  panel,    \* the answer to it: "none", "open", "sending", "failed"
  beingEdited,  \* an edit between its stop and its send; how many there were
  misheard       \* what the queue and the suppression do not cover and was done

composerVars == <<at, queue, running, suppressIdle, streams, activeTurn, turn,
                  panel, beingEdited, misheard>>

Nobody == "none"
Dispatched == {m \in UserMessages : at[m] \in {"preparing", "streaming", "returning"}}
isRunning == streams # {}
Without(m) == RemoveAt(queue, CHOOSE i \in DOMAIN queue : queue[i] = m)  \* it is there once

ComposerInit ==
  /\ at = [m \in UserMessages |-> "unsent"] /\ queue = <<>>
  /\ running = FALSE /\ suppressIdle = 0
  /\ streams = {} /\ activeTurn = Nobody
  /\ turn = [waits |-> FALSE, stopped |-> FALSE, muted |-> FALSE]
  /\ panel = "none" /\ beingEdited = [on |-> FALSE, left |-> Edits]
  /\ misheard = {}

-----------------------------------------------------------------------------
(* The queue.                                                                *)

\* driver.run: the message is prepared before it is sent.
Run(m, places) == at' = [places EXCEPT ![m] = "preparing"]

\* advance: the head is run unless a run is on.
AdvanceQueue(items, places, busy) ==
  IF busy \/ items = <<>>
    THEN queue' = items /\ at' = places /\ running' = busy
    ELSE queue' = Tail(items) /\ Run(Head(items), places) /\ running' = TRUE

Enqueue(m) ==
  /\ at[m] = "unsent"
  /\ AdvanceQueue(Append(queue, m), [at EXCEPT ![m] = "queued"], running)
  /\ UNCHANGED <<suppressIdle, streams, activeTurn, turn, panel, beingEdited, misheard>>

\* interruptChatRun: the last stream is cut, and its sender goes on.
InterruptRun(places) ==
  /\ turn' = [turn EXCEPT !.stopped = TRUE, !.muted = TRUE]
  /\ streams' = streams \ {activeTurn} /\ activeTurn' = Nobody
  /\ at' = [m \in UserMessages |-> IF m = activeTurn /\ places[m] = "streaming"
                                 THEN "returning" ELSE places[m]]

\* The user steers a queued message: it interrupts and is run at once.
steerItem(m) ==
  /\ at[m] = "queued" /\ running
  /\ queue' = Without(m)
  /\ suppressIdle' = suppressIdle + 1
  /\ InterruptRun([at EXCEPT ![m] = "preparing"])
  /\ misheard' = misheard \cup (IF \E n \in UserMessages : at[n] = "preparing" THEN {"early"} ELSE {})
  /\ UNCHANGED <<running, panel, beingEdited>>

remove(m) ==
  /\ at[m] = "queued"
  /\ queue' = Without(m)
  /\ \E place \in {"dropped", "restored"} : at' = [at EXCEPT ![m] = place]
  /\ UNCHANGED <<running, suppressIdle, streams, activeTurn, turn, panel, beingEdited, misheard>>

-----------------------------------------------------------------------------
(* handleNew: what is pending is completed, the thread exists, the message is      *)
(* sent, and the promise of its stream is awaited.                              *)

SendOff(stream) ==
  /\ streams' = streams \cup {stream} /\ activeTurn' = stream
  /\ turn' = [waits |-> FALSE, stopped |-> FALSE, muted |-> FALSE]
  /\ misheard' = misheard \cup (IF streams \ UserMessages # {} \/ (stream = "resume" /\ isRunning)
                       THEN {"beside"} ELSE {})
               \cup (IF stream = "resume" /\ turn.stopped THEN {"zombie"} ELSE {})

handleNew(m) ==
  /\ at[m] = "preparing"
  /\ at' = [at EXCEPT ![m] = "streaming"]
  /\ SendOff(m)
  /\ UNCHANGED <<queue, running, suppressIdle, panel, beingEdited>>

\* The stream of s ends, perhaps suspended at a question.
StreamEnds(s) ==
  /\ s \in streams
  /\ streams' = streams \ {s}
  /\ activeTurn' = (IF s = activeTurn THEN Nobody ELSE activeTurn)
  /\ at' = [m \in UserMessages |-> IF m = s THEN "returning" ELSE at[m]]
  /\ UNCHANGED <<queue, running, suppressIdle, turn, panel, beingEdited, misheard>>

\* The run is suspended: the panel opens, or the page is read, before the stream ends.
Suspended ==
  /\ activeTurn # Nobody /\ ~turn.waits /\ turn' = [turn EXCEPT !.waits = TRUE]
  /\ panel' = "open"
  /\ UNCHANGED <<at, queue, running, suppressIdle, streams, activeTurn, beingEdited, misheard>>

notifyIdleAlways(places) ==   \* a bug: the idle of an interrupted run counts
  AdvanceQueue(queue, places, FALSE) /\ UNCHANGED suppressIdle

notifyIdle(places) ==
  IF suppressIdle > 0
    THEN suppressIdle' = suppressIdle - 1 /\ at' = places /\ UNCHANGED <<queue, running>>
    ELSE AdvanceQueue(queue, places, FALSE) /\ UNCHANGED suppressIdle

\* sendMessage has returned: the suppression is lifted, and the queue is told.
Returned(m) ==
  /\ at[m] = "returning"
  /\ turn' = [turn EXCEPT !.muted = FALSE]
  /\ misheard' = misheard \cup (IF turn.muted THEN {"lifted"} ELSE {})
  /\ notifyIdle([at EXCEPT ![m] = "done"])
  /\ UNCHANGED <<streams, activeTurn, panel, beingEdited>>

-----------------------------------------------------------------------------
(* Stop, the answer to a question, and the edit of an earlier message.            *)

onCancel ==
  /\ isRunning
  /\ queue' = <<>>
  /\ InterruptRun([m \in UserMessages |-> IF at[m] = "queued" THEN "restored" ELSE at[m]])
  /\ UNCHANGED <<running, suppressIdle, panel, beingEdited, misheard>>

\* The user answers, or the page was read: deliverResult waits for a frame.
deliverResult ==
  /\ panel \in {"open", "failed"} /\ panel' = "sending"
  /\ UNCHANGED <<at, queue, running, suppressIdle, streams, activeTurn, turn, beingEdited, misheard>>

\* Of a turn that is muted the answer is dropped as if it had been delivered;
\* without a suspension it fails, and the panel stays.
applyToolResult ==
  /\ panel = "sending"
  /\ \/ turn.muted /\ panel' = "none" /\ turn' = [turn EXCEPT !.waits = FALSE]
        /\ UNCHANGED <<streams, activeTurn, misheard>>
     \/ ~turn.muted /\ turn.waits /\ panel' = "none" /\ SendOff("resume")
     \/ ~turn.muted /\ ~turn.waits /\ panel' = "failed"
        /\ UNCHANGED <<streams, activeTurn, turn, misheard>>
  /\ UNCHANGED <<at, queue, running, suppressIdle, beingEdited>>

\* The queue is cleared, and the server is asked to stop.
EditBegins ==
  /\ ~beingEdited.on /\ beingEdited.left > 0
  /\ beingEdited' = [on |-> TRUE, left |-> beingEdited.left - 1]
  /\ queue' = <<>>
  /\ at' = [m \in UserMessages |-> IF at[m] = "queued" THEN "dropped" ELSE at[m]]
  /\ UNCHANGED <<running, suppressIdle, streams, activeTurn, turn, panel, misheard>>

onEdit ==
  /\ beingEdited.on /\ beingEdited' = [beingEdited EXCEPT !.on = FALSE]
  /\ streams' = (streams \ {activeTurn}) \cup {"edit"} /\ activeTurn' = "edit"
  /\ at' = [m \in UserMessages |-> IF m = activeTurn THEN "returning" ELSE at[m]]
  /\ misheard' = misheard \cup (IF streams \subseteq {activeTurn} THEN {} ELSE {"beside"})
               \cup (IF \E m \in UserMessages : at[m] = "preparing" THEN {"early"} ELSE {})
  /\ turn' = [waits |-> FALSE, stopped |-> FALSE, muted |-> FALSE]
  /\ UNCHANGED <<queue, running, suppressIdle, panel>>

ComposerNext ==
  \/ \E m \in UserMessages : Enqueue(m) \/ steerItem(m) \/ remove(m)
  \/ \E m \in UserMessages : handleNew(m) \/ Returned(m)
  \/ \E s \in UserMessages \cup {"resume", "edit"} : StreamEnds(s)
  \/ Suspended \/ onCancel \/ deliverResult \/ applyToolResult \/ EditBegins \/ onEdit

ComposerSpec == ComposerInit /\ [][ComposerNext]_composerVars

-----------------------------------------------------------------------------
(***************************************************************************)
(* The queue counts: it takes itself for busy exactly while a message it ran has  *)
(* not come back, one for each it interrupted not counted, so that none waits       *)
(* with nothing to wake it.  Two streams are on together only after a message was      *)
(* steered, or an edit sent, before the one it follows was sent, or when a stream       *)
(* the queue does not know, of a resume or an edit, was on.  A turn its user          *)
(* stopped is resumed only after the return of its message lifted the suppression.    *)
(* A question that can be answered is shown.                                     *)
(***************************************************************************)
QueueIsServed ==
  /\ Cardinality(Dispatched) = suppressIdle + (IF running THEN 1 ELSE 0)
  /\ queue # <<>> => running
  /\ Cardinality(streams) > 1 => misheard \cap {"early", "beside"} # {}
  /\ "zombie" \in misheard => "lifted" \in misheard
  /\ turn.waits => panel # "none"
=============================================================================
