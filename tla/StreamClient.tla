--------------------------- MODULE StreamClient ----------------------------
(***************************************************************************)
(* The browser's side of one answer that is streamed: the POST that is tried   *)
(* again (transport-reconnect.ts), the stream that goes on over several           *)
(* connections (create-resilient-chat-fetch.ts), the cursor it asks the rest       *)
(* with (stream-resume-cursor.ts), the banner (network-reconnect-store.ts), and      *)
(* the store of the server it reads from (resumable-chat-stream.ts).             *)
(*                                                                         *)
(* A frame is two halves: a network may cut it.  Frame f is the halves 2f-1 and    *)
(* 2f; a chunk is any number of halves.  The last frame of a run is its "finish",   *)
(* and its first half has the marker the client looks for.  Bounds: Frames of a      *)
(* run, PostTries for POST_MAX_RETRIES, Faults of the network; the budget of ten      *)
(* minutes ends at any retry.  Left out: delays, keepalives, a POST that begins its    *)
(* run only after it was tried again, and two readers of one stream.              *)
(***************************************************************************)
EXTENDS Naturals, Sequences

CONSTANTS Frames, PostTries, Faults

ASSUME StreamAssumption ==
  Frames \in Nat \ {0} /\ PostTries \in Nat \ {0} /\ Faults \in Nat

VARIABLES
  source,  \* the run at the server: how many were begun, frames made, state
  native,  \* does the POST carry a resume of a suspended run?
  link,    \* what the client is at: phase, tries, is the next failure the last?
  place,   \* the halves this connection has brought, from the start of the run
  cursor,  \* sessionStorage: the frames that were counted
  seen,    \* the halves the reader got, in their order
  kept,    \* is the id of the stream stored?
  banner,
  faults

streamVars == <<source, native, link, place, cursor, seen, kept, banner, faults>>
clientView == <<place, cursor, seen, kept>>

NewRun == [id |-> source.id + 1, made |-> 0, state |-> "open"]
Alive == source.state # "gone"
Transient(b) == IF b = "offline" THEN b ELSE "none"   \* clearTransientBanner

LinkAt(phase) == link' = [link EXCEPT !.phase = phase]
Fault == faults < Faults /\ faults' = faults + 1
QuietLink == UNCHANGED <<source, native, clientView, faults>>

StreamInit ==
  /\ source = [id |-> 0, made |-> 0, state |-> "gone"]
  /\ native \in BOOLEAN
  /\ link = [phase |-> "posting", tries |-> 1, last |-> FALSE, auto |-> TRUE]
  /\ place = 0 /\ cursor = 0 /\ seen = <<>> /\ kept = FALSE
  /\ banner \in {"none", "offline"} /\ faults = 0

-----------------------------------------------------------------------------
(* The server: a run makes frames, finishes, is stopped or fails without a       *)
(* finish, and is dropped: by time, a later run of the thread, or a restart.     *)

Produce ==
  /\ source.state = "open" /\ source.made + 1 < Frames
  /\ source' = [source EXCEPT !.made = @ + 1]

FinishSource ==
  /\ source.state = "open"
  /\ source' = [source EXCEPT !.made = @ + 1, !.state = "finished"]

Halt == source.state = "open" /\ source' = [source EXCEPT !.state = "halted"]
Expire == Alive /\ source' = [source EXCEPT !.state = "gone"]

SourceGoesOn ==
  /\ Produce \/ FinishSource \/ Halt \/ Expire
  /\ UNCHANGED <<native, link, clientView, banner, faults>>

-----------------------------------------------------------------------------
(* postChatWithRetry, resilientChatPost: a native resume that is tried again       *)
(* looks for a stream of the thread before it posts.                            *)

Found == native /\ link.tries > 1 /\ Alive

PostAnswered ==
  /\ link.phase = "posting"
  /\ source' = IF Found THEN source ELSE NewRun
  /\ LinkAt("reading")
  /\ kept' = TRUE /\ banner' = Transient(banner)
  /\ UNCHANGED <<native, place, cursor, seen, faults>>

\* Timed out, cut off or answered by 429 or 5xx, after the run began or before.
PostFailed ==
  /\ link.phase = "posting" /\ Fault
  /\ source' \in {source} \cup (IF Found THEN {} ELSE {NewRun})
  /\ IF link.tries = PostTries
       THEN LinkAt("failed") /\ banner' = Transient(banner)
       ELSE /\ link' = [link EXCEPT !.tries = @ + 1]
            /\ banner' = "retrying"
  /\ UNCHANGED <<native, clientView>>

\* Any other answer is the caller's.
PostRefused ==
  /\ link.phase = "posting" /\ Fault
  /\ LinkAt("failed") /\ banner' = Transient(banner)
  /\ UNCHANGED <<source, native, clientView>>

-----------------------------------------------------------------------------
(* createAutoResumeStream, wrapTrackedStream.                                    *)

AdvanceByChunk(from, to) == 1   \* a bug: nextCursorAfterChunk
AdvanceCursor(from, to) == to \div 2 - from \div 2   \* advanceCursorBySseBytes

SeesFinish(to) == source.state = "finished" /\ to > 2 * (source.made - 1)

Ended == LinkAt("closed") /\ kept' = FALSE /\ banner' = Transient(banner)

Read ==
  /\ link.phase = "reading" /\ Alive
  /\ \E to \in place + 1 .. 2 * source.made :
       /\ place' = to
       /\ cursor' = cursor + AdvanceCursor(place, to)
       /\ seen' = seen \o [i \in 1..(to - place) |-> place + i]
       /\ IF link.auto /\ SeesFinish(to) THEN Ended
          ELSE UNCHANGED <<link, kept, banner>>
  /\ UNCHANGED <<source, native, faults>>

\* The body ends: it has nothing more, or nothing came for 45 seconds.
BodyEnds ==
  /\ link.phase = "reading"
  /\ \/ /\ source.state \in {"finished", "halted"} /\ place = 2 * source.made
        /\ UNCHANGED faults
     \/ Fault
  /\ IF link.auto
       THEN /\ link' = [link EXCEPT !.phase = "resuming", !.last = FALSE]
            /\ banner' = "reconnecting"
       ELSE LinkAt("over") /\ banner' = Transient(banner)
  /\ UNCHANGED <<source, native, clientView>>

\* The connection breaks: the error is caught, and what follows is the last try.
Broken ==
  /\ link.phase = "reading" /\ Fault
  /\ IF link.auto
       THEN /\ link' = [link EXCEPT !.phase = "resuming", !.last = TRUE]
            /\ banner' = "reconnecting"
       ELSE LinkAt("over") /\ banner' = Transient(banner)
  /\ UNCHANGED <<source, native, clientView>>

\* GET /api/chat/streams/:id with the cursor; the banner stays as it was.
Resumed ==
  /\ link.phase = "resuming" /\ Alive
  /\ LinkAt("reading") /\ place' = 2 * cursor
  /\ UNCHANGED <<source, native, cursor, seen, kept, banner, faults>>

\* 204 or 404: as if it had finished.
ResumeGone ==
  /\ link.phase = "resuming" /\ ~Alive /\ Ended
  /\ UNCHANGED <<source, native, place, cursor, seen, faults>>

ResumeFails ==
  /\ link.phase = "resuming" /\ Fault
  /\ IF link.last THEN LinkAt("failed") /\ banner' = Transient(banner)
     ELSE /\ link' = [link EXCEPT !.last = TRUE]
          /\ banner' = "reconnecting"
  /\ UNCHANGED <<source, native, clientView>>

-----------------------------------------------------------------------------
(* chat.resumeStream, once for a page: reconnectingGetStream asks with the cursor   *)
(* until it has an answer, and does not resume what it then reads.                *)

Attach ==
  /\ link.phase = "failed" /\ kept /\ link.auto
  /\ link' = [link EXCEPT !.phase = "asking", !.auto = FALSE]
  /\ QuietLink /\ UNCHANGED banner

Asked ==
  /\ link.phase = "asking"
  /\ \/ /\ Alive /\ LinkAt("reading") /\ place' = 2 * cursor
        /\ banner' = (IF banner \in {"reconnecting", "retrying"} THEN "none" ELSE banner)
        /\ UNCHANGED faults
     \/ /\ ~Alive /\ LinkAt("over")   \* 204 is handed on before anything is cleared
        /\ UNCHANGED <<place, banner, faults>>
     \/ /\ Fault /\ banner' = "reconnecting"
        /\ UNCHANGED <<link, place>>
     \/ /\ Fault /\ LinkAt("over") /\ banner' = "error"   \* ten minutes are over
        /\ UNCHANGED place
  /\ UNCHANGED <<source, native, cursor, seen, kept>>

-----------------------------------------------------------------------------
(* The user stops the run: requestChatStop once its POST was answered.           *)

StopStream ==
  /\ link.phase \in {"posting", "reading", "resuming", "asking"}
  /\ LinkAt("stopped") /\ kept' = FALSE /\ banner' = "none"
  /\ source' = (IF kept /\ source.state = "open"
                  THEN [source EXCEPT !.state = "halted"] ELSE source)
  /\ cursor' = 0
  /\ UNCHANGED <<native, place, seen, faults>>

Network ==
  /\ banner' \in {"offline"} \cup (IF banner = "offline" THEN {"none"} ELSE {})
  /\ Fault /\ UNCHANGED <<source, native, link, clientView>>

StreamNext ==
  \/ SourceGoesOn \/ PostAnswered \/ PostFailed \/ PostRefused
  \/ Read \/ BodyEnds \/ Broken \/ Resumed \/ ResumeGone \/ ResumeFails
  \/ Attach \/ Asked \/ StopStream \/ Network

StreamSpec == StreamInit /\ [][StreamNext]_streamVars

-----------------------------------------------------------------------------
\* Where a frame was ended in what was read, and the frames that were.
EndsAt(halves) == {i \in DOMAIN halves : halves[i] % 2 = 0}
EndedFrames(halves) == {halves[i] \div 2 : i \in EndsAt(halves)}

(***************************************************************************)
(* Over any number of connections, every frame of the run is read to its end once and    *)
(* in its order, from its start; the first half of a frame is only ever followed by     *)
(* its second, or by the same frame from its start; and the cursor the rest is asked     *)
(* with is the number of frames read.  A stream that was closed as finished lacks      *)
(* at most the end of its finish frame, unless the server dropped it; and with it     *)
(* goes its banner.                                                            *)
(***************************************************************************)
InOrder(halves) ==
  \A i, j \in EndsAt(halves) : i < j => halves[i] < halves[j]

Whole(halves) ==
  \A i \in DOMAIN halves :
    IF halves[i] % 2 = 0 THEN i > 1 /\ halves[i - 1] = halves[i] - 1
    ELSE i < Len(halves) => halves[i + 1] \in {halves[i], halves[i] + 1}

StreamIsWhole ==
  /\ InOrder(seen) /\ Whole(seen)
  /\ \E read \in 0..Len(seen) :
       /\ EndedFrames(seen) = 1..read
       /\ link.phase # "stopped" => cursor = read
       /\ link.phase = "closed" =>
            /\ Alive => source.state = "finished" /\ read + 1 >= source.made
            /\ banner \in {"none", "offline"}
=============================================================================
