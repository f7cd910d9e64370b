------------------------------ MODULE ChatRuns ------------------------------
(***************************************************************************)
(* The runs of one chat thread: POST /api/chat (routes/chat.ts), the        *)
(* registry of resumable streams (resumable-chat-stream.ts), the registry   *)
(* of runs suspended on a question (chat-suspension-registry.ts) with its   *)
(* durable copy in the thread row, the Stop button, and the activity poll   *)
(* of the sidebar.                                                         *)
(*                                                                         *)
(* Every POST makes one stream and at most one question, so posts name      *)
(* streams and questions too; a new prompt also names its agent run.        *)
(* What a handler does between two awaits is one step.                      *)
(*                                                                         *)
(* Left out: the "cancelled" flag of a stream, which only reaches runs of    *)
(* another server instance (here the controller is aborted in the same      *)
(* step); the badge of the sidebar; the goal and the loop of the thread.    *)
(***************************************************************************)
EXTENDS Naturals, FiniteSets

CONSTANTS
  Posts,   \* POST /api/chat requests, their streams and their questions
  Stops,   \* POST /api/chat/:threadId/stop requests
  Asking,  \* the posts whose stream may end in a question
  Faults,  \* the failures that may happen, a subset of FaultKinds
  None

\* "launch": agent.stream or resumeStream throws; "expire": a mapping outlives
\* STREAM_TTL_MS; "restart": the server crashes and comes back; "duplicate": an
\* answer is sent again although the first was not refused (a retry, a second tab).
FaultKinds == {"launch", "expire", "restart", "duplicate"}

ASSUME NoneAssumption == None \notin Posts
ASSUME AskingAssumption == Asking \subseteq Posts
ASSUME FaultsAssumption == Faults \subseteq FaultKinds

VARIABLES
  at,         \* where each post is
  want,       \* the question a post answers, None for a new prompt
  run,        \* the agent run of each post
  seen,       \* the question the thread row held when the post read it
  target,     \* the stream the stopChatStream in progress works on
  aborted,    \* the abort signal of the post's run
  asked,      \* the stream showed a question and saved it (sawSuspension)
  buffer,     \* the resumable buffer of the stream
  active,     \* activeStreams, of this thread
  registered, \* localRunAborts
  suspended,  \* suspendedRuns: the open question of each run
  consumed,   \* consumedRuns
  row,        \* thread row: the question of its suspendedRun
  stopAt,     \* where each stop request is, then its answer
  stopTarget, \* the stream it works on
  polled      \* the stream an activity poll has looked up and is asking about

postVars == <<at, want, run, seen, target, aborted, asked>>
streamVars == <<buffer, active, registered>>
askVars == <<suspended, consumed, row>>
stopVars == <<stopAt, stopTarget>>
vars == <<postVars, streamVars, askVars, stopVars, polled>>

\* The handler of a post, up to the stream.
Handling == {"arrived", "superseding", "preparing", "resuming", "consumed",
             "unasking", "launching", "restoring", "bound"}
Streaming == {"running", "saving"}
Unserved == {"refused", "failed", "lost"}
Dead == {"killed", "killed saving"}
Places == {"idle", "clearing", "closed"} \cup Dead \cup Handling \cup Streaming \cup Unserved

\* The agent was given the prompt or the answer of post p.
Started(p) == at[p] \in {"launching", "bound", "clearing", "closed"} \cup Streaming \cup Dead

Init ==
  /\ at = [p \in Posts |-> "idle"]
  /\ want = [p \in Posts |-> None]
  /\ run = [p \in Posts |-> None]
  /\ seen = [p \in Posts |-> None]
  /\ target = [p \in Posts |-> None]
  /\ aborted = [p \in Posts |-> FALSE]
  /\ asked = [p \in Posts |-> FALSE]
  /\ buffer = [p \in Posts |-> "missing"]
  /\ active = None
  /\ registered = {}
  /\ suspended = [p \in Posts |-> None]
  /\ consumed = {}
  /\ row = None
  /\ stopAt = [s \in Stops |-> "idle"]
  /\ stopTarget = [s \in Stops |-> None]
  /\ polled = None

Move(p, to) == at' = [at EXCEPT ![p] = to]

\* The two halves of stopChatStream, on stream x.
Cancel(x) ==
  /\ aborted' = [p \in Posts |-> aborted[p] \/ (p = x /\ x \in registered)]
  /\ registered' = registered \ {x}
Finalize(x) ==
  /\ buffer' = [p \in Posts |-> IF p = x /\ buffer[p] = "streaming" THEN "done" ELSE buffer[p]]
  /\ active' = None

-----------------------------------------------------------------------------
(* POST /api/chat *)

\* A new prompt.
Prompt(p) ==
  /\ at[p] = "idle"
  /\ Move(p, "arrived")
  /\ run' = [run EXCEPT ![p] = p]
  /\ UNCHANGED <<want, seen, target, aborted, asked, streamVars, askVars, stopVars, polled>>

\* The answer to question a: the thread row is read first.
Answer(p, a) ==
  /\ at[p] = "idle"
  /\ asked[a]
  /\ "duplicate" \in Faults \/ \A q \in Posts : want[q] = a => at[q] \in Unserved
  /\ Move(p, "resuming")
  /\ want' = [want EXCEPT ![p] = a]
  /\ run' = [run EXCEPT ![p] = run[a]]
  /\ seen' = [seen EXCEPT ![p] = row]
  /\ UNCHANGED <<target, aborted, asked, streamVars, askVars, stopVars, polled>>

\* Mutant of Consume: a consumed run may be registered again from the row.
ConsumeAgain(p) ==
  /\ at[p] = "resuming"
  /\ LET found == IF seen[p] = want[p]
                  THEN [suspended EXCEPT ![run[p]] = want[p]] ELSE suspended
     IN IF found[run[p]] = want[p]
        THEN /\ suspended' = [found EXCEPT ![run[p]] = None]
             /\ consumed' = consumed \cup {run[p]}
             /\ registered' = registered \cup {p}
             /\ Move(p, "consumed")
        ELSE /\ suspended' = found
             /\ Move(p, "refused")
             /\ UNCHANGED <<consumed, registered>>
  /\ UNCHANGED <<want, run, seen, target, aborted, asked, buffer, active, row, stopVars, polled>>

\* The registry is hydrated from the row as it was read, unless the run counts
\* as consumed; then exactly this question is consumed, or the post gets 409.
Consume(p) ==
  /\ at[p] = "resuming"
  /\ LET found == IF seen[p] = want[p] /\ run[p] \notin consumed
                  THEN [suspended EXCEPT ![run[p]] = want[p]] ELSE suspended
     IN IF found[run[p]] = want[p]
        THEN /\ suspended' = [found EXCEPT ![run[p]] = None]
             /\ consumed' = consumed \cup {run[p]}
             /\ registered' = registered \cup {p}
             /\ Move(p, "consumed")
        ELSE /\ suspended' = found
             /\ Move(p, "refused")
             /\ UNCHANGED <<consumed, registered>>
  /\ UNCHANGED <<want, run, seen, target, aborted, asked, buffer, active, row, stopVars, polled>>

AfterStop(p) == IF want[p] = None THEN "preparing" ELSE "unasking"

\* stopChatStream({ threadId }): the stream the thread is mapped to is cancelled.
Supersede(p) ==
  /\ at[p] \in {"arrived", "consumed"}
  /\ IF active = None
     THEN Move(p, AfterStop(p)) /\ UNCHANGED <<target, aborted, registered>>
     ELSE Move(p, "superseding") /\ target' = [target EXCEPT ![p] = active] /\ Cancel(active)
  /\ UNCHANGED <<want, run, seen, asked, buffer, active, askVars, stopVars, polled>>

Superseded(p) ==
  /\ at[p] = "superseding"
  /\ Finalize(target[p])
  /\ Move(p, AfterStop(p))
  /\ UNCHANGED <<want, run, seen, target, aborted, asked, registered, askVars, stopVars, polled>>

\* The UserPromptSubmit hook denies a prompt; otherwise it is given to the agent.
Deny(p) ==
  /\ at[p] = "preparing"
  /\ Move(p, "refused")
  /\ UNCHANGED <<want, run, seen, target, aborted, asked, streamVars, askVars, stopVars, polled>>

Launch(p) ==
  /\ at[p] = "preparing"
  /\ registered' = registered \cup {p}
  /\ Move(p, "launching")
  /\ UNCHANGED <<want, run, seen, target, aborted, asked, buffer, active, askVars, stopVars, polled>>

\* setThreadSuspendedRun(threadId, null), then resumeStream.
Unask(p) ==
  /\ at[p] = "unasking"
  /\ row' = None
  /\ Move(p, "launching")
  /\ UNCHANGED <<want, run, seen, target, aborted, asked, streamVars, suspended, consumed,
                 stopVars, polled>>

\* Mutant of LaunchFails: the failed resume stays consumed.
LaunchFailsConsumed(p) ==
  /\ "launch" \in Faults
  /\ at[p] = "launching"
  /\ Move(p, IF want[p] = None THEN "failed" ELSE "restoring")
  /\ UNCHANGED <<want, run, seen, target, aborted, asked, streamVars, askVars, stopVars, polled>>

\* The agent throws: a consumed question is put back, in memory and then in the
\* row.  Nothing removes the abort controller.
LaunchFails(p) ==
  /\ "launch" \in Faults
  /\ at[p] = "launching"
  /\ IF want[p] = None
     THEN Move(p, "failed") /\ UNCHANGED <<suspended, consumed>>
     ELSE /\ Move(p, "restoring")
          /\ consumed' = consumed \ {run[p]}
          /\ suspended' = [suspended EXCEPT ![run[p]] = want[p]]
  /\ UNCHANGED <<want, run, seen, target, aborted, asked, streamVars, row, stopVars, polled>>

RestoreRow(p) ==
  /\ at[p] = "restoring"
  /\ row' = want[p]
  /\ Move(p, "failed")
  /\ UNCHANGED <<want, run, seen, target, aborted, asked, streamVars, suspended, consumed,
                 stopVars, polled>>

\* bindActiveStream: the mapping moves to this stream, and the buffer of the
\* stream it named is deleted first.  That stream's run is not aborted.
Bind(p) ==
  /\ at[p] = "launching"
  /\ buffer' = [q \in Posts |-> IF q = active THEN "missing" ELSE buffer[q]]
  /\ active' = p
  /\ Move(p, "bound")
  /\ UNCHANGED <<want, run, seen, target, aborted, asked, registered, askVars, stopVars, polled>>

\* captureSseToResumable: the stream is produced into its buffer.  A resumed run
\* recalls the transcript from the database first.
Capture(p) ==
  /\ at[p] = "bound"
  /\ buffer' = [buffer EXCEPT ![p] = "streaming"]
  /\ Move(p, "running")
  /\ UNCHANGED <<want, run, seen, target, aborted, asked, active, registered, askVars,
                 stopVars, polled>>

\* Mutant of SeeAsk: the run still counts as consumed.
SeeAskConsumed(p) ==
  /\ p \in Asking
  /\ at[p] = "running"
  /\ ~aborted[p]
  /\ ~asked[p]
  /\ suspended' = IF run[p] \in consumed THEN suspended ELSE [suspended EXCEPT ![run[p]] = p]
  /\ Move(p, "saving")
  /\ UNCHANGED <<want, run, seen, target, aborted, asked, streamVars, consumed, row, stopVars,
                 polled>>

\* The stream shows a question: registered at once, then saved in the row.
SeeAsk(p) ==
  /\ p \in Asking
  /\ at[p] = "running"
  /\ ~aborted[p]
  /\ ~asked[p]
  /\ consumed' = consumed \ {run[p]}
  /\ suspended' = [suspended EXCEPT ![run[p]] = p]
  /\ Move(p, "saving")
  /\ UNCHANGED <<want, run, seen, target, aborted, asked, streamVars, row, stopVars, polled>>

SaveAsk(p) ==
  /\ at[p] = "saving"
  /\ row' = p
  /\ asked' = [asked EXCEPT ![p] = TRUE]
  /\ Move(p, "running")
  /\ UNCHANGED <<want, run, seen, target, aborted, streamVars, suspended, consumed, stopVars,
                 polled>>

\* Mutants of Finish: the mapping stays; the abort controller stays.
FinishMapped(p) ==
  /\ at[p] = "running"
  /\ registered' = registered \ {p}
  /\ buffer' = [buffer EXCEPT ![p] = IF @ = "streaming" THEN "done" ELSE @]
  /\ Move(p, IF asked[p] THEN "closed" ELSE "clearing")
  /\ UNCHANGED <<want, run, seen, target, aborted, asked, active, askVars, stopVars, polled>>
FinishRegistered(p) ==
  /\ at[p] = "running"
  /\ active' = None
  /\ buffer' = [buffer EXCEPT ![p] = IF @ = "streaming" THEN "done" ELSE @]
  /\ Move(p, IF asked[p] THEN "closed" ELSE "clearing")
  /\ UNCHANGED <<want, run, seen, target, aborted, asked, registered, askVars, stopVars, polled>>

\* onFinish: the stream ended, was aborted or failed.  The mapping of the thread
\* is cleared, whichever stream it names.
Finish(p) ==
  /\ at[p] = "running"
  /\ registered' = registered \ {p}
  /\ active' = None
  /\ buffer' = [buffer EXCEPT ![p] = IF @ = "streaming" THEN "done" ELSE @]
  /\ Move(p, IF asked[p] THEN "closed" ELSE "clearing")
  /\ UNCHANGED <<want, run, seen, target, aborted, asked, askVars, stopVars, polled>>

\* A run that asked nothing clears the question of the row, whoever asked it.
ClearRow(p) ==
  /\ at[p] = "clearing"
  /\ row' = None
  /\ Move(p, "closed")
  /\ UNCHANGED <<want, run, seen, target, aborted, asked, streamVars, suspended, consumed,
                 stopVars, polled>>

-----------------------------------------------------------------------------
(* The Stop button, the activity poll, time and crashes *)

\* The stream ids a client may have learnt from a response header.
Known == {p \in Posts : at[p] \in Streaming \cup {"clearing", "closed"}}

\* Stop, with the id of the stream the client shows, or without (None).
Stop(s, id) ==
  /\ stopAt[s] = "idle"
  /\ LET x == IF id = None THEN active ELSE id IN
     \/ /\ x = None
        /\ stopAt' = [stopAt EXCEPT ![s] = "not_found"]
        /\ UNCHANGED <<stopTarget, aborted, registered>>
     \/ /\ x # None /\ active \notin {None, x}
        /\ stopAt' = [stopAt EXCEPT ![s] = "stale"]
        /\ UNCHANGED <<stopTarget, aborted, registered>>
     \/ /\ x # None /\ active \in {None, x}
        /\ stopAt' = [stopAt EXCEPT ![s] = "stopping"]
        /\ stopTarget' = [stopTarget EXCEPT ![s] = x]
        /\ Cancel(x)
  /\ UNCHANGED <<at, want, run, seen, target, asked, buffer, active, askVars, polled>>

StopEnds(s) ==
  /\ stopAt[s] = "stopping"
  /\ Finalize(stopTarget[s])
  /\ stopAt' = [stopAt EXCEPT ![s] = "stopped"]
  /\ UNCHANGED <<postVars, registered, askVars, stopTarget, polled>>

\* getLiveActiveStream: the mapping is read, and dropped after an await if the
\* buffer of the stream read is not streaming.
Poll ==
  /\ polled = None
  /\ active # None
  /\ polled' = active
  /\ UNCHANGED <<postVars, streamVars, askVars, stopVars>>

PollEnds ==
  /\ polled # None
  /\ polled' = None
  /\ active' = IF buffer[polled] = "streaming" THEN active ELSE None
  /\ UNCHANGED <<postVars, buffer, registered, askVars, stopVars>>

\* pruneExpired: a mapping is not refreshed while its run goes on.
Expire ==
  /\ "expire" \in Faults
  /\ active # None
  /\ active' = None
  /\ UNCHANGED <<postVars, buffer, registered, askVars, stopVars, polled>>

\* Only the thread row survives.
Restart ==
  /\ "restart" \in Faults
  /\ at' = [p \in Posts |-> IF at[p] \in {"idle", "closed"} \cup Dead \cup Unserved THEN at[p]
                            ELSE IF at[p] = "saving" THEN "killed saving"
                            ELSE IF Started(p) THEN "killed" ELSE "lost"]
  /\ buffer' = [p \in Posts |-> "missing"]
  /\ active' = None
  /\ registered' = {}
  /\ suspended' = [p \in Posts |-> None]
  /\ consumed' = {}
  /\ stopAt' = [s \in Stops |-> IF stopAt[s] = "stopping" THEN "lost" ELSE stopAt[s]]
  /\ polled' = None
  /\ UNCHANGED <<want, run, seen, target, aborted, asked, row, stopTarget>>

-----------------------------------------------------------------------------
\* What the clients and the environment may do or not.
Requests ==
  \/ \E p \in Posts : Prompt(p) \/ \E a \in Posts : Answer(p, a)
  \/ \E s \in Stops, id \in Known \cup {None} : Stop(s, id)
  \/ Poll
  \/ Expire
  \/ Restart

PostStep(p) ==
  \/ Consume(p) \/ Supersede(p) \/ Superseded(p) \/ Deny(p) \/ Launch(p)
  \/ Unask(p) \/ LaunchFails(p) \/ RestoreRow(p) \/ Bind(p) \/ Capture(p)
  \/ SeeAsk(p) \/ SaveAsk(p) \/ Finish(p) \/ ClearRow(p)

Next ==
  \/ Requests
  \/ \E p \in Posts : PostStep(p)
  \/ \E s \in Stops : StopEnds(s)
  \/ PollEnds

Spec == Init /\ [][Next]_vars

-----------------------------------------------------------------------------
(* Correctness *)

\* The thread is never mapped to a stream whose run is over, so the sidebar does
\* not show it running and a reload does not resume a dead stream.
NoStaleMapping == active # None => at[active] \in {"bound"} \cup Streaming

\* Runs that hold an abort controller.
Controlled == {p \in Posts :
  \/ at[p] \in {"launching", "bound", "consumed", "unasking"} \cup Streaming
  \/ at[p] = "superseding" /\ want[p] # None}

\* The controllers on record, which the drain of a shutdown waits for, are those of
\* the runs that were not told to stop, and of runs whose agent threw at the start:
\* nothing takes these off the record.
DrainExact ==
  registered \ {p \in Posts : at[p] \in {"restoring", "failed"}}
    = {p \in Controlled : ~aborted[p]}

\* Two answers to one question were both given to the agent.
ResumedTwice(p, q) ==
  p # q /\ want[p] # None /\ want[p] = want[q] /\ Started(p) /\ Started(q)

\* Two answers to one question resume its run once ("prevents concurrent/double
\* resume", chat-suspension-registry.ts), across restarts and failed launches, unless the resumed run asks its next question in the meantime, or a
\* failed answer puts the question back.
Asks(p) == asked[p] \/ at[p] \in {"saving", "killed saving"}
SingleResume ==
  \A p, q \in Posts :
    ResumedTwice(p, q)
      => \/ Asks(p) \/ Asks(q)
         \/ \E b \in Posts : want[b] = want[p] /\ at[b] \in {"restoring", "failed"}

\* When no request is in progress, the question the row shows can be answered, or an
\* answer of it was given to the agent; a run that was resumed twice is another matter.
RowAnswerable ==
  (/\ row # None
   /\ \A p \in Posts : at[p] \in {"idle", "closed"} \cup Dead \cup Unserved
   /\ ~\E p, q \in Posts : ResumedTwice(p, q) /\ run[p] = run[row])
    => \/ run[row] \notin consumed
       \/ suspended[run[row]] = row
       \/ \E p \in Posts : want[p] = row /\ Started(p)

\* What the server keeps of a thread's runs is true of them: the mapping of the
\* thread to a stream, and the controllers a shutdown waits for.
RegistriesFollowRuns == NoStaleMapping /\ DrainExact

\* A question is answered once, and while the thread's row shows it somebody can.
QuestionsAreAnsweredOnce == SingleResume /\ RowAnswerable

=============================================================================
