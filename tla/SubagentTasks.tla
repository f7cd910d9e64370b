--------------------------- MODULE SubagentTasks ---------------------------
(***************************************************************************)
(* Delegation of work to subagents: the `task` and `task_continue` tools   *)
(* (agent-task-tool.ts), the in-process queue that runs the workers        *)
(* (queue.ts), the worker itself (agent-task-runner.ts), and the two ways  *)
(* of stopping work (cancel-thread-tasks.ts, task-tools.ts).               *)
(*                                                                         *)
(* All parties share one row per task in the database.  Nobody locks it:   *)
(* every read and every write of the row is a database round trip, so each *)
(* is a step of its own here, and a party acts on what it read earlier.    *)
(* What a party does between two awaits is one step, as it is in node.     *)
(*                                                                         *)
(* A background tool call sends exactly one job, so the call also names    *)
(* its job.                                                                *)
(***************************************************************************)
EXTENDS Naturals, Sequences, FiniteSets

CONSTANTS
  Tasks,        \* task row ids
  Calls,        \* calls of `task` and `task_continue`; a call names its job
  Stops,        \* stop requests: task_stop, the status bar, the Stop button
  Concurrency,  \* SUBAGENT_CONCURRENCY, the width of the worker queue
  Faults,       \* the failures that may happen, a subset of FaultKinds
  None          \* no call, no task

(* "prepare": the worker fails before executeSubagentJob is entered;       *)
(* "continue": an inline continuation throws; "shutdown": the server stops *)
(* its queue.                                                              *)
FaultKinds == {"prepare", "continue", "shutdown"}

ASSUME ConcurrencyAssumption == Concurrency \in Nat \ {0}
ASSUME NoneAssumption == None \notin Calls \cup Tasks
ASSUME FaultsAssumption == Faults \subseteq FaultKinds

VARIABLES
  status,    \* task row: its status, "absent" before the insert
  rowJob,    \* task row: job_id
  result,    \* task row: the call whose run wrote the result column
  callAt,    \* where each tool call is
  taskOf,    \* the task each call is about
  aborted,   \* is the abort signal of the run that made the call set?
  answer,    \* what the call returned
  answerOf,  \* the call whose run produced the text that was returned
  jobAt,     \* where the job of each call is
  cancelled, \* TrackedJob.cancelled, and its abort signal (always set together)
  waiting,   \* the PQueue: jobs waiting for a worker slot
  stopAt,    \* where each stop request is
  todo,      \* tasks of the request's snapshot that it has not yet handled
  seenJob,   \* the job id each row of that snapshot held
  handling,  \* the tasks (at most one) whose row is updated, job not yet cancelled
  acked,     \* tasks the request reported cancelled
  closing    \* gracefulShutdown has stopped the queue

rowVars  == <<status, rowJob, result>>
callVars == <<callAt, taskOf, aborted, answer, answerOf>>
jobVars  == <<jobAt, cancelled, waiting>>
stopVars == <<stopAt, todo, seenJob, handling, acked>>
vars     == <<rowVars, callVars, jobVars, stopVars, closing>>

Terminal == {"done", "failed", "cancelled"}
Unsettled == {"queued", "running"}
Status == {"absent"} \cup Unsettled \cup Terminal

CallPlaces == {"idle", "inserted", "sent", "awaiting", "cancelling",
               "inline", "inlineDone", "inlineFailed", "continuing", "closed"}
Answers == {"none", "result", "failed", "cancelled", "threw", "escaped"}

\* A worker that occupies a slot of the queue.
Working == {"preparing", "reading", "marking", "generating", "checking",
            "storing", "failing", "withdrawing"}
JobPlaces == {"none", "waiting", "stored", "failed", "withdrawn", "skipped",
              "crashed"} \cup Working

Busy == {c \in Calls : jobAt[c] \in Working}
InFlight == {c \in Calls : callAt[c] \notin {"idle", "closed"}}

Init ==
  /\ status = [t \in Tasks |-> "absent"]
  /\ rowJob = [t \in Tasks |-> None]
  /\ result = [t \in Tasks |-> None]
  /\ callAt = [c \in Calls |-> "idle"]
  /\ taskOf = [c \in Calls |-> None]
  /\ aborted = [c \in Calls |-> FALSE]
  /\ answer = [c \in Calls |-> "none"]
  /\ answerOf = [c \in Calls |-> None]
  /\ jobAt = [c \in Calls |-> "none"]
  /\ cancelled = [c \in Calls |-> FALSE]
  /\ waiting = <<>>
  /\ stopAt = [s \in Stops |-> "idle"]
  /\ todo = [s \in Stops |-> {}]
  /\ seenJob = [s \in Stops |-> [t \in Tasks |-> None]]
  /\ handling = [s \in Stops |-> {}]
  /\ acked = [s \in Stops |-> {}]
  /\ closing = FALSE

-----------------------------------------------------------------------------
(* The tool calls *)

\* `task`: the row is inserted, queued for a background run and running for
\* an inline one.
InsertTask(c, t, background) ==
  /\ callAt[c] = "idle"
  /\ status[t] = "absent"
  /\ status' = [status EXCEPT ![t] = IF background THEN "queued" ELSE "running"]
  /\ callAt' = [callAt EXCEPT ![c] = IF background THEN "inserted" ELSE "inline"]
  /\ taskOf' = [taskOf EXCEPT ![c] = t]
  /\ UNCHANGED <<rowJob, result, aborted, answer, answerOf, jobVars, stopVars, closing>>

\* A model learns a task id from a call that returned it, or, in a run that
\* follows an aborted one, from task_list.
Known(t) == \E c \in Calls : taskOf[c] = t /\ (callAt[c] = "closed" \/ aborted[c])

\* `task_continue`: whatever the row says, it is set back to queued (background)
\* or to running (inline).
ContinueTask(c, t, background) ==
  /\ callAt[c] = "idle"
  /\ status[t] # "absent"
  /\ Known(t)
  /\ status' = [status EXCEPT ![t] = IF background THEN "queued" ELSE "running"]
  /\ callAt' = [callAt EXCEPT ![c] = IF background THEN "inserted" ELSE "continuing"]
  /\ taskOf' = [taskOf EXCEPT ![c] = t]
  /\ UNCHANGED <<rowJob, result, aborted, answer, answerOf, jobVars, stopVars, closing>>

\* queue.send: the job enters the queue before the row knows its id.
SendJob(c) ==
  /\ callAt[c] = "inserted"
  /\ callAt' = [callAt EXCEPT ![c] = "sent"]
  /\ jobAt' = [jobAt EXCEPT ![c] = "waiting"]
  /\ waiting' = Append(waiting, c)
  /\ UNCHANGED <<rowVars, taskOf, aborted, answer, answerOf, cancelled, stopVars, closing>>

RecordJobId(c) ==
  /\ callAt[c] = "sent"
  /\ rowJob' = [rowJob EXCEPT ![taskOf[c]] = c]
  /\ callAt' = [callAt EXCEPT ![c] = "awaiting"]
  /\ UNCHANGED <<status, result, taskOf, aborted, answer, answerOf, jobVars, stopVars, closing>>

Close(c, a, d) ==
  /\ callAt' = [callAt EXCEPT ![c] = "closed"]
  /\ answer' = [answer EXCEPT ![c] = a]
  /\ answerOf' = [answerOf EXCEPT ![c] = d]

\* Mutants of ReturnSettled: the status is passed through; any status but queued
\* counts as the end; the promise is not settled after the first answer.
ReturnSettledRaw(c) ==
  /\ callAt[c] = "awaiting"
  /\ status[taskOf[c]] \in {"done", "failed"}
  /\ Close(c, status[taskOf[c]], result[taskOf[c]])
  /\ UNCHANGED <<rowVars, taskOf, aborted, jobVars, stopVars, closing>>
ReturnSettledEarly(c) ==
  /\ callAt[c] = "awaiting"
  /\ status[taskOf[c]] \notin {"queued", "cancelled"}
  /\ Close(c, IF status[taskOf[c]] = "failed" THEN "failed" ELSE "result", result[taskOf[c]])
  /\ UNCHANGED <<rowVars, taskOf, aborted, jobVars, stopVars, closing>>
ReturnSettledTwice(c) ==
  /\ callAt[c] \in {"awaiting", "closed"}
  /\ status[taskOf[c]] \in {"done", "failed"}
  /\ Close(c, IF status[taskOf[c]] = "done" THEN "result" ELSE "failed", result[taskOf[c]])
  /\ UNCHANGED <<rowVars, taskOf, aborted, jobVars, stopVars, closing>>

\* awaitTaskCompletion finds the row done or failed; the row's text is the answer.
ReturnSettled(c) ==
  /\ callAt[c] = "awaiting"
  /\ status[taskOf[c]] \in {"done", "failed"}
  /\ Close(c, IF status[taskOf[c]] = "done" THEN "result" ELSE "failed", result[taskOf[c]])
  /\ UNCHANGED <<rowVars, taskOf, aborted, jobVars, stopVars, closing>>

\* Mutants of GiveUp: the row is not updated; the job is not cancelled.
GiveUpWithoutRow(c) ==
  /\ callAt[c] = "awaiting"
  /\ aborted[c] \/ status[taskOf[c]] = "cancelled"
  /\ cancelled' = [cancelled EXCEPT ![c] = TRUE]
  /\ Close(c, "cancelled", None)
  /\ UNCHANGED <<rowVars, taskOf, aborted, jobAt, waiting, stopVars, closing>>
GiveUpWithoutJob(c) ==
  /\ callAt[c] = "awaiting"
  /\ aborted[c] \/ status[taskOf[c]] = "cancelled"
  /\ callAt' = [callAt EXCEPT ![c] = "cancelling"]
  /\ UNCHANGED <<rowVars, taskOf, aborted, answer, answerOf, jobVars, stopVars, closing>>

\* It resolves null because the parent run was aborted, or finds the row
\* cancelled: the call cancels its own job and then the row.
GiveUp(c) ==
  /\ callAt[c] = "awaiting"
  /\ aborted[c] \/ status[taskOf[c]] = "cancelled"
  /\ cancelled' = [cancelled EXCEPT ![c] = TRUE]
  /\ callAt' = [callAt EXCEPT ![c] = "cancelling"]
  /\ UNCHANGED <<rowVars, taskOf, aborted, answer, answerOf, jobAt, waiting, stopVars, closing>>

ReturnCancelled(c) ==
  /\ callAt[c] = "cancelling"
  /\ status' = [status EXCEPT ![taskOf[c]] = "cancelled"]
  /\ Close(c, "cancelled", None)
  /\ UNCHANGED <<rowJob, result, taskOf, aborted, jobVars, stopVars, closing>>

\* The inline runs.  An aborted generation may still return, or throw.
InlineGenerated(c) ==
  /\ callAt[c] \in {"inline", "continuing"}
  /\ callAt' = [callAt EXCEPT ![c] = "inlineDone"]
  /\ UNCHANGED <<rowVars, taskOf, aborted, answer, answerOf, jobVars, stopVars, closing>>

InlineThrew(c) ==
  /\ callAt[c] = "inline"
  /\ callAt' = [callAt EXCEPT ![c] = "inlineFailed"]
  /\ UNCHANGED <<rowVars, taskOf, aborted, answer, answerOf, jobVars, stopVars, closing>>

\* Nothing around continueTaskThread catches: the row keeps its status.
ContinuationThrew(c) ==
  /\ "continue" \in Faults
  /\ callAt[c] = "continuing"
  /\ Close(c, "escaped", None)
  /\ UNCHANGED <<rowVars, taskOf, aborted, jobVars, stopVars, closing>>

StoreInlineDone(c) ==
  /\ callAt[c] = "inlineDone"
  /\ status' = [status EXCEPT ![taskOf[c]] = "done"]
  /\ result' = [result EXCEPT ![taskOf[c]] = c]
  /\ Close(c, "result", c)
  /\ UNCHANGED <<rowJob, taskOf, aborted, jobVars, stopVars, closing>>

StoreInlineFailed(c) ==
  /\ callAt[c] = "inlineFailed"
  /\ status' = [status EXCEPT ![taskOf[c]] = "failed"]
  /\ result' = [result EXCEPT ![taskOf[c]] = c]
  /\ Close(c, "threw", None)
  /\ UNCHANGED <<rowJob, taskOf, aborted, jobVars, stopVars, closing>>

-----------------------------------------------------------------------------
(* The worker queue and the worker *)

\* A slot is free: the job at the head starts, unless it was cancelled while
\* it waited; then it ends at once, without touching the row.
StartJob ==
  /\ waiting # <<>>
  /\ Cardinality(Busy) < Concurrency
  /\ LET c == Head(waiting) IN
       jobAt' = [jobAt EXCEPT ![c] = IF cancelled[c] THEN "skipped" ELSE "preparing"]
  /\ waiting' = Tail(waiting)
  /\ UNCHANGED <<rowVars, callVars, cancelled, stopVars, closing>>

WorkerStep(c, from, to) ==
  /\ jobAt[c] = from
  /\ jobAt' = [jobAt EXCEPT ![c] = to]
  /\ UNCHANGED <<callVars, cancelled, waiting, stopVars, closing>>

\* The worker of server.ts refreshes packages, model settings and MCP first.
Prepare(c) == WorkerStep(c, "preparing", "reading") /\ UNCHANGED rowVars

\* A failure there is only logged by the queue.
PrepareFails(c) ==
  /\ "prepare" \in Faults
  /\ WorkerStep(c, "preparing", "crashed")
  /\ UNCHANGED rowVars

ReadRow(c) ==
  /\ \/ WorkerStep(c, "reading", "skipped") /\ status[taskOf[c]] = "cancelled"
     \/ WorkerStep(c, "reading", "marking") /\ status[taskOf[c]] # "cancelled"
  /\ UNCHANGED rowVars

MarkRunning(c) ==
  /\ WorkerStep(c, "marking", "generating")
  /\ status' = [status EXCEPT ![taskOf[c]] = "running"]
  /\ UNCHANGED <<rowJob, result>>

\* agent.generate returned: the abort signal is looked at once, then the row is
\* read again.
Generated(c) ==
  /\ WorkerStep(c, "generating", IF cancelled[c] THEN "withdrawing" ELSE "checking")
  /\ UNCHANGED rowVars

\* agent.generate threw: with the signal set, or with an error that calls
\* itself an abort, the run counts as cancelled.
GenerateThrew(c) ==
  /\ \/ WorkerStep(c, "generating", "withdrawing")
     \/ ~cancelled[c] /\ WorkerStep(c, "generating", "failing")
  /\ UNCHANGED rowVars

CheckRow(c) ==
  /\ \/ WorkerStep(c, "checking", "withdrawing") /\ status[taskOf[c]] = "cancelled"
     \/ WorkerStep(c, "checking", "storing") /\ status[taskOf[c]] # "cancelled"
  /\ UNCHANGED rowVars

StoreDone(c) ==
  /\ WorkerStep(c, "storing", "stored")
  /\ status' = [status EXCEPT ![taskOf[c]] = "done"]
  /\ result' = [result EXCEPT ![taskOf[c]] = c]
  /\ UNCHANGED rowJob

\* Mutant of StoreFailed: the catch block of executeSubagentJob only rethrows.
StoreFailedNothing(c) == WorkerStep(c, "failing", "failed") /\ UNCHANGED rowVars

StoreFailed(c) ==
  /\ WorkerStep(c, "failing", "failed")
  /\ status' = [status EXCEPT ![taskOf[c]] = "failed"]
  /\ result' = [result EXCEPT ![taskOf[c]] = c]
  /\ UNCHANGED rowJob

\* Mutant of StoreWithdrawn: an aborted run leaves its row alone.
StoreWithdrawnNothing(c) == WorkerStep(c, "withdrawing", "withdrawn") /\ UNCHANGED rowVars

StoreWithdrawn(c) ==
  /\ WorkerStep(c, "withdrawing", "withdrawn")
  /\ status' = [status EXCEPT ![taskOf[c]] = "cancelled"]
  /\ UNCHANGED <<rowJob, result>>

\* gracefulShutdown: every job is cancelled and the waiting ones are dropped.
\* The chat runs are then given time to finish before the process exits.
StopQueue ==
  /\ "shutdown" \in Faults
  /\ ~closing
  /\ closing' = TRUE
  /\ cancelled' = [c \in Calls |-> jobAt[c] # "none" \/ cancelled[c]]
  /\ jobAt' = [c \in Calls |-> IF jobAt[c] = "waiting" THEN "skipped" ELSE jobAt[c]]
  /\ waiting' = <<>>
  /\ UNCHANGED <<rowVars, callVars, stopVars>>

-----------------------------------------------------------------------------
(* Stopping work *)

\* The parent run is aborted, and with it the signal its tool calls hold: a new
\* message on the thread does that, and so does the Stop button.
AbortRun ==
  /\ InFlight # {}
  /\ aborted' = [c \in Calls |-> c \in InFlight \/ aborted[c]]
  /\ UNCHANGED <<rowVars, callAt, taskOf, answer, answerOf, jobVars, stopVars, closing>>

\* The Stop button: the run is aborted, then the tasks of the thread are listed.
StopThread(s) ==
  /\ stopAt[s] = "idle"
  /\ stopAt' = [stopAt EXCEPT ![s] = "listing"]
  /\ aborted' = [c \in Calls |-> c \in InFlight \/ aborted[c]]
  /\ UNCHANGED <<rowVars, callAt, taskOf, answer, answerOf, jobVars, todo, seenJob,
                 handling, acked, closing>>

\* What a request reads: the unsettled ones among the rows it looks at.
Snapshot(s, rows) ==
  /\ stopAt' = [stopAt EXCEPT ![s] = "stopping"]
  /\ todo' = [todo EXCEPT ![s] = {t \in rows : status[t] \in Unsettled}]
  /\ seenJob' = [seenJob EXCEPT ![s] = rowJob]
  /\ UNCHANGED <<rowVars, callVars, jobVars, handling, acked, closing>>

ListTasks(s) ==
  /\ stopAt[s] = "listing"
  /\ Snapshot(s, Tasks)

\* task_stop and the status bar: one task.
StopTask(s, t) ==
  /\ stopAt[s] = "idle"
  /\ Snapshot(s, {t})

CancelRow(s, t) ==
  /\ t \in todo[s]
  /\ handling[s] = {}
  /\ status' = [status EXCEPT ![t] = "cancelled"]
  /\ todo' = [todo EXCEPT ![s] = @ \ {t}]
  /\ handling' = [handling EXCEPT ![s] = {t}]
  /\ UNCHANGED <<rowJob, result, callVars, jobVars, stopAt, seenJob, acked, closing>>

\* The job that the snapshot named, if any, is cancelled; the request reports
\* the task cancelled.
CancelJob(s, t) ==
  /\ t \in handling[s]
  /\ cancelled' = [c \in Calls |-> c = seenJob[s][t] \/ cancelled[c]]
  /\ handling' = [handling EXCEPT ![s] = {}]
  /\ acked' = [acked EXCEPT ![s] = @ \cup {t}]
  /\ UNCHANGED <<rowVars, callVars, jobAt, waiting, stopAt, todo, seenJob, closing>>

-----------------------------------------------------------------------------
\* Steps the users and the parent's model may take or not.
Requests ==
  \/ \E c \in Calls, t \in Tasks, background \in BOOLEAN :
       InsertTask(c, t, background) \/ ContinueTask(c, t, background)
  \/ \E s \in Stops : StopThread(s) \/ \E t \in Tasks : StopTask(s, t)
  \/ AbortRun
  \/ StopQueue

CallStep(c) ==
  \/ SendJob(c) \/ RecordJobId(c) \/ ReturnSettled(c) \/ GiveUp(c)
  \/ ReturnCancelled(c) \/ InlineGenerated(c) \/ InlineThrew(c)
  \/ ContinuationThrew(c) \/ StoreInlineDone(c) \/ StoreInlineFailed(c)

JobStep(c) ==
  \/ Prepare(c) \/ PrepareFails(c) \/ ReadRow(c) \/ MarkRunning(c)
  \/ Generated(c) \/ GenerateThrew(c) \/ CheckRow(c)
  \/ StoreDone(c) \/ StoreFailed(c) \/ StoreWithdrawn(c)

StopStep(s) ==
  ListTasks(s) \/ \E t \in Tasks : CancelRow(s, t) \/ CancelJob(s, t)

Next ==
  \/ Requests
  \/ StartJob
  \/ \E c \in Calls : CallStep(c) \/ JobStep(c)
  \/ \E s \in Stops : StopStep(s)

Spec == Init /\ [][Next]_vars

\* Node runs every continuation, the database answers, generations end, the
\* poll of awaitTaskCompletion repeats, and the queue starts a job whenever a
\* slot is free.
Fairness ==
  /\ WF_vars(StartJob)
  /\ \A c \in Calls : WF_vars(CallStep(c)) /\ WF_vars(JobStep(c))
  /\ \A s \in Stops : WF_vars(StopStep(s))

FairSpec == Spec /\ Fairness

-----------------------------------------------------------------------------
(* Correctness *)

TypeOK ==
  /\ status \in [Tasks -> Status]
  /\ rowJob \in [Tasks -> Calls \cup {None}]
  /\ result \in [Tasks -> Calls \cup {None}]
  /\ callAt \in [Calls -> CallPlaces]
  /\ taskOf \in [Calls -> Tasks \cup {None}]
  /\ aborted \in [Calls -> BOOLEAN]
  /\ answer \in [Calls -> Answers]
  /\ answerOf \in [Calls -> Calls \cup {None}]
  /\ jobAt \in [Calls -> JobPlaces]
  /\ cancelled \in [Calls -> BOOLEAN]
  /\ waiting \in Seq(Calls)
  /\ stopAt \in [Stops -> {"idle", "listing", "stopping"}]
  /\ todo \in [Stops -> SUBSET Tasks]
  /\ seenJob \in [Stops -> [Tasks -> Calls \cup {None}]]
  /\ handling \in [Stops -> SUBSET Tasks]
  /\ acked \in [Stops -> SUBSET Tasks]
  /\ closing \in BOOLEAN

\* The run of call d produced a text that reached the task row, or did not.
Produced(d) == \/ jobAt[d] = "stored"
               \/ jobAt[d] = "none" /\ answer[d] = "result" /\ answerOf[d] = d
Broke(d) == \/ jobAt[d] = "failed"
            \/ jobAt[d] = "none" /\ answer[d] = "threw"

\* A tool call never returns a text no worker wrote: what it returns as a result
\* or as a failure was stored by a run of the same task that ended that way
\* (awaitDispatchedTaskResult returns whatever the row holds when it looks).
AnswerProvenance ==
  \A c \in Calls :
    /\ answer[c] = "result" =>
         answerOf[c] \in Calls /\ taskOf[answerOf[c]] = taskOf[c] /\ Produced(answerOf[c])
    /\ answer[c] = "failed" =>
         answerOf[c] \in Calls /\ taskOf[answerOf[c]] = taskOf[c] /\ Broke(answerOf[c])

\* Somebody will still write the status of task t.
Owned(t) ==
  \E c \in Calls :
    /\ taskOf[c] = t
    /\ \/ callAt[c] \in {"inserted", "cancelling", "inline", "inlineDone",
                         "inlineFailed", "continuing"}
       \/ jobAt[c] \in Working
       \/ jobAt[c] = "waiting" /\ ~cancelled[c]

\* The failures after which nobody will: the worker died before
\* executeSubagentJob, an inline continuation threw, or the queue was stopped.
Stranded(t) ==
  \/ closing
  \/ \E c \in Calls : taskOf[c] = t /\ (jobAt[c] = "crashed" \/ answer[c] = "escaped")

\* No row is left queued or running with nobody to finish it, however stop
\* requests, continuations and late workers interleave; a job that was cancelled
\* before it started leaves its row settled (queue.ts drops it without a word).
NoOrphanRow ==
  \A t \in Tasks : status[t] \in Unsettled => Owned(t) \/ Stranded(t)

\* A worker goes on after its tool call has returned only if it was told to stop,
\* or if the call was answered with the text of another run of the task.
NoUnsupervisedWorker ==
  \A c \in Calls :
    (jobAt[c] \in Working \cup {"waiting"} /\ callAt[c] = "closed")
      => cancelled[c] \/ answerOf[c] \notin {c, None}

\* Every tool call returns to the parent ("The call still waits for the result
\* inline", agent-task-tool.ts).
AnswersArrive == \A c \in Calls : callAt[c] # "idle" ~> callAt[c] = "closed"

\* Every task row reaches a terminal status.
RowsSettle == \A t \in Tasks : status[t] \in Unsettled ~> status[t] \in Terminal

\* What task_stop and the Stop button announce: a task reported cancelled is
\* cancelled once nobody works on it any more.
StoppedTaskEndsCancelled ==
  \A s \in Stops : \A t \in acked[s] : ~Owned(t) => status[t] = "cancelled"

-----------------------------------------------------------------------------
(* SubagentTasks implements Delegation. *)

phaseBar == [c \in Calls |-> CASE callAt[c] = "idle" -> "idle"
                               [] callAt[c] = "closed" -> "closed"
                               [] OTHER -> "open"]
workBar == [c \in Calls |-> CASE Produced(c) \/ callAt[c] = "inlineDone" -> "ok"
                              [] Broke(c) \/ callAt[c] = "inlineFailed" -> "broke"
                              [] OTHER -> "none"]
replyBar == [c \in Calls |->
              [kind |-> IF answer[c] \in {"cancelled", "threw", "escaped"}
                        THEN "nothing" ELSE answer[c],
               of |-> answerOf[c]]]

D == INSTANCE Delegation WITH phase <- phaseBar, about <- taskOf,
                              work <- workBar, reply <- replyBar

\* A call is closed once and never answered with a text that no run of its task
\* produced, whatever the rows go through in between.
ImplementsDelegation == D!Spec

=============================================================================
