---- MODULE TaskPanel ----
(***************************************************************************)
(* The subagents the status bar shows above the composer                   *)
(* (web/src/lib/background-task-continuation.ts, background-tasks-store.ts,*)
(* the task subscription of use-aisdk-runtime-with-queue.ts,               *)
(* composer-status-bar.tsx).  Three sources are merged: the task calls in  *)
(* the transcript of the current turn, a store filled by fetches that the  *)
(* server's events start, and a poll that runs while a task looks busy.    *)
(* Fetches overlap, their answers overtake each other and may be lost; Stop*)
(* shows its tasks as cancelled before the server was asked.               *)
(*                                                                         *)
(* A row is an id and a status; the id is the task's, or, while the tool   *)
(* call has no result yet, the tool call's.                                *)
(***************************************************************************)
EXTENDS Integers, Sequences

CONSTANTS Tasks,
          FetchesAtOnce,  \* bound: fetches in flight
          Steps    \* bound: changes of the tasks and acts of the user

ASSUME PanelAssumption == FetchesAtOnce \in Nat /\ Steps \in Nat

VARIABLES
  status,   \* server: the task's row, "none" before it is written
  steps,
  part,     \* the task's tool call in the current turn of the transcript
  tasks,    \* the store: the rows shown
  batchTasks, dispatchTaskIds, interruptedTaskIds,
  interruptedRef,
  news, connected, \* an event is on its way; the event stream is open
  fetches,  \* the answers awaited, those given already last and in order
  polled,   \* the rows last polled
  odd       \* names of the known ways the panel went wrong

panelVars == <<status, steps, part, tasks, batchTasks, dispatchTaskIds, interruptedTaskIds,
               interruptedRef, news, connected, fetches, polled, odd>>
panelStore == <<tasks, batchTasks, dispatchTaskIds, interruptedTaskIds>>

Parts == {"none", "call", "dispatched", "summary", "refused"}
Active == {"queued", "running"}
Terminal == {"done", "failed", "cancelled"}

TaskId(t) == <<"task", t>>
CallId(t) == <<"call", t>>
IdsOf(rows) == {r.id : r \in rows}
Row(id, s) == [id |-> id, status |-> s]

hasActiveBackgroundTasks(rows) == \E r \in rows : r.status \in Active

(* What the server answers: every task of the thread.                      *)
Snapshot == {Row(TaskId(t), status[t]) : t \in {u \in Tasks : status[u] # "none"}}

-----------------------------------------------------------------------------
(* The merges.                                                             *)
taskDispatchRow(p, t) ==
  CASE p[t] = "dispatched" -> {Row(TaskId(t), "queued")}
    [] p[t] = "summary" -> {Row(TaskId(t), "done")}
    [] p[t] = "call" -> {Row(CallId(t), "running")}
    [] OTHER -> {}

collectRows(p) == UNION {taskDispatchRow(p, t) : t \in Tasks}
collectDispatchIds(p) == {TaskId(t) : t \in {u \in Tasks : p[u] = "dispatched"}}

(* Rows of over win over rows of under with the same id.                   *)
overlay(under, over) == {r \in under : r.id \notin IdsOf(over)} \cup over

applyInterruptedTaskIds(rows, ids) ==
  {IF r.id \in ids /\ r.status \notin {"done", "failed"} THEN [r EXCEPT !.status = "cancelled"] ELSE r
     : r \in rows}

buildInterruptedRows(rows, shown, ids) ==
  LET all == overlay(shown, rows)
      extra == {Row(id, "running") : id \in ids \ IdsOf(all)}
  IN {IF r.status \in Active THEN [r EXCEPT !.status = "cancelled"] ELSE r : r \in all \cup extra}

resolvePanelTasks(p, rows, pinned) ==
  LET ids == IF collectDispatchIds(p) # {} THEN collectDispatchIds(p) ELSE pinned
      matched == {r \in rows : r.id \in ids}
  IN IF matched # {} THEN matched ELSE {r \in rows : r.status \in Active}

mergePanelTasks(p, rows, pinned) ==
  LET fromApi == resolvePanelTasks(p, rows, pinned)
      ids == IF collectDispatchIds(p) # {} THEN collectDispatchIds(p)
             ELSE IF pinned # {} THEN pinned ELSE IdsOf(collectRows(p))
  IN IF ids = {} THEN fromApi
     ELSE {r \in overlay(collectRows(p), fromApi) : r.id \in ids}

mergeFromThread(rows, pinned, interrupted) ==
  LET kept == {r \in rows : r.status \in Terminal /\ r.id \in pinned \cup interrupted}
      seen == collectRows(part)
      ids == (IF seen # {} THEN IdsOf(seen) ELSE pinned) \cup IdsOf(kept)
      ended == {r \in rows : r.status = "cancelled"} \cup kept
  IN applyInterruptedTaskIds(
       IF ids # {} THEN {r \in overlay(seen, {r \in rows : r.id \in ids}) : r.id \in ids}
       ELSE IF ended # {} THEN ended
       ELSE {r \in rows : r.status \in Active},
       interrupted)

-----------------------------------------------------------------------------
(* The status bar.                                                         *)
barTasks ==
  LET fromStore == mergeFromThread(batchTasks,
                     IF dispatchTaskIds # {} THEN dispatchTaskIds ELSE IdsOf(batchTasks),
                     interruptedTaskIds)
      merged == mergeFromThread(tasks, dispatchTaskIds, interruptedTaskIds)
  IN IF batchTasks # {} /\ fromStore # {} THEN fromStore
     ELSE IF merged # {} THEN merged
     ELSE applyInterruptedTaskIds(collectRows(part), interruptedTaskIds)

pinnedTaskIds == IF dispatchTaskIds # {} THEN dispatchTaskIds ELSE IdsOf(collectRows(part))

(* The poll only looks at tasks while none is shown.                       *)
needsPollWhenEmpty == pinnedTaskIds # {} /\ barTasks = {}

needsTaskFallbackPoll ==
  /\ pinnedTaskIds # {}
  /\ barTasks = {} \/ hasActiveBackgroundTasks(barTasks)

displayTasks ==
  IF needsTaskFallbackPoll /\ polled # {}
    THEN mergeFromThread(polled, pinnedTaskIds, interruptedTaskIds)
  ELSE IF barTasks # {} THEN applyInterruptedTaskIds(barTasks, interruptedTaskIds)
  ELSE mergeFromThread(tasks, pinnedTaskIds, interruptedTaskIds)

(* The polling effect is torn down, and its rows forgotten, when no longer needed. *)
PollFollows ==
  IF needsTaskFallbackPoll /\ needsTaskFallbackPoll' THEN UNCHANGED polled
  ELSE polled' = {}

-----------------------------------------------------------------------------
(* The server and the transcript.                                          *)
TaskHappens == steps < Steps /\ steps' = steps + 1
publishTaskEvent == news' = connected

TaskCalled(t) ==
  /\ part[t] = "none" /\ status[t] = "none" /\ TaskHappens
  /\ part' = [part EXCEPT ![t] = "call"]
  /\ UNCHANGED <<status, panelStore, interruptedRef, news, connected, fetches, odd>>

(* The row is written; a background call is answered with its id at once.  *)
TaskCreated(t) ==
  /\ part[t] = "call" /\ status[t] = "none"
  /\ status' = [status EXCEPT ![t] = "queued"]
  /\ publishTaskEvent
  /\ UNCHANGED <<steps, part, panelStore, interruptedRef, connected, fetches, odd>>

CallAnswered(t) ==
  /\ part[t] = "call"
  /\ \/ status[t] # "none" /\ part' = [part EXCEPT ![t] = "dispatched"]
     \/ status[t] = "done" /\ part' = [part EXCEPT ![t] = "summary"]
     \/ part' = [part EXCEPT ![t] = "refused"]
  /\ UNCHANGED <<status, steps, panelStore, interruptedRef, news, connected, fetches, odd>>

(* A worker starts and ends.                                               *)
TaskMoves(t) ==
  /\ TaskHappens
  /\ \E s \in {"running", "done", "failed"} :
       /\ <<status[t], s>> \in {<<"queued", "running">>, <<"running", "done">>, <<"running", "failed">>}
       /\ status' = [status EXCEPT ![t] = s]
  /\ publishTaskEvent
  /\ odd' = odd \ {"untold"}
  /\ UNCHANGED <<part, panelStore, interruptedRef, connected, fetches>>

(* task_continue, by a coordinator that Stop has not ended: in the         *)
(* background the task is queued again; in the foreground it runs at once  *)
(* and nobody is told.                                                     *)
TaskContinued(t) ==
  /\ status[t] \in Terminal /\ interruptedRef = {} /\ TaskHappens
  /\ \/ status' = [status EXCEPT ![t] = "queued"] /\ publishTaskEvent /\ UNCHANGED odd
     \/ status' = [status EXCEPT ![t] = "running"] /\ odd' = odd \cup {"untold"} /\ UNCHANGED news
  /\ UNCHANGED <<part, panelStore, interruptedRef, connected, fetches>>

-----------------------------------------------------------------------------
(* The subscription.                                                       *)
refreshBackgroundTasks ==
  /\ Len(fetches) < FetchesAtOnce
  /\ fetches' = Append(fetches, [served |-> FALSE, old |-> FALSE, rows |-> {}, part |-> part])

HearTask ==
  /\ news /\ news' = FALSE /\ refreshBackgroundTasks
  /\ UNCHANGED <<status, steps, part, panelStore, interruptedRef, connected, odd>>

Disconnect ==
  /\ connected /\ TaskHappens
  /\ connected' = FALSE /\ news' = FALSE
  /\ UNCHANGED <<status, part, panelStore, interruptedRef, fetches, odd>>

(* The server greets a new subscriber with a snapshot event.               *)
Reconnect ==
  /\ ~connected /\ connected' = TRUE /\ news' = TRUE
  /\ UNCHANGED <<status, steps, part, panelStore, interruptedRef, fetches, odd>>

FetchesWithout(i) == SubSeq(fetches, 1, i - 1) \o SubSeq(fetches, i + 1, Len(fetches))

FetchServed ==
  /\ \E i \in DOMAIN fetches :
       /\ ~fetches[i].served
       /\ fetches' = Append(FetchesWithout(i), [fetches[i] EXCEPT !.served = TRUE, !.rows = Snapshot])
  /\ UNCHANGED <<status, steps, part, panelStore, interruptedRef, news, connected, odd>>

(* applyBackgroundTaskSnapshot: the answer is applied whatever was applied *)
(* since it was asked for, with the messages of the time it was asked for. *)
(* A lost answer is made up for by the last one given, if it is true.      *)
Apply(f, last) ==
  LET ended == {r.id : r \in {x \in f.rows : x.status \in Terminal}}
      told == {IF r.id \in interruptedRef /\ r.status \in Active
               THEN [r EXCEPT !.status = "cancelled"] ELSE r : r \in f.rows}
      pinned == dispatchTaskIds \cup collectDispatchIds(f.part)
                  \cup IdsOf({r \in told : r.status \in Active})
  IN /\ interruptedRef' = interruptedRef \ ended
     /\ tasks' = told
     /\ dispatchTaskIds' = pinned
     /\ batchTasks' = mergePanelTasks(f.part, told, pinned)
     /\ interruptedTaskIds' = interruptedRef'
     /\ odd' = {o \in odd \cup {"overtaken"} :
                  \/ o = "notStopped" /\ interruptedRef' # {}
                  \/ o = "lost" /\ ~(last /\ f.rows = Snapshot)
                  \/ o = "untold"
                  \/ o = "overtaken" /\ f.rows # Snapshot /\ (f.old \/ o \in odd)}

FetchArrives ==
  /\ \E i \in DOMAIN fetches :
       /\ fetches[i].served /\ Apply(fetches[i], i = Len(fetches))
       /\ fetches' = [j \in DOMAIN FetchesWithout(i) |->
                        [FetchesWithout(i)[j] EXCEPT !.old = @ \/ (FetchesWithout(i)[j].served /\ j < i)]]
  /\ UNCHANGED <<status, steps, part, news, connected>>

FetchLost ==
  /\ TaskHappens
  /\ \E i \in DOMAIN fetches : fetches' = FetchesWithout(i)
  /\ odd' = odd \cup {"lost"}
  /\ UNCHANGED <<status, part, panelStore, interruptedRef, news, connected>>

-----------------------------------------------------------------------------
(* The user.                                                               *)

cancelThreadTasks ==
  /\ status' = [t \in Tasks |-> IF status[t] \in Active THEN "cancelled" ELSE status[t]]
  /\ news' = (connected /\ (news \/ status' # status))

(* interruptChatRun: the rows are shown cancelled, the server is asked to  *)
(* stop the thread's tasks, and whatever it says the store is refreshed.   *)
InterruptTasks ==
  /\ TaskHappens
  /\ LET rows == buildInterruptedRows(overlay(tasks, batchTasks), collectRows(part),
                                      dispatchTaskIds \cup collectDispatchIds(part))
     IN /\ tasks' = rows /\ batchTasks' = rows
        /\ dispatchTaskIds' = dispatchTaskIds \cup collectDispatchIds(part)
                                \cup IdsOf(collectRows(part)) \cup IdsOf(rows)
        /\ interruptedTaskIds' = interruptedTaskIds \cup IdsOf(rows)
        /\ interruptedRef' = interruptedRef \cup interruptedTaskIds'
  /\ \/ cancelThreadTasks /\ UNCHANGED odd
     \/ odd' = odd \cup {"notStopped"} /\ UNCHANGED <<status, news>>
  /\ part' = [t \in Tasks |-> IF part[t] = "call" THEN "refused" ELSE part[t]]
  /\ refreshBackgroundTasks
  /\ UNCHANGED <<connected>>

(* A new user message: a new turn, and the store starts again.             *)
NewTurn ==
  /\ TaskHappens
  /\ part' = [t \in Tasks |-> "none"]
  /\ tasks' = {} /\ batchTasks' = {} /\ dispatchTaskIds' = {} /\ interruptedTaskIds' = {}
  /\ interruptedRef' = {}
  /\ odd' = odd \ {"notStopped"}
  /\ UNCHANGED <<status, news, connected, fetches>>

-----------------------------------------------------------------------------
Poll ==
  /\ needsTaskFallbackPoll /\ polled' = Snapshot
  /\ UNCHANGED <<status, steps, part, panelStore, interruptedRef, news, connected, fetches, odd>>

PanelInit ==
  /\ status = [t \in Tasks |-> "none"] /\ part = [t \in Tasks |-> "none"] /\ steps = 0
  /\ tasks = {} /\ batchTasks = {} /\ dispatchTaskIds = {} /\ interruptedTaskIds = {}
  /\ interruptedRef = {} /\ news = TRUE /\ connected = TRUE /\ fetches = <<>>
  /\ polled = {} /\ odd = {}

PanelStep ==
  \/ \E t \in Tasks : TaskCalled(t) \/ TaskCreated(t) \/ CallAnswered(t) \/ TaskMoves(t) \/ TaskContinued(t)
  \/ HearTask \/ Disconnect \/ Reconnect \/ FetchServed \/ FetchArrives \/ FetchLost
  \/ InterruptTasks \/ NewTurn

PanelNext == (PanelStep /\ PollFollows) \/ Poll

PanelSpec == PanelInit /\ [][PanelNext]_panelVars

(* A foreground task's summary is all the bar shows of it while the store's*)
(* batch holds other tasks: one continued in the background stays "done".  *)
SummaryStands(t) == part[t] = "summary" /\ TaskId(t) \notin IdsOf(batchTasks)

(* When nothing is on its way, a task shown at work is at work or is being *)
(* polled, and a task shown ended has ended, unless Stop did not reach the *)
(* server, the answer applied last was an old one, one was lost, or the    *)
(* task went on without an event (applyBackgroundTaskSnapshot,             *)
(* needsTaskFallbackPoll, interruptChatRun, task_continue).                *)
PanelSettles ==
  (connected /\ ~news /\ fetches = <<>>) =>
    \A t \in Tasks, r \in displayTasks :
      r.id = TaskId(t) =>
        /\ r.status \in Active /\ status[t] \in Terminal => needsTaskFallbackPoll
        /\ r.status \in Terminal /\ status[t] \in Active => needsTaskFallbackPoll \/ odd # {} \/ SummaryStands(t)
====
