------------------------------ MODULE ThreadRow ------------------------------
(***************************************************************************)
(* The state row of one thread (apps/server/src/thread-state.ts): its goal,  *)
(* its loop, its title, its activated skills and its checklist, the handlers *)
(* that read the row, await, and write part of it back (routes/goal-loop.ts,  *)
(* routes/threads.ts, the tools and the end of a run in routes/chat.ts), the   *)
(* timer of the loop (loop-scheduler.ts) and the browser that continues a goal  *)
(* and wakes a loop (web/lib/use-composer-settings.ts, goal-loop-sync.ts).      *)
(*                                                                         *)
(* A handler slot is reused when its handler has answered.  A read and what   *)
(* ensures the row before it are one step, a write of the row is one step with *)
(* the synchronous code before it.  A goal and a loop are named by the call     *)
(* that created them.  A wake time is none, later or due: time passes for      *)
(* each time on its own.                                                     *)
(*                                                                         *)
(* Left out: plan mode and pinned skills (a blind write, and a list that      *)
(* behaves as the activated skills), working memory, tenants, the texts.      *)
(***************************************************************************)
EXTENDS Naturals, FiniteSets

CONSTANTS
  Handlers, \* slots for requests, tool calls, ends of runs and timer callbacks
  Goals,    \* goals that may be set, once each
  Loops,    \* loops that may be set, once each
  Skills,
  MaxTurns, \* maxTurns of a goal
  Topics,   \* the operations and faults that go together, a set of sets of them
  Nothing

\* "late ack": the browser acknowledges a continuation after the run it started
\* was evaluated; "crash": the server restarts; "close": the browser is closed.
RowFaults == {"late ack", "crash", "close"}
GoalOps == {"set goal", "clear goal", "ack goal"}
LoopOps == {"set loop", "stop loop", "ack wake", "start loop", "schedule", "quit"}
OtherOps == {"activate", "refresh", "entitle", "rename", "todos", "delete"}
\* What a call of the agent may do while its run goes on.
ToolOps == {"start loop", "schedule", "quit", "activate", "todos"}
OwnOps == {"finish", "wake"}
Ops == GoalOps \cup LoopOps \cup OtherOps \cup OwnOps

\* A row, its goal and its loop.
StoredGoals == [id : Goals, status : {"active", "cleared", "achieved", "max_turns"},
                turns : Nat, flagged : BOOLEAN]
StoredLoops == [job : Loops, mode : {"fixed", "dynamic"}, wake : {"none", "later", "due"},
                status : {"active", "stopped"}]
ThreadRows == [goal : StoredGoals \cup {Nothing}, loop : StoredLoops \cup {Nothing},
               title : {"none", "generated", "given"}, skills : SUBSET Skills,
               todos : {"none", "list"}]

ASSUME NothingAssumption == Nothing \notin ThreadRows \cup StoredGoals \cup StoredLoops
ASSUME NamesAssumption == Nothing \notin Handlers \cup Goals \cup Loops \cup Skills
ASSUME TurnsAssumption == MaxTurns \in Nat \ {0}
ASSUME TopicsAssumption == \A t \in Topics : t \subseteq Ops \cup RowFaults

VARIABLES
  topic,   \* the operations and faults that occur
  threadRow,     \* the row of thread_state, None when there is none
  used,    \* the goals and loops set so far
  timer,   \* timers: the loop the pending timer was set for
  whereAt,      \* where each handler is
  op,      \* what it does
  arg,     \* the goal, loop or skill it is about
  held,    \* the row it read
  stale,   \* has another handler written the row since?
  agentRun,     \* is a run of the agent going on?
  owed,    \* was the client told to start the first turn?
  browser  \* what the browser's tick is doing

slots == <<whereAt, op, arg, held, stale>>
client == <<agentRun, owed, browser>>
rowVars == <<topic, threadRow, used, timer, slots, client>>

Fresh == [goal |-> Nothing, loop |-> Nothing, title |-> "none", skills |-> {}, todos |-> "none"]
Active(x) == x # Nothing /\ x.status = "active"
GoalOn(r) == r # Nothing /\ Active(r.goal)
LoopOn(r) == r # Nothing /\ Active(r.loop)

NewGoal(g) == [id |-> g, status |-> "active", turns |-> 0, flagged |-> FALSE]
NewLoop(l, mode, wake) == [job |-> l, mode |-> mode, wake |-> wake, status |-> "active"]
StoppedLoop(l) == [l EXCEPT !.status = "stopped", !.wake = "none"]

RowInit ==
  /\ topic \in Topics
  /\ threadRow = Nothing
  /\ used = {}
  /\ timer = Nothing
  /\ whereAt = [h \in Handlers |-> "free"]
  /\ op = [h \in Handlers |-> "none"]
  /\ arg = [h \in Handlers |-> Nothing]
  /\ held = [h \in Handlers |-> Nothing]
  /\ stale = [h \in Handlers |-> FALSE]
  /\ agentRun = FALSE
  /\ owed = FALSE
  /\ browser = "idle"

-----------------------------------------------------------------------------
(* A handler begins, reads the row, writes it back. *)

Enter(h, o, x) ==
  /\ whereAt' = [whereAt EXCEPT ![h] = "arrived"]
  /\ op' = [op EXCEPT ![h] = o]
  /\ arg' = [arg EXCEPT ![h] = x]
  /\ held' = [held EXCEPT ![h] = Nothing]
  /\ stale' = [stale EXCEPT ![h] = FALSE]

Leave(h) ==
  /\ whereAt' = [whereAt EXCEPT ![h] = "free"]
  /\ op' = [op EXCEPT ![h] = "none"]
  /\ arg' = [arg EXCEPT ![h] = Nothing]
  /\ held' = [held EXCEPT ![h] = Nothing]

Subject(o) ==
  CASE o = "set goal" -> Goals \ used
    [] o \in {"set loop", "start loop"} -> Loops \ used
    [] o = "activate" -> Skills
    [] OTHER -> {Nothing}

\* A request, or a tool call of the run.  The browser's acknowledgements and the
\* server's own handlers are begun elsewhere.
Call(h, o) ==
  /\ o \in topic \ (OwnOps \cup {"ack goal", "ack wake"})
  /\ whereAt[h] = "free"
  /\ o \in ToolOps => agentRun
  /\ \E x \in Subject(o) :
       /\ Enter(h, o, x)
       /\ used' = IF x = Nothing THEN used ELSE used \cup ({x} \cap (Goals \cup Loops))
  /\ UNCHANGED <<topic, threadRow, timer, client>>

\* ensureThreadState makes the row; getThreadState does not.
Ensures == {"set goal", "clear goal", "ack goal", "set loop", "stop loop", "ack wake",
            "entitle", "rename", "todos"}
Read(h) ==
  /\ whereAt[h] = "arrived"
  /\ threadRow' = IF threadRow = Nothing /\ op[h] \in Ensures THEN Fresh ELSE threadRow
  /\ held' = [held EXCEPT ![h] = threadRow']
  /\ whereAt' = [whereAt EXCEPT ![h] = IF op[h] = "finish" /\ GoalOn(threadRow') THEN "judging" ELSE "read"]
  /\ stale' = [stale EXCEPT ![h] = FALSE]
  /\ UNCHANGED <<topic, used, timer, op, arg, client>>

\* Mutants of Willing: what was read is ignored; the end of a run leaves a loop
\* without a wake time.
WillingUnchecked(h) ==
  CASE op[h] \in {"entitle", "set goal", "set loop", "start loop"} -> TRUE
    [] op[h] \in {"activate", "refresh", "todos", "delete"} -> held[h] # Nothing
    [] OTHER -> LoopOn(held[h]) \/ GoalOn(held[h])
WillingForgetful(h) ==
  CASE op[h] \in {"ack wake", "schedule", "quit", "wake"} -> LoopOn(held[h])
    [] op[h] = "finish" -> LoopOn(held[h]) /\ held[h].loop.mode = "fixed"
    [] op[h] = "ack goal" -> GoalOn(held[h])
    [] op[h] \in OtherOps -> FALSE
    [] OTHER -> TRUE

\* Is there anything to do for what was read?  Otherwise the handler answers,
\* sometimes with an error.
Willing(h) ==
  LET r == held[h] IN
  CASE op[h] = "ack goal" -> GoalOn(r)
    [] op[h] = "set goal" -> ~LoopOn(r)
    [] op[h] \in {"ack wake", "schedule", "quit"} -> LoopOn(r)
    [] op[h] \in {"set loop", "start loop"} -> ~GoalOn(r)
    [] op[h] = "finish" -> /\ LoopOn(r)
                           /\ r.loop.mode = "dynamic" => r.loop.wake = "none"
    [] op[h] = "wake" -> LoopOn(r) /\ r.loop.job = arg[h]
    [] op[h] = "activate" -> r # Nothing /\ arg[h] \notin r.skills
    [] op[h] = "refresh" -> r # Nothing /\ r.skills # {}
    [] op[h] = "entitle" -> r.title = "none"
    [] op[h] \in {"todos", "delete"} -> r # Nothing
    [] OTHER -> TRUE
Refuse(h) ==
  /\ \/ whereAt[h] = "read" /\ ~Willing(h)
     \/ whereAt[h] = "judged" /\ ~GoalOn(held[h])
  /\ Leave(h)
  /\ stale' = [stale EXCEPT ![h] = FALSE]
  /\ UNCHANGED <<topic, threadRow, used, timer, client>>

\* updateThreadState changes the fields it is given, of a row that is there.
PutRow(h, r) ==
  /\ threadRow' = IF threadRow = Nothing THEN Nothing ELSE r
  /\ stale' = [x \in Handlers |-> IF x = h THEN FALSE ELSE stale[x] \/ whereAt[x] # "free"]

SetField(h, f, v) == PutRow(h, [threadRow EXCEPT ![f] = v])

\* The write of a handler that ends with it.
Store(h, o, f, v) ==
  /\ whereAt[h] = "read" /\ op[h] = o /\ Willing(h)
  /\ SetField(h, f, v)
  /\ Leave(h)
  /\ UNCHANGED <<topic, used, client>>

\* A handler stores a loop and has rescheduleLoopFromState yet to call.
Resettle(h, o, l) ==
  /\ whereAt[h] = "read" /\ op[h] = o /\ Willing(h)
  /\ SetField(h, "loop", l)
  /\ whereAt' = [whereAt EXCEPT ![h] = "rescheduling"]
  /\ held' = [held EXCEPT ![h] = [Fresh EXCEPT !.loop = l]]
  /\ UNCHANGED <<topic, used, timer, op, arg, client>>

\* POST /api/goal; the browser sends the first turn of a goal it has set.
SetGoal(h) ==
  /\ whereAt[h] = "read" /\ op[h] = "set goal" /\ Willing(h)
  /\ SetField(h, "goal", NewGoal(arg[h]))
  /\ owed' = TRUE
  /\ Leave(h)
  /\ UNCHANGED <<topic, used, timer, agentRun, browser>>
ClearGoal(h) ==
  LET g == held[h].goal IN
  /\ Store(h, "clear goal", "goal",
           IF Active(g) THEN [g EXCEPT !.status = "cleared", !.flagged = FALSE] ELSE Nothing)
  /\ UNCHANGED timer
AckContinue(h) ==
  /\ Store(h, "ack goal", "goal", [held[h].goal EXCEPT !.flagged = FALSE])
  /\ UNCHANGED timer

\* POST /api/loop.  No wake time is set for a new loop: the first turn is the client's.
SetLoop(h, mode) ==
  /\ whereAt[h] = "read" /\ op[h] = "set loop" /\ Willing(h)
  /\ SetField(h, "loop", NewLoop(arg[h], mode, "none"))
  /\ timer' = Nothing
  /\ owed' = TRUE
  /\ Leave(h)
  /\ UNCHANGED <<topic, used, agentRun, browser>>
StopLoop(h) ==
  LET l == held[h].loop IN
  /\ Store(h, "stop loop", "loop", IF l = Nothing THEN Nothing ELSE StoppedLoop(l))
  /\ timer' = Nothing
AckLoopWake(h) ==
  LET l == held[h].loop IN
  Resettle(h, "ack wake", [l EXCEPT !.wake = IF l.mode = "fixed" THEN "later" ELSE "none"])

\* The loop tools of a run.  stopRequested is only ever stored with "stopped": an
\* active loop never has it.
StartThreadLoop(h) == Resettle(h, "start loop", NewLoop(arg[h], "fixed", "later"))
ScheduleLoopWakeup(h) ==
  \/ Resettle(h, "schedule", [held[h].loop EXCEPT !.wake = "later"])
  \/ Resettle(h, "quit", StoppedLoop(held[h].loop))

\* The end of a run, the goal not active and the loop active.
RestLoop(h) == Resettle(h, "finish", [held[h].loop EXCEPT !.wake = "later"])

\* The timer's callback has read the loop; no wake handler is registered.
MarkDue(h) ==
  /\ Store(h, "wake", "loop", [held[h].loop EXCEPT !.wake = "due"])
  /\ UNCHANGED timer

\* rescheduleLoopFromState and scheduleLoopWake: a loop that is too old (old) is
\* stopped instead.
Reschedule(h, old) ==
  /\ whereAt[h] = "rescheduling"
  /\ LET l == held[h].loop IN
     IF l.status = "active" /\ l.wake # "none" /\ old
     THEN /\ timer' = Nothing
          /\ SetField(h, "loop", StoppedLoop(l))
     ELSE /\ timer' = IF l.status = "active" /\ l.wake # "none" THEN l.job ELSE Nothing
          /\ stale' = [stale EXCEPT ![h] = FALSE]
          /\ UNCHANGED threadRow
  /\ Leave(h)
  /\ UNCHANGED <<topic, used, client>>

\* The end of a run, the goal active: the model is asked, then the row is read again.
Judged(h) ==
  /\ whereAt[h] = "judging"
  /\ browser \in {"continuing", "acking"} => "late ack" \in topic
  /\ held' = [held EXCEPT ![h] = threadRow]
  /\ stale' = [stale EXCEPT ![h] = FALSE]
  /\ whereAt' = [whereAt EXCEPT ![h] = "judged"]
  /\ UNCHANGED <<topic, threadRow, used, timer, op, arg, client>>

WriteVerdict(h, done) ==
  /\ whereAt[h] = "judged" /\ GoalOn(held[h])
  /\ LET g == held[h].goal IN
     SetField(h, "goal",
       [g EXCEPT !.turns = @ + 1,
                 !.status = IF done THEN "achieved" ELSE IF g.turns + 1 >= MaxTurns THEN "max_turns" ELSE @,
                 !.flagged = ~done /\ g.turns + 1 < MaxTurns])
  /\ Leave(h)
  /\ UNCHANGED <<topic, used, timer, client>>

\* Skills are merged into the map that was read.
ActivateSkill(h) ==
  /\ Store(h, "activate", "skills", held[h].skills \cup {arg[h]})
  /\ UNCHANGED timer
RefreshActivatedSkills(h) ==
  /\ Store(h, "refresh", "skills", held[h].skills)
  /\ UNCHANGED timer

\* A title is written blindly: the generated one, the model asked in between, and
\* the one the user gives.
EnsureThreadTitle(h) ==
  /\ Store(h, "entitle", "title", "generated")
  /\ UNCHANGED timer
RenameThread(h) ==
  /\ Store(h, "rename", "title", "given")
  /\ UNCHANGED timer
PersistTodos(h) ==
  /\ Store(h, "todos", "todos", "list")
  /\ UNCHANGED timer

\* DELETE /api/threads/:id; the timer and a run go on.
DeleteThread(h) ==
  /\ whereAt[h] = "read" /\ op[h] = "delete" /\ Willing(h)
  /\ PutRow(h, Nothing)
  /\ Leave(h)
  /\ UNCHANGED <<topic, used, timer, client>>

-----------------------------------------------------------------------------
(* The timer, runs, and the browser. *)

Fire(h) ==
  /\ timer # Nothing
  /\ whereAt[h] = "free"
  /\ Enter(h, "wake", timer)
  /\ timer' = Nothing
  /\ UNCHANGED <<topic, threadRow, used, client>>

\* POST /api/chat ensures the row.
StartRun ==
  /\ agentRun' = TRUE
  /\ owed' = FALSE
  /\ threadRow' = IF threadRow = Nothing THEN Fresh ELSE threadRow

\* The user sends a message, or the client sends the first one of a goal or loop.
PromptRun ==
  /\ ~agentRun
  /\ StartRun
  /\ UNCHANGED <<topic, used, timer, slots, browser>>

\* onFinish of the run's stream.
RunEnds(h) ==
  /\ agentRun
  /\ whereAt[h] = "free"
  /\ agentRun' = FALSE
  /\ Enter(h, "finish", Nothing)
  /\ UNCHANGED <<topic, threadRow, used, timer, owed, browser>>

\* The tick of useGoalLoopBridge while no run is shown: first the goal, then the loop.
Look ==
  /\ browser = "idle" /\ ~agentRun
  /\ browser' = IF GoalOn(threadRow) /\ threadRow.goal.flagged THEN "continue" ELSE "no goal"
  /\ UNCHANGED <<topic, threadRow, used, timer, slots, agentRun, owed>>

LookLoop ==
  /\ browser = "no goal"
  /\ browser' = IF LoopOn(threadRow) /\ threadRow.loop.wake = "due" THEN "wake" ELSE "idle"
  /\ UNCHANGED <<topic, threadRow, used, timer, slots, agentRun, owed>>

\* requestSilentChatContinue returns when the turn it started has ended.
Continue ==
  /\ browser = "continue" /\ ~agentRun
  /\ StartRun
  /\ browser' = "continuing"
  /\ UNCHANGED <<topic, used, timer, slots>>

AckGoal(h) ==
  /\ browser = "continuing" /\ ~agentRun
  /\ whereAt[h] = "free"
  /\ Enter(h, "ack goal", Nothing)
  /\ browser' = "acking"
  /\ UNCHANGED <<topic, threadRow, used, timer, agentRun, owed>>

AckWake(h) ==
  /\ browser = "wake"
  /\ whereAt[h] = "free"
  /\ Enter(h, "ack wake", Nothing)
  /\ browser' = "waking"
  /\ UNCHANGED <<topic, threadRow, used, timer, agentRun, owed>>

Waited(o) == ~\E h \in Handlers : op[h] = o
Acked ==
  /\ browser = "acking"
  /\ Waited("ack goal")
  /\ browser' = "idle"
  /\ UNCHANGED <<topic, threadRow, used, timer, slots, agentRun, owed>>

\* The loop's prompt is sent, whatever the acknowledgement answered.
SendPrompt ==
  /\ browser = "waking"
  /\ Waited("ack wake")
  /\ StartRun
  /\ browser' = "idle"
  /\ UNCHANGED <<topic, used, timer, slots>>

Elapse ==
  /\ threadRow # Nothing /\ threadRow.loop # Nothing
  /\ threadRow.loop.wake = "later"
  /\ threadRow' = [threadRow EXCEPT !.loop.wake = "due"]
  /\ UNCHANGED <<topic, used, timer, slots, client>>

ServerRestarts ==
  /\ "crash" \in topic
  /\ timer' = Nothing
  /\ whereAt' = [h \in Handlers |-> "free"]
  /\ op' = [h \in Handlers |-> "none"]
  /\ arg' = [h \in Handlers |-> Nothing]
  /\ held' = [h \in Handlers |-> Nothing]
  /\ stale' = [h \in Handlers |-> FALSE]
  /\ agentRun' = FALSE
  /\ UNCHANGED <<topic, threadRow, used, owed, browser>>

\* The page goes: the run is stopped by its pagehide handler.
Close ==
  /\ "close" \in topic
  /\ browser' = "idle"
  /\ owed' = FALSE
  /\ UNCHANGED <<topic, threadRow, used, timer, slots, agentRun>>

Handle(h) ==
  \/ Read(h) \/ Refuse(h)
  \/ SetGoal(h) \/ ClearGoal(h) \/ AckContinue(h)
  \/ (\E mode \in {"fixed", "dynamic"} : SetLoop(h, mode)) \/ StopLoop(h) \/ AckLoopWake(h)
  \/ StartThreadLoop(h) \/ ScheduleLoopWakeup(h) \/ RestLoop(h) \/ MarkDue(h)
  \/ (\E old \in BOOLEAN : Reschedule(h, old))
  \/ Judged(h) \/ (\E done \in BOOLEAN : WriteVerdict(h, done))
  \/ ActivateSkill(h) \/ RefreshActivatedSkills(h)
  \/ EnsureThreadTitle(h) \/ RenameThread(h) \/ PersistTodos(h) \/ DeleteThread(h)

RowNext ==
  \/ \E h \in Handlers : \/ \E o \in Ops : Call(h, o)
                         \/ Handle(h)
                         \/ Fire(h) \/ RunEnds(h) \/ AckGoal(h) \/ AckWake(h)
  \/ PromptRun \/ Look \/ LookLoop \/ Continue \/ Acked \/ SendPrompt
  \/ Elapse \/ ServerRestarts \/ Close

-----------------------------------------------------------------------------
(* Properties. *)

\* A handler's write that revives a goal or a loop that had ended, replaces a loop
\* by another one, makes both active, loses a skill or a title the user gave.
HarmBy(h) ==
  /\ threadRow # Nothing /\ threadRow' # Nothing
  /\ whereAt'[h] # whereAt[h]
  /\ \/ GoalOn(threadRow') /\ ~GoalOn(threadRow) /\ op[h] # "set goal"
     \/ LoopOn(threadRow') /\ ~LoopOn(threadRow) /\ op[h] \notin {"set loop", "start loop"}
     \/ LoopOn(threadRow) /\ threadRow'.loop # Nothing /\ threadRow'.loop.job # threadRow.loop.job
          /\ op[h] \notin {"set loop", "start loop"}
     \/ GoalOn(threadRow') /\ LoopOn(threadRow') /\ ~(GoalOn(threadRow) /\ LoopOn(threadRow))
     \/ ~(threadRow.skills \subseteq threadRow'.skills)
     \/ threadRow.title = "given" /\ threadRow'.title = "generated"
\* No handler undoes what it could have seen when it read the row: only a handler
\* that another one overtook between its read and its write does.
OnlyStaleWritesHarm == [][\A h \in Handlers : HarmBy(h) => stale[h]]_rowVars

\* An active loop (of a thread that never had a goal) has a time at which it wakes,
\* or somebody is about to give it one: a loop nobody wakes is a loop that hangs.
OnItsWay ==
  \/ agentRun \/ owed
  \/ browser \in {"continue", "continuing", "wake", "waking"}
  \/ \E h \in Handlers : op[h] \in {"finish", "wake"}
LoopKeepsGoing ==
  LoopOn(threadRow) /\ used \cap Goals = {} /\ topic \cap RowFaults = {} =>
     threadRow.loop.wake # "none" \/ OnItsWay

RowSpec == RowInit /\ [][RowNext]_rowVars
=============================================================================
