--------------------------- MODULE ScheduledRuns ---------------------------
(***************************************************************************)
(* Automations and workflows: their rows, the cron tasks the server keeps  *)
(* for them in memory, the runs that schedules, webhooks and users start,  *)
(* and the sweep of interrupted runs at boot (routes/automations.ts,       *)
(* routes/workflows.ts, automation-worker.ts, automation-store.ts,         *)
(* workflow-runner.ts, workflow-store.ts, queue.ts, server.ts).            *)
(*                                                                         *)
(* An automation runs one agent prompt, a workflow a graph of nodes: here  *)
(* both are work that succeeds or fails.  Every database call is a step of *)
(* its own.  A row is its kind ("cron", or "other" for event and manual;     *)
(* "bad cron" is a schedule whose expression node-cron does not accept),   *)
(* whether it is enabled, and its name; all workflows are of one thread.   *)
(***************************************************************************)
EXTENDS Naturals, FiniteSets

CONSTANTS
    Automations, Workflows,
    Names,       \* what a definition may be called
    Changes,    \* HTTP requests that change definitions, each made once
    Runs,        \* runs, each started once
    Absent,
    Deleted,     \* a row that was there
    Answered,    \* a request that was served
    MaxCrashes,
    May          \* what else may happen, see below

\* Changes overlap; one changes the kind of a definition; one brings a cron
\* expression that is none; a database call of a job throws.
Happenings == {"overlap", "change kind", "bad cron", "db fails"}

ASSUME BoundsAssumption ==
    /\ Automations \cap Workflows = {}
    /\ MaxCrashes \in Nat
    /\ May \subseteq Happenings

VARIABLES
    rows,        \* the definitions in the database
    cronTasks,   \* the definitions with a cron task
    calls,       \* the requests being served
    runs,        \* the rows of runs: status, and what they are runs of
    jobs,        \* the job of each run, since the server started
    server,      \* "down", "sweep", "boot" or "up"
    toSweep,     \* the runs the sweep has yet to mark
    crashes,
    contested    \* definitions whose task may be wrong, for all their rows say: see
                 \* Ask, Write and Apply.  A history: the code keeps no such thing

scheduleVars == <<rows, cronTasks, calls, runs, jobs, server, toSweep, crashes, contested>>

Defs == Automations \cup Workflows
Row == [kind : {"cron", "bad cron", "other"}, enabled : BOOLEAN, name : Names]
Fields == {"kind", "enabled", "name"}
Patches == {[f \in S |-> row[f]] : S \in SUBSET Fields, row \in Row}
\* A client switches an automation on or off, or sends the rest of its form;
\* the workflow panel sends everything.
Sent(d) == IF d \in Workflows THEN {Fields} ELSE {{"enabled"}, {"kind", "name"}}
NoPatch == [f \in {} |-> Absent]
Exists(d) == rows[d] \notin {Absent, Deleted}
Scheduled(r) == r.kind = "cron" /\ r.enabled
Rejected(r) == r.kind = "bad cron" /\ r.enabled
Statuses == {"queued", "running", "done", "failed"}
Incomplete(r) == runs[r] # Absent /\ runs[r].status \in {"queued", "running"}

\* The rows of runs, what a job keeps, and what a request keeps while it is served.
RunRow == [of : Defs, status : Statuses]
JobSteps == {"begin", "insert", "mark", "work", "finish", "touch", "catch", "ended", "threw"}
JobState == [of : Defs, at : JobSteps, ok : BOOLEAN]
CallSteps == {"find", "check name", "write", "reread", "apply"}
CallState == [op : {"create", "put", "delete"}, d : Defs, patch : Patches \cup {NoPatch},
              row : Row \cup {Absent}, step : CallSteps,
              alone : BOOLEAN]  \* so far; a history, like contested

\* What is not there is no row, no job and no request.
ASSUME AbsenceAssumption ==
    /\ Absent \notin Row \cup RunRow \cup JobState \cup CallState
    /\ Deleted \notin Row /\ Deleted # Absent
    /\ Answered \notin CallState /\ Answered # Absent

NamesDiffer(table) ==
    \A v, w \in Workflows :
        (v # w /\ {table[v], table[w]} \cap {Absent, Deleted} = {}) =>
            table[v].name # table[w].name

ScheduleInit ==
    /\ rows \in [Defs -> Row \cup {Absent}]
    /\ \A d \in Defs : rows[d] # Absent => rows[d].kind # "bad cron"
    /\ NamesDiffer(rows)
    /\ cronTasks = {}
    /\ calls = [q \in Changes |-> Absent]
    /\ runs = [r \in Runs |-> Absent]
    /\ jobs = [r \in Runs |-> Absent]
    /\ server = "down"
    /\ toSweep = {}
    /\ crashes = 0
    /\ contested = {}

----------------------------------------------------------------------------
(* Boot: the sweep, then the workers and the schedules *)

ConnectRunning ==
    /\ server = "down"
    /\ server' = "sweep"
    /\ toSweep' = {r \in Runs : Incomplete(r) /\ runs[r].status = "running"}
    /\ UNCHANGED <<rows, cronTasks, calls, runs, jobs, crashes, contested>>

ConnectAll ==
    /\ server = "down"
    /\ server' = "sweep"
    /\ toSweep' = {r \in Runs : runs[r] # Absent}
    /\ UNCHANGED <<rows, cronTasks, calls, runs, jobs, crashes, contested>>

Connect ==
    /\ server = "down"
    /\ server' = "sweep"
    /\ toSweep' = {r \in Runs : Incomplete(r)}
    /\ UNCHANGED <<rows, cronTasks, calls, runs, jobs, crashes, contested>>

\* sweepInterruptedWorkflowRuns, sweepInterruptedAutomationRuns
Sweep(r) ==
    /\ server = "sweep" /\ r \in toSweep
    /\ runs' = [runs EXCEPT ![r].status = "failed"]
    /\ toSweep' = toSweep \ {r}
    /\ UNCHANGED <<rows, cronTasks, calls, jobs, server, crashes, contested>>

Swept ==
    /\ server = "sweep" /\ toSweep = {}
    /\ server' = "boot"
    /\ UNCHANGED <<rows, cronTasks, calls, runs, jobs, toSweep, crashes, contested>>

\* The enabled cron rows get their tasks, then the server listens.  node-cron
\* throws for an expression it does not accept, and main ends the process.
RegisterAll ==
    /\ server = "boot"
    /\ \/ /\ ~\E d \in Defs : Exists(d) /\ Rejected(rows[d])
          /\ server' = "up"
          /\ cronTasks' = {d \in Defs : Exists(d) /\ Scheduled(rows[d])}
       \/ /\ \E d \in Defs : Exists(d) /\ Rejected(rows[d])
          /\ server' = "down"
          /\ UNCHANGED cronTasks
    /\ UNCHANGED <<rows, calls, runs, jobs, toSweep, crashes, contested>>

Crash ==
    /\ server # "down" /\ crashes < MaxCrashes
    /\ crashes' = crashes + 1
    /\ server' = "down"
    /\ cronTasks' = {}
    /\ calls' = [q \in Changes |-> IF calls[q] = Absent THEN Absent ELSE Answered]
    /\ jobs' = [r \in Runs |-> Absent]
    /\ toSweep' = {}
    /\ contested' = {}
    /\ UNCHANGED <<rows, runs>>

----------------------------------------------------------------------------
(* Requests that change definitions *)

BeingServed == {q \in Changes : calls[q] \notin {Absent, Answered}}
About(d) == {q \in BeingServed : calls[q].d = d}

\* Two requests about one definition contest it.
Ask(q, op, d, patch, step) ==
    /\ server = "up"
    /\ calls[q] = Absent
    /\ BeingServed = {} \/ "overlap" \in May
    /\ calls' = [p \in Changes |->
                    IF p = q THEN [op |-> op, d |-> d, patch |-> patch, row |-> Absent,
                                   step |-> step, alone |-> About(d) = {}]
                    ELSE IF p \in About(d) THEN [calls[p] EXCEPT !.alone = FALSE]
                    ELSE calls[p]]
    /\ contested' = IF About(d) = {} THEN contested ELSE contested \cup {d}
    /\ UNCHANGED <<rows, cronTasks, runs, jobs, server, toSweep, crashes>>

At(q, step) == q \in BeingServed /\ calls[q].step = step
Goes(q, step) == calls' = [calls EXCEPT ![q].step = step]
GoesWith(q, row, step) == calls' = [calls EXCEPT ![q].row = row, ![q].step = step]
Answer(q) == calls' = [calls EXCEPT ![q] = Answered]
OnlyCalls == UNCHANGED <<rows, cronTasks, runs, jobs, server, toSweep, crashes, contested>>

\* The name of a workflow is looked for first.
FirstLook(d) == IF d \in Workflows THEN "check name" ELSE "write"

Allowed(patch) ==
    "kind" \in DOMAIN patch /\ patch["kind"] = "bad cron" => "bad cron" \in May

Create(q, d, row) ==
    /\ rows[d] = Absent
    /\ Allowed(row)
    /\ \A p \in BeingServed : calls[p].d # d
    /\ Ask(q, "create", d, row, FirstLook(d))

Put(q, d, patch) ==
    /\ rows[d] # Absent
    /\ DOMAIN patch \in Sent(d) /\ Allowed(patch)
    /\ Exists(d) /\ "kind" \in DOMAIN patch /\ patch["kind"] # rows[d].kind =>
           "change kind" \in May
    /\ Ask(q, "put", d, patch, IF d \in Workflows THEN "find" ELSE "write")

Delete(q, d) ==
    /\ rows[d] # Absent
    /\ Ask(q, "delete", d, NoPatch, "find")

Find(q) ==
    /\ At(q, "find")
    /\ LET c == calls[q]
       IN  IF ~Exists(c.d) THEN Answer(q)
           ELSE IF c.op = "delete" THEN GoesWith(q, rows[c.d], "write")
           ELSE Goes(q, FirstLook(c.d))
    /\ OnlyCalls

\* assertUniqueWorkflowName
CheckName(q) ==
    /\ At(q, "check name")
    /\ IF \E w \in Workflows \ {calls[q].d} :
             Exists(w) /\ rows[w].name = calls[q].patch["name"]
       THEN Answer(q) ELSE Goes(q, "write")
    /\ OnlyCalls

Patched(row, patch) ==
    [f \in Fields |-> IF f \in DOMAIN patch THEN patch[f] ELSE row[f]]

\* A schedule that is on becomes something else: the routes look only at rows
\* that are schedules now, so nobody takes its task away.
Unscheduled(d) == Exists(d) /\ Scheduled(rows[d]) /\ rows'[d].kind = "other"

\* Only a new row, and one that is still there, is written.
Write(q) ==
    /\ At(q, "write") /\ calls[q].op # "delete"
    /\ LET d == calls[q].d
       IN  \/ /\ calls[q].op = "create" \/ Exists(d)
              /\ rows' = [rows EXCEPT ![d] = Patched(@, calls[q].patch)]
              /\ contested' = IF Unscheduled(d) THEN contested \cup {d} ELSE contested
              /\ Goes(q, "reread")
           \/ /\ calls[q].op = "put" /\ ~Exists(d)
              /\ Answer(q)
              /\ UNCHANGED <<rows, contested>>
    /\ UNCHANGED <<cronTasks, runs, jobs, server, toSweep, crashes>>

Erase(q) ==
    /\ At(q, "write") /\ calls[q].op = "delete"
    /\ rows' = [rows EXCEPT ![calls[q].d] = Deleted]
    /\ Goes(q, "apply")
    /\ UNCHANGED <<cronTasks, runs, jobs, server, toSweep, crashes, contested>>

\* What was written is answered with the row as it is now.
Reread(q) ==
    /\ At(q, "reread")
    /\ LET d == calls[q].d
       IN  IF Exists(d) THEN GoesWith(q, rows[d], "apply") ELSE Answer(q)
    /\ OnlyCalls

ScheduleAfterLazy(op, d, row) ==
    IF op # "delete" /\ Scheduled(row) THEN cronTasks \cup {d} ELSE cronTasks

\* Only a row that is a cron row now is given a task or loses it.  The task it
\* had is stopped before node-cron looks at the new expression.
ScheduleAfter(op, d, row) ==
    IF row.kind = "other" THEN cronTasks
    ELSE IF op # "delete" /\ Scheduled(row) THEN cronTasks \cup {d}
    ELSE cronTasks \ {d}

\* A request that was alone and ends at a schedule, on or off, settles its definition.
Settles(q) == calls[q].alone /\ calls[q].row.kind # "other"

Apply(q) ==
    /\ At(q, "apply")
    /\ cronTasks' = ScheduleAfter(calls[q].op, calls[q].d, calls[q].row)
    /\ contested' = IF Settles(q) THEN contested \ {calls[q].d} ELSE contested
    /\ Answer(q)
    /\ UNCHANGED <<rows, runs, jobs, server, toSweep, crashes>>

----------------------------------------------------------------------------
(* Jobs *)

Job(d, at) == [of |-> d, at |-> at, ok |-> TRUE]

\* A schedule ticks, a webhook matches or a user presses "run now".
Start(r, d) ==
    /\ server = "up"
    /\ d \in cronTasks \/ Exists(d)
    /\ jobs[r] = Absent /\ runs[r] = Absent
    /\ jobs' = [jobs EXCEPT ![r] = Job(d, "begin")]
    /\ UNCHANGED <<rows, cronTasks, calls, runs, server, toSweep, crashes, contested>>

Over == {"ended", "threw"}
Underway(r, at) == jobs[r] # Absent /\ jobs[r].at = at
JobGoes(r, at) == jobs' = [jobs EXCEPT ![r].at = at]
JobEnds(r) == JobGoes(r, "ended")
SetStatus(r, status) == runs' = [runs EXCEPT ![r].status = status]

Begin(r) ==
    /\ Underway(r, "begin")
    /\ LET d == jobs[r].of
       IN  IF Exists(d) /\ rows[d].enabled THEN JobGoes(r, "insert") ELSE JobEnds(r)
    /\ UNCHANGED <<rows, cronTasks, calls, runs, server, toSweep, crashes, contested>>

InsertRun(r) ==
    /\ Underway(r, "insert")
    /\ runs' = [runs EXCEPT ![r] = [of |-> jobs[r].of, status |-> "queued"]]
    /\ JobGoes(r, "mark")
    /\ UNCHANGED <<rows, cronTasks, calls, server, toSweep, crashes, contested>>

MarkStarted(r) ==
    /\ Underway(r, "mark")
    /\ SetStatus(r, "running")
    /\ JobGoes(r, "work")
    /\ UNCHANGED <<rows, cronTasks, calls, server, toSweep, crashes, contested>>

\* The prompt, or the walk over the nodes.  Where an automation fails, its
\* catch block finishes the run; a failed workflow is finished like another.
Work(r, ok) ==
    /\ Underway(r, "work")
    /\ jobs' = [jobs EXCEPT ![r].ok = ok,
                            ![r].at = IF ok \/ jobs[r].of \in Workflows
                                      THEN "finish" ELSE "catch"]
    /\ UNCHANGED <<rows, cronTasks, calls, runs, server, toSweep, crashes, contested>>

Finish(r) ==
    /\ Underway(r, "finish")
    /\ SetStatus(r, IF jobs[r].ok THEN "done" ELSE "failed")
    /\ IF jobs[r].ok THEN JobGoes(r, "touch") ELSE JobEnds(r)
    /\ UNCHANGED <<rows, cronTasks, calls, server, toSweep, crashes, contested>>

\* touchAutomationLastRun, touchWorkflowLastRun
Touch(r) ==
    /\ Underway(r, "touch")
    /\ JobEnds(r)
    /\ UNCHANGED <<rows, cronTasks, calls, runs, server, toSweep, crashes, contested>>

Catch(r) ==
    /\ Underway(r, "catch")
    /\ SetStatus(r, "failed")
    /\ JobEnds(r)
    /\ UNCHANGED <<rows, cronTasks, calls, server, toSweep, crashes, contested>>

\* A database call of the job throws.  Only from the work on is it in a try
\* block; what the catch block throws, the queue reports.
JobThrows(r) ==
    /\ "db fails" \in May
    /\ jobs[r] # Absent /\ jobs[r].at \notin Over
    /\ JobGoes(r, IF jobs[r].at \in {"work", "finish", "touch"} THEN "catch" ELSE "threw")
    /\ UNCHANGED <<rows, cronTasks, calls, runs, server, toSweep, crashes, contested>>

RunStep(r) ==
    \/ Begin(r) \/ InsertRun(r) \/ MarkStarted(r)
    \/ \E ok \in BOOLEAN : Work(r, ok)
    \/ Finish(r) \/ Touch(r) \/ Catch(r) \/ JobThrows(r)

Boot == Connect \/ (\E r \in Runs : Sweep(r)) \/ Swept \/ RegisterAll

Serve(q) == Find(q) \/ CheckName(q) \/ Write(q) \/ Erase(q) \/ Reread(q) \/ Apply(q)

ClientStep ==
    \E q \in Changes, d \in Defs :
        \/ \E row \in Row : Create(q, d, row)
        \/ \E patch \in Patches : Put(q, d, patch)
        \/ Delete(q, d)

ServerStep ==
    \/ Boot \/ Crash
    \/ \E q \in Changes : Serve(q)
    \/ \E r \in Runs, d \in Defs : Start(r, d)
    \/ \E r \in Runs : RunStep(r)

ScheduleNext == ClientStep \/ ServerStep

ScheduleSpec == ScheduleInit /\ [][ScheduleNext]_scheduleVars

\* The server is started again, and a job that was begun goes on.
FairSchedule == ScheduleSpec /\ WF_scheduleVars(Boot) /\ \A r \in Runs : WF_scheduleVars(RunStep(r))

----------------------------------------------------------------------------
(* Properties *)

\* A run that is queued or running is being worked on, whatever restarts there
\* were (the sweeps: "stuck in running/queued ... after a restart"), unless a
\* database call of its job failed since the server started.
NoStuckRun ==
    server \in {"boot", "up"} =>
        \A r \in Runs : Incomplete(r) => jobs[r] # Absent /\ jobs[r].at # "ended"

\* A run that is over keeps its outcome, whatever the sweeps of restarts and the
\* jobs write in whatever order; only the catch block of its own job may change it.
OutcomesAreFinal ==
    [][\A r \in Runs :
          runs[r] # Absent /\ ~Incomplete(r) => runs'[r] = runs[r] \/ Underway(r, "catch")]_scheduleVars

\* A definition no request is about has a cron task just if its row is an enabled
\* schedule, whatever overlapped on others, and whatever went before: wrong it can
\* be only where two requests were about it at once, or an enabled schedule was made
\* something else, and until a request that is alone, or a restart, settles it.
TasksFollowRows ==
    server = "up" =>
        \A d \in Defs \ contested :
            About(d) = {} => (d \in cronTasks <=> Exists(d) /\ Scheduled(rows[d]))

\* A server that is started comes to listen.
ServerComesUp == server = "down" ~> server = "up"

\* A run ends, if need be by the sweep of the next boot, unless a database call
\* of its job failed.
RunsEnd == \A r \in Runs : Incomplete(r) ~> (~Incomplete(r) \/ Underway(r, "threw"))
============================================================================
