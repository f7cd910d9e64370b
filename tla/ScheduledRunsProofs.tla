------------------------- MODULE ScheduledRunsProofs -------------------------
(***************************************************************************)
(* Proofs about scheduled work: the runs across crashes, the cron tasks as *)
(* the definitions change, and the walk of a run over its graph; and about *)
(* the settings runs use.                                                  *)
(*                                                                         *)
(* NoStuckRun is not inductive: it says nothing while the server is down   *)
(* or sweeps.  RunsWellKept adds what the sweep still has to mark, that no *)
(* job survives a crash, and what a job at each of its steps has already   *)
(* written to its run.                                                     *)
(*                                                                         *)
(* The walk of a run (WorkflowWalk): WalkInv says of the queue what        *)
(* LogIsAWalk says of the log, that what stands in it was found, and       *)
(* stands in the order of the finding behind what ran.                     *)
(*                                                                         *)
(* The settings of a tenant (ProviderSettings): SettingsInv says of a save *)
(* that nobody overtook what it has read and will write, of a run which    *)
(* settings it finds in use, and of the browser what its choice may be.    *)
(***************************************************************************)
EXTENDS ScheduledRuns, WorkflowWalk, ProviderSettings, NaturalsInduction,
        WellFoundedInduction, FiniteSetTheorems, SequenceTheorems, TLAPS

\* Types: definitions, requests, runs and jobs are records or absent.
ScheduleTypeOK ==
    /\ rows \in [Defs -> Row \cup {Absent, Deleted}]
    /\ cronTasks \subseteq Defs
    /\ calls \in [Changes -> CallState \cup {Absent, Answered}]
    /\ runs \in [Runs -> RunRow \cup {Absent}]
    /\ jobs \in [Runs -> JobState \cup {Absent}]
    /\ server \in {"down", "sweep", "boot", "up"}
    /\ toSweep \subseteq Runs
    /\ crashes \in Nat
    /\ contested \subseteq Defs

\* The row of the run of a job, by the step the job is at.
JobWrote(r) ==
    /\ jobs[r].at \in {"begin", "insert"} => runs[r] = Absent
    /\ jobs[r].at \in {"mark", "work", "finish", "touch", "catch"} => runs[r] # Absent
    /\ jobs[r].at = "mark" => runs[r].status = "queued"
    /\ jobs[r].at \in {"work", "finish"} => runs[r].status = "running"
    /\ jobs[r].at = "touch" => ~Incomplete(r)
    /\ jobs[r].at = "ended" => ~Incomplete(r)

RunsWellKept ==
    /\ \A r \in Runs : jobs[r] # Absent => JobWrote(r)
    /\ server # "up" => \A r \in Runs : jobs[r] = Absent
    /\ server = "sweep" => toSweep = {r \in Runs : Incomplete(r)}
    /\ server \in {"boot", "up"} =>
         \A r \in Runs : Incomplete(r) => jobs[r] # Absent

\* A definition is created from a whole form.
FormsAreWhole ==
    \A q \in BeingServed : calls[q].op = "create" => DOMAIN calls[q].patch = Fields

ScheduleInv == ScheduleTypeOK /\ FormsAreWhole /\ RunsWellKept

\* What the row of a definition has come to while a request that is alone with it
\* is served, by the step it is at.
RowsDuring(q) ==
    /\ calls[q].op = "delete" => calls[q].step \notin {"check name", "reread"}
    /\ calls[q].op = "delete" /\ calls[q].step = "write" =>
         Exists(calls[q].d) /\ calls[q].row = rows[calls[q].d]
    /\ calls[q].step = "reread" => Exists(calls[q].d)
    /\ calls[q].step = "apply" =>
         /\ calls[q].row \in Row
         /\ IF calls[q].op = "delete" THEN ~Exists(calls[q].d) ELSE calls[q].row = rows[calls[q].d]

TaskRight(d) == d \in cronTasks <=> Exists(d) /\ Scheduled(rows[d])

\* The task of a definition meanwhile, if nothing before has contested it: it was
\* right, and one that will not be looked at is not there.
TaskDuring(q) ==
    /\ calls[q].step \in {"find", "check name", "write"} => TaskRight(calls[q].d)
    /\ calls[q].step = "reread" /\ rows[calls[q].d].kind = "other" => calls[q].d \notin cronTasks
    /\ calls[q].step = "apply" /\ calls[q].row.kind = "other" => calls[q].d \notin cronTasks

TasksWellKept ==
    /\ server # "up" => BeingServed = {}
    /\ \A p, q \in BeingServed : calls[q].alone /\ calls[p].d = calls[q].d => p = q
    /\ \A q \in BeingServed : calls[q].alone => RowsDuring(q)
    /\ \A q \in BeingServed : calls[q].d \notin contested => calls[q].alone /\ TaskDuring(q)
    /\ server = "up" => \A d \in Defs \ contested : About(d) = {} => TaskRight(d)
-----------------------------------------------------------------------------
(* Types *)

\* A request that goes a step further, or is answered.
LEMMA CallMoves ==
  ASSUME ScheduleTypeOK, NEW q \in BeingServed,
         \/ Answer(q)
         \/ \E step \in CallSteps : Goes(q, step)
         \/ \E step \in CallSteps, row \in Row : GoesWith(q, row, step)
  PROVE  /\ calls' \in [Changes -> CallState \cup {Absent, Answered}]
         /\ \A p \in Changes \ {q} : calls'[p] = calls[p]
         /\ q \in BeingServed' => /\ calls'[q].op = calls[q].op
                                  /\ calls'[q].d = calls[q].d
                                  /\ calls'[q].patch = calls[q].patch
                                  /\ calls'[q].alone = calls[q].alone
         /\ \A step \in CallSteps : Goes(q, step) =>
              q \in BeingServed' /\ calls'[q].step = step /\ calls'[q].row = calls[q].row
         /\ \A step \in CallSteps, row \in Row : GoesWith(q, row, step) =>
              q \in BeingServed' /\ calls'[q].step = step /\ calls'[q].row = row
         /\ Answer(q) => q \notin BeingServed'
<1>1. /\ q \in Changes /\ calls[q] \in CallState
      /\ calls \in [Changes -> CallState \cup {Absent, Answered}]
  BY DEF BeingServed, ScheduleTypeOK
<1>2. CASE Answer(q)
  <2>1. calls' = [calls EXCEPT ![q] = Answered]
    BY <1>2 DEF Answer
  <2>2. calls'[q] = Answered /\ q \notin BeingServed'
    BY <1>1, <2>1 DEF BeingServed
  <2>3. \A step \in CallSteps : ~Goes(q, step)
    BY <1>1, <2>2, AbsenceAssumption DEF Goes, CallState
  <2>4. \A step \in CallSteps, row \in Row : ~GoesWith(q, row, step)
    BY <1>1, <2>2, AbsenceAssumption DEF GoesWith, CallState
  <2>5. QED BY <1>1, <1>2, <2>1, <2>2, <2>3, <2>4
<1>3. ASSUME NEW step \in CallSteps, NEW row \in Row \cup {Absent},
             calls' = [calls EXCEPT ![q] = [calls[q] EXCEPT !.row = row, !.step = step]]
      PROVE  /\ calls' \in [Changes -> CallState \cup {Absent, Answered}]
             /\ \A p \in Changes \ {q} : calls'[p] = calls[p]
             /\ calls'[q].op = calls[q].op /\ calls'[q].d = calls[q].d
             /\ calls'[q].patch = calls[q].patch /\ calls'[q].alone = calls[q].alone
             /\ calls'[q].step = step /\ calls'[q].row = row
             /\ q \in BeingServed' /\ ~Answer(q)
  <2>1. [calls[q] EXCEPT !.row = row, !.step = step] \in CallState
    BY <1>1 DEF CallState
  <2>2. calls'[q] = [calls[q] EXCEPT !.row = row, !.step = step]
    BY <1>1, <1>3
  <2>3. q \in BeingServed' /\ ~Answer(q)
    BY <1>1, <2>1, <2>2, AbsenceAssumption DEF BeingServed, Answer
  <2>4. QED BY <1>1, <1>3, <2>1, <2>2, <2>3 DEF CallState
<1>4. ASSUME NEW step \in CallSteps, Goes(q, step)
      PROVE  calls' = [calls EXCEPT ![q] = [calls[q] EXCEPT !.row = calls[q].row, !.step = step]]
  BY <1>1, <1>4 DEF Goes, CallState
<1>5. ASSUME NEW step \in CallSteps, NEW row \in Row, GoesWith(q, row, step)
      PROVE  calls' = [calls EXCEPT ![q] = [calls[q] EXCEPT !.row = row, !.step = step]]
  BY <1>1, <1>5 DEF GoesWith, CallState
<1>6. calls[q].row \in Row \cup {Absent}
  BY <1>1 DEF CallState
<1> DEFINE Rest == /\ calls' \in [Changes -> CallState \cup {Absent, Answered}]
                   /\ \A p \in Changes \ {q} : calls'[p] = calls[p]
                   /\ calls'[q].op = calls[q].op /\ calls'[q].d = calls[q].d
                   /\ calls'[q].patch = calls[q].patch /\ calls'[q].alone = calls[q].alone
                   /\ q \in BeingServed' /\ ~Answer(q)
<1>7. ASSUME NEW step \in CallSteps, Goes(q, step)
      PROVE  Rest /\ calls'[q].step = step /\ calls'[q].row = calls[q].row
  BY <1>3, <1>4, <1>6, <1>7
<1>8. ASSUME NEW step \in CallSteps, NEW row \in Row, GoesWith(q, row, step)
      PROVE  Rest /\ calls'[q].step = step /\ calls'[q].row = row
  BY <1>3, <1>5, <1>8
<1>9. CASE ~Answer(q)
  <2>1. Rest
    BY <1>7, <1>8, <1>9
  <2>2. QED BY <1>7, <1>8, <1>9, <2>1
<1>10. QED BY <1>2, <1>9

\* A job that is there stays one.
LEMMA JobMoves ==
  ASSUME jobs \in [Runs -> JobState \cup {Absent}],
         NEW r \in Runs, jobs[r] # Absent, NEW at \in JobSteps
  PROVE  [jobs EXCEPT ![r].at = at] \in [Runs -> JobState \cup {Absent}]
<1>1. [jobs[r] EXCEPT !.at = at] \in JobState
  BY DEF JobState
<1>2. QED BY <1>1

\* The status of a run that is there.
LEMMA RunMoves ==
  ASSUME runs \in [Runs -> RunRow \cup {Absent}],
         NEW r \in Runs, runs[r] # Absent, NEW status \in Statuses
  PROVE  [runs EXCEPT ![r].status = status] \in [Runs -> RunRow \cup {Absent}]
<1>1. [runs[r] EXCEPT !.status = status] \in RunRow
  BY DEF RunRow
<1>2. QED BY <1>1

\* A row as a function of its fields.
LEMMA RowFunction ==
  ASSUME NEW row \in Row
  PROVE  /\ DOMAIN row = Fields
         /\ row \in Patches
<1>1. row = [f \in Fields |-> row[f]]
  BY DEF Row, Fields
<1>2. QED BY <1>1 DEF Patches

\* A patch has some fields of a row.
LEMMA PatchFields ==
  ASSUME NEW patch \in Patches \cup {NoPatch}
  PROVE  /\ DOMAIN patch \subseteq Fields
         /\ \A f \in DOMAIN patch : \E row \in Row : patch[f] = row[f]
<1>1. CASE patch \in Patches
  <2>1. PICK S \in SUBSET Fields, row \in Row : patch = [f \in S |-> row[f]]
    BY <1>1 DEF Patches
  <2>2. QED BY <2>1
<1>2. CASE patch = NoPatch
  BY <1>2 DEF NoPatch
<1>3. QED BY <1>1, <1>2

\* What is a function of the fields of a row, with values of those fields, is one.
LEMMA FieldsMakeRow ==
  ASSUME NEW g, g = [f \in Fields |-> g[f]],
         \A f \in Fields : \E row \in Row : g[f] = row[f]
  PROVE  g \in Row
<1>1. g["kind"] \in {"cron", "bad cron", "other"} /\ g["enabled"] \in BOOLEAN /\ g["name"] \in Names
  BY DEF Row, Fields
<1>2. QED BY <1>1 DEF Row, Fields

\* A patched row is a row, and so is a whole form written where there was none.
LEMMA PatchedIsRow ==
  ASSUME NEW row, NEW patch \in Patches \cup {NoPatch},
         row \in Row \/ DOMAIN patch = Fields
  PROVE  /\ Patched(row, patch) \in Row
         /\ \A f \in Fields : Patched(row, patch)[f] = IF f \in DOMAIN patch THEN patch[f] ELSE row[f]
<1>1. PICK p : p = Patched(row, patch)
  OBVIOUS
<1>2. \A f \in Fields : p[f] = IF f \in DOMAIN patch THEN patch[f] ELSE row[f]
  BY <1>1 DEF Patched
<1>3. p = [f \in Fields |-> p[f]]
  BY <1>1 DEF Patched
<1>4. \A f \in Fields : \E r \in Row : p[f] = r[f]
  BY <1>2, PatchFields
<1>5. p \in Row
  BY <1>3, <1>4, FieldsMakeRow
<1>6. QED BY <1>1, <1>2, <1>5

\* The empty server is of the types.
LEMMA InitTypes == ScheduleInit => ScheduleTypeOK
<1>1. SUFFICES ASSUME ScheduleInit PROVE ScheduleTypeOK
  OBVIOUS
<1>2. rows \in [Defs -> Row \cup {Absent, Deleted}]
  BY <1>1 DEF ScheduleInit
<1>3. calls \in [Changes -> CallState \cup {Absent, Answered}]
  BY <1>1 DEF ScheduleInit
<1>4. runs \in [Runs -> RunRow \cup {Absent}] /\ jobs \in [Runs -> JobState \cup {Absent}]
  BY <1>1 DEF ScheduleInit
<1>5. cronTasks \subseteq Defs /\ server = "down" /\ toSweep \subseteq Runs /\ crashes \in Nat
  BY <1>1 DEF ScheduleInit
<1>6. contested \subseteq Defs
  BY <1>1 DEF ScheduleInit
<1>7. QED BY <1>2, <1>3, <1>4, <1>5, <1>6 DEF ScheduleTypeOK

-----------------------------------------------------------------------------
(* The steps of the boot *)

\* What the sweep marks is there, and unfinished.
LEMMA SweptIsIncomplete ==
  ASSUME ScheduleInv, NEW r \in Runs, server = "sweep", r \in toSweep
  PROVE  runs[r] \in RunRow /\ runs[r] # Absent /\ Incomplete(r) /\ jobs[r] = Absent
BY DEF ScheduleInv, ScheduleTypeOK, RunsWellKept, Incomplete

\* Starting and stopping the server keep the schedule's invariant.
LEMMA BootStep ==
  ASSUME ScheduleInv, Boot \/ Crash
  PROVE  ScheduleInv'
<1> USE DEF ScheduleInv, ScheduleTypeOK
<1>0. FormsAreWhole'
  <2>1. calls' = calls \/ \A q \in Changes : calls'[q] \in {Absent, Answered}
    BY DEF Boot, Connect, Sweep, Swept, RegisterAll, Crash
  <2>2. QED BY <2>1 DEF FormsAreWhole, BeingServed
<1>1. CASE Connect
  <2>1. ScheduleTypeOK'
    BY <1>1 DEF Connect
  <2>2. RunsWellKept'
    BY <1>1 DEF Connect, RunsWellKept, Incomplete
  <2>3. QED BY <1>0, <2>1, <2>2
<1>2. ASSUME NEW r \in Runs, Sweep(r) PROVE ScheduleInv'
  <2>1. runs[r] # Absent /\ runs[r] \in RunRow /\ Incomplete(r) /\ server = "sweep"
    BY <1>2, SweptIsIncomplete DEF Sweep
  <2>2. ScheduleTypeOK'
    BY <1>2, <2>1, RunMoves DEF Sweep, Statuses
  <2>3. runs'[r].status = "failed" /\ \A x \in Runs \ {r} : runs'[x] = runs[x]
    BY <1>2, <2>1 DEF Sweep, RunRow
  <2>4. ~Incomplete(r)' /\ \A x \in Runs \ {r} : Incomplete(x)' <=> Incomplete(x)
    BY <2>3 DEF Incomplete
  <2>5. RunsWellKept'
    BY <1>2, <2>1, <2>4 DEF Sweep, RunsWellKept
  <2>6. QED BY <1>0, <2>2, <2>5
<1>3. CASE Swept
  <2>1. ScheduleTypeOK'
    BY <1>3 DEF Swept
  <2>2. RunsWellKept'
    BY <1>3 DEF Swept, RunsWellKept, Incomplete
  <2>3. QED BY <1>0, <2>1, <2>2
<1>4. CASE RegisterAll
  <2>1. ScheduleTypeOK'
    BY <1>4 DEF RegisterAll
  <2>2. RunsWellKept'
    BY <1>4 DEF RegisterAll, RunsWellKept, Incomplete, JobWrote
  <2>3. QED BY <1>0, <2>1, <2>2
<1>5. CASE Crash
  <2>1. ScheduleTypeOK'
    BY <1>5, BoundsAssumption DEF Crash
  <2>2. RunsWellKept'
    BY <1>5 DEF Crash, RunsWellKept, Incomplete, JobWrote
  <2>3. QED BY <1>0, <2>1, <2>2
<1>6. QED BY <1>1, <1>2, <1>3, <1>4, <1>5 DEF Boot

-----------------------------------------------------------------------------
(* The steps of a job *)

\* The step of a job disturbs its own job and run only.
LEMMA OtherRuns ==
  ASSUME ScheduleInv, NEW r \in Runs, jobs[r] # Absent,
         UNCHANGED <<rows, cronTasks, calls, server, toSweep, crashes, contested>>,
         jobs' \in [Runs -> JobState \cup {Absent}], runs' \in [Runs -> RunRow \cup {Absent}],
         \A x \in Runs \ {r} : jobs'[x] = jobs[x] /\ runs'[x] = runs[x],
         jobs'[r] # Absent, JobWrote(r)'
  PROVE  ScheduleInv'
<1>1. server = "up"
  BY DEF ScheduleInv, RunsWellKept, ScheduleTypeOK
<1>2. ScheduleTypeOK'
  BY DEF ScheduleInv, ScheduleTypeOK
<1>3. \A x \in Runs \ {r} : /\ Incomplete(x)' <=> Incomplete(x)
                            /\ JobWrote(x)' <=> JobWrote(x)
  BY DEF Incomplete, JobWrote
<1>4. RunsWellKept'
  BY <1>1, <1>3 DEF ScheduleInv, RunsWellKept
<1>5. FormsAreWhole'
  BY DEF ScheduleInv, FormsAreWhole, BeingServed
<1>6. QED BY <1>2, <1>4, <1>5 DEF ScheduleInv

\* A job that only goes on.
LEMMA JobGoesOn ==
  ASSUME ScheduleInv, NEW r \in Runs, jobs[r] # Absent, NEW at \in JobSteps,
         JobGoes(r, at)
  PROVE  /\ jobs' \in [Runs -> JobState \cup {Absent}]
         /\ \A x \in Runs \ {r} : jobs'[x] = jobs[x]
         /\ jobs'[r] \in JobState /\ jobs'[r] # Absent
         /\ jobs'[r].at = at /\ jobs'[r].of = jobs[r].of
<1>1. jobs \in [Runs -> JobState \cup {Absent}] /\ jobs[r] \in JobState
  BY DEF ScheduleInv, ScheduleTypeOK
<1>2. jobs' \in [Runs -> JobState \cup {Absent}]
  BY <1>1, JobMoves DEF JobGoes
<1>3. jobs'[r].at = at /\ jobs'[r].of = jobs[r].of /\ jobs'[r] \in JobState
  BY <1>1 DEF JobGoes, JobState
<1>4. \A x \in Runs \ {r} : jobs'[x] = jobs[x]
  BY <1>1 DEF JobGoes
<1>5. QED BY <1>2, <1>3, <1>4, AbsenceAssumption

\* A run whose status is set.
LEMMA StatusIsSet ==
  ASSUME ScheduleInv, NEW r \in Runs, runs[r] # Absent, NEW status \in Statuses,
         SetStatus(r, status)
  PROVE  /\ runs' \in [Runs -> RunRow \cup {Absent}]
         /\ \A x \in Runs \ {r} : runs'[x] = runs[x]
         /\ runs'[r] # Absent /\ runs'[r].status = status
<1>1. runs \in [Runs -> RunRow \cup {Absent}] /\ runs[r] \in RunRow
  BY DEF ScheduleInv, ScheduleTypeOK
<1>2. runs' \in [Runs -> RunRow \cup {Absent}]
  BY <1>1, RunMoves DEF SetStatus
<1>3. runs'[r].status = status /\ runs'[r] \in RunRow
  BY <1>1 DEF SetStatus, RunRow
<1>4. \A x \in Runs \ {r} : runs'[x] = runs[x]
  BY <1>1 DEF SetStatus
<1>5. QED BY <1>2, <1>3, <1>4, AbsenceAssumption

\* A run's job keeps it: each step of a run writes its own row or none.
LEMMA JobStep ==
  ASSUME ScheduleInv, NEW r \in Runs, RunStep(r)
  PROVE  ScheduleInv'
<1>0. /\ jobs \in [Runs -> JobState \cup {Absent}] /\ runs \in [Runs -> RunRow \cup {Absent}]
      /\ jobs[r] # Absent /\ jobs[r] \in JobState /\ JobWrote(r)
      /\ UNCHANGED <<rows, cronTasks, calls, server, toSweep, crashes, contested>>
  <2>1. /\ jobs[r] # Absent
        /\ UNCHANGED <<rows, cronTasks, calls, server, toSweep, crashes, contested>>
    BY DEF RunStep, Begin, InsertRun, MarkStarted, Work, Finish, Touch, Catch, JobThrows, Underway
  <2>2. QED BY <2>1 DEF ScheduleInv, ScheduleTypeOK, RunsWellKept
<1> USE DEF JobWrote, Underway, Incomplete
<1>1. CASE Begin(r)
  <2>1. runs' = runs /\ jobs[r].at = "begin" /\ (JobGoes(r, "insert") \/ JobGoes(r, "ended"))
    BY <1>1 DEF Begin, JobEnds
  <2>2. "insert" \in JobSteps /\ "ended" \in JobSteps
    BY DEF JobSteps
  <2>3. QED BY <1>0, <2>1, <2>2, JobGoesOn, OtherRuns
<1>2. CASE InsertRun(r)
  <2>1. jobs[r].at = "insert" /\ JobGoes(r, "mark")
    BY <1>2 DEF InsertRun
  <2>2. "mark" \in JobSteps
    BY DEF JobSteps
  <2>3. [of |-> jobs[r].of, status |-> "queued"] \in RunRow
    BY <1>0 DEF JobState, RunRow, Statuses
  <2>4. /\ runs' \in [Runs -> RunRow \cup {Absent}]
        /\ \A x \in Runs \ {r} : runs'[x] = runs[x]
        /\ runs'[r] # Absent /\ runs'[r].status = "queued"
    BY <1>0, <1>2, <2>3, AbsenceAssumption DEF InsertRun
  <2>5. QED BY <1>0, <2>1, <2>2, <2>4, JobGoesOn, OtherRuns
<1>3. CASE MarkStarted(r)
  <2>1. /\ jobs[r].at = "mark" /\ runs[r] # Absent
        /\ JobGoes(r, "work") /\ SetStatus(r, "running")
    BY <1>0, <1>3 DEF MarkStarted
  <2>2. "work" \in JobSteps /\ "running" \in Statuses
    BY DEF JobSteps, Statuses
  <2>3. QED BY <1>0, <2>1, <2>2, JobGoesOn, StatusIsSet, OtherRuns
<1>4. ASSUME NEW ok \in BOOLEAN, Work(r, ok) PROVE ScheduleInv'
  <2>1. PICK at \in {"finish", "catch"} :
          jobs' = [jobs EXCEPT ![r] = [jobs[r] EXCEPT !.ok = ok, !.at = at]]
    BY <1>4, <1>0 DEF Work
  <2>2. [jobs[r] EXCEPT !.ok = ok, !.at = at] \in JobState
    BY <1>0 DEF JobState, JobSteps
  <2>3. jobs'[r].at = at /\ jobs'[r] # Absent /\ runs' = runs /\ jobs[r].at = "work"
        /\ jobs' \in [Runs -> JobState \cup {Absent}]
        /\ \A x \in Runs \ {r} : jobs'[x] = jobs[x]
    BY <1>0, <1>4, <2>1, <2>2, AbsenceAssumption DEF Work, JobState
  <2>4. QED BY <1>0, <2>3, OtherRuns
<1>5. CASE Finish(r)
  <2>1. jobs[r].at = "finish" /\ runs[r] # Absent
    BY <1>0, <1>5 DEF Finish
  <2>2. PICK status \in {"done", "failed"}, at \in {"touch", "ended"} :
          JobGoes(r, at) /\ SetStatus(r, status)
    BY <1>5 DEF Finish, JobEnds
  <2>3. at \in JobSteps /\ status \in Statuses
    BY DEF JobSteps, Statuses
  <2>4. QED BY <1>0, <2>1, <2>2, <2>3, JobGoesOn, StatusIsSet, OtherRuns
<1>6. CASE Touch(r)
  <2>1. runs' = runs /\ jobs[r].at = "touch" /\ JobGoes(r, "ended")
    BY <1>6 DEF Touch, JobEnds
  <2>2. "ended" \in JobSteps
    BY DEF JobSteps
  <2>3. QED BY <1>0, <2>1, <2>2, JobGoesOn, OtherRuns
<1>7. CASE Catch(r)
  <2>1. /\ jobs[r].at = "catch" /\ runs[r] # Absent
        /\ JobGoes(r, "ended") /\ SetStatus(r, "failed")
    BY <1>0, <1>7 DEF Catch, JobEnds
  <2>2. "ended" \in JobSteps /\ "failed" \in Statuses
    BY DEF JobSteps, Statuses
  <2>3. QED BY <1>0, <2>1, <2>2, JobGoesOn, StatusIsSet, OtherRuns
<1>8. CASE JobThrows(r)
  <2>1. PICK at \in {"catch", "threw"} :
          JobGoes(r, at) /\ (at = "catch" => jobs[r].at \in {"work", "finish", "touch"})
    BY <1>8 DEF JobThrows
  <2>2. runs' = runs /\ at \in JobSteps
    BY <1>8 DEF JobThrows, JobSteps
  <2>3. QED BY <1>0, <2>1, <2>2, JobGoesOn, OtherRuns
<1>9. QED BY <1>1, <1>2, <1>3, <1>4, <1>5, <1>6, <1>7, <1>8 DEF RunStep

\* A run that is started keeps it.
LEMMA StartStep ==
  ASSUME ScheduleInv, NEW r \in Runs, NEW d \in Defs, Start(r, d)
  PROVE  ScheduleInv'
<1>1. Job(d, "begin") \in JobState
  BY DEF Job, JobState, JobSteps
<1>2. /\ jobs' \in [Runs -> JobState \cup {Absent}]
      /\ jobs'[r] # Absent /\ jobs'[r].at = "begin"
      /\ \A x \in Runs \ {r} : jobs'[x] = jobs[x]
  <2>1. jobs \in [Runs -> JobState \cup {Absent}] /\ jobs' = [jobs EXCEPT ![r] = Job(d, "begin")]
    BY DEF Start, ScheduleInv, ScheduleTypeOK
  <2>2. Job(d, "begin").at = "begin"
    BY DEF Job
  <2>3. QED BY <1>1, <2>1, <2>2, AbsenceAssumption
<1>3. ScheduleTypeOK'
  BY <1>2 DEF Start, ScheduleInv, ScheduleTypeOK
<1>4. \A x \in Runs : Incomplete(x)' <=> Incomplete(x)
  BY DEF Start, Incomplete
<1>5. JobWrote(r)'
  BY <1>2 DEF Start, JobWrote
<1>6. \A x \in Runs \ {r} : JobWrote(x) <=> JobWrote(x)'
  BY <1>2 DEF Start, JobWrote, Incomplete
<1>7. RunsWellKept'
  BY <1>2, <1>4, <1>5, <1>6 DEF Start, ScheduleInv, RunsWellKept
<1>8. FormsAreWhole'
  BY DEF Start, ScheduleInv, FormsAreWhole, BeingServed
<1>9. QED BY <1>3, <1>7, <1>8 DEF ScheduleInv

-----------------------------------------------------------------------------
(* The steps of a request *)

\* A request that arrives; those about the same definition are no longer alone.
Arrived(q, op, d, patch, step) ==
    /\ q \notin BeingServed /\ BeingServed' = BeingServed \cup {q}
    /\ calls' \in [Changes -> CallState \cup {Absent, Answered}]
    /\ calls'[q].op = op /\ calls'[q].d = d /\ calls'[q].patch = patch
    /\ calls'[q].step = step /\ (calls'[q].alone <=> About(d) = {})
    /\ \A p \in BeingServed \ About(d) : calls'[p] = calls[p]
    /\ \A p \in About(d) : /\ calls'[p].op = calls[p].op /\ calls'[p].d = d
                           /\ calls'[p].patch = calls[p].patch /\ ~calls'[p].alone

LEMMA AskMoves ==
  ASSUME ScheduleTypeOK, NEW q \in Changes, NEW op \in {"create", "put", "delete"},
         NEW d \in Defs, NEW patch \in Patches \cup {NoPatch}, NEW step \in CallSteps,
         Ask(q, op, d, patch, step)
  PROVE  Arrived(q, op, d, patch, step)
<1> DEFINE lone == About(d) = {}
           c == [op |-> op, d |-> d, patch |-> patch, row |-> Absent, step |-> step, alone |-> lone]
<1>1. /\ calls \in [Changes -> CallState \cup {Absent, Answered}]
      /\ calls[q] = Absent
      /\ calls' = [p \in Changes |-> IF p = q THEN c
                     ELSE IF p \in About(d) THEN [calls[p] EXCEPT !.alone = FALSE] ELSE calls[p]]
  BY DEF Ask, ScheduleTypeOK
<1>2. /\ c \in CallState /\ c.op = op /\ c.d = d /\ c.patch = patch /\ c.step = step
      /\ c.alone <=> About(d) = {}
  <2>1. lone \in BOOLEAN
    OBVIOUS
  <2>2. c.alone = lone
    OBVIOUS
  <2> HIDE DEF lone
  <2>3. c \in CallState /\ c.op = op /\ c.d = d /\ c.patch = patch /\ c.step = step
    BY <2>1 DEF CallState
  <2>4. QED BY <2>2, <2>3 DEF lone
<1> HIDE DEF c
<1>3. /\ q \notin BeingServed
      /\ About(d) \subseteq BeingServed /\ BeingServed \subseteq Changes
      /\ \A p \in BeingServed : calls[p] \in CallState
  BY <1>1 DEF About, BeingServed
<1>4. calls'[q] = c
  BY <1>1
<1>5. ASSUME NEW p \in About(d)
      PROVE  /\ calls'[p] \in CallState
             /\ calls'[p].op = calls[p].op /\ calls'[p].d = d
             /\ calls'[p].patch = calls[p].patch /\ ~calls'[p].alone
  <2>1. p \in Changes /\ p # q /\ calls[p] \in CallState /\ calls[p].d = d
    BY <1>3 DEF About
  <2>2. calls'[p] = [calls[p] EXCEPT !.alone = FALSE]
    BY <1>1, <2>1
  <2>3. QED BY <2>1, <2>2 DEF CallState
<1>6. ASSUME NEW p \in Changes \ {q}, p \notin About(d) PROVE calls'[p] = calls[p]
  BY <1>1, <1>6
<1>7. ASSUME NEW p \in Changes PROVE calls'[p] \in CallState \cup {Absent, Answered}
  BY <1>1, <1>2, <1>4, <1>5, <1>6
<1>8. calls' \in [Changes -> CallState \cup {Absent, Answered}]
  <2>1. calls' = [p \in Changes |-> calls'[p]]
    BY <1>1
  <2>2. QED BY <1>7, <2>1
<1>9. BeingServed' = BeingServed \cup {q}
  <2>1. q \in BeingServed'
    BY <1>2, <1>4, AbsenceAssumption DEF BeingServed
  <2>2. \A p \in About(d) : p \in BeingServed /\ p \in BeingServed'
    BY <1>3, <1>5, AbsenceAssumption DEF BeingServed
  <2>3. \A p \in Changes \ {q} : p \notin About(d) => (p \in BeingServed' <=> p \in BeingServed)
    BY <1>6 DEF BeingServed
  <2>4. BeingServed' \subseteq Changes
    BY DEF BeingServed
  <2>5. QED BY <1>3, <2>1, <2>2, <2>3, <2>4
<1>10. QED BY <1>2, <1>3, <1>4, <1>5, <1>6, <1>8, <1>9 DEF Arrived

\* A request that arrives is well typed.
LEMMA AskTypes ==
  ASSUME ScheduleInv, NEW q \in Changes, NEW op \in {"create", "put", "delete"},
         NEW d \in Defs, NEW patch \in Patches \cup {NoPatch}, NEW step \in CallSteps,
         op = "create" => DOMAIN patch = Fields,
         Ask(q, op, d, patch, step)
  PROVE  ScheduleInv'
<1>0. ScheduleTypeOK
  BY DEF ScheduleInv
<1>1. /\ BeingServed' = BeingServed \cup {q}
      /\ calls' \in [Changes -> CallState \cup {Absent, Answered}]
      /\ calls'[q].op = op /\ calls'[q].patch = patch
      /\ \A p \in BeingServed : calls'[p].op = calls[p].op /\ calls'[p].patch = calls[p].patch
  <2>1. Arrived(q, op, d, patch, step)
    BY <1>0, AskMoves
  <2>2. QED BY <2>1 DEF Arrived
<1>2. contested' \subseteq Defs
  BY <1>0 DEF Ask, ScheduleTypeOK
<1>3. UNCHANGED <<rows, cronTasks, runs, jobs, server, toSweep, crashes>>
  BY DEF Ask
<1>4. ScheduleTypeOK'
  BY <1>0, <1>1, <1>2, <1>3 DEF ScheduleTypeOK
<1>5. RunsWellKept'
  BY <1>3 DEF ScheduleInv, RunsWellKept, JobWrote, Incomplete
<1>6. FormsAreWhole'
  BY <1>1 DEF ScheduleInv, FormsAreWhole
<1>7. QED BY <1>4, <1>5, <1>6 DEF ScheduleInv

\* Requests that come in keep it.
LEMMA AskStep ==
  ASSUME ScheduleInv, NEW q \in Changes, NEW d \in Defs,
         \/ \E row \in Row : Create(q, d, row)
         \/ \E patch \in Patches : Put(q, d, patch)
         \/ Delete(q, d)
  PROVE  ScheduleInv'
<1>1. \A p \in Workflows \cup Defs : FirstLook(p) \in CallSteps
  BY DEF FirstLook, CallSteps
<1>2. {"find", "write"} \subseteq CallSteps
  BY DEF CallSteps
<1>3. ASSUME NEW row \in Row, Create(q, d, row) PROVE ScheduleInv'
  BY <1>1, <1>3, RowFunction, AskTypes DEF Create
<1>4. ASSUME NEW patch \in Patches, Put(q, d, patch) PROVE ScheduleInv'
  BY <1>2, <1>4, AskTypes DEF Put
<1>5. CASE Delete(q, d)
  BY <1>2, <1>5, AskTypes DEF Delete
<1>6. QED BY <1>3, <1>4, <1>5

\* What a step of a request leaves alone.
LEMMA ServeTypes ==
  ASSUME ScheduleInv, UNCHANGED <<runs, jobs, server, toSweep, crashes>>,
         rows' \in [Defs -> Row \cup {Absent, Deleted}], cronTasks' \subseteq Defs,
         contested' \subseteq Defs,
         calls' \in [Changes -> CallState \cup {Absent, Answered}],
         NEW q \in BeingServed,
         \A p \in Changes \ {q} : calls'[p] = calls[p],
         q \in BeingServed' => calls'[q].op = calls[q].op /\ calls'[q].patch = calls[q].patch
  PROVE  ScheduleInv'
<1>1. ScheduleTypeOK'
  BY DEF ScheduleInv, ScheduleTypeOK
<1>2. RunsWellKept'
  BY DEF ScheduleInv, RunsWellKept, JobWrote, Incomplete
<1>3. FormsAreWhole'
  BY DEF ScheduleInv, FormsAreWhole, BeingServed
<1>4. QED BY <1>1, <1>2, <1>3 DEF ScheduleInv

\* Where a request is served, its definition is there or not; one that is, is a row.
LEMMA Served ==
  ASSUME ScheduleTypeOK, NEW q \in BeingServed
  PROVE  /\ q \in Changes /\ calls[q] \in CallState /\ calls[q].d \in Defs
         /\ calls[q].patch \in Patches \cup {NoPatch}
         /\ Exists(calls[q].d) => rows[calls[q].d] \in Row
<1>1. q \in Changes /\ calls[q] \in CallState
  BY DEF ScheduleTypeOK, BeingServed
<1>2. QED BY <1>1 DEF CallState, ScheduleTypeOK, Exists

\* Requests that are served keep it: a whole form stays whole.
LEMMA ServeStep ==
  ASSUME ScheduleInv, NEW q \in Changes, Serve(q)
  PROVE  ScheduleInv'
<1>0. /\ q \in BeingServed /\ ScheduleTypeOK /\ calls[q] \in CallState
      /\ calls[q].d \in Defs /\ calls[q].patch \in Patches \cup {NoPatch}
      /\ calls[q].op = "create" => DOMAIN calls[q].patch = Fields
  <2>1. q \in BeingServed
    BY DEF Serve, Find, CheckName, Write, Erase, Reread, Apply, At
  <2>2. QED BY <2>1, Served DEF ScheduleInv, FormsAreWhole
<1>1. {"find", "check name", "write", "reread", "apply"} = CallSteps
      /\ \A d \in Defs : FirstLook(d) \in CallSteps
  BY DEF CallSteps, FirstLook
<1>2. UNCHANGED <<runs, jobs, server, toSweep, crashes>>
  BY DEF Serve, Find, CheckName, Write, Erase, Reread, Apply, OnlyCalls
<1>3. \/ Answer(q)
      \/ \E step \in CallSteps : Goes(q, step)
      \/ \E step \in CallSteps, row \in Row : GoesWith(q, row, step)
  <2>1. Exists(calls[q].d) => rows[calls[q].d] \in Row
    BY <1>0, Served
  <2>2. CASE Find(q)
    BY <1>0, <1>1, <2>1, <2>2 DEF Find
  <2>3. CASE CheckName(q)
    BY <1>1, <2>3 DEF CheckName
  <2>4. CASE Write(q)
    BY <1>1, <2>4 DEF Write
  <2>5. CASE Erase(q)
    BY <1>1, <2>5 DEF Erase
  <2>6. CASE Reread(q)
    BY <1>1, <2>1, <2>6 DEF Reread
  <2>7. CASE Apply(q)
    BY <2>7 DEF Apply
  <2>8. QED BY <2>2, <2>3, <2>4, <2>5, <2>6, <2>7 DEF Serve
<1>4. rows' \in [Defs -> Row \cup {Absent, Deleted}]
  <2>0. rows \in [Defs -> Row \cup {Absent, Deleted}]
    BY <1>0 DEF ScheduleTypeOK
  <2>1. CASE Write(q)
    <3>1. CASE rows' = rows
      BY <2>0, <3>1
    <3>2. CASE /\ calls[q].op = "create" \/ Exists(calls[q].d)
               /\ rows' = [rows EXCEPT ![calls[q].d] = Patched(@, calls[q].patch)]
      <4>1. rows[calls[q].d] \in Row \/ DOMAIN calls[q].patch = Fields
        BY <1>0, <3>2, Served
      <4>2. Patched(rows[calls[q].d], calls[q].patch) \in Row
        BY <1>0, <4>1, PatchedIsRow
      <4>3. QED BY <1>0, <2>0, <3>2, <4>2
    <3>3. QED BY <2>1, <3>1, <3>2 DEF Write
  <2>2. CASE Erase(q)
    BY <1>0, <2>0, <2>2 DEF Erase
  <2>3. CASE Find(q) \/ CheckName(q) \/ Reread(q) \/ Apply(q)
    BY <2>0, <2>3 DEF Find, CheckName, Reread, Apply, OnlyCalls
  <2>4. QED BY <2>1, <2>2, <2>3 DEF Serve
<1>5. cronTasks' \subseteq Defs
  <2>0. cronTasks \subseteq Defs
    BY <1>0 DEF ScheduleTypeOK
  <2>1. CASE Apply(q)
    BY <1>0, <2>0, <2>1 DEF Apply, ScheduleAfter
  <2>2. CASE ~Apply(q)
    BY <2>0, <2>2 DEF Serve, Find, CheckName, Write, Erase, Reread, OnlyCalls
  <2>3. QED BY <2>1, <2>2
<1>6. contested' \subseteq Defs
  <2>0. contested \subseteq Defs
    BY <1>0 DEF ScheduleTypeOK
  <2>1. \/ contested' = contested
        \/ contested' = contested \cup {calls[q].d}
        \/ contested' = contested \ {calls[q].d}
    <3>1. CASE Find(q) \/ CheckName(q) \/ Reread(q)
      BY <3>1 DEF Find, CheckName, Reread, OnlyCalls
    <3>2. CASE Write(q)
      BY <3>2 DEF Write
    <3>3. CASE Erase(q)
      BY <3>3 DEF Erase
    <3>4. CASE Apply(q)
      BY <3>4 DEF Apply
    <3>5. QED BY <3>1, <3>2, <3>3, <3>4 DEF Serve
  <2>2. QED BY <1>0, <2>0, <2>1
<1>7. QED BY <1>0, <1>2, <1>3, <1>4, <1>5, <1>6, CallMoves, ServeTypes

-----------------------------------------------------------------------------
(* The theorems about runs *)

\* It holds to begin with.
LEMMA InitSchedule == ScheduleInit => ScheduleInv
<1>1. ScheduleInit => FormsAreWhole /\ RunsWellKept
  BY DEF ScheduleInit, FormsAreWhole, BeingServed, RunsWellKept
<1>2. QED BY <1>1, InitTypes DEF ScheduleInv

\* Every step keeps it.
LEMMA ScheduleStep ==
  ASSUME ScheduleInv, [ScheduleNext]_scheduleVars
  PROVE  ScheduleInv'
<1>1. CASE ScheduleNext
  BY <1>1, BootStep, AskStep, ServeStep, StartStep, JobStep DEF ScheduleNext, ClientStep, ServerStep
<1>2. CASE UNCHANGED scheduleVars
  BY <1>2 DEF scheduleVars, ScheduleInv, ScheduleTypeOK, FormsAreWhole, BeingServed, RunsWellKept,
     JobWrote, Incomplete
<1>3. QED BY <1>1, <1>2

\* The invariant holds in every reachable state.
THEOREM ScheduleInvariant == ScheduleSpec => []ScheduleInv
<1>1. QED BY InitSchedule, ScheduleStep, PTL DEF ScheduleSpec

\* A run that is queued or running has a job that works on it, or whose database
\* failed, whatever crashes and restarts there were
\* (sweepInterruptedWorkflowRuns, sweepInterruptedAutomationRuns).
THEOREM NoRunIsStuck == ScheduleSpec => []NoStuckRun
<1>1. ScheduleInv => NoStuckRun
  BY DEF ScheduleInv, RunsWellKept, NoStuckRun, JobWrote
<1>2. QED BY <1>1, ScheduleInvariant, PTL

\* A run that is over keeps its row.
LEMMA OverStays ==
  ASSUME ScheduleInv, [ScheduleNext]_scheduleVars, NEW r \in Runs,
         runs[r] # Absent, ~Incomplete(r)
  PROVE  runs'[r] = runs[r] \/ Underway(r, "catch")
<1>0. runs \in [Runs -> RunRow \cup {Absent}]
  BY DEF ScheduleInv, ScheduleTypeOK
<1>1. ASSUME NEW x \in Runs, Sweep(x) PROVE runs'[r] = runs[r]
  <2>1. Incomplete(x)
    BY <1>1, SweptIsIncomplete DEF Sweep
  <2>2. QED BY <1>0, <1>1, <2>1 DEF Sweep
<1>2. ASSUME NEW x \in Runs, RunStep(x), runs'[r] # runs[r] PROVE Underway(r, "catch")
  <2>1. /\ x = r
        /\ jobs[r] # Absent
        /\ jobs[r].at \in {"insert", "mark", "finish", "catch"}
    BY <1>0, <1>2 DEF RunStep, Begin, InsertRun, MarkStarted, Work, Finish, Touch, Catch,
       JobThrows, SetStatus, Underway
  <2>2. JobWrote(r)
    BY <2>1 DEF ScheduleInv, RunsWellKept
  <2>3. QED BY <2>1, <2>2 DEF JobWrote, Underway, Incomplete
<1>3. CASE runs' = runs
  BY <1>3
<1>4. CASE ScheduleNext
  <2>1. \/ runs' = runs
        \/ \E x \in Runs : Sweep(x)
        \/ \E x \in Runs : RunStep(x)
    BY <1>4 DEF ScheduleNext, ClientStep, ServerStep, Boot, Connect, Swept, RegisterAll, Crash, Create, Put, Delete, Ask,
       Serve, Find, CheckName, Write, Erase, Reread, Apply, OnlyCalls, Start
  <2>2. QED BY <1>1, <1>2, <1>3, <2>1
<1>5. CASE UNCHANGED scheduleVars
  BY <1>5 DEF scheduleVars
<1>6. QED BY <1>4, <1>5

\* The outcome of a run is final, but for the catch block of its own job: neither
\* the sweep of a restart nor the job of another run writes it again.
THEOREM OutcomesStay == ScheduleSpec => OutcomesAreFinal
<1>1. ScheduleInv /\ [ScheduleNext]_scheduleVars
        => [\A r \in Runs : runs[r] # Absent /\ ~Incomplete(r)
                               => runs'[r] = runs[r] \/ Underway(r, "catch")]_scheduleVars
  BY OverStays
<1>2. QED BY <1>1, ScheduleInvariant, PTL DEF ScheduleSpec, OutcomesAreFinal

-----------------------------------------------------------------------------
(* The cron tasks *)

\* Where no request touches the rows, the tasks or itself.
LEMMA TasksIdle ==
  ASSUME TasksWellKept, UNCHANGED <<rows, cronTasks, calls, contested>>,
         server' = server \/ {server, server'} \subseteq {"down", "sweep", "boot"}
  PROVE  TasksWellKept'
<1>1. BeingServed' = BeingServed /\ \A d \in Defs : About(d)' = About(d)
  BY DEF BeingServed, About
<1>2. \A q \in BeingServed : (RowsDuring(q) <=> RowsDuring(q)') /\ (TaskDuring(q) <=> TaskDuring(q)')
  BY DEF RowsDuring, TaskDuring, TaskRight, Exists
<1>3. \A d \in Defs : TaskRight(d) <=> TaskRight(d)'
  BY DEF TaskRight, Exists
<1>4. QED BY <1>1, <1>2, <1>3 DEF TasksWellKept

\* At the start every enabled definition gets its task, at a stop all are gone.
LEMMA TasksAtBoot ==
  ASSUME ScheduleInv, TasksWellKept, Boot \/ Crash
  PROVE  TasksWellKept'
<1>1. CASE \/ Connect \/ Swept \/ (\E r \in Runs : Sweep(r))
           \/ RegisterAll /\ server' = "down"
  BY <1>1, TasksIdle DEF Connect, Swept, Sweep, RegisterAll
<1>2. CASE RegisterAll /\ server' = "up"
  <2>1. BeingServed = {} /\ calls' = calls /\ rows' = rows
    BY <1>2 DEF RegisterAll, TasksWellKept
  <2>2. BeingServed' = {}
    BY <2>1 DEF BeingServed
  <2>3. \A d \in Defs : TaskRight(d)'
    BY <1>2, <2>1 DEF RegisterAll, TaskRight, Exists
  <2>4. QED BY <1>2, <2>2, <2>3 DEF TasksWellKept
<1>3. CASE Crash
  <2>1. BeingServed' = {} /\ server' = "down"
    BY <1>3 DEF Crash, BeingServed
  <2>2. QED BY <2>1 DEF TasksWellKept
<1>4. QED BY <1>1, <1>2, <1>3 DEF Boot, RegisterAll

\* A request that arrives finds the task as the row wants it, if nothing contested
\* the definition, or contests it itself.
LEMMA TasksWhenAsked ==
  ASSUME ScheduleInv, TasksWellKept,
         NEW q \in Changes, NEW op \in {"create", "put", "delete"},
         NEW d \in Defs, NEW patch \in Patches \cup {NoPatch}, NEW step \in CallSteps,
         Ask(q, op, d, patch, step),
         step \in {"find", "check name", "write"},
         op = "delete" => step = "find"
  PROVE  TasksWellKept'
<1>0. ScheduleTypeOK
  BY DEF ScheduleInv
<1>1. /\ q \notin BeingServed /\ BeingServed' = BeingServed \cup {q}
      /\ calls'[q].op = op /\ calls'[q].d = d
      /\ calls'[q].step = step /\ (calls'[q].alone <=> About(d) = {})
      /\ \A p \in BeingServed \ About(d) : calls'[p] = calls[p]
      /\ \A p \in About(d) : calls'[p].d = d /\ ~calls'[p].alone
  <2>1. Arrived(q, op, d, patch, step)
    BY <1>0, AskMoves
  <2>2. QED BY <2>1 DEF Arrived
<1>2. /\ UNCHANGED <<rows, cronTasks, server>> /\ server = "up"
      /\ contested' = IF About(d) = {} THEN contested ELSE contested \cup {d}
  BY DEF Ask
<1>3. \A x \in Defs : TaskRight(x)' <=> TaskRight(x)
  BY <1>2 DEF TaskRight, Exists
<1>4. ASSUME NEW p \in BeingServed, p \notin About(d)
      PROVE  /\ calls'[p] = calls[p] /\ calls[p].d # d
             /\ RowsDuring(p) => RowsDuring(p)'
             /\ TaskDuring(p) => TaskDuring(p)'
  <2>1. calls'[p] = calls[p] /\ calls[p].d # d
    BY <1>1, <1>4 DEF About
  <2>2. QED BY <1>2, <2>1 DEF RowsDuring, TaskDuring, TaskRight, Exists
<1>5. ASSUME NEW p \in BeingServed' PROVE p = q \/ p \in About(d) \/ (p \in BeingServed /\ p \notin About(d))
  BY <1>1
<1>6. RowsDuring(q)'
  BY <1>1 DEF RowsDuring
<1>7. ASSUME About(d) = {}, d \notin contested PROVE TaskDuring(q)'
  <2>1. TaskRight(d)
    BY <1>2, <1>7 DEF TasksWellKept
  <2>2. TaskRight(d)'
    BY <1>3, <2>1
  <2>3. QED BY <1>1, <2>2 DEF TaskDuring
<1>8. \A x \in Defs : About(x)' = {} => About(x) = {}
  BY <1>1, <1>4 DEF About
<1>9. ASSUME NEW p \in BeingServed', NEW x \in BeingServed', calls'[x].alone, calls'[p].d = calls'[x].d
      PROVE  p = x
  <2>1. x \notin About(d)
    BY <1>1, <1>9
  <2>2. CASE x = q
    <3>1. About(d) = {} /\ calls'[p].d = d
      BY <1>1, <1>9, <2>2
    <3>2. QED BY <1>4, <1>5, <2>2, <3>1
  <2>3. CASE x # q
    <3>1. x \in BeingServed /\ calls'[x] = calls[x] /\ calls[x].d # d
      BY <1>4, <1>5, <2>1, <2>3
    <3>2. calls'[p].d # d
      BY <1>9, <3>1
    <3>3. p \in BeingServed /\ calls'[p] = calls[p]
      BY <1>1, <1>4, <1>5, <3>2
    <3>4. QED BY <1>9, <3>1, <3>3 DEF TasksWellKept
  <2>4. QED BY <2>2, <2>3
<1>10. \A p \in BeingServed' : calls'[p].alone => RowsDuring(p)'
  BY <1>1, <1>4, <1>5, <1>6 DEF TasksWellKept
<1>11. \A p \in BeingServed' : calls'[p].d \notin contested' => calls'[p].alone /\ TaskDuring(p)'
  BY <1>1, <1>2, <1>4, <1>5, <1>7 DEF TasksWellKept
<1>12. \A x \in Defs \ contested' : About(x)' = {} => TaskRight(x)'
  BY <1>2, <1>3, <1>8 DEF TasksWellKept
<1>13. QED BY <1>2, <1>9, <1>10, <1>11, <1>12 DEF TasksWellKept

\* A request that comes in writes nothing yet.
LEMMA TasksOnAsk ==
  ASSUME ScheduleInv, TasksWellKept, ClientStep
  PROVE  TasksWellKept'
<1>0. PICK q \in Changes, d \in Defs :
         \/ \E row \in Row : Create(q, d, row)
         \/ \E patch \in Patches : Put(q, d, patch)
         \/ Delete(q, d)
  BY DEF ClientStep
<1>1. FirstLook(d) \in {"check name", "write"} /\ {"find", "check name", "write"} \subseteq CallSteps
  BY DEF FirstLook, CallSteps
<1>2. ASSUME NEW row \in Row, Create(q, d, row) PROVE TasksWellKept'
  <2>1. row \in Patches \cup {NoPatch}
    BY RowFunction
  <2>2. Ask(q, "create", d, row, FirstLook(d))
    BY <1>2 DEF Create
  <2>3. QED BY <1>1, <2>1, <2>2, TasksWhenAsked
<1>3. ASSUME NEW patch \in Patches, Put(q, d, patch) PROVE TasksWellKept'
  <2>1. PICK step \in {"find", "write"} : Ask(q, "put", d, patch, step)
    BY <1>3 DEF Put
  <2>2. QED BY <1>1, <2>1, TasksWhenAsked
<1>4. CASE Delete(q, d)
  <2>1. Ask(q, "delete", d, NoPatch, "find")
    BY <1>4 DEF Delete
  <2>2. QED BY <1>1, <2>1, TasksWhenAsked
<1>5. QED BY <1>0, <1>2, <1>3, <1>4

\* What a step of a request may disturb is its own definition.
OnlyOwn(q, d) ==
    /\ server' = server
    /\ \A p \in Changes \ {q} : calls'[p] = calls[p]
    /\ \A x \in Defs \ {d} : /\ rows'[x] = rows[x]
                             /\ x \in cronTasks' <=> x \in cronTasks
                             /\ x \in contested' <=> x \in contested

LEMMA OthersStay ==
  ASSUME ScheduleTypeOK, NEW q \in BeingServed, NEW d \in Defs, OnlyOwn(q, d)
  PROVE  /\ \A x \in Defs \ {d} : TaskRight(x)' <=> TaskRight(x)
         /\ \A p \in BeingServed \ {q} :
              /\ p \in BeingServed' /\ calls'[p] = calls[p]
              /\ calls[p].d # d => /\ calls[p].d \in Defs
                                   /\ RowsDuring(p) => RowsDuring(p)'
                                   /\ TaskDuring(p) => TaskDuring(p)'
         /\ \A p \in BeingServed' \ {q} : p \in BeingServed
<1>1. \A x \in Defs \ {d} : (Exists(x)' <=> Exists(x)) /\ (TaskRight(x)' <=> TaskRight(x))
  BY DEF OnlyOwn, TaskRight, Exists
<1>2. ASSUME NEW p \in BeingServed \ {q}
      PROVE  p \in BeingServed' /\ calls'[p] = calls[p] /\ calls[p].d \in Defs
  BY Served DEF OnlyOwn, BeingServed
<1>3. ASSUME NEW p \in BeingServed \ {q}, calls[p].d # d
      PROVE  (RowsDuring(p) => RowsDuring(p)') /\ (TaskDuring(p) => TaskDuring(p)')
  <2> DEFINE e == calls[p].d
  <2>1. /\ e \in Defs \ {d} /\ calls'[p] = calls[p]
    BY <1>2, <1>3
  <2>2. /\ rows'[e] = rows[e] /\ (e \in cronTasks' <=> e \in cronTasks)
        /\ Exists(e)' <=> Exists(e)
        /\ TaskRight(e)' <=> TaskRight(e)
    BY <1>1, <2>1 DEF OnlyOwn
  <2>3. RowsDuring(p) => RowsDuring(p)'
    BY <2>1, <2>2 DEF RowsDuring, Exists
  <2>4. TaskDuring(p) => TaskDuring(p)'
    BY <2>1, <2>2 DEF TaskDuring, TaskRight, Exists
  <2>5. QED BY <2>3, <2>4
<1>4. \A p \in BeingServed' \ {q} : p \in BeingServed
  BY DEF OnlyOwn, BeingServed
<1>5. QED BY <1>1, <1>2, <1>3, <1>4

\* A request is answered.
LEMMA TasksAnswered ==
  ASSUME ScheduleInv, TasksWellKept, NEW q \in BeingServed, NEW d \in Defs, calls[q].d = d,
         OnlyOwn(q, d), q \notin BeingServed',
         d \notin contested' => calls[q].alone /\ TaskRight(d)'
  PROVE  TasksWellKept'
<1>1. /\ \A x \in Defs \ {d} : TaskRight(x)' <=> TaskRight(x)
      /\ \A p \in BeingServed \ {q} :
              /\ p \in BeingServed' /\ calls'[p] = calls[p]
              /\ calls[p].d # d => /\ calls[p].d \in Defs
                                   /\ RowsDuring(p) => RowsDuring(p)'
                                   /\ TaskDuring(p) => TaskDuring(p)'
      /\ \A p \in BeingServed' \ {q} : p \in BeingServed
  BY OthersStay DEF ScheduleInv
<1>2. /\ BeingServed' = BeingServed \ {q} /\ server = "up" /\ server' = server
      /\ \A x \in Defs \ {d} : x \in contested' <=> x \in contested
  BY <1>1 DEF OnlyOwn, TasksWellKept
<1>3. \A p, x \in BeingServed' : calls'[x].alone /\ calls'[p].d = calls'[x].d => p = x
  BY <1>1, <1>2 DEF TasksWellKept
<1>4. \A p \in BeingServed' : calls'[p].alone => calls'[p].d # d
  BY <1>1, <1>2 DEF TasksWellKept
<1>5. \A p \in BeingServed' : calls'[p].alone => RowsDuring(p)'
  BY <1>1, <1>2, <1>4 DEF TasksWellKept
<1>6. ASSUME NEW p \in BeingServed', calls'[p].d \notin contested'
      PROVE  calls'[p].alone /\ TaskDuring(p)'
  <2>1. p \in BeingServed /\ p # q /\ calls'[p] = calls[p]
    BY <1>1, <1>2
  <2>2. calls[p].d # d
    BY <1>6, <2>1 DEF TasksWellKept
  <2>3. calls[p].d \notin contested
    BY <1>1, <1>2, <1>6, <2>1, <2>2
  <2>4. QED BY <1>1, <2>1, <2>2, <2>3 DEF TasksWellKept
<1>7. ASSUME NEW x \in Defs \ contested', About(x)' = {} PROVE TaskRight(x)'
  <2>1. CASE x = d
    BY <2>1
  <2>2. CASE x # d
    <3>1. About(x) = {}
      BY <1>1, <1>2, <1>7, <2>2 DEF About
    <3>2. TaskRight(x)
      BY <1>2, <2>2, <3>1 DEF TasksWellKept
    <3>3. QED BY <1>1, <2>2, <3>2
  <2>3. QED BY <2>1, <2>2
<1>8. QED BY <1>2, <1>3, <1>5, <1>6, <1>7 DEF TasksWellKept

\* A request goes a step further.
LEMMA TasksMoved ==
  ASSUME ScheduleInv, TasksWellKept, NEW q \in BeingServed, NEW d \in Defs, calls[q].d = d,
         OnlyOwn(q, d), q \in BeingServed', calls'[q].d = d, calls'[q].alone = calls[q].alone,
         d \notin contested' => d \notin contested,
         calls[q].alone => RowsDuring(q)',
         d \notin contested' => TaskDuring(q)'
  PROVE  TasksWellKept'
<1>1. /\ \A x \in Defs \ {d} : TaskRight(x)' <=> TaskRight(x)
      /\ \A p \in BeingServed \ {q} :
              /\ p \in BeingServed' /\ calls'[p] = calls[p]
              /\ calls[p].d # d => /\ calls[p].d \in Defs
                                   /\ RowsDuring(p) => RowsDuring(p)'
                                   /\ TaskDuring(p) => TaskDuring(p)'
      /\ \A p \in BeingServed' \ {q} : p \in BeingServed
  BY OthersStay DEF ScheduleInv
<1>2. /\ BeingServed' = BeingServed /\ server = "up" /\ server' = server
      /\ \A x \in Defs \ {d} : x \in contested' <=> x \in contested
      /\ \A p \in BeingServed : calls'[p].d = calls[p].d /\ calls'[p].alone = calls[p].alone
  <2>1. server = "up"
    BY DEF TasksWellKept
  <2>2. server' = server /\ \A x \in Defs \ {d} : x \in contested' <=> x \in contested
    BY DEF OnlyOwn
  <2>3. BeingServed' = BeingServed
    <3>1. \A p \in BeingServed \ {q} : p \in BeingServed'
      BY <1>1
    <3>2. \A p \in BeingServed' \ {q} : p \in BeingServed
      BY <1>1
    <3>3. QED BY <3>1, <3>2
  <2>4. ASSUME NEW p \in BeingServed PROVE calls'[p].d = calls[p].d /\ calls'[p].alone = calls[p].alone
    <3>1. CASE p = q
      BY <3>1
    <3>2. CASE p # q
      <4>1. calls'[p] = calls[p]
        BY <1>1, <3>2
      <4>2. QED BY <4>1
    <3>3. QED BY <3>1, <3>2
  <2>5. QED BY <2>1, <2>2, <2>3, <2>4
<1>3. \A p, x \in BeingServed' : calls'[x].alone /\ calls'[p].d = calls'[x].d => p = x
  BY <1>2 DEF TasksWellKept
<1>4. ASSUME NEW p \in BeingServed', p # q, calls[p].alone PROVE calls[p].d # d
  BY <1>2, <1>4 DEF TasksWellKept
<1>5. \A p \in BeingServed' : calls'[p].alone => RowsDuring(p)'
  BY <1>1, <1>2, <1>4 DEF TasksWellKept
<1>6. ASSUME NEW p \in BeingServed', calls'[p].d \notin contested'
      PROVE  calls'[p].alone /\ TaskDuring(p)'
  <2>1. p \in BeingServed /\ calls'[p].d = calls[p].d /\ calls'[p].alone = calls[p].alone
    BY <1>2
  <2>2. calls[p].d \in Defs
    BY <1>1, <2>1
  <2>3. calls[p].d \notin contested
    BY <1>2, <1>6, <2>1, <2>2
  <2>4. calls[p].alone /\ TaskDuring(p)
    BY <2>1, <2>3 DEF TasksWellKept
  <2>5. CASE p = q
    BY <1>6, <2>1, <2>4, <2>5
  <2>6. CASE p # q
    BY <1>1, <1>4, <2>1, <2>4, <2>6
  <2>7. QED BY <2>5, <2>6
<1>7. ASSUME NEW x \in Defs \ contested', About(x)' = {} PROVE TaskRight(x)'
  <2>1. x # d
    BY <1>2, <1>7 DEF About
  <2>2. About(x) = {}
    BY <1>2, <1>7 DEF About
  <2>3. TaskRight(x)
    BY <1>2, <2>1, <2>2 DEF TasksWellKept
  <2>4. QED BY <1>1, <2>1, <2>3
<1>8. QED BY <1>2, <1>3, <1>5, <1>6, <1>7 DEF TasksWellKept

\* The steps that only look at the rows.
LEMMA TasksOnLook ==
  ASSUME ScheduleInv, TasksWellKept, NEW q \in Changes,
         Find(q) \/ CheckName(q) \/ Reread(q)
  PROVE  TasksWellKept'
<1>0. PICK d : d = calls[q].d
  OBVIOUS
<1>1. /\ q \in BeingServed /\ calls[q].d = d /\ ScheduleTypeOK
      /\ UNCHANGED <<rows, cronTasks, server, contested>>
  BY <1>0 DEF Find, CheckName, Reread, At, OnlyCalls, ScheduleInv
<1>2. /\ calls[q] \in CallState /\ d \in Defs /\ calls[q].d = d
      /\ Exists(d) => rows[d] \in Row
  BY <1>1, Served
<1>3. {"find", "check name", "write", "reread", "apply"} = CallSteps
  BY DEF CallSteps
<1>4. /\ Exists(d)' <=> Exists(d)
      /\ TaskRight(d)' <=> TaskRight(d)
  BY <1>1 DEF TaskRight, Exists
<1>5. /\ calls[q].alone => RowsDuring(q)
      /\ d \notin contested => calls[q].alone /\ TaskDuring(q)
  BY <1>1 DEF TasksWellKept
<1>6. CASE Answer(q) /\ (calls[q].step # "reread" \/ ~Exists(d)) /\ calls[q].step # "apply"
  <2>1. OnlyOwn(q, d) /\ q \notin BeingServed'
    BY <1>1, <1>6, CallMoves DEF OnlyOwn
  <2>2. d \notin contested => TaskRight(d)
    BY <1>0, <1>2, <1>3, <1>5, <1>6 DEF RowsDuring, TaskDuring, CallState
  <2>3. QED BY <1>1, <1>2, <1>4, <1>5, <2>1, <2>2, TasksAnswered
<1>7. ASSUME NEW step \in CallSteps, Goes(q, step) \/ \E row \in Row : GoesWith(q, row, step)
      PROVE  /\ OnlyOwn(q, d) /\ q \in BeingServed' /\ calls'[q].d = d
             /\ calls'[q].alone = calls[q].alone /\ calls'[q].op = calls[q].op
  BY <1>1, <1>7, CallMoves DEF OnlyOwn
<1>8. CASE Find(q) /\ Exists(d) /\ calls[q].op = "delete"
  <2>1. GoesWith(q, rows[d], "write") /\ rows[d] \in Row /\ calls[q].step = "find"
    BY <1>0, <1>2, <1>8 DEF Find, At
  <2>2. /\ OnlyOwn(q, d) /\ q \in BeingServed' /\ calls'[q].d = d
        /\ calls'[q].alone = calls[q].alone /\ calls'[q].op = calls[q].op
    BY <1>3, <1>7, <2>1
  <2>3. calls'[q].step = "write" /\ calls'[q].row = rows[d]
    BY <1>1, <1>3, <2>1, CallMoves
  <2>4. RowsDuring(q)'
    BY <1>1, <1>4, <1>8, <2>2, <2>3 DEF RowsDuring
  <2>5. d \notin contested => TaskDuring(q)'
    BY <1>0, <1>4, <1>5, <2>1, <2>2, <2>3 DEF TaskDuring
  <2>6. QED BY <1>1, <1>2, <2>2, <2>4, <2>5, TasksMoved
<1>9. ASSUME NEW step \in {"check name", "write"}, Goes(q, step),
             calls[q].step \in {"find", "check name"}, calls[q].alone => calls[q].op # "delete"
      PROVE  TasksWellKept'
  <2>1. /\ OnlyOwn(q, d) /\ q \in BeingServed' /\ calls'[q].d = d
        /\ calls'[q].alone = calls[q].alone /\ calls'[q].op = calls[q].op
    BY <1>3, <1>7, <1>9
  <2>2. calls'[q].step = step
    BY <1>1, <1>3, <1>9, CallMoves
  <2>3. calls[q].alone => RowsDuring(q)'
    BY <1>0, <1>9, <2>1, <2>2 DEF RowsDuring
  <2>4. d \notin contested => TaskDuring(q)'
    BY <1>0, <1>4, <1>5, <1>9, <2>1, <2>2 DEF TaskDuring
  <2>5. QED BY <1>1, <1>2, <2>1, <2>3, <2>4, TasksMoved
<1>10. CASE Find(q)
  <2>1. calls[q].step = "find" /\ (Answer(q) \/ Exists(d))
    BY <1>0, <1>10 DEF Find, At
  <2>2. CASE Exists(d) /\ calls[q].op # "delete"
    <3>1. PICK step \in {"check name", "write"} : Goes(q, step)
      BY <1>0, <1>10, <2>2 DEF Find, FirstLook
    <3>2. QED BY <1>9, <2>1, <2>2, <3>1
  <2>3. QED BY <1>6, <1>8, <1>10, <2>1, <2>2
<1>11. CASE CheckName(q)
  <2>1. calls[q].step = "check name" /\ (Answer(q) \/ Goes(q, "write"))
    BY <1>11 DEF CheckName, At
  <2>2. calls[q].alone => calls[q].op # "delete"
    BY <1>0, <1>5, <2>1 DEF RowsDuring
  <2>3. QED BY <1>6, <1>9, <2>1, <2>2
<1>12. CASE Reread(q)
  <2>1. calls[q].step = "reread"
    BY <1>12 DEF Reread, At
  <2>2. CASE ~Exists(d)
    BY <1>0, <1>6, <1>12, <2>1, <2>2 DEF Reread
  <2>3. CASE Exists(d)
    <3>1. GoesWith(q, rows[d], "apply") /\ rows[d] \in Row
      BY <1>2, <1>12, <2>3 DEF Reread
    <3>2. /\ OnlyOwn(q, d) /\ q \in BeingServed' /\ calls'[q].d = d
          /\ calls'[q].alone = calls[q].alone /\ calls'[q].op = calls[q].op
      BY <1>3, <1>7, <3>1
    <3>3. calls'[q].step = "apply" /\ calls'[q].row = rows[d]
      BY <1>1, <1>3, <3>1, CallMoves
    <3>4. calls[q].alone => RowsDuring(q)'
      BY <1>1, <1>5, <2>1, <3>1, <3>2, <3>3 DEF RowsDuring
    <3>5. d \notin contested => TaskDuring(q)'
      BY <1>1, <1>5, <2>1, <3>2, <3>3 DEF TaskDuring
    <3>6. QED BY <1>1, <1>2, <3>2, <3>4, <3>5, TasksMoved
  <2>4. QED BY <2>2, <2>3
<1>13. QED BY <1>10, <1>11, <1>12

\* The row of a definition is written or erased.
LEMMA TasksOnWrite ==
  ASSUME ScheduleInv, TasksWellKept, NEW q \in Changes, Write(q) \/ Erase(q)
  PROVE  TasksWellKept'
<1>0. PICK d : d = calls[q].d
  OBVIOUS
<1>1. /\ q \in BeingServed /\ calls[q].d = d /\ ScheduleTypeOK /\ calls[q].step = "write"
      /\ UNCHANGED <<cronTasks, server>>
      /\ rows \in [Defs -> Row \cup {Absent, Deleted}]
  BY <1>0 DEF Write, Erase, At, ScheduleInv, ScheduleTypeOK
<1>2. /\ calls[q] \in CallState /\ d \in Defs /\ calls[q].d = d
      /\ calls[q].patch \in Patches \cup {NoPatch}
      /\ Exists(d) => rows[d] \in Row
      /\ calls[q].op = "create" => DOMAIN calls[q].patch = Fields
  BY <1>1, Served DEF ScheduleInv, FormsAreWhole
<1>3. {"reread", "apply"} \subseteq CallSteps
  BY DEF CallSteps
<1>4. /\ calls[q].alone => RowsDuring(q)
      /\ d \notin contested => calls[q].alone /\ TaskRight(d)
  BY <1>1 DEF TasksWellKept, TaskDuring
<1>5. CASE Write(q) /\ Answer(q) /\ UNCHANGED <<rows, contested>>
  <2>1. OnlyOwn(q, d) /\ q \notin BeingServed'
    BY <1>1, <1>5, CallMoves DEF OnlyOwn
  <2>2. TaskRight(d)' <=> TaskRight(d)
    BY <1>1, <1>5 DEF TaskRight, Exists
  <2>3. QED BY <1>1, <1>2, <1>4, <1>5, <2>1, <2>2, TasksAnswered
<1>6. CASE /\ Write(q) /\ calls[q].op # "delete"
           /\ calls[q].op = "create" \/ Exists(d)
           /\ rows' = [rows EXCEPT ![d] = Patched(rows[d], calls[q].patch)]
           /\ contested' = IF Unscheduled(d) THEN contested \cup {d} ELSE contested
           /\ Goes(q, "reread")
  <2>1. rows[d] \in Row \/ DOMAIN calls[q].patch = Fields
    BY <1>2, <1>6
  <2>2. Patched(rows[d], calls[q].patch) \in Row
    BY <1>2, <2>1, PatchedIsRow
  <2>3. rows'[d] \in Row /\ \A x \in Defs \ {d} : rows'[x] = rows[x]
    BY <1>1, <1>2, <1>6, <2>2
  <2>4. Exists(d)'
    BY <2>3, AbsenceAssumption DEF Exists
  <2>5. /\ q \in BeingServed' /\ calls'[q].op = calls[q].op /\ calls'[q].d = d
        /\ calls'[q].alone = calls[q].alone /\ calls'[q].step = "reread"
        /\ \A p \in Changes \ {q} : calls'[p] = calls[p]
    BY <1>1, <1>3, <1>6, CallMoves
  <2>6. OnlyOwn(q, d)
    BY <1>1, <1>6, <2>3, <2>5 DEF OnlyOwn
  <2>7. RowsDuring(q)'
    BY <1>0, <1>6, <2>4, <2>5 DEF RowsDuring
  <2>8. ASSUME d \notin contested' PROVE d \notin contested /\ TaskDuring(q)'
    <3>1. d \notin contested /\ ~Unscheduled(d)
      BY <1>6, <2>8
    <3>2. rows'[d].kind = "other" => d \notin cronTasks
      BY <1>0, <1>4, <3>1 DEF Unscheduled, TaskRight
    <3>3. QED BY <1>1, <2>5, <3>1, <3>2 DEF TaskDuring
  <2>9. QED BY <1>1, <1>2, <2>5, <2>6, <2>7, <2>8, TasksMoved
<1>7. CASE Erase(q)
  <2>1. /\ calls[q].op = "delete" /\ rows' = [rows EXCEPT ![d] = Deleted]
        /\ Goes(q, "apply") /\ contested' = contested
    BY <1>0, <1>7 DEF Erase
  <2>2. rows'[d] = Deleted /\ \A x \in Defs \ {d} : rows'[x] = rows[x]
    BY <1>1, <1>2, <2>1
  <2>3. ~Exists(d)'
    BY <2>2 DEF Exists
  <2>4. /\ q \in BeingServed' /\ calls'[q].op = "delete" /\ calls'[q].d = d
        /\ calls'[q].alone = calls[q].alone /\ calls'[q].step = "apply"
        /\ calls'[q].row = calls[q].row
        /\ \A p \in Changes \ {q} : calls'[p] = calls[p]
    BY <1>1, <1>3, <2>1, CallMoves
  <2>5. OnlyOwn(q, d)
    BY <1>1, <2>1, <2>2, <2>4 DEF OnlyOwn
  <2>6. calls[q].alone => Exists(d) /\ calls[q].row = rows[d]
    BY <1>1, <1>4, <2>1 DEF RowsDuring
  <2>7. calls[q].alone => RowsDuring(q)'
    BY <1>0, <1>2, <2>3, <2>4, <2>6 DEF RowsDuring
  <2>8. ASSUME d \notin contested PROVE TaskDuring(q)'
    <3>1. calls[q].row.kind = "other" => d \notin cronTasks
      BY <1>4, <2>6, <2>8 DEF TaskRight, Scheduled
    <3>2. QED BY <1>1, <2>4, <3>1 DEF TaskDuring
  <2>9. QED BY <1>1, <1>2, <2>1, <2>4, <2>5, <2>7, <2>8, TasksMoved
<1>8. QED BY <1>0, <1>5, <1>6, <1>7 DEF Write

\* The task of the definition is set, or taken away, by the row the request saw.
LEMMA TasksOnApply ==
  ASSUME ScheduleInv, TasksWellKept, NEW q \in Changes, Apply(q)
  PROVE  TasksWellKept'
<1> DEFINE row == calls[q].row
<1>0. PICK d : d = calls[q].d
  OBVIOUS
<1>1. /\ q \in BeingServed /\ calls[q].d = d /\ ScheduleTypeOK /\ calls[q].step = "apply" /\ Answer(q)
      /\ UNCHANGED <<rows, server>>
      /\ cronTasks' = ScheduleAfter(calls[q].op, d, row)
      /\ contested' = IF calls[q].alone /\ row.kind # "other" THEN contested \ {d} ELSE contested
  BY <1>0 DEF Apply, At, Settles, ScheduleInv
<1>2. calls[q] \in CallState /\ d \in Defs
  BY <1>1, Served
<1>3. /\ calls[q].alone => RowsDuring(q)
      /\ d \notin contested => calls[q].alone /\ TaskDuring(q)
  BY <1>1 DEF TasksWellKept
<1>4. \A x \in Defs \ {d} : x \in cronTasks' <=> x \in cronTasks
  BY <1>1 DEF ScheduleAfter
<1>5. OnlyOwn(q, d) /\ q \notin BeingServed'
  BY <1>1, <1>4, CallMoves DEF OnlyOwn
<1>6. ASSUME d \notin contested' PROVE calls[q].alone /\ TaskRight(d)'
  <2>1. calls[q].alone
    BY <1>1, <1>3, <1>6
  <2>2. row \in Row /\ IF calls[q].op = "delete" THEN ~Exists(d) ELSE row = rows[d]
    BY <1>1, <1>3, <2>1 DEF RowsDuring
  <2>3. Exists(d) /\ Scheduled(rows[d]) <=> calls[q].op # "delete" /\ Scheduled(row)
    BY <2>2, AbsenceAssumption DEF Exists
  <2>4. d \in cronTasks' <=> calls[q].op # "delete" /\ Scheduled(row)
    <3>1. CASE row.kind = "other"
      <4>1. d \notin contested
        BY <1>1, <1>6, <3>1
      <4>2. d \notin cronTasks
        BY <1>1, <1>3, <3>1, <4>1 DEF TaskDuring
      <4>3. QED BY <1>1, <3>1, <4>2 DEF ScheduleAfter, Scheduled
    <3>2. CASE row.kind # "other"
      BY <1>1, <3>2 DEF ScheduleAfter
    <3>3. QED BY <3>1, <3>2
  <2>5. QED BY <1>1, <2>1, <2>3, <2>4 DEF TaskRight, Exists
<1>7. QED BY <1>1, <1>2, <1>5, <1>6, TasksAnswered

\* Every step leaves the tasks of uncontested definitions right.
LEMMA TasksStep ==
  ASSUME ScheduleInv, TasksWellKept, [ScheduleNext]_scheduleVars
  PROVE  TasksWellKept'
<1>1. CASE ServerStep
  <2>1. ASSUME NEW r \in Runs, (\E d \in Defs : Start(r, d)) \/ RunStep(r)
        PROVE  TasksWellKept'
    <3>1. UNCHANGED <<rows, cronTasks, calls, contested, server>>
      BY <2>1 DEF Start, RunStep, Begin, InsertRun, MarkStarted, Work, Finish, Touch, Catch, JobThrows
    <3>2. QED BY <3>1, TasksIdle
  <2>2. ASSUME NEW q \in Changes, Serve(q) PROVE TasksWellKept'
    BY <2>2, TasksOnLook, TasksOnWrite, TasksOnApply DEF Serve
  <2>3. QED BY <1>1, <2>1, <2>2, TasksAtBoot DEF ServerStep
<1>2. CASE UNCHANGED scheduleVars
  BY <1>2, TasksIdle DEF scheduleVars
<1>3. QED BY <1>1, <1>2, TasksOnAsk DEF ScheduleNext

\* A definition no request is about has a cron task just if its row is an enabled
\* schedule, whatever was created, changed and deleted, whatever requests overlapped
\* on it or on others and whatever crashes there were (registerAutomationSchedule
\* and its siblings in queue.ts); but for one that two requests were about at once,
\* or whose schedule was on and was made something else, and that neither a request
\* that was alone with it nor a restart has settled since.
THEOREM TasksAreThoseOfRows == ScheduleSpec => []TasksFollowRows
<1>1. ScheduleInit => TasksWellKept
  BY DEF ScheduleInit, TasksWellKept, BeingServed
<1>2. ScheduleInv /\ TasksWellKept /\ [ScheduleNext]_scheduleVars => TasksWellKept'
  BY TasksStep
<1>3. TasksWellKept => TasksFollowRows
  BY DEF TasksWellKept, TasksFollowRows, TaskRight
<1>4. QED BY <1>1, <1>2, <1>3, ScheduleInvariant, PTL DEF ScheduleSpec

-----------------------------------------------------------------------------
(* The walk of a run over its graph. *)
\* FoundBy, of a graph and a log.
EntryNodes(g) ==
  LET roots == {n \in DOMAIN g.kind : g.kind[n] = "start"}
  IN IF roots # {} THEN roots ELSE {n \in DOMAIN g.kind : ~ \E e \in g.edges : e.target = n}
Leads(g, entry, n) ==
  /\ entry.outcome # "throw"
  /\ \E e \in g.edges : /\ e.source = entry.node /\ e.target = n
                        /\ Follows(g.kind[entry.node], entry.outcome, e.label)
FoundIn(g, entries, n, k) == n \in EntryNodes(g) \/ \E i \in 1..k : Leads(g, entries[i], n)

Outcomes == {"success", "error", "true", "false", "throw"}

\* What is stored where, and when.
Entries == [node : nodeIds, outcome : Outcomes]
WalkTypeOK ==
  /\ graph \in Graphs
  /\ queue \in Seq(nodeIds) /\ visited \in SUBSET nodeIds
  /\ log \in Seq(Entries) /\ storedLog \in Seq(Entries)
  /\ walkAt \in WalkPoints
  /\ runStatus \in {"none", "queued", "running", "done", "failed"}
  /\ lastRun \in BOOLEAN /\ refused \in BOOLEAN
  /\ walkAt = "begin" => log = <<>> /\ visited = {} /\ storedLog = <<>> /\ runStatus = "none"

\* The log: what ran, in the order in which it was found; until the loop is left,
\* once each and without an error that ends the run.
Walking == walkAt \in {"begin", "loop", "caught"}
WalkedInOrder ==
  /\ \A i, j \in DOMAIN log : log[i].node = log[j].node /\ i < j =>
       i = j - 1 /\ j = Len(log) /\ log[j].outcome = "throw" /\ refused
  /\ \A i \in DOMAIN log :
       /\ FoundIn(graph, log, log[i].node, i - 1)
       /\ \A j \in 1..(i - 1), k \in 0..Len(log) :
            FoundIn(graph, log, log[i].node, k) => FoundIn(graph, log, log[j].node, k)
       /\ log[i].outcome = "throw" => i = Len(log) /\ ~Walking
  /\ Walking => /\ visited = {log[i].node : i \in DOMAIN log}
                /\ \A i, j \in DOMAIN log : log[i].node = log[j].node => i = j
  /\ walkAt = "caught" => log # <<>>

\* The queue: what was found, after what is logged and in the order of the finding.
\* A node may stand there twice; its first place is the one that counts.
QueuedInOrder ==
  walkAt = "loop" =>
    /\ \A p \in DOMAIN queue : FoundIn(graph, log, queue[p], Len(log))
    /\ \A i \in DOMAIN log, p \in DOMAIN queue, k \in 0..Len(log) :
         queue[p] \notin visited /\ FoundIn(graph, log, queue[p], k) => FoundIn(graph, log, log[i].node, k)
    /\ \A p, q \in DOMAIN queue, k \in 0..Len(log) :
         /\ p < q /\ queue[q] \notin visited /\ \A r \in 1..p : queue[r] # queue[q]
         /\ FoundIn(graph, log, queue[q], k)
         => FoundIn(graph, log, queue[p], k)

\* What was found has run or is queued, until the run is over.
NothingIsLeftOut ==
  /\ walkAt = "loop" =>
       \A n \in nodeIds : FoundIn(graph, log, n, Len(log)) => n \in visited \/ \E p \in DOMAIN queue : queue[p] = n
  /\ runStatus = "done" =>
       \A n \in nodeIds : FoundIn(graph, log, n, Len(log)) => \E i \in DOMAIN log : log[i].node = n

\* What the database has of the run.
StoredInTime ==
  /\ runStatus \in {"done", "failed"} => storedLog = log /\ walkAt \in {"touch", "outer", "over"}
  /\ runStatus = "done" => \A i \in DOMAIN log : log[i].outcome # "throw"
  /\ walkAt = "touch" => runStatus = "done"
  /\ walkAt = "over" => runStatus \in {"done", "failed"} \/ refused
  /\ lastRun => runStatus = "done" /\ walkAt = "over"
  /\ walkAt = "caught" => refused

WalkInv == WalkTypeOK /\ WalkedInOrder /\ QueuedInOrder /\ NothingIsLeftOut /\ StoredInTime

-----------------------------------------------------------------------------
LEMMA OrdersAreWhole ==
  ASSUME NEW S, IsFiniteSet(S), NEW order \in SetToSeqs(S)
  PROVE  /\ order \in Seq(S)
         /\ \A x \in S : \E k \in DOMAIN order : order[k] = x
<1> DEFINE D == 1..Cardinality(S)
<1>1. /\ Cardinality(S) \in Nat
      /\ order \in [D -> S]
      /\ \A i, j \in D : i # j => order[i] # order[j]
  BY FS_CardinalityType DEF SetToSeqs
<1>2. order \in Injection(D, S)
  BY <1>1 DEF Injection, IsInjective
<1>3. Cardinality(D) = Cardinality(S)
  BY <1>1, FS_Interval
<1>4. order \in Surjection(D, S)
  BY <1>2, <1>3, FS_Injection
<1>5. \A x \in S : \E k \in D : order[k] = x
  BY <1>4 DEF Surjection
<1>6. order \in Seq(S)
  BY <1>1, SeqDef
<1>. QED
  BY <1>1, <1>5, <1>6

LEMMA StartsAreNodes ==
  ASSUME WalkTypeOK
  PROVE  IsFiniteSet(nodeIds) /\ startNodes \in SUBSET nodeIds /\ IsFiniteSet(startNodes)
<1>1. IsFiniteSet(nodeIds) /\ startNodes \in SUBSET nodeIds
  BY GraphsAssumption DEF WalkTypeOK, nodeIds, startNodes
<1>. QED
  BY <1>1, FS_Subset

\* A tail that is continued.
LEMMA TailThen ==
  ASSUME NEW S, NEW s \in Seq(S), s # <<>>, NEW o \in Seq(S)
  PROVE  LET r == Tail(s) \o o
         IN /\ r \in Seq(S) /\ Len(r) = Len(s) - 1 + Len(o)
            /\ \A i \in 1..(Len(s) - 1) : r[i] = s[i + 1]
            /\ \A i \in Len(s)..Len(r) : r[i] = o[i - Len(s) + 1] /\ i - Len(s) + 1 \in 1..Len(o)
OBVIOUS

LEMMA FoundIsFoundIn ==
  /\ startNodes = EntryNodes(graph)
  /\ \A n, k : FoundBy(n, k) <=> FoundIn(graph, log, n, k)
BY DEF FoundBy, Selected, selectEdges, startNodes, nodeIds, FoundIn, Leads, EntryNodes

LEMMA FoundLater ==
  ASSUME NEW g, NEW entries, NEW entry, NEW S, entries \in Seq(S), entry \in S
  PROVE  /\ \A n, k : k \in 0..Len(entries) =>
              (FoundIn(g, Append(entries, entry), n, k) <=> FoundIn(g, entries, n, k))
         /\ \A n : FoundIn(g, Append(entries, entry), n, Len(entries) + 1) <=>
              FoundIn(g, entries, n, Len(entries)) \/ Leads(g, entry, n)
<1>1. /\ Len(entries) \in Nat
      /\ \A i \in 1..Len(entries) : Append(entries, entry)[i] = entries[i]
      /\ Append(entries, entry)[Len(entries) + 1] = entry
  OBVIOUS
<1>2. ASSUME NEW n, NEW k \in 0..Len(entries)
      PROVE  FoundIn(g, Append(entries, entry), n, k) <=> FoundIn(g, entries, n, k)
  <2>1. \A i \in 1..k : Append(entries, entry)[i] = entries[i]
    BY <1>1
  <2>. QED
    BY <2>1 DEF FoundIn
<1>3. ASSUME NEW n
      PROVE  FoundIn(g, Append(entries, entry), n, Len(entries) + 1) <=>
               FoundIn(g, entries, n, Len(entries)) \/ Leads(g, entry, n)
  <2>1. \A i : i \in 1..(Len(entries) + 1) <=> i \in 1..Len(entries) \/ i = Len(entries) + 1
    BY <1>1
  <2>. QED
    BY <2>1, <1>1 DEF FoundIn
<1>. QED
  BY <1>2, <1>3

LEMMA FoundStays ==
  ASSUME NEW g, NEW entries, NEW n, NEW k \in Nat, NEW m \in Nat, k <= m, FoundIn(g, entries, n, k)
  PROVE  FoundIn(g, entries, n, m)
<1>1. 1..k \subseteq 1..m
  OBVIOUS
<1>. QED
  BY <1>1 DEF FoundIn

LEMMA WalkInitInv == WalkInit => WalkInv
<1>. SUFFICES ASSUME WalkInit PROVE WalkInv
  OBVIOUS
<1>1. <<>> \in Seq(nodeIds) /\ <<>> \in Seq(Entries)
  OBVIOUS
<1>2. WalkTypeOK
  BY <1>1 DEF WalkInit, WalkTypeOK, WalkPoints
<1>3. WalkedInOrder
  BY DEF WalkInit, WalkedInOrder, Walking
<1>4. QueuedInOrder /\ NothingIsLeftOut /\ StoredInTime
  BY DEF WalkInit, QueuedInOrder, NothingIsLeftOut, StoredInTime
<1>. QED
  BY <1>2, <1>3, <1>4 DEF WalkInv

LEMMA StartWalkInv == ASSUME WalkInv, StartWalk PROVE WalkInv'
<1>1. PICK order \in SetToSeqs(startNodes) : queue' = order
  BY DEF StartWalk
<1>2. order \in Seq(startNodes) /\ \A x \in startNodes : \E k \in DOMAIN order : order[k] = x
  BY StartsAreNodes, OrdersAreWhole DEF WalkInv
<1>3. /\ log = <<>> /\ log' = <<>> /\ visited' = {} /\ graph' = graph /\ nodeIds' = nodeIds
      /\ storedLog = <<>> /\ storedLog' = <<>> /\ lastRun' = lastRun /\ lastRun = FALSE
  <2>1. walkAt = "begin" /\ graph' = graph /\ visited' = visited /\ log' = log /\ lastRun' = lastRun
        /\ storedLog' \in {log', storedLog}
    BY DEF StartWalk, Stores
  <2>2. log = <<>> /\ visited = {} /\ storedLog = <<>> /\ lastRun = FALSE
    BY <2>1 DEF WalkInv, WalkTypeOK, StoredInTime
  <2>. QED
    BY <2>1, <2>2 DEF nodeIds
<1>4. order \in Seq(nodeIds)
  BY <1>2, StartsAreNodes DEF WalkInv
<1>12. /\ walkAt' \in {"loop", "over"} /\ runStatus' \in {"none", "queued", "running", "failed"}
       /\ refused' \in BOOLEAN
       /\ walkAt' = "loop" => runStatus' = "running"
       /\ walkAt' = "over" => runStatus' = "failed" \/ refused'
       /\ runStatus' = "failed" => walkAt' = "over"
  BY DEF StartWalk, Stores, WalkInv, WalkTypeOK
<1>5. WalkTypeOK'
  BY <1>1, <1>3, <1>4, <1>12 DEF WalkInv, WalkTypeOK, WalkPoints
<1>6. startNodes = EntryNodes(graph)
  BY FoundIsFoundIn
<1>7. \A n, k : n \in startNodes => FoundIn(graph, log', n, k)
  BY <1>6 DEF FoundIn
<1>8. \A n : FoundIn(graph, log', n, 0) => n \in startNodes
  BY <1>6 DEF FoundIn
<1>9. WalkedInOrder'
  BY <1>3, <1>12 DEF WalkedInOrder
<1>10. QueuedInOrder'
  BY <1>1, <1>2, <1>3, <1>7 DEF QueuedInOrder
<1>11. NothingIsLeftOut'
  BY <1>1, <1>2, <1>3, <1>8, <1>12 DEF NothingIsLeftOut
<1>13. StoredInTime'
  BY <1>3, <1>12 DEF StoredInTime
<1>. QED
  BY <1>5, <1>9, <1>10, <1>11, <1>13 DEF WalkInv

LEMMA SkipVisitedInv == ASSUME WalkInv, SkipVisited PROVE WalkInv'
<1>1. /\ queue \in Seq(nodeIds) /\ queue # <<>> /\ queue' = Tail(queue) /\ queue[1] \in visited
      /\ log' = log /\ visited' = visited /\ graph' = graph /\ runStatus' = runStatus
      /\ nodeIds' = nodeIds /\ walkAt = "loop" /\ walkAt' = walkAt
      /\ storedLog' = storedLog /\ lastRun' = lastRun /\ refused' = refused
  BY DEF SkipVisited, WalkInv, WalkTypeOK, nodeIds
<1>3. /\ queue' \in Seq(nodeIds) /\ DOMAIN queue' = 1..(Len(queue) - 1)
      /\ Len(queue) \in Nat \ {0} /\ DOMAIN queue = 1..Len(queue)
      /\ \A p \in DOMAIN queue' : queue'[p] = queue[p + 1] /\ p + 1 \in DOMAIN queue
  BY <1>1
<1>4. WalkTypeOK'
  BY <1>1, <1>3 DEF WalkInv, WalkTypeOK, Entries
<1>5. WalkedInOrder'
  BY <1>1 DEF WalkInv, WalkedInOrder, Walking
<1>6. QueuedInOrder'
  <2>1. \A p \in DOMAIN queue' : FoundIn(graph, log, queue'[p], Len(log))
    BY <1>1, <1>3 DEF WalkInv, QueuedInOrder
  <2>2. \A i \in DOMAIN log, p \in DOMAIN queue', k \in 0..Len(log) :
          queue'[p] \notin visited /\ FoundIn(graph, log, queue'[p], k) => FoundIn(graph, log, log[i].node, k)
    BY <1>1, <1>3 DEF WalkInv, QueuedInOrder
  <2>3. ASSUME NEW p \in DOMAIN queue', NEW q \in DOMAIN queue', NEW k \in 0..Len(log), p < q,
               queue'[q] \notin visited, \A r \in 1..p : queue'[r] # queue'[q],
               FoundIn(graph, log, queue'[q], k)
        PROVE  FoundIn(graph, log, queue'[p], k)
    <3>0. p \in 1..(Len(queue) - 1) /\ q \in 1..(Len(queue) - 1)
      BY <1>3
    <3>1. \A r \in 1..(p + 1) : queue[r] # queue[q + 1]
      <4>. TAKE r \in 1..(p + 1)
      <4>1. CASE r = 1
        BY <4>1, <1>1, <1>3, <2>3
      <4>2. CASE r # 1
        <5>1. r - 1 \in 1..p /\ r - 1 \in 1..(Len(queue) - 1) /\ (r - 1) + 1 = r
          BY <4>2, <3>0, <1>3
        <5>2. queue'[r - 1] = queue[r]
          BY <5>1, <1>3
        <5>. QED
          BY <5>1, <5>2, <1>3, <2>3
      <4>. QED
        BY <4>1, <4>2
    <3>. QED
      BY <3>0, <3>1, <1>1, <1>3, <2>3 DEF WalkInv, QueuedInOrder
  <2>. QED
    BY <2>1, <2>2, <2>3, <1>1 DEF QueuedInOrder
<1>7. NothingIsLeftOut'
  <2>1. \A p \in DOMAIN queue : queue[p] \in visited \/ (p - 1 \in DOMAIN queue' /\ queue'[p - 1] = queue[p])
    BY <1>1, <1>3
  <2>. QED
    BY <2>1, <1>1 DEF WalkInv, NothingIsLeftOut
<1>8. StoredInTime'
  BY <1>1 DEF WalkInv, StoredInTime
<1>. QED
  BY <1>4, <1>5, <1>6, <1>7, <1>8 DEF WalkInv

\* Steps that end the run leave its graph and its log.
Ending ==
  /\ graph' = graph /\ queue' = queue /\ visited' = visited /\ log' = log
  /\ walkAt' \in {"touch", "outer", "over"} /\ storedLog' \in {storedLog, log}
  /\ refused' \in BOOLEAN /\ (refused => refused')
LEMMA EndingKeepsOrder ==
  ASSUME WalkInv, Ending
  PROVE  WalkedInOrder' /\ QueuedInOrder'
<1>1. log' = log /\ graph' = graph /\ walkAt' \notin {"begin", "loop", "caught"} /\ (refused => refused')
  BY DEF Ending
<1>2. \A i, j \in DOMAIN log : log[i].node = log[j].node /\ i < j =>
        i = j - 1 /\ j = Len(log) /\ log[j].outcome = "throw" /\ refused'
  BY <1>1 DEF WalkInv, WalkedInOrder
<1>3. \A i \in DOMAIN log :
        /\ FoundIn(graph, log, log[i].node, i - 1)
        /\ \A j \in 1..(i - 1), k \in 0..Len(log) :
             FoundIn(graph, log, log[i].node, k) => FoundIn(graph, log, log[j].node, k)
        /\ log[i].outcome = "throw" => i = Len(log)
  BY DEF WalkInv, WalkedInOrder
<1>. QED
  BY <1>1, <1>2, <1>3 DEF WalkedInOrder, QueuedInOrder, Walking

LEMMA FinishRunInv == ASSUME WalkInv, FinishRun PROVE WalkInv'
<1>1. /\ Ending /\ nodeIds' = nodeIds /\ lastRun' = lastRun
      /\ walkAt \in {"loop", "failed"} /\ (walkAt = "loop" => queue = <<>>)
      /\ \/ /\ storedLog' = log
            /\ \/ walkAt = "loop" /\ walkAt' = "touch" /\ runStatus' = "done"
               \/ walkAt = "failed" /\ walkAt' = "over" /\ runStatus' = "failed"
         \/ walkAt' = "outer" /\ storedLog' = storedLog /\ runStatus' = runStatus
  BY DEF FinishRun, Stores, Ending, nodeIds, WalkInv, WalkTypeOK
<1>2. graph' = graph /\ queue' = queue /\ visited' = visited /\ log' = log /\ refused' \in BOOLEAN
  BY <1>1 DEF Ending
<1>3. WalkTypeOK'
  BY <1>1, <1>2 DEF WalkInv, WalkTypeOK, WalkPoints, Entries
<1>4. WalkedInOrder' /\ QueuedInOrder'
  BY <1>1, EndingKeepsOrder
<1>5. runStatus \notin {"done", "failed"} /\ lastRun' = FALSE
  BY <1>1 DEF WalkInv, StoredInTime, WalkTypeOK
<1>6. CASE runStatus' = "done"
  <2>1. walkAt = "loop" /\ walkAt' = "touch" /\ queue = <<>> /\ storedLog' = log
    BY <1>1, <1>5, <1>6
  <2>2. visited = {log[i].node : i \in DOMAIN log}
    BY <2>1 DEF WalkInv, WalkedInOrder, Walking
  <2>3. \A n \in nodeIds : FoundIn(graph, log, n, Len(log)) => n \in visited
    BY <2>1 DEF WalkInv, NothingIsLeftOut
  <2>4. \A i \in DOMAIN log : log[i].outcome # "throw"
    BY <2>1 DEF WalkInv, WalkedInOrder, Walking
  <2>5. NothingIsLeftOut'
    BY <1>1, <1>2, <2>1, <2>2, <2>3 DEF NothingIsLeftOut
  <2>6. StoredInTime'
    BY <1>2, <1>5, <1>6, <2>1, <2>4 DEF StoredInTime
  <2>. QED
    BY <1>3, <1>4, <2>5, <2>6 DEF WalkInv
<1>7. CASE runStatus' # "done"
  <2>1. NothingIsLeftOut'
    BY <1>1, <1>7 DEF NothingIsLeftOut
  <2>2. StoredInTime'
    BY <1>1, <1>2, <1>5, <1>7 DEF StoredInTime
  <2>. QED
    BY <1>3, <1>4, <2>1, <2>2 DEF WalkInv
<1>. QED
  BY <1>6, <1>7

LEMMA TouchInv == ASSUME WalkInv, touchWorkflowLastRun PROVE WalkInv'
<1>1. /\ Ending /\ nodeIds' = nodeIds /\ runStatus' = runStatus /\ storedLog' = storedLog
      /\ walkAt = "touch"
      /\ \/ lastRun' = TRUE /\ walkAt' = "over"
         \/ lastRun' = lastRun /\ walkAt' = "outer"
  BY DEF touchWorkflowLastRun, Ending, nodeIds, WalkInv, WalkTypeOK
<1>2. graph' = graph /\ queue' = queue /\ visited' = visited /\ log' = log /\ refused' \in BOOLEAN
  BY <1>1 DEF Ending
<1>3. WalkTypeOK'
  BY <1>1, <1>2 DEF WalkInv, WalkTypeOK, WalkPoints, Entries
<1>4. WalkedInOrder' /\ QueuedInOrder'
  BY <1>1, EndingKeepsOrder
<1>5. NothingIsLeftOut'
  BY <1>1, <1>2 DEF WalkInv, NothingIsLeftOut
<1>6. StoredInTime'
  BY <1>1, <1>2 DEF WalkInv, WalkTypeOK, StoredInTime
<1>. QED
  BY <1>3, <1>4, <1>5, <1>6 DEF WalkInv

LEMMA GiveUpInv == ASSUME WalkInv, GiveUp PROVE WalkInv'
<1>1. /\ Ending /\ nodeIds' = nodeIds /\ lastRun' = lastRun
      /\ walkAt = "outer" /\ walkAt' = "over"
      /\ \/ storedLog' = log /\ runStatus' = "failed"
         \/ refused' = TRUE /\ storedLog' = storedLog /\ runStatus' = runStatus
  BY DEF GiveUp, Stores, Ending, nodeIds, WalkInv, WalkTypeOK
<1>2. graph' = graph /\ queue' = queue /\ visited' = visited /\ log' = log /\ refused' \in BOOLEAN
  BY <1>1 DEF Ending
<1>3. WalkTypeOK'
  BY <1>1, <1>2 DEF WalkInv, WalkTypeOK, WalkPoints, Entries
<1>4. WalkedInOrder' /\ QueuedInOrder'
  BY <1>1, EndingKeepsOrder
<1>5. NothingIsLeftOut'
  BY <1>1, <1>2 DEF WalkInv, NothingIsLeftOut
<1>6. StoredInTime'
  BY <1>1, <1>2 DEF WalkInv, WalkTypeOK, StoredInTime
<1>. QED
  BY <1>3, <1>4, <1>5, <1>6 DEF WalkInv

\* A turn of the loop, with the outcome and the order it queued in.
RunsNode(n, entry, order) ==
  /\ walkAt = "loop" /\ queue # <<>> /\ n = queue[1] /\ n \notin visited
  /\ entry \in Entries /\ entry.node = n /\ order \in Seq(nodeIds)
  /\ visited' = visited \cup {n} /\ log' = Append(log, entry) /\ graph' = graph /\ lastRun' = lastRun
  /\ refused' \in BOOLEAN /\ (refused => refused')
  /\ \/ runStatus' = "running" /\ storedLog' = log'
     \/ runStatus' = runStatus /\ storedLog' = storedLog
  /\ \/ walkAt' \in {"failed", "outer"} /\ queue' = Tail(queue)
     \/ walkAt' = "caught" /\ refused' /\ entry.outcome # "throw" /\ queue' = Tail(queue)
     \/ /\ walkAt' = "loop" /\ entry.outcome # "throw" /\ queue' = Tail(queue) \o order
        /\ \A k \in DOMAIN order : Leads(graph, entry, order[k])
        /\ \A x \in nodeIds \ (visited \cup {n}) :
             Leads(graph, entry, x) => \E k \in DOMAIN order : order[k] = x

LEMMA OutcomesAreNames == ASSUME NEW kind PROVE outcomes(kind) \subseteq Outcomes
<1>1. CASE kind = "start"
  BY <1>1 DEF outcomes, Outcomes
<1>2. CASE kind = "if_else"
  BY <1>2 DEF outcomes, Outcomes
<1>3. CASE kind = "guarded"
  BY <1>3 DEF outcomes, Outcomes
<1>4. CASE kind \notin {"start", "if_else", "guarded"}
  BY <1>4 DEF outcomes, Outcomes
<1>. QED
  BY <1>1, <1>2, <1>3, <1>4

LEMMA RunNodeRuns ==
  ASSUME WalkInv, runNode
  PROVE  \E n, entry, order : RunsNode(n, entry, order)
<1>1. PICK outcome \in outcomes(graph.kind[Head(queue)]) :
        /\ visited' = visited \cup {Head(queue)}
        /\ log' = Append(log, [node |-> Head(queue), outcome |-> outcome])
        /\ IF outcome = "throw"
             THEN Stores("running", "failed", "outer")
             ELSE Stores("running", "loop", "caught")
        /\ IF walkAt' = "loop"
             THEN \E order \in SetToSeqs(Reached(selectEdges(Head(queue), outcome)) \ {Head(queue)}) :
                    queue' = Enqueue(Tail(queue), order)
             ELSE queue' = Tail(queue)
  BY DEF runNode
<1>2. walkAt = "loop" /\ queue # <<>> /\ Head(queue) = queue[1] /\ Head(queue) \notin visited
      /\ graph' = graph /\ lastRun' = lastRun /\ Head(queue) \in nodeIds
  BY DEF runNode, WalkInv, WalkTypeOK
<1>3. outcome \in Outcomes
  BY OutcomesAreNames
<1>. DEFINE entry == [node |-> Head(queue), outcome |-> outcome]
<1>4. entry \in Entries /\ entry.node = Head(queue) /\ entry.outcome = outcome
  BY <1>2, <1>3 DEF Entries
<1>7. /\ refused' \in BOOLEAN /\ (refused => refused')
      /\ \/ runStatus' = "running" /\ storedLog' = log'
         \/ runStatus' = runStatus /\ storedLog' = storedLog
      /\ outcome = "throw" => walkAt' \in {"failed", "outer"}
      /\ outcome # "throw" => walkAt' = "loop" \/ (walkAt' = "caught" /\ refused')
  BY <1>1 DEF Stores, WalkInv, WalkTypeOK
<1>5. CASE walkAt' # "loop"
  <2>1. <<>> \in Seq(nodeIds)
    OBVIOUS
  <2>2. RunsNode(Head(queue), entry, <<>>)
    BY <1>1, <1>2, <1>4, <1>5, <1>7, <2>1 DEF RunsNode
  <2>. QED
    BY <2>2
<1>6. CASE walkAt' = "loop"
  <2>. DEFINE found == Reached(selectEdges(Head(queue), outcome)) \ {Head(queue)}
  <2>1. PICK order \in SetToSeqs(found) : queue' = Tail(queue) \o order
    BY <1>1, <1>6 DEF Enqueue
  <2>2. found \in SUBSET nodeIds /\ IsFiniteSet(found)
    <3>1. found \in SUBSET nodeIds
      BY DEF Reached
    <3>. QED
      BY <3>1, StartsAreNodes, FS_Subset DEF WalkInv
  <2>7. outcome # "throw"
    BY <1>6, <1>7
  <2>5. \A x : x \in found <=> /\ x \in nodeIds \ visited /\ x # Head(queue)
                             /\ Leads(graph, entry, x)
    BY <1>4, <2>7 DEF Reached, Leads, selectEdges
  <2>. HIDE DEF found
  <2>3. order \in Seq(found) /\ \A x \in found : \E k \in DOMAIN order : order[k] = x
    BY <2>1, <2>2, OrdersAreWhole
  <2>4. order \in Seq(nodeIds) /\ \A k \in DOMAIN order : order[k] \in found
    BY <2>2, <2>3
  <2>8. log' = Append(log, entry) /\ visited' = visited \cup {Head(queue)}
    BY <1>1
  <2>. HIDE DEF entry
  <2>9. /\ \A k \in DOMAIN order : Leads(graph, entry, order[k])
        /\ \A x \in nodeIds \ (visited \cup {Head(queue)}) :
             Leads(graph, entry, x) => \E k \in DOMAIN order : order[k] = x
    BY <2>3, <2>4, <2>5
  <2>6. RunsNode(Head(queue), entry, order)
    BY <1>2, <1>4, <1>6, <1>7, <2>1, <2>4, <2>7, <2>8, <2>9 DEF RunsNode
  <2>. QED
    BY <2>6
<1>. QED
  BY <1>5, <1>6

LEMMA RunNodeKeepsOrder ==
  ASSUME WalkInv, NEW n, NEW entry, NEW order, RunsNode(n, entry, order)
  PROVE  WalkTypeOK' /\ WalkedInOrder'
<1>. DEFINE L == Len(log)
<1>1. /\ log \in Seq(Entries) /\ L \in Nat /\ DOMAIN log = 1..L
      /\ log' \in Seq(Entries) /\ Len(log') = L + 1 /\ DOMAIN log' = 1..(L + 1)
      /\ \A i \in 1..L : log'[i] = log[i]
      /\ log'[L + 1] = entry /\ entry.node = n /\ graph' = graph /\ nodeIds' = nodeIds
      /\ Entries' = Entries /\ Walking
  BY DEF WalkInv, WalkTypeOK, RunsNode, nodeIds, Entries, Walking
<1>2. queue \in Seq(nodeIds) /\ queue # <<>> /\ n = queue[1] /\ n \in nodeIds /\ n \notin visited
      /\ 1 \in DOMAIN queue /\ walkAt = "loop"
  BY DEF WalkInv, WalkTypeOK, RunsNode
<1>3. WalkTypeOK'
  <2>1. queue' \in Seq(nodeIds)
    <3>1. CASE queue' = Tail(queue)
      BY <3>1, <1>2
    <3>2. CASE queue' = Tail(queue) \o order
      <4>1. order \in Seq(nodeIds)
        BY DEF RunsNode
      <4>. QED
        BY <3>2, <4>1, <1>2, TailThen
    <3>. QED
      BY <3>1, <3>2 DEF RunsNode
  <2>2. visited' \in SUBSET nodeIds
    BY <1>2 DEF WalkInv, WalkTypeOK, RunsNode
  <2>3. storedLog' \in Seq(Entries)
    BY <1>1 DEF WalkInv, WalkTypeOK, RunsNode
  <2>4. /\ runStatus' \in {"none", "queued", "running", "done", "failed"}
        /\ walkAt' \in WalkPoints /\ walkAt' # "begin"
        /\ lastRun' \in BOOLEAN /\ refused' \in BOOLEAN
    BY DEF WalkInv, WalkTypeOK, RunsNode, WalkPoints
  <2>5. graph' \in Graphs
    BY <1>1 DEF WalkInv, WalkTypeOK
  <2>. QED
    BY <1>1, <2>1, <2>2, <2>3, <2>4, <2>5 DEF WalkTypeOK
<1>4. /\ \A m, k : k \in 0..L => (FoundIn(graph, log', m, k) <=> FoundIn(graph, log, m, k))
      /\ \A m : FoundIn(graph, log', m, L + 1) <=> FoundIn(graph, log, m, L) \/ Leads(graph, entry, m)
  BY <1>1, FoundLater DEF RunsNode
<1>. HIDE DEF L
<1>5. visited' = {log'[i].node : i \in DOMAIN log'}
  <2>1. visited = {log[i].node : i \in 1..L} /\ visited' = visited \cup {n}
    BY <1>1 DEF WalkInv, WalkedInOrder, RunsNode
  <2>2. 1..(L + 1) = 1..L \cup {L + 1}
    BY <1>1
  <2>. QED
    BY <1>1, <2>1, <2>2
<1>6. \A i \in 1..L : log[i].node # n
  BY <1>1, <1>2 DEF WalkInv, WalkedInOrder
<1>7. \A i, j \in DOMAIN log' : log'[i].node = log'[j].node => i = j
  BY <1>1, <1>6 DEF WalkInv, WalkedInOrder
<1>8. \A i \in 1..L : FoundIn(graph, log, log[i].node, i - 1) /\ FoundIn(graph, log, log[i].node, L)
  <2>1. \A i \in 1..L : FoundIn(graph, log, log[i].node, i - 1)
    BY <1>1 DEF WalkInv, WalkedInOrder
  <2>. QED
    BY <1>1, <2>1, FoundStays
<1>9. ASSUME NEW i \in DOMAIN log'
      PROVE  /\ FoundIn(graph, log', log'[i].node, i - 1)
             /\ \A j \in 1..(i - 1), k \in 0..(L + 1) :
                  FoundIn(graph, log', log'[i].node, k) => FoundIn(graph, log', log'[j].node, k)
             /\ log'[i].outcome = "throw" => i = L + 1 /\ ~Walking'
  <2>1. CASE i \in 1..L
    <3>1. FoundIn(graph, log', log'[i].node, i - 1)
      BY <2>1, <1>1, <1>4, <1>8
    <3>2. ASSUME NEW j \in 1..(i - 1), NEW k \in 0..(L + 1), FoundIn(graph, log', log'[i].node, k)
          PROVE  FoundIn(graph, log', log'[j].node, k)
      <4>0. j \in 1..L /\ i \in DOMAIN log
        BY <2>1, <1>1
      <4>1. CASE k \in 0..L
        <5>1. FoundIn(graph, log, log[i].node, k)
          BY <2>1, <3>2, <1>1, <1>4, <4>1
        <5>2. FoundIn(graph, log, log[j].node, k)
          BY <5>1, <4>0, <4>1 DEF L, WalkInv, WalkedInOrder
        <5>. QED
          BY <5>2, <4>0, <4>1, <1>1, <1>4
      <4>2. CASE k = L + 1
        BY <4>0, <4>2, <1>1, <1>4, <1>8
      <4>. QED
        BY <4>1, <4>2, <1>1
    <3>3. log'[i].outcome # "throw"
      BY <2>1, <1>1 DEF WalkInv, WalkedInOrder, RunsNode
    <3>. QED
      BY <3>1, <3>2, <3>3
  <2>2. CASE i = L + 1
    <3>1. FoundIn(graph, log, n, L)
      BY <1>2 DEF L, WalkInv, QueuedInOrder
    <3>2. ASSUME NEW j \in 1..(i - 1), NEW k \in 0..(L + 1), FoundIn(graph, log', n, k)
          PROVE  FoundIn(graph, log', log'[j].node, k)
      <4>0. j \in 1..L
        BY <2>2, <1>1
      <4>1. CASE k \in 0..L
        <5>1. FoundIn(graph, log, n, k)
          BY <3>2, <1>4, <4>1
        <5>2. FoundIn(graph, log, log[j].node, k)
          BY <5>1, <4>0, <4>1, <1>1, <1>2 DEF L, WalkInv, QueuedInOrder
        <5>. QED
          BY <5>2, <4>0, <4>1, <1>1, <1>4
      <4>2. CASE k = L + 1
        BY <4>0, <4>2, <1>1, <1>4, <1>8
      <4>. QED
        BY <4>1, <4>2, <1>1
    <3>3. log'[i].outcome = "throw" => ~Walking'
      BY <2>2, <1>1 DEF RunsNode, Walking
    <3>4. FoundIn(graph, log', n, i - 1)
      BY <3>1, <2>2, <1>1, <1>4
    <3>. QED
      BY <3>2, <3>3, <3>4, <2>2, <1>1
  <2>. QED
    BY <2>1, <2>2, <1>1
<1>11. walkAt' = "caught" => log' # <<>>
  BY <1>1
<1>12. \A i, j \in DOMAIN log' : i < j => log'[i].node # log'[j].node
  BY <1>1, <1>7
<1>10. WalkedInOrder'
  BY <1>1, <1>5, <1>7, <1>9, <1>11, <1>12 DEF WalkedInOrder
<1>. QED
  BY <1>3, <1>10

LEMMA RunNodeKeepsQueue ==
  ASSUME WalkInv, NEW n, NEW entry, NEW order, RunsNode(n, entry, order), walkAt' = "loop"
  PROVE  QueuedInOrder' /\ NothingIsLeftOut'
<1>. DEFINE L == Len(log)  M == Len(queue) - 1
<1>1. /\ log \in Seq(Entries) /\ L \in Nat /\ DOMAIN log = 1..L
      /\ Len(log') = L + 1 /\ DOMAIN log' = 1..(L + 1)
      /\ \A i \in 1..L : log'[i] = log[i]
      /\ log'[L + 1] = entry /\ entry.node = n /\ graph' = graph /\ nodeIds' = nodeIds
      /\ visited' = visited \cup {n} /\ walkAt = "loop" /\ runStatus' # "done"
  BY DEF WalkInv, WalkTypeOK, StoredInTime, RunsNode, nodeIds
<1>2. /\ queue \in Seq(nodeIds) /\ M \in Nat /\ DOMAIN queue = 1..(M + 1)
      /\ n = queue[1] /\ n \in nodeIds /\ n \notin visited
  BY DEF WalkInv, WalkTypeOK, RunsNode
<1>3. /\ DOMAIN queue' = 1..Len(queue') /\ Len(queue') = M + Len(order) /\ Len(order) \in Nat
      /\ queue' \in Seq(nodeIds)
      /\ \A p \in 1..M : queue'[p] = queue[p + 1]
      /\ \A p \in (M + 1)..Len(queue') : queue'[p] = order[p - M] /\ p - M \in DOMAIN order
      /\ DOMAIN order = 1..Len(order)
  <2>1. order \in Seq(nodeIds) /\ queue' = Tail(queue) \o order /\ queue # <<>>
    BY DEF RunsNode
  <2>. QED
    BY <1>2, <2>1, TailThen
<1>4. /\ \A m, k : k \in 0..L => (FoundIn(graph, log', m, k) <=> FoundIn(graph, log, m, k))
      /\ \A m : FoundIn(graph, log', m, L + 1) <=> FoundIn(graph, log, m, L) \/ Leads(graph, entry, m)
  BY <1>1, FoundLater DEF RunsNode
<1>5. /\ \A k \in DOMAIN order : Leads(graph, entry, order[k])
      /\ \A x \in nodeIds \ (visited \cup {n}) :
             Leads(graph, entry, x) => \E k \in DOMAIN order : order[k] = x
  BY DEF RunsNode
<1>6. \A i \in 1..L : FoundIn(graph, log, log[i].node, L)
  <2>1. \A i \in 1..L : FoundIn(graph, log, log[i].node, i - 1)
    BY <1>1 DEF WalkInv, WalkedInOrder
  <2>. QED
    BY <1>1, <2>1, FoundStays
<1>7. /\ \A p \in DOMAIN queue : FoundIn(graph, log, queue[p], L)
      /\ \A i \in DOMAIN log, p \in DOMAIN queue, k \in 0..L :
           queue[p] \notin visited /\ FoundIn(graph, log, queue[p], k) => FoundIn(graph, log, log[i].node, k)
      /\ \A p, q \in DOMAIN queue, k \in 0..L :
           /\ p < q /\ queue[q] \notin visited /\ \A r \in 1..p : queue[r] # queue[q]
           /\ FoundIn(graph, log, queue[q], k)
           => FoundIn(graph, log, queue[p], k)
  BY <1>1 DEF WalkInv, QueuedInOrder
<1>8. \A x \in nodeIds : FoundIn(graph, log, x, L) => x \in visited \/ \E p \in DOMAIN queue : queue[p] = x
  BY <1>1 DEF WalkInv, NothingIsLeftOut
<1>9. \A x, k : k \in 0..L /\ FoundIn(graph, log, x, k) => FoundIn(graph, log, x, L)
  BY <1>1, FoundStays
<1>. HIDE DEF L, M
\* A node that was found and did not run stands behind the head, in its place.
<1>10. ASSUME NEW x \in nodeIds, x \notin visited', NEW k \in 0..L, FoundIn(graph, log, x, k)
       PROVE  \E q \in 1..M : queue[q + 1] = x
  <2>1. PICK p \in 1..(M + 1) : queue[p] = x
    BY <1>1, <1>2, <1>8, <1>9, <1>10
  <2>2. p # 1
    BY <2>1, <1>1, <1>2, <1>10
  <2>3. p - 1 \in 1..M /\ (p - 1) + 1 = p
    BY <2>1, <2>2, <1>2
  <2>. QED
    BY <2>1, <2>3
<1>11. \A p \in DOMAIN queue' : FoundIn(graph, log', queue'[p], L + 1)
  <2>. TAKE p \in DOMAIN queue'
  <2>1. CASE p \in 1..M
    <3>1. p + 1 \in DOMAIN queue /\ queue'[p] = queue[p + 1]
      BY <2>1, <1>2, <1>3
    <3>. QED
      BY <3>1, <1>4, <1>7
  <2>2. CASE p \in (M + 1)..Len(queue')
    BY <2>2, <1>3, <1>4, <1>5
  <2>. QED
    BY <2>1, <2>2, <1>2, <1>3
<1>12. ASSUME NEW i \in DOMAIN log', NEW p \in DOMAIN queue', NEW k \in 0..(L + 1),
              queue'[p] \notin visited', FoundIn(graph, log', queue'[p], k)
       PROVE  FoundIn(graph, log', log'[i].node, k)
  <2>0. queue'[p] \in nodeIds
    BY <1>3
  <2>1. CASE k \in 0..L
    <3>1. FoundIn(graph, log, queue'[p], k)
      BY <2>1, <1>4, <1>12
    <3>2. PICK q \in 1..M : queue[q + 1] = queue'[p]
      BY <3>1, <2>0, <2>1, <1>10, <1>12
    <3>3. q + 1 \in DOMAIN queue /\ 1 \in DOMAIN queue /\ 1 < q + 1 /\ queue[q + 1] \notin visited
          /\ queue[1] # queue[q + 1]
      BY <3>2, <1>1, <1>2, <1>12
    <3>4. CASE i \in 1..L
      BY <3>1, <3>2, <3>3, <3>4, <2>1, <1>1, <1>4, <1>7
    <3>5. CASE i = L + 1
      <4>1. \A r \in 1..1 : queue[r] # queue[q + 1]
        BY <3>3
      <4>2. FoundIn(graph, log, queue[1], k)
        BY <4>1, <3>1, <3>2, <3>3, <2>1, <1>7
      <4>. QED
        BY <4>2, <3>5, <2>1, <1>1, <1>2, <1>4
    <3>. QED
      BY <3>4, <3>5, <1>1
  <2>2. CASE k = L + 1
    <3>1. CASE i \in 1..L
      BY <3>1, <2>2, <1>1, <1>4, <1>6
    <3>2. CASE i = L + 1
      BY <3>2, <2>2, <1>1, <1>2, <1>4, <1>7
    <3>. QED
      BY <3>1, <3>2, <1>1
  <2>. QED
    BY <2>1, <2>2, <1>1
<1>13. ASSUME NEW p \in DOMAIN queue', NEW q \in DOMAIN queue', NEW k \in 0..(L + 1), p < q,
              queue'[q] \notin visited', \A r \in 1..p : queue'[r] # queue'[q],
              FoundIn(graph, log', queue'[q], k)
       PROVE  FoundIn(graph, log', queue'[p], k)
  <2>0. queue'[q] \in nodeIds /\ p \in 1..Len(queue') /\ q \in 1..Len(queue')
    BY <1>3
  <2>1. CASE k \in 0..L
    <3>1. FoundIn(graph, log, queue'[q], k)
      BY <2>1, <1>4, <1>13
    <3>2. PICK s \in 1..M : queue[s + 1] = queue'[q]
      BY <3>1, <2>0, <2>1, <1>10, <1>13
    <3>3. p < s
      BY <3>2, <2>0, <1>3, <1>2, <1>13
    <3>4. p \in 1..M /\ p + 1 \in DOMAIN queue /\ s + 1 \in DOMAIN queue /\ p + 1 < s + 1
      BY <3>3, <2>0, <1>2, <1>3
    <3>5. \A r \in 1..(p + 1) : queue[r] # queue[s + 1]
      <4>. TAKE r \in 1..(p + 1)
      <4>1. CASE r = 1
        BY <4>1, <3>2, <1>1, <1>2, <1>13
      <4>2. CASE r # 1
        <5>1. r - 1 \in 1..p /\ r - 1 \in 1..M /\ (r - 1) + 1 = r
          BY <4>2, <3>4, <2>0, <1>2
        <5>. QED
          BY <5>1, <3>2, <1>3, <1>13
      <4>. QED
        BY <4>1, <4>2
    <3>6. FoundIn(graph, log, queue[p + 1], k)
      BY <3>1, <3>2, <3>4, <3>5, <2>1, <1>1, <1>7, <1>13
    <3>. QED
      BY <3>4, <3>6, <2>1, <1>3, <1>4
  <2>2. CASE k = L + 1
    BY <2>2, <1>11
  <2>. QED
    BY <2>1, <2>2, <1>1
<1>14. QueuedInOrder'
  BY <1>1, <1>11, <1>12, <1>13 DEF QueuedInOrder
<1>15. ASSUME NEW x \in nodeIds, FoundIn(graph, log', x, L + 1), x \notin visited'
       PROVE  \E p \in DOMAIN queue' : queue'[p] = x
  <2>1. CASE FoundIn(graph, log, x, L)
    <3>1. PICK q \in 1..M : queue[q + 1] = x
      BY <2>1, <1>1, <1>10, <1>15
    <3>2. q \in DOMAIN queue' /\ queue'[q] = x
      BY <3>1, <1>2, <1>3
    <3>. QED
      BY <3>2
  <2>2. CASE Leads(graph, entry, x)
    <3>1. PICK k \in DOMAIN order : order[k] = x
      BY <2>2, <1>1, <1>5, <1>15
    <3>2. M + k \in (M + 1)..Len(queue') /\ M + k \in DOMAIN queue' /\ (M + k) - M = k
      BY <3>1, <1>2, <1>3
    <3>. QED
      BY <3>1, <3>2, <1>3
  <2>. QED
    BY <2>1, <2>2, <1>4, <1>15
<1>16. NothingIsLeftOut'
  BY <1>1, <1>15 DEF NothingIsLeftOut
<1>. QED
  BY <1>14, <1>16

LEMMA RunNodeInv == ASSUME WalkInv, runNode PROVE WalkInv'
<1>1. PICK n, entry, order : RunsNode(n, entry, order)
  BY RunNodeRuns
<1>2. WalkTypeOK' /\ WalkedInOrder'
  BY <1>1, RunNodeKeepsOrder
<1>3. /\ walkAt' \in {"failed", "outer", "caught", "loop"} /\ runStatus' \notin {"done", "failed"}
      /\ lastRun' = FALSE /\ (walkAt' = "caught" => refused')
  BY <1>1 DEF RunsNode, WalkInv, WalkTypeOK, StoredInTime
<1>4. StoredInTime'
  BY <1>3 DEF StoredInTime
<1>5. CASE walkAt' = "loop"
  BY <1>1, <1>2, <1>4, <1>5, RunNodeKeepsQueue DEF WalkInv
<1>6. CASE walkAt' # "loop"
  BY <1>2, <1>3, <1>4, <1>6 DEF WalkInv, QueuedInOrder, NothingIsLeftOut
<1>. QED
  BY <1>5, <1>6

\* The node whose entry was refused is logged again, behind that entry.
LEMMA LogAgainInv == ASSUME WalkInv, LogAgain PROVE WalkInv'
<1>. DEFINE L == Len(log)  n == log[L].node  entry == [node |-> n, outcome |-> "throw"]
<1>1. /\ walkAt = "caught" /\ graph' = graph /\ queue' = queue /\ visited' = visited /\ lastRun' = lastRun
      /\ log' = Append(log, [node |-> Last(log).node, outcome |-> "throw"])
      /\ walkAt' \in {"failed", "outer"} /\ refused' \in BOOLEAN /\ (refused => refused')
      /\ \/ runStatus' = "running" /\ storedLog' = log'
         \/ runStatus' = runStatus /\ storedLog' = storedLog
  BY DEF LogAgain, Stores, WalkInv, WalkTypeOK
<1>2. log # <<>> /\ log \in Seq(Entries) /\ runStatus \notin {"done", "failed"} /\ lastRun = FALSE
  BY <1>1 DEF WalkInv, WalkedInOrder, WalkTypeOK, StoredInTime
<1>3. L \in Nat /\ L >= 1 /\ DOMAIN log = 1..L /\ L \in DOMAIN log
  BY <1>2
<1>4. log[L] \in Entries
  BY <1>2, <1>3, ElementOfSeq
<1>5. n \in nodeIds /\ entry \in Entries /\ entry.node = n /\ entry.outcome = "throw"
  BY <1>4 DEF Entries, Outcomes
<1>6. log' = Append(log, entry)
  BY <1>1 DEF Last
<1>. HIDE DEF entry
<1>7. /\ log' \in Seq(Entries) /\ Len(log') = L + 1 /\ DOMAIN log' = 1..(L + 1)
      /\ \A i \in 1..L : log'[i] = log[i]
      /\ log'[L + 1] = entry
  BY <1>2, <1>3, <1>5, <1>6
<1>8. nodeIds' = nodeIds /\ Entries' = Entries
  BY <1>1 DEF nodeIds, Entries
<1>9. WalkTypeOK'
  BY <1>1, <1>7, <1>8 DEF WalkInv, WalkTypeOK, WalkPoints
<1>10. /\ \A m, k : k \in 0..L => (FoundIn(graph, log', m, k) <=> FoundIn(graph, log, m, k))
       /\ \A m : FoundIn(graph, log', m, L + 1) <=> FoundIn(graph, log, m, L) \/ Leads(graph, entry, m)
  BY <1>2, <1>5, <1>6, FoundLater
<1>11. \A m : FoundIn(graph, log', m, L + 1) <=> FoundIn(graph, log, m, L)
  BY <1>5, <1>10 DEF Leads
<1>12. refused
  BY <1>1 DEF WalkInv, StoredInTime
<1>13. \A i, j \in 1..L : log[i].node = log[j].node => i = j
  BY <1>1, <1>3 DEF WalkInv, WalkedInOrder, Walking
<1>14. \A i \in 1..L :
         /\ FoundIn(graph, log, log[i].node, i - 1)
         /\ \A j \in 1..(i - 1), k \in 0..L :
              FoundIn(graph, log, log[i].node, k) => FoundIn(graph, log, log[j].node, k)
         /\ log[i].outcome # "throw"
  BY <1>1, <1>3 DEF WalkInv, WalkedInOrder, Walking
<1>. HIDE DEF L, n
<1>15. ASSUME NEW i \in DOMAIN log', NEW j \in DOMAIN log', log'[i].node = log'[j].node, i < j
       PROVE  i = j - 1 /\ j = L + 1 /\ log'[j].outcome = "throw" /\ refused'
  <2>1. CASE j \in 1..L
    BY <2>1, <1>3, <1>7, <1>13, <1>15
  <2>2. CASE j = L + 1
    <3>1. i \in 1..L /\ log[i].node = n
      BY <2>2, <1>3, <1>5, <1>7, <1>15
    <3>2. i = L
      BY <3>1, <1>3, <1>13 DEF n
    <3>. QED
      BY <3>2, <2>2, <1>1, <1>3, <1>5, <1>7, <1>12
  <2>. QED
    BY <2>1, <2>2, <1>3, <1>7
<1>16. n = log[L].node
  BY DEF n
<1>17. \A i \in 1..L, k \in 0..(L + 1) :
         FoundIn(graph, log', log[i].node, k) <=>
           FoundIn(graph, log, log[i].node, IF k = L + 1 THEN L ELSE k)
  BY <1>3, <1>10, <1>11
<1>18. ASSUME NEW i \in 1..L
       PROVE  /\ FoundIn(graph, log', log[i].node, i - 1)
              /\ \A j \in 1..(i - 1), k \in 0..(L + 1) :
                   FoundIn(graph, log', log[i].node, k) => FoundIn(graph, log', log[j].node, k)
  <2>1. i - 1 \in 0..L
    BY <1>3
  <2>2. ASSUME NEW j \in 1..(i - 1), NEW k \in 0..(L + 1), FoundIn(graph, log', log[i].node, k)
        PROVE  FoundIn(graph, log', log[j].node, k)
    <3>. DEFINE h == IF k = L + 1 THEN L ELSE k
    <3>1. h \in 0..L /\ j \in 1..L
      BY <1>3
    <3>2. FoundIn(graph, log, log[i].node, h)
      BY <2>2, <1>17
    <3>3. FoundIn(graph, log, log[j].node, h)
      BY <3>1, <3>2, <1>14
    <3>. QED
      BY <3>1, <3>3, <1>17
  <2>. QED
    BY <2>1, <2>2, <1>10, <1>14
<1>19. ASSUME NEW i \in DOMAIN log'
       PROVE  /\ FoundIn(graph, log', log'[i].node, i - 1)
              /\ \A j \in 1..(i - 1), k \in 0..(L + 1) :
                   FoundIn(graph, log', log'[i].node, k) => FoundIn(graph, log', log'[j].node, k)
              /\ log'[i].outcome = "throw" => i = L + 1 /\ ~Walking'
  <2>0. ~Walking'
    BY <1>1 DEF Walking
  <2>1. CASE i \in 1..L
    <3>1. \A j \in 1..(i - 1) : j \in 1..L /\ log'[j] = log[j]
      BY <2>1, <1>3, <1>7
    <3>. QED
      BY <2>1, <3>1, <1>7, <1>14, <1>18
  <2>2. CASE i = L + 1
    <3>1. log'[i].node = n /\ L \in 1..L /\ L + 1 \in 0..(L + 1) /\ i - 1 = L
      BY <2>2, <1>3, <1>5, <1>7
    <3>2. FoundIn(graph, log, n, L - 1)
      BY <3>1, <1>14, <1>16
    <3>3. FoundIn(graph, log, n, L)
      BY <3>2, <1>3, FoundStays
    <3>4. FoundIn(graph, log', n, L)
      BY <3>1, <3>3, <1>10, <1>3
    <3>5. ASSUME NEW j \in 1..L, NEW k \in 0..(L + 1), FoundIn(graph, log', n, k)
          PROVE  FoundIn(graph, log', log'[j].node, k)
      <4>1. CASE j = L
        BY <4>1, <3>5, <1>7, <1>16
      <4>2. CASE j # L
        <5>1. j \in 1..(L - 1) /\ log'[j] = log[j]
          BY <4>2, <1>3, <1>7
        <5>. QED
          BY <5>1, <3>1, <3>5, <1>16, <1>18
      <4>. QED
        BY <4>1, <4>2
    <3>. QED
      BY <2>0, <2>2, <3>1, <3>4, <3>5
  <2>. QED
    BY <2>1, <2>2, <1>3, <1>7
<1>20. WalkedInOrder'
  BY <1>1, <1>7, <1>15, <1>19 DEF WalkedInOrder, Walking
<1>21. QueuedInOrder' /\ NothingIsLeftOut' /\ StoredInTime'
  BY <1>1, <1>2 DEF QueuedInOrder, NothingIsLeftOut, StoredInTime
<1>. QED
  BY <1>9, <1>20, <1>21 DEF WalkInv

LEMMA WalkIsOrdered == WalkSpec => []WalkInv
<1>1. ASSUME WalkInv, [WalkNext]_walkVars PROVE WalkInv'
  <2>1. CASE StartWalk
    BY <1>1, <2>1, StartWalkInv
  <2>2. CASE SkipVisited
    BY <1>1, <2>2, SkipVisitedInv
  <2>3. CASE runNode
    BY <1>1, <2>3, RunNodeInv
  <2>4. CASE LogAgain
    BY <1>1, <2>4, LogAgainInv
  <2>5. CASE FinishRun
    BY <1>1, <2>5, FinishRunInv
  <2>6. CASE touchWorkflowLastRun
    BY <1>1, <2>6, TouchInv
  <2>7. CASE GiveUp
    BY <1>1, <2>7, GiveUpInv
  <2>8. CASE UNCHANGED walkVars
    <3>1. UNCHANGED <<graph, queue, visited, log, storedLog, walkAt, runStatus, lastRun, refused>>
          /\ nodeIds' = nodeIds /\ Entries' = Entries /\ Walking' = Walking
      BY <2>8 DEF walkVars, nodeIds, Entries, Walking
    <3>2. WalkTypeOK /\ WalkedInOrder /\ QueuedInOrder /\ NothingIsLeftOut /\ StoredInTime
      BY <1>1 DEF WalkInv
    <3>3. WalkTypeOK'
      BY <3>1, <3>2 DEF WalkTypeOK
    <3>4. WalkedInOrder'
      BY <3>1, <3>2 DEF WalkedInOrder
    <3>5. QueuedInOrder'
      BY <3>1, <3>2 DEF QueuedInOrder
    <3>6. NothingIsLeftOut'
      BY <3>1, <3>2 DEF NothingIsLeftOut
    <3>7. StoredInTime'
      BY <3>1, <3>2 DEF StoredInTime
    <3>. QED
      BY <3>3, <3>4, <3>5, <3>6, <3>7 DEF WalkInv
  <2>. QED
    BY <1>1, <2>1, <2>2, <2>3, <2>4, <2>5, <2>6, <2>7, <2>8 DEF WalkNext
<1>. QED
  BY <1>1, WalkInitInv, PTL DEF WalkSpec

\* Every run's log is a breadth-first walk of what its outcomes selected (runWorkflowJob):
\* for every graph, whatever its nodes answer and whichever calls the database refuses.
THEOREM WalksAreLogged == WalkSpec => []LogIsAWalk
<1>1. WalkInv => LogIsAWalk
  <2>. SUFFICES ASSUME WalkInv PROVE LogIsAWalk
    OBVIOUS
  <2>1. \A n, k : FoundBy(n, k) <=> FoundIn(graph, log, n, k)
    BY FoundIsFoundIn
  <2>2. runStatus = "done" => \A n \in nodeIds : FoundBy(n, Len(log)) => \E i \in DOMAIN log : log[i].node = n
    BY <2>1 DEF WalkInv, NothingIsLeftOut
  <2>3. \A i \in DOMAIN log :
          /\ FoundBy(log[i].node, i - 1)
          /\ \A j \in 1..(i - 1), k \in 0..Len(log) :
               FoundBy(log[i].node, k) => FoundBy(log[j].node, k)
    BY <2>1 DEF WalkInv, WalkedInOrder
  <2>4. \A i \in DOMAIN log : log[i].outcome = "throw" => i = Len(log) /\ walkAt # "loop" /\ runStatus # "done"
    BY DEF WalkInv, WalkedInOrder, StoredInTime, Walking
  <2>5. \A i, j \in DOMAIN log : log[i].node = log[j].node /\ i < j =>
          i = j - 1 /\ j = Len(log) /\ log[j].outcome = "throw" /\ refused
    BY DEF WalkInv, WalkedInOrder
  <2>6. /\ runStatus \in {"done", "failed"} => storedLog = log
        /\ walkAt = "over" => runStatus \in {"done", "failed"} \/ refused
        /\ lastRun => runStatus = "done"
    BY DEF WalkInv, StoredInTime
  <2>. QED
    BY <2>2, <2>3, <2>4, <2>5, <2>6 DEF LogIsAWalk
<1>. QED
  BY <1>1, WalkIsOrdered, PTL

-----------------------------------------------------------------------------
(* The settings of a tenant, and the picker of the browser.                 *)
IsList(l) == \E S : l \in Seq(S)

(* What the variables are.                                                 *)
IsRow(w) == w = [f \in SettingFields |-> w[f]] /\ \A f \in SettingFields : IsSetting(w[f])
CallFields == {"at", "who", "field", "patch", "clears", "next", "seen", "stale", "tries"}
IsCall(c) ==
  /\ c = [f \in CallFields |-> c[f]]
  /\ c.who \in Customers /\ c.stale \in BOOLEAN /\ c.clears \in BOOLEAN
  /\ IsSetting(c.patch) /\ IsSetting(c.next) /\ IsRow(c.seen)
SourceNames == {o.patch.name : o \in {p \in Offers : p.field = "source"}}

RowsFit ==
  /\ settingsRow = [t \in Customers |-> settingsRow[t]] /\ kept = [t \in Customers |-> kept[t]]
  /\ \A t \in Customers : IsRow(settingsRow[t]) /\ IsRow(kept[t])
  /\ lostFields = [t \in Customers |-> lostFields[t]]
CallsFit ==
  /\ call = [r \in SettingCalls |-> call[r]]
  /\ \A r \in SettingCalls : IsCall(call[r])
ProcessFits ==
  /\ entryOf = [n \in SourceNames |-> entryOf[n]]
  /\ IsSetting(inUse)
  /\ tracer = [over |-> tracer.over, exporter |-> tracer.exporter]
  /\ IsSetting(tracer.over) /\ IsSetting(tracer.exporter)
BrowserFits ==
  /\ IsList(listing)
  /\ IsSetting(provider)
  /\ catalog \in {<<>>, CatalogModels} /\ known \in {<<>>, CatalogModels}
SettingsFit == RowsFit /\ CallsFit /\ ProcessFits /\ BrowserFits

IsBusy(c, f) == c.at # "none" /\ c.field = f

(* What a request of each kind may be at, and what it carries there.       *)
CallKnown(c) ==
  /\ c.at \in {"entry"} => c.field = "source"
  /\ c.at = "flush" => c.field = "tracing"
  /\ c.at = "resolve" => c.field = "run"
  /\ c.at \in {"read", "write"} => c.field \in SettingFields /\ c.next.name # "unset"
  /\ c.field \in SettingFields => c.patch.name # "unset"
  /\ c.field = "source" =>
       /\ c.who = Home
       /\ IF c.clears THEN c.next = Empty ELSE c.patch.name \in SourceNames
       /\ c.clears => c.at \notin {"load", "entry"}
       /\ ~c.clears /\ c.at \in {"entry", "read", "write"} => c.next.name \in SourceNames
CallsKnown == \A r \in SettingCalls : CallKnown(call[r])

(* A write that no other overtook has read the row as it is.               *)
SeenIsRow == \A r \in SettingCalls :
  CallAt(r, "write") /\ ~call[r].stale => call[r].seen = settingsRow[call[r].who]

(* A run between putting its settings into use and taking its model.       *)
UseIsResolved == \A r \in SettingCalls :
  CallAt(r, "resolve") /\ ~call[r].stale => inUse = call[r].next

OneAtMost(f) == \A r, q \in Busy : call[r].field = f /\ call[q].field = f => r = q

(* A save of Langfuse has noted its settings and the exporter follows.     *)
TracerIsFollowed ==
  "tracing" \notin unsure =>
    /\ OneAtMost("tracing")
    /\ \A r \in SettingCalls : CallAt(r, "flush") => call[r].next = resolveLangfuseConfig(tracer.over)
    /\ \/ \E r \in SettingCalls : CallAt(r, "flush")
       \/ tracer.exporter = resolveLangfuseConfig(tracer.over)

(* The entry is written before the row is.                                 *)
EntryWritten(c) == c.field = "source" /\ c.at \in {"read", "write"}
EntryIsFollowed ==
  "source" \notin unsure =>
    /\ OneAtMost("source")
    /\ \A r \in SettingCalls :
         EntryWritten(call[r]) /\ ~call[r].clears => entryOf[call[r].next.name] = call[r].next
    /\ LET s == settingsRow[Home].source
       IN  \/ "source" \in lostFields[Home] \/ s \in {Unset, Empty} \/ entryOf[s.name] = s
           \/ \E r \in SettingCalls : EntryWritten(call[r])

ServerFollows ==
  /\ CallsKnown /\ FieldsStay /\ SeenIsRow /\ UseIsResolved /\ RunsUseTheirModel
  /\ TracerIsFollowed /\ EntryIsFollowed

(* The browser: its requests, and unless requests overlapped or failed     *)
(* one save at a time, with nothing beside it.                             *)
HomeModel == settingsRow[Home].model
CallsAreOwn == \A r \in SettingCalls : call[r].at # "none" =>
  call[r].field \in {"model", "get", "list"} /\ call[r].who = Home
SaveIsAlone == \A r, q \in SettingCalls :
  IsBusy(call[r], "model") /\ call[q].at # "none" => r = q
AnswersAreTrue == \A r \in SettingCalls : CallAt(r, "answer") =>
  /\ call[r].field = "get" => call[r].next = View(HomeModel)
  /\ call[r].field = "list" => call[r].next.on = (catalog # <<>>)
Saved(r) == call[r].field = "model" /\ call[r].at \in {"apply", "answer"}
SavesAreStored == \A r \in SettingCalls : Saved(r) => call[r].next = HomeModel

(* What it knows of the settings is true, or asked for.                    *)
Asks == \E r \in SettingCalls : IsBusy(call[r], "get")
Unanswered == \E r \in SettingCalls : Saved(r)
ProviderIsTrue ==
  \/ provider = Empty \/ provider = View(HomeModel) \/ Asks \/ unusable \/ (catalog = <<>> /\ Unanswered)

(* The chosen model is the one saved last, if runs can use it, or one of the *)
(* catalog.                                                                *)
Chosen(name) == active = SlugOf[name] /\ In(active, listing) /\ active \notin offIds
ChoiceIsTrue ==
  \/ Unanswered \/ ~isModelProviderConfigured(HomeModel) \/ Chosen(HomeModel.name)
  \/ listing = <<>> /\ active = "blank" /\ provider.secret # "set"
ChoiceIsOffered == (known # <<>> /\ ~byHand) => In(active, known)

BrowserKnows ==
  /\ SaveIsAlone /\ AnswersAreTrue /\ SavesAreStored
  /\ known = catalog =>
       /\ ProviderIsTrue
       /\ catalog = <<>> => byHand \/ ChoiceIsTrue
BrowserFollows ==
  about = "browser" => CallsAreOwn /\ ChoiceIsOffered /\ (confused \/ BrowserKnows)

SettingsInv == SettingsFit /\ ServerFollows /\ BrowserFollows

-----------------------------------------------------------------------------
LEMMA LeastOfNats ==
  ASSUME NEW T \in SUBSET Nat, T # {}
  PROVE  \E x \in T : \A y \in T : x <= y
<1> DEFINE R == OpToRel(<, Nat)
<1>1. IsWellFoundedOn(R, Nat)
  BY NatLessThanWellFounded
<1>2. \A x, y \in Nat : y < x => <<y, x>> \in R
  BY DEF OpToRel
<1> HIDE DEF R
<1>3. \E x \in T : \A y \in T : ~ (<<y, x>> \in R)
  BY <1>1, WFMin
<1>4. PICK x \in T : \A y \in T : ~ (<<y, x>> \in R)
  BY <1>3
<1>5. ASSUME NEW y \in T PROVE x <= y
  <2>1. x \in Nat /\ y \in Nat /\ ~(y < x)
    BY <1>2, <1>4
  <2> QED BY <2>1
<1> QED BY <1>4, <1>5

LEMMA InductionOnNats ==
  ASSUME NEW S, 0 \in S, \A n \in Nat : n \in S => n + 1 \in S
  PROVE  Nat \subseteq S
<1> SUFFICES ASSUME Nat \ S # {} PROVE FALSE
  OBVIOUS
<1>1. PICK x \in Nat \ S : \A y \in Nat \ S : x <= y
  BY LeastOfNats
<1>2. x # 0 /\ x - 1 \in Nat
  BY <1>1
<1>3. x - 1 \in S
  BY <1>1, <1>2
<1> QED BY <1>1, <1>2, <1>3

(* What is left of s up to each place.                                     *)
Left(f, s, gone, n) ==
  f = [i \in 0..n |->
        IF i = 0 THEN <<>> ELSE IF s[i] \in gone THEN f[i - 1] ELSE Append(f[i - 1], s[i])]

LEMMA LeftExists ==
  ASSUME NEW s, NEW gone, NEW n \in Nat
  PROVE  \E f : Left(f, s, gone, n)
<1> DEFINE T == {m \in Nat : \E f : Left(f, s, gone, m)}
<1>1. 0 \in T
  <2> DEFINE f == [i \in 0..0 |-> <<>>]
  <2>1. Left(f, s, gone, 0)
    BY DEF Left
  <2> HIDE DEF f
  <2> QED BY <2>1
<1>2. ASSUME NEW m \in Nat, m \in T
      PROVE  m + 1 \in T
  <2>1. PICK f : Left(f, s, gone, m)
    BY <1>2
  <2> DEFINE g == [i \in 0..(m + 1) |->
                    IF i <= m THEN f[i]
                    ELSE IF s[i] \in gone THEN f[i - 1] ELSE Append(f[i - 1], s[i])]
  <2>2. \A i \in 0..m : g[i] = f[i]
    OBVIOUS
  <2>3. \A i \in 0..(m + 1) :
          g[i] = IF i = 0 THEN <<>> ELSE IF s[i] \in gone THEN g[i - 1] ELSE Append(g[i - 1], s[i])
    <3> TAKE i \in 0..(m + 1)
    <3>1. CASE i = 0
      BY <2>1, <3>1 DEF Left
    <3>2. CASE i # 0 /\ i <= m
      <4>1. i - 1 \in 0..m /\ i \in 0..m
        BY <3>2
      <4>2. g[i] = f[i] /\ g[i - 1] = f[i - 1]
        BY <2>2, <4>1
      <4>3. f[i] = IF i = 0 THEN <<>> ELSE IF s[i] \in gone THEN f[i - 1] ELSE Append(f[i - 1], s[i])
        BY <2>1, <4>1 DEF Left
      <4> HIDE DEF g
      <4> QED BY <4>2, <4>3
    <3>3. CASE i = m + 1
      <4>1. i - 1 \in 0..m /\ ~(i <= m) /\ i # 0
        BY <3>3
      <4> QED BY <4>1
    <3> QED BY <3>1, <3>2, <3>3
  <2>4. Left(g, s, gone, m + 1)
    BY <2>3 DEF Left
  <2> HIDE DEF g
  <2> QED BY <2>4
<1> HIDE DEF T
<1>3. Nat \subseteq T
  BY <1>1, <1>2, InductionOnNats
<1> QED BY <1>3 DEF T

LEMMA WithoutIsLeft ==
  ASSUME NEW S, NEW s \in Seq(S), NEW gone
  PROVE  \E f : Left(f, s, gone, Len(s)) /\ Remaining(s, gone) = f[Len(s)]
<1>1. PICK n \in Nat : n = Len(s)
  OBVIOUS
<1>2. \E f : Left(f, s, gone, n)
  BY LeftExists
<1> QED BY <1>1, <1>2 DEF Left, Remaining

LEMMA AppendedIsIn ==
  ASSUME NEW S, NEW l \in Seq(S), NEW id \in S
  PROVE  \A x : In(x, Append(l, id)) <=> In(x, l) \/ x = id
<1>1. PICK n \in Nat : n = Len(l)
  OBVIOUS
<1>2. /\ DOMAIN Append(l, id) = 1..(n + 1) /\ DOMAIN l = 1..n
      /\ \A i \in 1..n : Append(l, id)[i] = l[i]
      /\ Append(l, id)[n + 1] = id
  BY <1>1
<1>3. \A i \in 1..(n + 1) : i \in 1..n \/ i = n + 1
  OBVIOUS
<1>4. n + 1 \in 1..(n + 1) /\ \A i \in 1..n : i \in 1..(n + 1)
  OBVIOUS
<1> QED BY <1>2, <1>3, <1>4 DEF In

(* The list without some of its elements has the others.                   *)
LEMMA WithoutHasOthers ==
  ASSUME NEW S, NEW s \in Seq(S), NEW gone
  PROVE  /\ Remaining(s, gone) \in Seq(S)
         /\ \A x : In(x, Remaining(s, gone)) <=> In(x, s) /\ x \notin gone
<1>1. PICK f : Left(f, s, gone, Len(s)) /\ Remaining(s, gone) = f[Len(s)]
  BY WithoutIsLeft
<1>2. PICK n \in Nat : n = Len(s)
  OBVIOUS
<1>3. /\ \A i \in 1..n : s[i] \in S
      /\ DOMAIN s = 1..n
  BY <1>2
<1>4. /\ f[0] = <<>>
      /\ \A i \in 1..n : f[i] = IF s[i] \in gone THEN f[i - 1] ELSE Append(f[i - 1], s[i])
  <2>1. \A i \in 0..n :
          f[i] = IF i = 0 THEN <<>> ELSE IF s[i] \in gone THEN f[i - 1] ELSE Append(f[i - 1], s[i])
    <3>1. Left(f, s, gone, n)
      BY <1>1, <1>2
    <3> QED BY <3>1, Zenon DEF Left
  <2>2. 0 \in 0..n /\ \A i \in 1..n : i \in 0..n /\ i # 0
    OBVIOUS
  <2> QED BY <2>1, <2>2
<1> DEFINE Has(m) == /\ f[m] \in Seq(S)
                     /\ \A x : In(x, f[m]) <=> (\E i \in 1..m : s[i] = x) /\ x \notin gone
           T == {m \in Nat : m <= n => Has(m)}
<1>5. 0 \in T
  <2>1. <<>> \in Seq(S)
    OBVIOUS
  <2>2. \A x : ~In(x, <<>>)
    BY DEF In
  <2>3. \A x : ~(\E i \in 1..0 : s[i] = x)
    OBVIOUS
  <2>4. Has(0)
    BY <1>4, <2>1, <2>2, <2>3
  <2> HIDE DEF Has
  <2> QED BY <2>4
<1>6. ASSUME NEW m \in Nat, m \in T
      PROVE  m + 1 \in T
  <2> SUFFICES ASSUME m + 1 <= n PROVE Has(m + 1)
    OBVIOUS
  <2>1. m + 1 \in 1..n /\ m <= n /\ (m + 1) - 1 = m
    BY <1>2
  <2>2. f[m + 1] = IF s[m + 1] \in gone THEN f[m] ELSE Append(f[m], s[m + 1])
    BY <1>4, <2>1
  <2>3. Has(m)
    BY <1>6, <2>1
  <2>4. \A x : (\E i \in 1..(m + 1) : s[i] = x) <=> ((\E i \in 1..m : s[i] = x) \/ s[m + 1] = x)
    <3>1. \A i \in 1..(m + 1) : i \in 1..m \/ i = m + 1
      OBVIOUS
    <3>2. \A i \in 1..m : i \in 1..(m + 1)
      OBVIOUS
    <3>3. m + 1 \in 1..(m + 1)
      OBVIOUS
    <3> QED BY <3>1, <3>2, <3>3
  <2>5. CASE s[m + 1] \in gone
    BY <2>2, <2>3, <2>4, <2>5
  <2>6. CASE s[m + 1] \notin gone
    <3>1. s[m + 1] \in S
      BY <1>3, <2>1
    <3>2. f[m + 1] = Append(f[m], s[m + 1]) /\ f[m] \in Seq(S)
      BY <2>2, <2>3, <2>6
    <3>3. f[m + 1] \in Seq(S)
      BY <3>1, <3>2
    <3>4. \A x : In(x, f[m + 1]) <=> In(x, f[m]) \/ x = s[m + 1]
      BY <3>1, <3>2, AppendedIsIn
    <3> QED BY <2>3, <2>4, <2>6, <3>3, <3>4
  <2> QED BY <2>5, <2>6
<1> HIDE DEF T
<1>7. n \in T
  BY <1>5, <1>6, InductionOnNats
<1>8. Has(n)
  BY <1>7 DEF T
<1> QED BY <1>1, <1>2, <1>3, <1>8 DEF In

-----------------------------------------------------------------------------
(* Lists of ids.                                                           *)
LEMMA ListWithout ==
  ASSUME NEW l, IsList(l), NEW gone
  PROVE  IsList(Remaining(l, gone)) /\ \A x : In(x, Remaining(l, gone)) <=> In(x, l) /\ x \notin gone
<1>1. PICK S : l \in Seq(S)
  BY DEF IsList
<1> QED BY <1>1, WithoutHasOthers DEF IsList

LEMMA ListAppended ==
  ASSUME NEW l, IsList(l), NEW id
  PROVE  IsList(Append(l, id)) /\ \A x : In(x, Append(l, id)) <=> In(x, l) \/ x = id
<1>1. PICK S : l \in Seq(S)
  BY DEF IsList
<1> DEFINE T == S \cup {id}
<1>2. l \in Seq(T) /\ id \in T
  BY <1>1
<1> HIDE DEF T
<1>3. Append(l, id) \in Seq(T)
  BY <1>2
<1> QED BY <1>2, <1>3, AppendedIsIn DEF IsList

LEMMA ListHasHead ==
  ASSUME NEW l, IsList(l), l # <<>>
  PROVE  In(Head(l), l)
<1>1. PICK S : l \in Seq(S)
  BY DEF IsList
<1>2. 1 \in DOMAIN l /\ Head(l) = l[1]
  BY <1>1
<1> QED BY <1>2 DEF In

LEMMA ActiveIsIn ==
  ASSUME NEW l, IsList(l), NEW id
  PROVE  /\ l = <<>> \/ In(ActiveIn(l, id), l)
         /\ In(id, l) => ActiveIn(l, id) = id
         /\ l = <<>> => ActiveIn(l, id) = id
BY ListHasHead DEF ActiveIn

LEMMA NothingIsInNone == \A x : ~In(x, <<>>)
BY DEF In

-----------------------------------------------------------------------------
(* Requests: one or two of them change, the others stay.                   *)
SameButAt(d, c) ==
  /\ d.who = c.who /\ d.field = c.field /\ d.clears = c.clears /\ d.tries = c.tries
SamePatch(d, c) == d.patch = c.patch
OneCall(r, d) ==
  /\ call' = [q \in SettingCalls |-> call'[q]] /\ call'[r] = d
  /\ \A q \in SettingCalls \ {r} : call'[q] = call[q]

LEMMA NoCallFits ==
  /\ IsCall(NoCall)
  /\ NoCall.at = "none" /\ NoCall.who = Home /\ NoCall.field = "none" /\ ~NoCall.stale
BY HomeAssumption DEF NoCall, IsCall, CallFields, IsRow, IsSetting, Setting, Empty, Unset

LEMMA NoCallKnown == CallKnown(NoCall)
BY DEF NoCall, CallKnown, SettingFields

LEMMA SettingFits ==
  ASSUME NEW n, NEW k, NEW o
  PROVE  /\ IsSetting(Setting(n, k, o))
         /\ Setting(n, k, o).name = n /\ Setting(n, k, o).secret = k /\ Setting(n, k, o).on = o
BY DEF IsSetting, Setting

LEMMA EmptyFits ==
  /\ IsSetting(Empty) /\ IsSetting(Unset)
  /\ Empty.name = "blank" /\ Empty.secret = "blank" /\ Unset.name = "unset" /\ Unset.secret = "blank"
BY DEF IsSetting, Empty, Unset, Setting

LEMMA CallAtChanged ==
  ASSUME NEW c, IsCall(c), NEW x
  PROVE  LET d == [c EXCEPT !.at = x]
         IN  /\ IsCall(d) /\ d.at = x /\ SameButAt(d, c) /\ SamePatch(d, c)
             /\ d.next = c.next /\ d.seen = c.seen /\ d.stale = c.stale
BY DEF IsCall, CallFields, SameButAt, SamePatch

LEMMA CallNextChanged ==
  ASSUME NEW c, IsCall(c), NEW x, NEW y, IsSetting(y)
  PROVE  LET d == [c EXCEPT !.next = y, !.at = x]
         IN  /\ IsCall(d) /\ d.at = x /\ SameButAt(d, c) /\ SamePatch(d, c)
             /\ d.next = y /\ d.seen = c.seen /\ d.stale = c.stale
BY DEF IsCall, CallFields, SameButAt, SamePatch

LEMMA CallSeenChanged ==
  ASSUME NEW c, IsCall(c), NEW x, NEW w, IsRow(w)
  PROVE  LET d == [c EXCEPT !.at = x, !.seen = w, !.stale = FALSE]
         IN  /\ IsCall(d) /\ d.at = x /\ SameButAt(d, c) /\ SamePatch(d, c)
             /\ d.next = c.next /\ d.seen = w /\ ~d.stale
BY DEF IsCall, CallFields, SameButAt, SamePatch

LEMMA CallTriesChanged ==
  ASSUME NEW c, IsCall(c), NEW x, NEW n
  PROVE  LET d == [c EXCEPT !.at = x, !.tries = n]
         IN  /\ IsCall(d) /\ d.at = x /\ d.who = c.who /\ d.field = c.field /\ d.clears = c.clears
             /\ SamePatch(d, c) /\ d.next = c.next /\ d.seen = c.seen /\ d.stale = c.stale
BY DEF IsCall, CallFields, SamePatch

LEMMA CallPatchChanged ==
  ASSUME NEW c, IsCall(c), NEW x, NEW p, IsSetting(p)
  PROVE  LET d == [c EXCEPT !.at = x, !.patch = p]
         IN  /\ IsCall(d) /\ d.at = x /\ SameButAt(d, c) /\ d.patch = p
             /\ d.next = c.next /\ d.seen = c.seen /\ d.stale = c.stale
BY DEF IsCall, CallFields, SameButAt

LEMMA CallStaleChanged ==
  ASSUME NEW c, IsCall(c)
  PROVE  LET d == [c EXCEPT !.stale = TRUE]
         IN  /\ IsCall(d) /\ d.at = c.at /\ SameButAt(d, c) /\ SamePatch(d, c)
             /\ d.next = c.next /\ d.seen = c.seen /\ d.stale
BY DEF IsCall, CallFields, SameButAt, SamePatch

LEMMA OneCallChanged ==
  ASSUME CallsFit, NEW r \in SettingCalls, NEW d, call' = [call EXCEPT ![r] = d]
  PROVE  OneCall(r, d)
BY DEF CallsFit, OneCall

LEMMA OneCallFits ==
  ASSUME CallsFit, CallsKnown, NEW r \in SettingCalls, NEW d, OneCall(r, d), IsCall(d), CallKnown(d)
  PROVE  CallsFit' /\ CallsKnown'
<1>1. \A q \in SettingCalls : call'[q] = d \/ call'[q] = call[q]
  BY DEF OneCall
<1>2. \A q \in SettingCalls : IsCall(call'[q]) /\ CallKnown(call'[q])
  BY <1>1 DEF CallsFit, CallsKnown
<1>3. CallsFit'
  BY <1>2 DEF CallsFit, OneCall
<1>4. CallsKnown'
  BY <1>2 DEF CallsKnown
<1> QED BY <1>3, <1>4

-----------------------------------------------------------------------------
(* A step of requests that leaves the settings, saved and in use, alone.   *)
Moved(q) ==
  /\ (call'[q].at = "write" /\ ~call'[q].stale) => call'[q].seen = settingsRow[call'[q].who]
  /\ (call'[q].at = "resolve" /\ ~call'[q].stale) => inUse = call'[q].next
  /\ (call'[q].at = "runs" /\ ~call'[q].stale)
       => call'[q].patch = applyOpenAICompatibleOverrides(call'[q].next)
  /\ (call'[q].at = "flush" <=> call[q].at = "flush")
  /\ call'[q].at = "flush" => call'[q].next = call[q].next
  /\ (EntryWritten(call'[q]) /\ ~call'[q].clears)
       => ("source" \in unsure' \/ entryOf[call'[q].next.name] = call'[q].next)
  /\ EntryWritten(call[q]) => (EntryWritten(call'[q]) \/ "source" \in unsure')
  /\ \A f \in {"tracing", "source"} :
       IsBusy(call'[q], f) => \/ IsBusy(call[q], f) \/ f \in unsure'
                              \/ \A p \in SettingCalls : p # q => ~IsBusy(call'[p], f)
Stays(q) == call'[q] = call[q]

LEMMA StaysMoved ==
  ASSUME ServerFollows, NEW q \in SettingCalls, Stays(q), unsure \subseteq unsure'
  PROVE  Moved(q)
BY DEF ServerFollows, SeenIsRow, UseIsResolved, RunsUseTheirModel, EntryIsFollowed, Moved, Stays,
       CallAt

LEMMA CallsMove ==
  ASSUME ServerFollows, CallsKnown',
         UNCHANGED <<settingsRow, kept, lostFields, inUse, tracer, entryOf>>, unsure \subseteq unsure',
         \A q \in SettingCalls : Moved(q)
  PROVE  ServerFollows'
<1>1. FieldsStay'
  BY DEF ServerFollows, FieldsStay
<1>2. SeenIsRow' /\ UseIsResolved' /\ RunsUseTheirModel'
  BY DEF SeenIsRow, UseIsResolved, RunsUseTheirModel, Moved, CallAt
<1>3. ASSUME NEW f \in {"tracing", "source"}, f \notin unsure'
      PROVE  OneAtMost(f)'
  <2>1. OneAtMost(f)
    BY <1>3 DEF ServerFollows, TracerIsFollowed, EntryIsFollowed
  <2> SUFFICES ASSUME NEW r \in SettingCalls, NEW q \in SettingCalls, IsBusy(call'[r], f),
                      IsBusy(call'[q], f), r # q
               PROVE  FALSE
    BY DEF OneAtMost, Busy, IsBusy
  <2>2. IsBusy(call[r], f) /\ IsBusy(call[q], f)
    BY <1>3 DEF Moved
  <2> QED BY <2>1, <2>2 DEF OneAtMost, Busy, IsBusy
<1>4. TracerIsFollowed'
  <2> SUFFICES ASSUME "tracing" \notin unsure' PROVE TracerIsFollowed'
    BY DEF TracerIsFollowed
  <2>1. OneAtMost("tracing")'
    BY <1>3
  <2>2. \A r \in SettingCalls : CallAt(r, "flush")' =>
          call'[r].next = resolveLangfuseConfig(tracer.over)
    BY DEF ServerFollows, TracerIsFollowed, Moved, CallAt
  <2>3. \/ \E r \in SettingCalls : CallAt(r, "flush")'
        \/ tracer.exporter = resolveLangfuseConfig(tracer.over)
    BY DEF ServerFollows, TracerIsFollowed, Moved, CallAt
  <2> QED BY <2>1, <2>2, <2>3 DEF TracerIsFollowed
<1>5. EntryIsFollowed'
  <2> SUFFICES ASSUME "source" \notin unsure' PROVE EntryIsFollowed'
    BY DEF EntryIsFollowed
  <2>1. OneAtMost("source")'
    BY <1>3
  <2>2. \A r \in SettingCalls :
          EntryWritten(call'[r]) /\ ~call'[r].clears => entryOf[call'[r].next.name] = call'[r].next
    BY DEF Moved
  <2>3. \/ "source" \in lostFields[Home] \/ settingsRow[Home].source \in {Unset, Empty}
        \/ entryOf[settingsRow[Home].source.name] = settingsRow[Home].source
        \/ \E r \in SettingCalls : EntryWritten(call'[r])
    BY DEF ServerFollows, EntryIsFollowed, Moved
  <2> QED BY <2>1, <2>2, <2>3 DEF EntryIsFollowed
<1> QED BY <1>1, <1>2, <1>4, <1>5 DEF ServerFollows

(* One request moves, the others stay.                                     *)
LEMMA OneCallMoves ==
  ASSUME SettingsFit, ServerFollows, NEW r \in SettingCalls, NEW d, OneCall(r, d), IsCall(d),
         CallKnown(d), Moved(r),
         UNCHANGED <<settingsRow, kept, lostFields, inUse, tracer, entryOf>>, unsure \subseteq unsure'
  PROVE  CallsFit' /\ ServerFollows'
<1>1. CallsFit' /\ CallsKnown'
  BY OneCallFits DEF SettingsFit, ServerFollows
<1>2. \A q \in SettingCalls : Moved(q)
  <2> TAKE q \in SettingCalls
  <2>1. CASE q = r
    BY <2>1
  <2>2. CASE q # r
    BY <2>2, StaysMoved DEF OneCall, Stays
  <2> QED BY <2>1, <2>2
<1> QED BY <1>1, <1>2, CallsMove

-----------------------------------------------------------------------------
(* Every step of one request, as a change of that request.                 *)
LEMMA MergedFits ==
  ASSUME NEW f, NEW e, NEW p, IsSetting(p)
  PROVE  IsSetting(Merged(f, e, p)) /\ Merged(f, e, p).name = p.name
BY DEF Merged, IsSetting, Setting

LEMMA NormalFits ==
  ASSUME NEW s, IsSetting(s)
  PROVE  IsSetting(normalize(s))
BY EmptyFits DEF normalize

LEMMA LoadStored ==
  ASSUME SettingsFit, ServerFollows, NEW r \in SettingCalls, loadStoredSettings(r)
  PROVE  CallsFit' /\ ServerFollows'
<1> DEFINE c == call[r]
           m == Merged(c.field, normalize(settingsRow[c.who][c.field]), c.patch)
           x == IF c.field = "source" THEN "entry" ELSE "read"
           d == [c EXCEPT !.next = m, !.at = x]
<1>1. IsCall(c) /\ CallKnown(c) /\ c.at = "load" /\ c.field \in SettingFields
  BY DEF SettingsFit, CallsFit, ServerFollows, CallsKnown, loadStoredSettings, CallAt
<1>2. call' = [call EXCEPT ![r] = d]
  BY DEF loadStoredSettings, SettingsFit, CallsFit
<1>3. OneCall(r, d)
  BY <1>2, OneCallChanged DEF SettingsFit
<1>4. IsSetting(m) /\ m.name = c.patch.name
  BY <1>1, MergedFits DEF IsCall
<1>5. /\ IsCall(d) /\ d.at = x /\ SameButAt(d, c) /\ SamePatch(d, c)
      /\ d.next = m /\ d.seen = c.seen /\ d.stale = c.stale
  <2> HIDE DEF m
  <2> QED BY <1>1, <1>4 DEF IsCall, CallFields, SameButAt, SamePatch
<1>6. call'[r] = d
  BY <1>3 DEF OneCall
<1> HIDE DEF d, m
<1>7. CallKnown(d)
  BY <1>1, <1>4, <1>5 DEF CallKnown, SameButAt, SamePatch
<1>8. Moved(r)
  BY <1>1, <1>5, <1>6 DEF Moved, SameButAt, EntryWritten, IsBusy
<1> QED BY <1>3, <1>5, <1>7, <1>8, OneCallMoves DEF loadStoredSettings, savedVars, processVars

LEMMA RowRead ==
  ASSUME SettingsFit, ServerFollows, NEW r \in SettingCalls, ReadRow(r)
  PROVE  CallsFit' /\ ServerFollows'
<1> DEFINE c == call[r]
           w == settingsRow[c.who]
           d == [c EXCEPT !.at = "write", !.seen = w, !.stale = FALSE]
<1>1. IsCall(c) /\ CallKnown(c) /\ c.at = "read"
  BY DEF SettingsFit, CallsFit, ServerFollows, CallsKnown, ReadRow, CallAt
<1>2. call' = [call EXCEPT ![r] = d]
  BY DEF ReadRow, SettingsFit, CallsFit
<1>3. OneCall(r, d)
  BY <1>2, OneCallChanged DEF SettingsFit
<1>4. IsRow(w)
  BY <1>1 DEF IsCall, SettingsFit, RowsFit
<1>5. /\ IsCall(d) /\ d.at = "write" /\ SameButAt(d, c) /\ SamePatch(d, c)
      /\ d.next = c.next /\ d.seen = w /\ ~d.stale
  BY <1>1, <1>4, CallSeenChanged
<1>6. call'[r] = d
  BY <1>3 DEF OneCall
<1> HIDE DEF d
<1>7. CallKnown(d)
  BY <1>1, <1>5 DEF CallKnown, SameButAt, SamePatch
<1>8. EntryWritten(c) /\ ~c.clears => "source" \in unsure \/ entryOf[c.next.name] = c.next
  BY DEF ServerFollows, EntryIsFollowed
<1>9. unsure' = unsure
  BY DEF ReadRow, savedVars
<1>10. Moved(r)
  BY <1>1, <1>5, <1>6, <1>8, <1>9 DEF Moved, SameButAt, EntryWritten, IsBusy
<1> QED BY <1>3, <1>5, <1>7, <1>9, <1>10, OneCallMoves DEF ReadRow, savedVars, processVars

(* A request that ends, is answered, or is told what the settings are.     *)
LEMMA CallIsBusy ==
  ASSUME SettingsFit, ServerFollows, NEW r \in SettingCalls
  PROVE  IsCall(call[r]) /\ CallKnown(call[r])
BY DEF SettingsFit, CallsFit, ServerFollows, CallsKnown

LEMMA CallEnded ==
  ASSUME SettingsFit, ServerFollows, NEW r \in SettingCalls, Ends(r), ~CallAt(r, "flush"),
         EntryWritten(call[r]) => "source" \in unsure',
         UNCHANGED <<settingsRow, kept, lostFields, inUse, tracer, entryOf>>, unsure \subseteq unsure'
  PROVE  CallsFit' /\ ServerFollows'
<1>1. OneCall(r, NoCall)
  BY OneCallChanged DEF SettingsFit, Ends
<1>2. call'[r] = NoCall
  BY <1>1 DEF OneCall
<1>3. Moved(r)
  BY <1>2, NoCallFits DEF Moved, EntryWritten, IsBusy, CallAt
<1> QED BY <1>1, <1>3, NoCallFits, NoCallKnown, OneCallMoves

LEMMA WriteIsRefused ==
  ASSUME SettingsFit, ServerFollows, NEW r \in SettingCalls, WriteRefused(r)
  PROVE  CallsFit' /\ ServerFollows'
<1> DEFINE c == call[r]
           d == [c EXCEPT !.at = "read", !.tries = c.tries + 1]
<1>1. /\ IsCall(c) /\ CallKnown(c) /\ c.at = "write"
      /\ UNCHANGED <<settingsRow, kept, lostFields, inUse, tracer, entryOf>>
  BY CallIsBusy DEF WriteRefused, CallAt, processVars
<1>2. CASE call' = [call EXCEPT ![r] = d] /\ unsure' = unsure
  <2>1. OneCall(r, d)
    BY <1>2, OneCallChanged DEF SettingsFit
  <2>2. /\ IsCall(d) /\ d.at = "read" /\ d.who = c.who /\ d.field = c.field /\ d.clears = c.clears
        /\ SamePatch(d, c) /\ d.next = c.next
    BY <1>1 DEF IsCall, CallFields, SamePatch
  <2>3. call'[r] = d
    BY <2>1 DEF OneCall
  <2> HIDE DEF d
  <2>4. CallKnown(d)
    BY <1>1, <2>2 DEF CallKnown, SamePatch
  <2>5. EntryWritten(c) /\ ~c.clears => "source" \in unsure \/ entryOf[c.next.name] = c.next
    BY DEF ServerFollows, EntryIsFollowed
  <2>6. Moved(r)
    BY <1>1, <1>2, <2>2, <2>3, <2>5 DEF Moved, EntryWritten, IsBusy
  <2> QED BY <1>1, <1>2, <2>1, <2>2, <2>4, <2>6, OneCallMoves
<1>3. CASE Ends(r) /\ unsure' = unsure \cup ({"source"} \cap {c.field})
  BY <1>1, <1>3, CallEnded DEF EntryWritten, CallAt
<1> QED BY <1>2, <1>3 DEF WriteRefused

LEMMA ServerAnswered ==
  ASSUME SettingsFit, ServerFollows, NEW r \in SettingCalls,
         \/ AnswerServer(r) \/ refreshProvider(r) \/ bootstrapModelCatalog(r)
  PROVE  CallsFit' /\ ServerFollows'
<1>1. /\ call[r].at \in {"answer", "runs"} /\ Ends(r)
      /\ UNCHANGED <<settingsRow, kept, lostFields, inUse, tracer, entryOf, unsure>>
  BY DEF AnswerServer, refreshProvider, bootstrapModelCatalog, savedVars, processVars, CallAt
<1> QED BY <1>1, CallEnded DEF EntryWritten, CallAt

LEMMA BrowserRead ==
  ASSUME SettingsFit, ServerFollows, NEW r \in SettingCalls, ReadForBrowser(r)
  PROVE  CallsFit' /\ ServerFollows'
<1> DEFINE c == call[r]
           m == IF c.field = "get" THEN View(settingsRow[Home].model)
                ELSE Setting("blank", "blank", catalog # <<>>)
           d == [c EXCEPT !.next = m, !.at = "answer"]
<1>1. IsCall(c) /\ CallKnown(c) /\ c.at = "load" /\ c.field \in {"get", "list"}
  BY CallIsBusy DEF ReadForBrowser, CallAt
<1>2. call' = [call EXCEPT ![r] = d]
  BY DEF ReadForBrowser, SettingsFit, CallsFit
<1>3. OneCall(r, d)
  BY <1>2, OneCallChanged DEF SettingsFit
<1>4. IsSetting(m)
  BY SettingFits DEF View
<1>5. /\ IsCall(d) /\ d.at = "answer" /\ SameButAt(d, c) /\ SamePatch(d, c)
      /\ d.next = m /\ d.seen = c.seen /\ d.stale = c.stale
  <2> HIDE DEF m
  <2> QED BY <1>1, <1>4 DEF IsCall, CallFields, SameButAt, SamePatch
<1>6. call'[r] = d
  BY <1>3 DEF OneCall
<1> HIDE DEF d, m
<1>7. CallKnown(d)
  BY <1>1, <1>5 DEF CallKnown, SameButAt, SettingFields
<1>8. Moved(r)
  BY <1>1, <1>5, <1>6 DEF Moved, SameButAt, EntryWritten, IsBusy
<1> QED BY <1>3, <1>5, <1>7, <1>8, OneCallMoves DEF ReadForBrowser, savedVars, processVars

-----------------------------------------------------------------------------
(* Requests that begin.                                                    *)
Alone(q, f) == \A p \in SettingCalls : p # q => ~IsBusy(call'[p], f)
LEMMA BegunMoves ==
  ASSUME NEW q \in SettingCalls, call'[q].at \in {"load", "read"}, call[q].at # "flush",
         ~EntryWritten(call[q]), EntryWritten(call'[q]) => call'[q].clears,
         \A f \in {"tracing", "source"} : IsBusy(call'[q], f) => f \in unsure' \/ Alone(q, f)
  PROVE  Moved(q)
BY DEF Moved, Alone

LEMMA RequestFits ==
  ASSUME NEW t \in Customers, NEW o \in Offers, o.field = "source" => t = Home
  PROVE  LET d == Request(t, o)
         IN  /\ IsCall(d) /\ CallKnown(d)
             /\ d.at = (IF o.clears \/ o.field = "audit" THEN "read" ELSE "load")
             /\ d.who = t /\ d.field = o.field /\ d.patch = o.patch /\ d.clears = o.clears
             /\ d.next = IF o.clears THEN Empty ELSE o.patch
<1> DEFINE d == Request(t, o)
<1>1. PICK b \in BOOLEAN : b = o.clears
  BY OffersAssumption
<1>2. o.field \in SettingFields /\ IsSetting(o.patch) /\ o.patch.name # "unset"
  BY OffersAssumption
<1>3. /\ d = [f \in CallFields |-> d[f]]
      /\ d.at = (IF b \/ o.field = "audit" THEN "read" ELSE "load")
      /\ d.who = t /\ d.field = o.field /\ d.patch = o.patch /\ d.clears = b
      /\ d.next = (IF b THEN Empty ELSE o.patch)
      /\ d.seen = NoCall.seen /\ d.stale = NoCall.stale
  BY <1>1, NoCallFits DEF Request, IsCall, CallFields
<1>4. IsSetting(d.next) /\ IsSetting(d.patch) /\ d.next.name # "unset"
  BY <1>2, <1>3, EmptyFits
<1>5. IsCall(d)
  BY <1>1, <1>3, <1>4, NoCallFits DEF IsCall
<1>6. o.field = "source" => o.patch.name \in SourceNames
  BY DEF SourceNames
<1>7. CallKnown(d)
  <2> HIDE DEF d
  <2>1. d.field = "source" =>
          /\ d.who = Home
          /\ IF d.clears THEN d.next = Empty ELSE d.patch.name \in SourceNames
          /\ d.clears => d.at \notin {"load", "entry"}
          /\ (~d.clears /\ d.at \in {"entry", "read", "write"}) => d.next.name \in SourceNames
    BY <1>3, <1>6
  <2>2. d.at \in {"read", "load"} /\ d.next.name # "unset" /\ d.field \in SettingFields
        /\ d.patch.name # "unset"
    BY <1>2, <1>3, <1>4
  <2> QED BY <2>1, <2>2 DEF CallKnown
<1> QED BY <1>1, <1>3, <1>5, <1>7

LEMMA OpeningFits ==
  ASSUME NEW x \in {"get", "list", "run"}, NEW t \in Customers
  PROVE  LET d == [NoCall EXCEPT !.at = "load", !.who = t, !.field = x]
         IN  IsCall(d) /\ CallKnown(d) /\ d.at = "load" /\ d.who = t /\ d.field = x
<1> DEFINE d == [NoCall EXCEPT !.at = "load", !.who = t, !.field = x]
<1>1. /\ d = [f \in CallFields |-> d[f]] /\ d.at = "load" /\ d.who = t /\ d.field = x
      /\ d.patch = NoCall.patch /\ d.clears = NoCall.clears /\ d.next = NoCall.next
      /\ d.seen = NoCall.seen /\ d.stale = NoCall.stale
  BY NoCallFits DEF IsCall, CallFields
<1> HIDE DEF d
<1>2. IsCall(d)
  BY <1>1, NoCallFits DEF IsCall
<1>3. CallKnown(d)
  BY <1>1 DEF CallKnown, SettingFields
<1> QED BY <1>1, <1>2, <1>3 DEF d

LEMMA OpeningIs ==
  ASSUME NEW x \in {"get", "list"}
  PROVE  LET d == Opening(x)
         IN  IsCall(d) /\ CallKnown(d) /\ d.at = "load" /\ d.who = Home /\ d.field = x
<1> DEFINE d == Opening(x)
<1>1. /\ d = [f \in CallFields |-> d[f]] /\ d.at = "load" /\ d.who = NoCall.who /\ d.field = x
      /\ d.patch = NoCall.patch /\ d.clears = NoCall.clears /\ d.next = NoCall.next
      /\ d.seen = NoCall.seen /\ d.stale = NoCall.stale
  BY NoCallFits DEF IsCall, CallFields, Opening
<1> HIDE DEF d
<1>2. IsCall(d)
  BY <1>1, NoCallFits DEF IsCall
<1>3. CallKnown(d)
  BY <1>1 DEF CallKnown, SettingFields
<1> QED BY <1>1, <1>2, <1>3, NoCallFits DEF d

LEMMA CallBegins ==
  ASSUME SettingsFit, ServerFollows, NEW r \in SettingCalls, NEW d, call' = [call EXCEPT ![r] = d],
         IsCall(d), CallKnown(d), d.at \in {"load", "read"}, ~CallAt(r, "flush"),
         ~EntryWritten(call[r]), EntryWritten(d) => d.clears,
         \A f \in {"tracing", "source"} :
           d.field = f => f \in unsure' \/ \A p \in SettingCalls \ {r} : ~IsBusy(call[p], f),
         UNCHANGED <<settingsRow, kept, lostFields, inUse, tracer, entryOf>>, unsure \subseteq unsure'
  PROVE  CallsFit' /\ ServerFollows'
<1>1. OneCall(r, d)
  BY OneCallChanged DEF SettingsFit
<1>2. call'[r] = d
  BY <1>1 DEF OneCall
<1>3. \A f \in {"tracing", "source"} : IsBusy(call'[r], f) => f \in unsure' \/ Alone(r, f)
  BY <1>1, <1>2 DEF OneCall, Alone, IsBusy
<1>4. Moved(r)
  BY <1>2, <1>3, BegunMoves DEF CallAt
<1> QED BY <1>1, <1>4, OneCallMoves

LEMMA OverlapsTold ==
  ASSUME NEW o, NEW r, call[r] = NoCall
  PROVE  \/ o.field \in Overlaps(o)
         \/ \A p \in SettingCalls \ {r} : ~IsBusy(call[p], o.field)
BY DEF Overlaps, Busy, IsBusy

LEMMA SavingBegins ==
  ASSUME SettingsFit, ServerFollows, NEW r \in SettingCalls, SaveSetting(r)
  PROVE  CallsFit' /\ ServerFollows'
<1>1. PICK o \in Offers, t \in Customers :
         /\ o.field = "source" => t = Home
         /\ call' = [call EXCEPT ![r] = Request(t, o)]
         /\ unsure' = unsure \cup Overlaps(o)
  BY DEF SaveSetting
<1> DEFINE d == Request(t, o)
<1>2. /\ IsCall(d) /\ CallKnown(d) /\ d.field = o.field /\ d.clears = o.clears
      /\ d.at = (IF o.clears \/ o.field = "audit" THEN "read" ELSE "load")
  BY <1>1, RequestFits
<1>3. call[r] = NoCall
  BY DEF SaveSetting
<1>4. d.at \in {"load", "read"} /\ (EntryWritten(d) => d.clears)
  BY <1>2 DEF EntryWritten
<1>5. \A f \in {"tracing", "source"} :
        d.field = f => f \in unsure' \/ \A p \in SettingCalls \ {r} : ~IsBusy(call[p], f)
  BY <1>1, <1>2, <1>3, OverlapsTold
<1>6. ~CallAt(r, "flush") /\ ~EntryWritten(call[r])
  BY <1>3, NoCallFits DEF CallAt, EntryWritten
<1>7. UNCHANGED <<settingsRow, kept, lostFields, inUse, tracer, entryOf>> /\ unsure \subseteq unsure'
  BY <1>1 DEF SaveSetting, processVars
<1>8. call' = [call EXCEPT ![r] = d]
  BY <1>1
<1> HIDE DEF d
<1> QED BY <1>2, <1>4, <1>5, <1>6, <1>7, <1>8, CallBegins

LEMMA BrowserSaves ==
  ASSUME SettingsFit, ServerFollows, NEW r \in SettingCalls, saveProvider(r)
  PROVE  CallsFit' /\ ServerFollows'
<1>1. PICK o \in Offers : o.field = "model" /\ ~o.clears /\ call' = [call EXCEPT ![r] = Request(Home, o)]
  BY DEF saveProvider
<1> DEFINE d == Request(Home, o)
<1>2. IsCall(d) /\ CallKnown(d) /\ d.field = "model" /\ d.at = "load"
  BY <1>1, RequestFits, HomeAssumption
<1>3. call[r] = NoCall
  BY DEF saveProvider
<1>6. ~CallAt(r, "flush") /\ ~EntryWritten(call[r]) /\ ~EntryWritten(d)
  BY <1>2, <1>3, NoCallFits DEF CallAt, EntryWritten
<1>7. UNCHANGED <<settingsRow, kept, lostFields, inUse, tracer, entryOf>> /\ unsure \subseteq unsure'
  BY DEF saveProvider, processVars, savedVars
<1>8. call' = [call EXCEPT ![r] = d]
  BY <1>1
<1> HIDE DEF d
<1> QED BY <1>2, <1>6, <1>7, <1>8, CallBegins

LEMMA RunBegins ==
  ASSUME SettingsFit, ServerFollows, NEW r \in SettingCalls, StartRun(r)
  PROVE  CallsFit' /\ ServerFollows'
<1>1. PICK t \in Customers :
        call' = [call EXCEPT ![r] = [NoCall EXCEPT !.at = "load", !.who = t, !.field = "run"]]
  BY DEF StartRun
<1> DEFINE d == [NoCall EXCEPT !.at = "load", !.who = t, !.field = "run"]
<1>2. IsCall(d) /\ CallKnown(d) /\ d.field = "run" /\ d.at = "load"
  BY OpeningFits
<1>3. call[r] = NoCall
  BY DEF StartRun
<1>6. ~CallAt(r, "flush") /\ ~EntryWritten(call[r]) /\ ~EntryWritten(d)
  BY <1>2, <1>3, NoCallFits DEF CallAt, EntryWritten
<1>7. UNCHANGED <<settingsRow, kept, lostFields, inUse, tracer, entryOf>> /\ unsure \subseteq unsure'
  BY DEF StartRun, processVars, savedVars
<1>8. call' = [call EXCEPT ![r] = d]
  BY <1>1
<1> HIDE DEF d
<1> QED BY <1>2, <1>6, <1>7, <1>8, CallBegins

LEMMA SavedIsTold ==
  ASSUME SettingsFit, ServerFollows, NEW r \in SettingCalls, ProviderSaved(r)
  PROVE  CallsFit' /\ ServerFollows'
<1>1. /\ CallAt(r, "answer") /\ call[r].field = "model"
      /\ UNCHANGED <<settingsRow, kept, lostFields, inUse, tracer, entryOf, unsure>>
  BY DEF ProviderSaved, savedVars, processVars
<1>2. ~CallAt(r, "flush") /\ ~EntryWritten(call[r])
  BY <1>1 DEF CallAt, EntryWritten
<1>3. CASE Ends(r)
  BY <1>1, <1>2, <1>3, CallEnded
<1>4. CASE call' = [call EXCEPT ![r] = Opening("get")]
  <2> DEFINE d == Opening("get")
  <2>1. IsCall(d) /\ CallKnown(d) /\ d.at = "load" /\ d.field = "get"
    BY OpeningIs
  <2>2. ~EntryWritten(d)
    BY <2>1 DEF EntryWritten
  <2>3. call' = [call EXCEPT ![r] = d]
    BY <1>4
  <2> HIDE DEF d
  <2> QED BY <1>1, <1>2, <2>1, <2>2, <2>3, CallBegins
<1> QED BY <1>3, <1>4 DEF ProviderSaved

LEMMA ServerStays ==
  ASSUME SettingsFit, ServerFollows,
         UNCHANGED <<call, settingsRow, kept, lostFields, inUse, tracer, entryOf, unsure>>
  PROVE  CallsFit' /\ ServerFollows'
<1>1. CallsFit' /\ CallsKnown'
  BY DEF SettingsFit, CallsFit, ServerFollows, CallsKnown
<1>2. \A q \in SettingCalls : Moved(q)
  BY StaysMoved DEF Stays
<1> QED BY <1>1, <1>2, CallsMove

LEMMA TwoCallsBegin ==
  ASSUME SettingsFit, ServerFollows, NEW r \in SettingCalls, NEW q \in SettingCalls, r # q,
         call[r].at = "none", call[q].at = "none",
         NEW d, NEW e, call' = [call EXCEPT ![r] = d, ![q] = e],
         IsCall(d), CallKnown(d), d.at \in {"load", "read"}, EntryWritten(d) => d.clears,
         IsCall(e), CallKnown(e), e.at \in {"load", "read"}, e.field \notin {"tracing", "source"},
         \A f \in {"tracing", "source"} :
           d.field = f => f \in unsure' \/ \A p \in SettingCalls \ {r} : ~IsBusy(call[p], f),
         UNCHANGED <<settingsRow, kept, lostFields, inUse, tracer, entryOf>>, unsure \subseteq unsure'
  PROVE  CallsFit' /\ ServerFollows'
<1>1. /\ call' = [p \in SettingCalls |-> call'[p]] /\ call'[r] = d /\ call'[q] = e
      /\ \A p \in SettingCalls : p \notin {r, q} => call'[p] = call[p]
  BY DEF SettingsFit, CallsFit
<1>2. \A p \in SettingCalls : IsCall(call'[p]) /\ CallKnown(call'[p])
  <2> TAKE p \in SettingCalls
  <2>1. CASE p = r BY <1>1, <2>1
  <2>2. CASE p = q BY <1>1, <2>2
  <2>3. CASE p \notin {r, q} BY <1>1, <2>3, CallIsBusy
  <2> QED BY <2>1, <2>2, <2>3
<1>3. CallsFit' /\ CallsKnown'
  BY <1>1, <1>2 DEF CallsFit, CallsKnown
<1>4. Moved(r)
  <2>1. \A f \in {"tracing", "source"} : IsBusy(call'[r], f) => f \in unsure' \/ Alone(r, f)
    <3> TAKE f \in {"tracing", "source"}
    <3> HAVE IsBusy(call'[r], f)
    <3>1. CASE f \in unsure'
      BY <3>1
    <3>2. CASE \A p \in SettingCalls \ {r} : ~IsBusy(call[p], f)
      <4>1. ~IsBusy(call'[q], f)
        BY <1>1 DEF IsBusy
      <4>2. \A p \in SettingCalls : p # r => ~IsBusy(call'[p], f)
        BY <1>1, <3>2, <4>1
      <4> QED BY <4>2 DEF Alone
    <3>3. d.field = f
      BY <1>1 DEF IsBusy
    <3> QED BY <3>1, <3>2, <3>3
  <2>2. call'[r].at \in {"load", "read"} /\ (EntryWritten(call'[r]) => call'[r].clears)
    BY <1>1
  <2>3. call[r].at # "flush" /\ ~EntryWritten(call[r])
    BY DEF EntryWritten
  <2> QED BY <2>1, <2>2, <2>3, BegunMoves
<1>5. Moved(q)
  <2>1. \A f \in {"tracing", "source"} : IsBusy(call'[q], f) => f \in unsure' \/ Alone(q, f)
    BY <1>1 DEF IsBusy
  <2>2. call'[q].at \in {"load", "read"} /\ (EntryWritten(call'[q]) => call'[q].clears)
    BY <1>1 DEF EntryWritten
  <2>3. call[q].at # "flush" /\ ~EntryWritten(call[q])
    BY DEF EntryWritten
  <2> QED BY <2>1, <2>2, <2>3, BegunMoves
<1>6. \A p \in SettingCalls : Moved(p)
  <2> TAKE p \in SettingCalls
  <2>1. CASE p \in {r, q}
    BY <1>4, <1>5, <2>1
  <2>2. CASE p \notin {r, q}
    BY <1>1, <2>2, StaysMoved DEF Stays
  <2> QED BY <2>1, <2>2
<1> QED BY <1>3, <1>6, CallsMove

LEMMA BusinessBegins ==
  ASSUME SettingsFit, ServerFollows, NEW r \in SettingCalls, NEW q \in SettingCalls, SaveBusiness(r, q)
  PROVE  CallsFit' /\ ServerFollows'
<1>1. PICK s \in Offers, a \in Offers :
        /\ s.field = "source" /\ ~s.clears /\ a.field = "audit"
        /\ call' = [call EXCEPT ![r] = Request(Home, s), ![q] = Request(Home, a)]
        /\ unsure' = unsure \cup Overlaps(s)
  BY DEF SaveBusiness
<1> DEFINE d == Request(Home, s)
           e == Request(Home, a)
<1>2. IsCall(d) /\ CallKnown(d) /\ d.field = "source" /\ d.at = "load"
  BY <1>1, RequestFits, HomeAssumption
<1>3. IsCall(e) /\ CallKnown(e) /\ e.field = "audit" /\ e.at = "read"
  BY <1>1, RequestFits, HomeAssumption
<1>4. r # q /\ call[r] = NoCall /\ call[q] = NoCall
  BY DEF SaveBusiness
<1>5. call[r].at = "none" /\ call[q].at = "none"
  BY <1>4, NoCallFits
<1>6. \A f \in {"tracing", "source"} :
        d.field = f => f \in unsure' \/ \A p \in SettingCalls \ {r} : ~IsBusy(call[p], f)
  BY <1>1, <1>2, <1>4, OverlapsTold
<1>7. UNCHANGED <<settingsRow, kept, lostFields, inUse, tracer, entryOf>> /\ unsure \subseteq unsure'
  BY <1>1 DEF SaveBusiness, processVars
<1>8. call' = [call EXCEPT ![r] = d, ![q] = e] /\ ~EntryWritten(d)
  BY <1>1, <1>2 DEF EntryWritten
<1> HIDE DEF d, e
<1> QED BY <1>2, <1>3, <1>4, <1>5, <1>6, <1>7, <1>8, TwoCallsBegin

LEMMA PickerOpens ==
  ASSUME SettingsFit, ServerFollows, NEW r \in SettingCalls, NEW q \in SettingCalls, MountPicker(r, q)
  PROVE  CallsFit' /\ ServerFollows'
<1> DEFINE d == Opening("get")
           e == Opening("list")
<1>2. IsCall(d) /\ CallKnown(d) /\ d.field = "get" /\ d.at = "load"
  BY OpeningIs
<1>3. IsCall(e) /\ CallKnown(e) /\ e.field = "list" /\ e.at = "load"
  BY OpeningIs
<1>4. r # q /\ call[r].at = "none" /\ call[q].at = "none"
  BY DEF MountPicker, Busy
<1>7. UNCHANGED <<settingsRow, kept, lostFields, inUse, tracer, entryOf>> /\ unsure \subseteq unsure'
  BY DEF MountPicker, processVars, savedVars
<1>8. call' = [call EXCEPT ![r] = d, ![q] = e] /\ ~EntryWritten(d)
  BY <1>2 DEF EntryWritten, MountPicker
<1> HIDE DEF d, e
<1> QED BY <1>2, <1>3, <1>4, <1>7, <1>8, TwoCallsBegin

(* A run loads its settings and takes its model.                           *)
LEMMA OverridesFit ==
  ASSUME NEW s, IsSetting(s)
  PROVE  IsSetting(applyOpenAICompatibleOverrides(s))
<1> DEFINE x == IF s.name = "blank" THEN normalize(EnvModel).name ELSE s.name
           y == IF s.secret = "blank" THEN EnvModel.secret ELSE s.secret
<1>1. applyOpenAICompatibleOverrides(s) = [s EXCEPT !.name = x, !.secret = y]
  BY DEF applyOpenAICompatibleOverrides
<1> HIDE DEF x, y
<1> QED BY <1>1 DEF IsSetting, Setting

LEMMA RunLoads ==
  ASSUME SettingsFit, ServerFollows, NEW r \in SettingCalls, call[r].field = "run", CallAt(r, "load"),
         call' = [call EXCEPT ![r].at = "apply", ![r].next = normalize(settingsRow[call[r].who].model)],
         UNCHANGED <<settingsRow, kept, lostFields, inUse, tracer, entryOf, unsure>>
  PROVE  CallsFit' /\ ServerFollows'
<1> DEFINE c == call[r]
           m == normalize(settingsRow[c.who].model)
           d == [c EXCEPT !.at = "apply", !.next = m]
<1>1. IsCall(c) /\ CallKnown(c) /\ c.at = "load" /\ c.field = "run"
  BY CallIsBusy DEF CallAt
<1>2. call' = [call EXCEPT ![r] = d]
  BY DEF SettingsFit, CallsFit
<1>3. OneCall(r, d)
  BY <1>2, OneCallChanged DEF SettingsFit
<1>4. IsSetting(m)
  BY <1>1, NormalFits DEF SettingsFit, RowsFit, IsRow, IsCall, SettingFields
<1>5. /\ IsCall(d) /\ d.at = "apply" /\ SameButAt(d, c) /\ SamePatch(d, c)
      /\ d.next = m /\ d.seen = c.seen /\ d.stale = c.stale
  <2> HIDE DEF m
  <2> QED BY <1>1, <1>4 DEF IsCall, CallFields, SameButAt, SamePatch
<1>6. call'[r] = d
  BY <1>3 DEF OneCall
<1> HIDE DEF d, m
<1>7. CallKnown(d)
  BY <1>1, <1>5 DEF CallKnown, SameButAt, SettingFields
<1>8. Moved(r)
  BY <1>1, <1>5, <1>6 DEF Moved, SameButAt, EntryWritten, IsBusy
<1> QED BY <1>3, <1>5, <1>7, <1>8, OneCallMoves

LEMMA ModelTaken ==
  ASSUME SettingsFit, ServerFollows, NEW r \in SettingCalls, getModelConfig(r)
  PROVE  CallsFit' /\ ServerFollows'
<1> DEFINE c == call[r]
           m == applyOpenAICompatibleOverrides(inUse)
           d == [c EXCEPT !.at = "runs", !.patch = m]
<1>1. IsCall(c) /\ CallKnown(c) /\ c.at = "resolve" /\ c.field = "run"
  BY CallIsBusy DEF CallAt, getModelConfig, CallKnown
<1>2. call' = [call EXCEPT ![r] = d]
  BY DEF SettingsFit, CallsFit, getModelConfig
<1>3. OneCall(r, d)
  BY <1>2, OneCallChanged DEF SettingsFit
<1>4. IsSetting(m)
  BY OverridesFit DEF SettingsFit, ProcessFits
<1>5. /\ IsCall(d) /\ d.at = "runs" /\ SameButAt(d, c) /\ d.patch = m
      /\ d.next = c.next /\ d.seen = c.seen /\ d.stale = c.stale
  <2> HIDE DEF m
  <2> QED BY <1>1, <1>4 DEF IsCall, CallFields, SameButAt
<1>6. call'[r] = d
  BY <1>3 DEF OneCall
<1>7. ~c.stale => m = applyOpenAICompatibleOverrides(c.next)
  BY <1>1 DEF ServerFollows, UseIsResolved, CallAt
<1> HIDE DEF d, m
<1>8. CallKnown(d)
  BY <1>1, <1>5 DEF CallKnown, SameButAt, SettingFields
<1>9. Moved(r)
  BY <1>1, <1>5, <1>6, <1>7 DEF Moved, SameButAt, EntryWritten, IsBusy
<1> QED BY <1>3, <1>5, <1>8, <1>9, OneCallMoves DEF getModelConfig, savedVars, processVars

-----------------------------------------------------------------------------
(* Steps that change what is saved or in use.                              *)
LEMMA EntryWrites ==
  ASSUME SettingsFit, ServerFollows, NEW r \in SettingCalls, WriteEntry(r)
  PROVE  CallsFit' /\ ServerFollows' /\ ProcessFits'
<1> DEFINE c == call[r]
           d == [c EXCEPT !.at = "read"]
<1>1. IsCall(c) /\ CallKnown(c) /\ c.at = "entry" /\ c.field = "source" /\ ~c.clears
  BY CallIsBusy DEF CallAt, WriteEntry, CallKnown
<1>2. call' = [call EXCEPT ![r] = d]
  BY DEF SettingsFit, CallsFit, WriteEntry, Moves
<1>3. OneCall(r, d)
  BY <1>2, OneCallChanged DEF SettingsFit
<1>4. c.next.name \in SourceNames /\ c.next.name # "unset"
  BY <1>1, OffersAssumption DEF CallKnown, SourceNames
<1>5. /\ IsCall(d) /\ d.at = "read" /\ SameButAt(d, c) /\ SamePatch(d, c)
      /\ d.next = c.next /\ d.seen = c.seen /\ d.stale = c.stale
  BY <1>1, CallAtChanged
<1>6. call'[r] = d /\ \A q \in SettingCalls \ {r} : call'[q] = call[q]
  BY <1>3 DEF OneCall
<1> HIDE DEF d
<1>7. CallKnown(d)
  BY <1>1, <1>4, <1>5 DEF CallKnown, SameButAt, SamePatch, SettingFields
<1>8. CallsFit' /\ CallsKnown'
  BY <1>3, <1>5, <1>7, OneCallFits DEF SettingsFit, ServerFollows
<1>9. /\ UNCHANGED <<settingsRow, kept, lostFields, unsure, inUse, tracer>>
      /\ entryOf' = [entryOf EXCEPT ![c.next.name] = c.next]
  BY DEF WriteEntry, processVars
<1>10. FieldsStay'
  BY <1>9 DEF ServerFollows, FieldsStay
<1>11. SeenIsRow' /\ UseIsResolved' /\ RunsUseTheirModel'
  BY <1>5, <1>6, <1>9 DEF ServerFollows, SeenIsRow, UseIsResolved, RunsUseTheirModel, CallAt
<1>12. \A f \in {"tracing", "source"} : OneAtMost(f) => OneAtMost(f)'
  <2> SUFFICES ASSUME NEW f \in {"tracing", "source"}, OneAtMost(f) PROVE OneAtMost(f)'
    OBVIOUS
  <2>1. \A q \in SettingCalls : IsBusy(call'[q], f) => IsBusy(call[q], f)
    BY <1>1, <1>5, <1>6 DEF IsBusy, SameButAt
  <2> QED BY <2>1 DEF OneAtMost, Busy, IsBusy
<1>13. TracerIsFollowed'
  <2>1. \A q \in SettingCalls : (CallAt(q, "flush")' <=> CallAt(q, "flush"))
                                /\ (CallAt(q, "flush") => call'[q] = call[q])
    BY <1>1, <1>5, <1>6 DEF CallAt
  <2> QED BY <1>9, <1>12, <2>1 DEF ServerFollows, TracerIsFollowed
<1>14. EntryIsFollowed'
  <2> SUFFICES ASSUME "source" \notin unsure' PROVE EntryIsFollowed'
    BY DEF EntryIsFollowed
  <2>1. OneAtMost("source") /\ OneAtMost("source")'
    BY <1>9, <1>12 DEF ServerFollows, EntryIsFollowed
  <2>2. \A q \in SettingCalls : EntryWritten(call'[q]) => q = r
    BY <1>1, <1>6, <2>1 DEF OneAtMost, Busy, EntryWritten
  <2>3. entryOf'[c.next.name] = c.next
    BY <1>4, <1>9 DEF SettingsFit, ProcessFits
  <2>4. EntryWritten(call'[r])
    BY <1>1, <1>5, <1>6 DEF EntryWritten, SameButAt
  <2> QED BY <1>5, <1>6, <2>1, <2>2, <2>3, <2>4 DEF EntryIsFollowed
<1>15. ProcessFits'
  BY <1>9 DEF SettingsFit, ProcessFits
<1> QED BY <1>8, <1>10, <1>11, <1>13, <1>14, <1>15 DEF ServerFollows

(* The row that a write leaves.                                            *)
LEMMA MergeFits ==
  ASSUME NEW w, IsRow(w), NEW c, IsCall(c), c.field \in SettingFields, c.next.name # "unset"
  PROVE  LET m == Merge(w, Content(c))
         IN  /\ IsRow(m) /\ m[c.field] = c.next
             /\ \A f \in SettingFields \ {c.field} : m[f] = IF c.seen[f] = Unset THEN w[f] ELSE c.seen[f]
<1> DEFINE m == Merge(w, Content(c))
<1>1. Content(c)[c.field] = c.next /\ \A f \in SettingFields \ {c.field} : Content(c)[f] = c.seen[f]
  BY DEF Content, IsCall, IsRow
<1>2. c.next # Unset
  BY EmptyFits
<1>3. m[c.field] = c.next
  BY <1>1, <1>2 DEF Merge
<1>4. \A f \in SettingFields \ {c.field} : m[f] = IF c.seen[f] = Unset THEN w[f] ELSE c.seen[f]
  BY <1>1 DEF Merge
<1>5. \A f \in SettingFields : IsSetting(m[f])
  <2> HIDE DEF m
  <2> TAKE f \in SettingFields
  <2>1. CASE f = c.field BY <1>3, <2>1 DEF IsCall
  <2>2. CASE f # c.field BY <1>4, <2>2 DEF IsCall, IsRow
  <2> QED BY <2>1, <2>2
<1>6. m = [f \in SettingFields |-> m[f]]
  BY DEF Merge
<1> HIDE DEF m
<1>7. IsRow(m)
  BY <1>5, <1>6 DEF IsRow
<1> QED BY <1>3, <1>4, <1>7 DEF m

LEMMA RowWrites ==
  ASSUME SettingsFit, ServerFollows, NEW r \in SettingCalls, WriteRow(r)
  PROVE  CallsFit' /\ ServerFollows' /\ RowsFit'
<1> DEFINE c == call[r]
           w == settingsRow[c.who]
           m == Merge(w, Content(c))
           x == IF c.field \in {"model", "tracing"} THEN "apply" ELSE "answer"
           d == [c EXCEPT !.at = x]
           putBack == {f \in SettingFields \ {c.field} : c.stale /\ c.seen[f] # Unset}
<1>1. /\ IsCall(c) /\ CallKnown(c) /\ c.at = "write" /\ c.field \in SettingFields
      /\ c.next.name # "unset" /\ c.who \in Customers
  BY CallIsBusy DEF CallAt, WriteRow, CallKnown, IsCall
<1>2. IsRow(w) /\ IsRow(kept[c.who])
  BY <1>1 DEF SettingsFit, RowsFit
<1>3. /\ IsRow(m) /\ m[c.field] = c.next
      /\ \A f \in SettingFields \ {c.field} : m[f] = IF c.seen[f] = Unset THEN w[f] ELSE c.seen[f]
  BY <1>1, <1>2, MergeFits
<1>4. /\ settingsRow' = [settingsRow EXCEPT ![c.who] = m]
      /\ kept' = [kept EXCEPT ![c.who][c.field] = c.next]
      /\ lostFields' = [lostFields EXCEPT ![c.who] = (lostFields[c.who] \cup putBack) \ {c.field}]
      /\ call' = [q \in SettingCalls |->
                    IF q = r THEN d
                    ELSE IF call[q].who = c.who /\ CallAt(q, "write") THEN [call[q] EXCEPT !.stale = TRUE]
                    ELSE call[q]]
      /\ UNCHANGED <<entryOf, unsure, inUse, tracer>>
  BY DEF WriteRow, processVars
<1>5. /\ IsCall(d) /\ d.at = x /\ SameButAt(d, c) /\ SamePatch(d, c)
      /\ d.next = c.next /\ d.seen = c.seen /\ d.stale = c.stale
  BY <1>1, CallAtChanged
<1>6. call'[r] = d /\ x \in {"apply", "answer"}
  BY <1>4
<1>7. \A q \in SettingCalls \ {r} :
        /\ IsCall(call'[q]) /\ call'[q].at = call[q].at /\ SameButAt(call'[q], call[q])
        /\ SamePatch(call'[q], call[q]) /\ call'[q].next = call[q].next /\ call'[q].seen = call[q].seen
        /\ call'[q].stale = (call[q].stale \/ (call[q].who = c.who /\ CallAt(q, "write")))
  <2> TAKE q \in SettingCalls \ {r}
  <2>1. CASE call[q].who = c.who /\ CallAt(q, "write")
    <3>1. call'[q] = [call[q] EXCEPT !.stale = TRUE]
      BY <1>4, <2>1
    <3> QED BY <2>1, <3>1, CallIsBusy, CallStaleChanged
  <2>2. CASE ~(call[q].who = c.who /\ CallAt(q, "write"))
    <3>1. call'[q] = call[q] /\ IsCall(call[q])
      BY <1>4, <2>2, CallIsBusy
    <3> QED BY <2>2, <3>1 DEF SameButAt, SamePatch, IsCall
  <2> QED BY <2>1, <2>2
<1>8. call' = [q \in SettingCalls |-> call'[q]]
  BY <1>4
<1> HIDE DEF d, m, x
<1>9. CallKnown(d)
  BY <1>1, <1>5, <1>6 DEF CallKnown, SameButAt, SamePatch
<1>10. \A q \in SettingCalls : IsCall(call'[q]) /\ CallKnown(call'[q])
  <2> TAKE q \in SettingCalls
  <2>1. CASE q = r BY <1>5, <1>6, <1>9, <2>1
  <2>2. CASE q # r
    <3>1. CallKnown(call[q])
      BY CallIsBusy
    <3> QED BY <1>7, <2>2, <3>1 DEF CallKnown, SameButAt, SamePatch
  <2> QED BY <2>1, <2>2
<1>11. CallsFit' /\ CallsKnown'
  BY <1>8, <1>10 DEF CallsFit, CallsKnown
<1>12. /\ settingsRow'[c.who] = m /\ kept'[c.who][c.field] = c.next
       /\ \A f \in SettingFields \ {c.field} : kept'[c.who][f] = kept[c.who][f]
       /\ lostFields'[c.who] = (lostFields[c.who] \cup putBack) \ {c.field}
       /\ \A t \in Customers \ {c.who} :
            settingsRow'[t] = settingsRow[t] /\ kept'[t] = kept[t] /\ lostFields'[t] = lostFields[t]
  BY <1>1, <1>2, <1>4 DEF SettingsFit, RowsFit, IsRow
<1>13. RowsFit'
  <2>1. IsRow(kept'[c.who])
    <3>1. kept'[c.who] = [kept[c.who] EXCEPT ![c.field] = c.next]
      BY <1>1, <1>4 DEF SettingsFit, RowsFit
    <3>2. PICK k : k = kept[c.who]
      OBVIOUS
    <3>3. IsRow([k EXCEPT ![c.field] = c.next])
      BY <1>1, <1>2, <3>2 DEF IsRow, IsCall
    <3> QED BY <3>1, <3>2, <3>3
  <2>2. \A t \in Customers : IsRow(settingsRow'[t]) /\ IsRow(kept'[t])
    BY <1>3, <1>12, <2>1 DEF SettingsFit, RowsFit
  <2>3. /\ settingsRow' = [t \in Customers |-> settingsRow'[t]] /\ kept' = [t \in Customers |-> kept'[t]]
        /\ lostFields' = [t \in Customers |-> lostFields'[t]]
    BY <1>4 DEF SettingsFit, RowsFit
  <2> QED BY <2>2, <2>3 DEF RowsFit
<1>14. FieldsStay'
  <2> SUFFICES ASSUME NEW t \in Customers, NEW f \in SettingFields, f \notin lostFields'[t]
               PROVE  settingsRow'[t][f] = kept'[t][f]
    BY DEF FieldsStay
  <2>1. CASE t # c.who
    BY <1>12, <2>1 DEF ServerFollows, FieldsStay
  <2>2. CASE t = c.who /\ f = c.field
    BY <1>3, <1>12, <2>2
  <2>3. CASE t = c.who /\ f # c.field
    <3>1. f \notin lostFields[c.who] /\ (~c.stale \/ c.seen[f] = Unset)
      BY <1>12, <2>3
    <3>2. w[f] = kept[c.who][f]
      BY <1>1, <3>1 DEF ServerFollows, FieldsStay
    <3>3. ~c.stale => c.seen = w
      BY <1>1 DEF ServerFollows, SeenIsRow, CallAt
    <3>4. m[f] = w[f]
      BY <1>3, <2>3, <3>1, <3>3
    <3> QED BY <1>12, <2>3, <3>2, <3>4
  <2> QED BY <2>1, <2>2, <2>3
<1>15. SeenIsRow'
  <2> SUFFICES ASSUME NEW q \in SettingCalls, call'[q].at = "write", ~call'[q].stale
               PROVE  call'[q].seen = settingsRow'[call'[q].who]
    BY DEF SeenIsRow, CallAt
  <2>1. q # r
    BY <1>5, <1>6
  <2>2. call[q].at = "write" /\ ~call[q].stale /\ call[q].who # c.who /\ call'[q].who = call[q].who
    BY <1>7, <2>1 DEF CallAt, SameButAt
  <2>3. call[q].who \in Customers
    BY CallIsBusy DEF IsCall
  <2> QED BY <1>7, <1>12, <2>1, <2>2, <2>3 DEF ServerFollows, SeenIsRow, CallAt
<1>16. UseIsResolved' /\ RunsUseTheirModel'
  <2>1. \A q \in SettingCalls : call'[q].at \in {"resolve", "runs"} /\ ~call'[q].stale =>
          q # r /\ call[q].at = call'[q].at /\ ~call[q].stale /\ call'[q].next = call[q].next
          /\ call'[q].patch = call[q].patch
    BY <1>5, <1>6, <1>7 DEF SamePatch
  <2> QED BY <1>4, <2>1 DEF ServerFollows, UseIsResolved, RunsUseTheirModel, CallAt
<1>17. \A q \in SettingCalls : \A f \in {"tracing", "source"} : IsBusy(call'[q], f) => IsBusy(call[q], f)
  BY <1>1, <1>5, <1>6, <1>7 DEF IsBusy, SameButAt
<1>18. \A f \in {"tracing", "source"} : OneAtMost(f) => OneAtMost(f)'
  BY <1>17 DEF OneAtMost, Busy, IsBusy
<1>19. TracerIsFollowed'
  <2>1. \A q \in SettingCalls : (call'[q].at = "flush" <=> call[q].at = "flush")
                                /\ (call[q].at = "flush" => call'[q].next = call[q].next)
    BY <1>1, <1>5, <1>6, <1>7
  <2> QED BY <1>4, <1>18, <2>1 DEF ServerFollows, TracerIsFollowed, CallAt
<1>20. EntryIsFollowed'
  <2> SUFFICES ASSUME "source" \notin unsure' PROVE EntryIsFollowed'
    BY DEF EntryIsFollowed
  <2>1. OneAtMost("source")'
    BY <1>4, <1>18 DEF ServerFollows, EntryIsFollowed
  <2>2. \A q \in SettingCalls : EntryWritten(call'[q]) =>
          /\ q # r /\ EntryWritten(call[q]) /\ (call'[q].clears <=> call[q].clears)
          /\ call'[q].next = call[q].next
    BY <1>5, <1>6, <1>7 DEF EntryWritten, SameButAt
  <2>3. \A q \in SettingCalls :
          EntryWritten(call'[q]) /\ ~call'[q].clears => entryOf'[call'[q].next.name] = call'[q].next
    BY <1>4, <2>2 DEF ServerFollows, EntryIsFollowed
  <2>4. \/ "source" \in lostFields'[Home] \/ settingsRow'[Home].source \in {Unset, Empty}
        \/ entryOf'[settingsRow'[Home].source.name] = settingsRow'[Home].source
        \/ \E q \in SettingCalls : EntryWritten(call'[q])
    <3>1. CASE c.field = "source"
      <4>1. c.who = Home /\ settingsRow'[Home].source = c.next
        BY <1>1, <1>3, <1>12, <3>1 DEF CallKnown
      <4>2. CASE c.clears
        BY <1>1, <3>1, <4>1, <4>2 DEF CallKnown
      <4>3. CASE ~c.clears
        <5>1. entryOf[c.next.name] = c.next
          BY <1>1, <1>4, <3>1, <4>3 DEF ServerFollows, EntryIsFollowed, EntryWritten
        <5> QED BY <1>4, <4>1, <5>1
      <4> QED BY <4>2, <4>3
    <3>2. CASE c.field # "source"
      <4>1. \/ "source" \in lostFields[Home] \/ settingsRow[Home].source \in {Unset, Empty}
            \/ entryOf[settingsRow[Home].source.name] = settingsRow[Home].source
            \/ \E q \in SettingCalls : EntryWritten(call[q])
        BY <1>4 DEF ServerFollows, EntryIsFollowed
      <4>2. \A q \in SettingCalls : EntryWritten(call[q]) => EntryWritten(call'[q])
        BY <1>7, <3>2 DEF EntryWritten, SameButAt
      <4>3. "source" \in lostFields[Home] => "source" \in lostFields'[Home]
        BY <1>12, <3>2, HomeAssumption
      <4>4. \/ "source" \in lostFields'[Home] \/ settingsRow'[Home].source = settingsRow[Home].source
        <5>1. CASE c.who # Home
          BY <1>12, <5>1, HomeAssumption
        <5>2. CASE c.who = Home /\ c.stale /\ c.seen.source # Unset
          <6>1. "source" \in putBack
            BY <3>2, <5>2 DEF SettingFields
          <6> QED BY <1>12, <3>2, <5>2, <6>1
        <5>3. CASE c.who = Home /\ ~(c.stale /\ c.seen.source # Unset)
          <6>1. "source" \in SettingFields \ {c.field} /\ (~c.stale => c.seen = w)
            BY <1>1, <3>2 DEF ServerFollows, SeenIsRow, CallAt, SettingFields
          <6>2. m["source"] = w["source"]
            BY <1>3, <5>3, <6>1
          <6> QED BY <1>12, <5>3, <6>2
        <5> QED BY <5>1, <5>2, <5>3
      <4> QED BY <1>4, <4>1, <4>2, <4>3, <4>4
    <3> QED BY <3>1, <3>2
  <2> QED BY <2>1, <2>3, <2>4 DEF EntryIsFollowed
<1> QED BY <1>11, <1>13, <1>14, <1>15, <1>16, <1>19, <1>20 DEF ServerFollows

LEMMA UseCrosses ==
  ASSUME SettingsFit, ServerFollows, NEW r \in SettingCalls, CallAt(r, "apply"),
         NEW x \in {"answer", "resolve"}, x = "resolve" => call[r].field = "run",
         inUse' = call[r].next, call' = [Crossing(r) EXCEPT ![r].at = x],
         UNCHANGED <<settingsRow, kept, lostFields, unsure, tracer, entryOf>>
  PROVE  CallsFit' /\ ServerFollows' /\ ProcessFits'
<1> DEFINE c == call[r]
           d == [c EXCEPT !.at = x]
<1>1. IsCall(c) /\ CallKnown(c) /\ c.at = "apply"
  BY CallIsBusy DEF CallAt
<1>2. Crossing(r)[r] = c
  BY <1>1 DEF Crossing, CallAt
<1>3. call' = [Crossing(r) EXCEPT ![r] = d]
  BY <1>2
<1>4. /\ call' = [q \in SettingCalls |-> call'[q]] /\ call'[r] = d
      /\ \A q \in SettingCalls \ {r} :
           call'[q] = IF CallAt(q, "resolve") THEN [call[q] EXCEPT !.stale = TRUE] ELSE call[q]
  BY <1>3 DEF Crossing
<1>5. /\ IsCall(d) /\ d.at = x /\ SameButAt(d, c) /\ SamePatch(d, c)
      /\ d.next = c.next /\ d.seen = c.seen /\ d.stale = c.stale
  BY <1>1, CallAtChanged
<1>6. \A q \in SettingCalls \ {r} :
        /\ IsCall(call'[q]) /\ call'[q].at = call[q].at /\ SameButAt(call'[q], call[q])
        /\ SamePatch(call'[q], call[q]) /\ call'[q].next = call[q].next /\ call'[q].seen = call[q].seen
        /\ call'[q].stale = (call[q].stale \/ CallAt(q, "resolve"))
  <2> TAKE q \in SettingCalls \ {r}
  <2>1. CASE CallAt(q, "resolve")
    <3>1. call'[q] = [call[q] EXCEPT !.stale = TRUE]
      BY <1>4, <2>1
    <3>2. /\ IsCall(call'[q]) /\ call'[q].at = call[q].at /\ SameButAt(call'[q], call[q])
          /\ SamePatch(call'[q], call[q]) /\ call'[q].next = call[q].next /\ call'[q].seen = call[q].seen
          /\ call'[q].stale
      BY <3>1, CallIsBusy, CallStaleChanged
    <3>3. call'[q].stale = TRUE
      BY <3>2 DEF IsCall
    <3> QED BY <2>1, <3>2, <3>3
  <2>2. CASE ~CallAt(q, "resolve")
    <3>1. call'[q] = call[q] /\ IsCall(call[q])
      BY <1>4, <2>2, CallIsBusy
    <3> QED BY <2>2, <3>1 DEF SameButAt, SamePatch, IsCall
  <2> QED BY <2>1, <2>2
<1> HIDE DEF d
<1>7. CallKnown(d)
  BY <1>1, <1>5 DEF CallKnown, SameButAt, SamePatch
<1>8. \A q \in SettingCalls : IsCall(call'[q]) /\ CallKnown(call'[q])
  <2> TAKE q \in SettingCalls
  <2>1. CASE q = r BY <1>4, <1>5, <1>7, <2>1
  <2>2. CASE q # r
    <3>1. CallKnown(call[q])
      BY CallIsBusy
    <3> QED BY <1>6, <2>2, <3>1 DEF CallKnown, SameButAt, SamePatch
  <2> QED BY <2>1, <2>2
<1>9. CallsFit' /\ CallsKnown'
  BY <1>4, <1>8 DEF CallsFit, CallsKnown
<1>10. FieldsStay'
  BY DEF ServerFollows, FieldsStay
<1>11. SeenIsRow'
  <2>1. \A q \in SettingCalls : call'[q].at = "write" /\ ~call'[q].stale =>
          call[q].at = "write" /\ ~call[q].stale /\ call'[q].seen = call[q].seen /\ call'[q].who = call[q].who
    BY <1>4, <1>5, <1>6 DEF SameButAt
  <2> QED BY <2>1 DEF ServerFollows, SeenIsRow, CallAt
<1>12. UseIsResolved'
  BY <1>4, <1>5, <1>6 DEF UseIsResolved, CallAt
<1>13. RunsUseTheirModel'
  <2>1. \A q \in SettingCalls : call'[q].at = "runs" /\ ~call'[q].stale =>
          call[q].at = "runs" /\ ~call[q].stale /\ call'[q].next = call[q].next /\ call'[q].patch = call[q].patch
    BY <1>4, <1>5, <1>6 DEF SamePatch
  <2> QED BY <2>1 DEF ServerFollows, RunsUseTheirModel, CallAt
<1>14. \A q \in SettingCalls : \A f \in {"tracing", "source"} : IsBusy(call'[q], f) => IsBusy(call[q], f)
  BY <1>1, <1>4, <1>5, <1>6 DEF IsBusy, SameButAt
<1>15. \A f \in {"tracing", "source"} : OneAtMost(f) => OneAtMost(f)'
  BY <1>14 DEF OneAtMost, Busy, IsBusy
<1>16. TracerIsFollowed'
  <2>1. \A q \in SettingCalls : (call'[q].at = "flush" <=> call[q].at = "flush")
                                /\ (call[q].at = "flush" => call'[q].next = call[q].next)
    BY <1>1, <1>4, <1>5, <1>6
  <2> QED BY <1>15, <2>1 DEF ServerFollows, TracerIsFollowed, CallAt
<1>17. EntryIsFollowed'
  <2>1. \A q \in SettingCalls : (EntryWritten(call'[q]) <=> EntryWritten(call[q]))
          /\ (EntryWritten(call[q]) => /\ (call'[q].clears <=> call[q].clears)
                                       /\ call'[q].next = call[q].next)
    BY <1>1, <1>4, <1>5, <1>6 DEF EntryWritten, SameButAt
  <2> QED BY <1>15, <2>1 DEF ServerFollows, EntryIsFollowed
<1>18. ProcessFits'
  BY <1>1 DEF SettingsFit, ProcessFits, IsCall
<1> QED BY <1>9, <1>10, <1>11, <1>12, <1>13, <1>16, <1>17, <1>18 DEF ServerFollows

LEMMA TracingFits ==
  ASSUME NEW s, IsSetting(s)
  PROVE  IsSetting(TracingOverride(s)) /\ IsSetting(resolveLangfuseConfig(s))
BY EmptyFits, HomeAssumption DEF TracingOverride, resolveLangfuseConfig

LEMMA LangfuseApplies ==
  ASSUME SettingsFit, ServerFollows, NEW r \in SettingCalls, applyLangfuseToRuntime(r)
  PROVE  CallsFit' /\ ServerFollows' /\ ProcessFits'
<1> DEFINE c == call[r]
           over == TracingOverride(c.next)
           m == resolveLangfuseConfig(over)
           d == [c EXCEPT !.at = "flush", !.next = m]
<1>1. IsCall(c) /\ CallKnown(c) /\ c.at = "apply" /\ c.field = "tracing"
  BY CallIsBusy DEF CallAt, applyLangfuseToRuntime
<1>2. call' = [call EXCEPT ![r] = d]
  BY DEF SettingsFit, CallsFit, applyLangfuseToRuntime
<1>3. OneCall(r, d)
  BY <1>2, OneCallChanged DEF SettingsFit
<1>4. IsSetting(over) /\ IsSetting(m)
  BY <1>1, TracingFits DEF IsCall
<1>5. tracer' = [tracer EXCEPT !.over = over] /\ UNCHANGED <<settingsRow, kept, lostFields, unsure, entryOf, inUse>>
  BY DEF applyLangfuseToRuntime, savedVars
<1>6. tracer'.over = over /\ tracer'.exporter = tracer.exporter
      /\ tracer' = [over |-> tracer'.over, exporter |-> tracer'.exporter]
  <2> HIDE DEF over
  <2> QED BY <1>5 DEF SettingsFit, ProcessFits
<1>7. /\ IsCall(d) /\ d.at = "flush" /\ SameButAt(d, c) /\ SamePatch(d, c) /\ d.next = m
  <2> HIDE DEF m
  <2> QED BY <1>1, <1>4 DEF IsCall, CallFields, SameButAt, SamePatch
<1>8. call'[r] = d /\ \A q \in SettingCalls \ {r} : call'[q] = call[q]
  BY <1>3 DEF OneCall
<1> HIDE DEF d
<1>9. CallKnown(d)
  BY <1>1, <1>7 DEF CallKnown, SameButAt, SamePatch
<1>10. CallsFit' /\ CallsKnown'
  BY <1>3, <1>7, <1>9, OneCallFits DEF SettingsFit, ServerFollows
<1>11. FieldsStay'
  BY <1>5 DEF ServerFollows, FieldsStay
<1>12. SeenIsRow' /\ UseIsResolved' /\ RunsUseTheirModel'
  BY <1>5, <1>7, <1>8 DEF ServerFollows, SeenIsRow, UseIsResolved, RunsUseTheirModel, CallAt
<1>13. \A f \in {"tracing", "source"} : OneAtMost(f) => OneAtMost(f)'
  <2>1. \A q \in SettingCalls : \A f \in {"tracing", "source"} : IsBusy(call'[q], f) => IsBusy(call[q], f)
    BY <1>1, <1>7, <1>8 DEF IsBusy, SameButAt
  <2> QED BY <2>1 DEF OneAtMost, Busy, IsBusy
<1>14. TracerIsFollowed'
  <2> SUFFICES ASSUME "tracing" \notin unsure' PROVE TracerIsFollowed'
    BY DEF TracerIsFollowed
  <2>1. OneAtMost("tracing") /\ OneAtMost("tracing")'
    BY <1>5, <1>13 DEF ServerFollows, TracerIsFollowed
  <2>2. \A q \in SettingCalls : call'[q].at = "flush" => q = r
    <3> SUFFICES ASSUME NEW q \in SettingCalls, call'[q].at = "flush", q # r PROVE FALSE
      OBVIOUS
    <3>1. call[q].at = "flush"
      BY <1>8
    <3>2. call[q].field = "tracing"
      BY <3>1, CallIsBusy DEF CallKnown
    <3> QED BY <1>1, <2>1, <3>1, <3>2 DEF OneAtMost, Busy
  <2>3. \A q \in SettingCalls : CallAt(q, "flush")' => call'[q].next = resolveLangfuseConfig(tracer'.over)
    BY <1>6, <1>7, <1>8, <2>2 DEF CallAt
  <2>4. CallAt(r, "flush")'
    BY <1>7, <1>8 DEF CallAt
  <2> QED BY <2>1, <2>3, <2>4 DEF TracerIsFollowed
<1>15. EntryIsFollowed'
  <2>1. \A q \in SettingCalls : (EntryWritten(call'[q]) <=> EntryWritten(call[q]))
          /\ (EntryWritten(call[q]) => call'[q] = call[q])
    BY <1>1, <1>7, <1>8 DEF EntryWritten, SameButAt
  <2> QED BY <1>5, <1>13, <2>1 DEF ServerFollows, EntryIsFollowed
<1>16. ProcessFits'
  BY <1>4, <1>5, <1>6 DEF SettingsFit, ProcessFits
<1> QED BY <1>10, <1>11, <1>12, <1>14, <1>15, <1>16 DEF ServerFollows

LEMMA FlushEnds ==
  ASSUME SettingsFit, ServerFollows, NEW r \in SettingCalls, Flush(r)
  PROVE  CallsFit' /\ ServerFollows' /\ ProcessFits'
<1> DEFINE c == call[r]
           d == [c EXCEPT !.at = "answer"]
<1>1. IsCall(c) /\ CallKnown(c) /\ c.at = "flush" /\ c.field = "tracing"
  BY CallIsBusy DEF CallAt, Flush, CallKnown
<1>2. call' = [call EXCEPT ![r] = d]
  BY DEF SettingsFit, CallsFit, Flush, Moves
<1>3. OneCall(r, d)
  BY <1>2, OneCallChanged DEF SettingsFit
<1>4. /\ UNCHANGED <<settingsRow, kept, lostFields, entryOf, inUse>>
      /\ \/ tracer' = [tracer EXCEPT !.exporter = c.next] /\ unsure' = unsure
         \/ unsure' = unsure \cup {"tracing"} /\ tracer' = tracer
  BY DEF Flush
<1>5. /\ tracer'.over = tracer.over /\ (tracer' = tracer \/ tracer'.exporter = c.next)
      /\ tracer' = [over |-> tracer'.over, exporter |-> tracer'.exporter]
      /\ "tracing" \notin unsure' => "tracing" \notin unsure /\ tracer'.exporter = c.next
      /\ "source" \in unsure' <=> "source" \in unsure
  BY <1>4 DEF SettingsFit, ProcessFits
<1>7. /\ IsCall(d) /\ d.at = "answer" /\ SameButAt(d, c) /\ SamePatch(d, c) /\ d.next = c.next
  BY <1>1, CallAtChanged
<1>8. call'[r] = d /\ \A q \in SettingCalls \ {r} : call'[q] = call[q]
  BY <1>3 DEF OneCall
<1> HIDE DEF d
<1>9. CallKnown(d)
  BY <1>1, <1>7 DEF CallKnown, SameButAt, SamePatch
<1>10. CallsFit' /\ CallsKnown'
  BY <1>3, <1>7, <1>9, OneCallFits DEF SettingsFit, ServerFollows
<1>11. FieldsStay'
  BY <1>4 DEF ServerFollows, FieldsStay
<1>12. SeenIsRow' /\ UseIsResolved' /\ RunsUseTheirModel'
  BY <1>4, <1>7, <1>8 DEF ServerFollows, SeenIsRow, UseIsResolved, RunsUseTheirModel, CallAt
<1>13. \A f \in {"tracing", "source"} : OneAtMost(f) => OneAtMost(f)'
  <2>1. \A q \in SettingCalls : \A f \in {"tracing", "source"} : IsBusy(call'[q], f) => IsBusy(call[q], f)
    BY <1>1, <1>7, <1>8 DEF IsBusy, SameButAt
  <2> QED BY <2>1 DEF OneAtMost, Busy, IsBusy
<1>14. TracerIsFollowed'
  <2> SUFFICES ASSUME "tracing" \notin unsure' PROVE TracerIsFollowed'
    BY DEF TracerIsFollowed
  <2>1. OneAtMost("tracing")'
    BY <1>5, <1>13 DEF ServerFollows, TracerIsFollowed
  <2>2. /\ c.next = resolveLangfuseConfig(tracer.over)
        /\ \A q \in SettingCalls : CallAt(q, "flush") => call[q].next = resolveLangfuseConfig(tracer.over)
    BY <1>1, <1>5 DEF ServerFollows, TracerIsFollowed, CallAt
  <2>3. \A q \in SettingCalls : CallAt(q, "flush")' => call'[q].next = resolveLangfuseConfig(tracer'.over)
    BY <1>5, <1>7, <1>8, <2>2 DEF CallAt
  <2>4. tracer'.exporter = resolveLangfuseConfig(tracer'.over)
    BY <1>5, <2>2
  <2> QED BY <2>1, <2>3, <2>4 DEF TracerIsFollowed
<1>15. EntryIsFollowed'
  <2>1. \A q \in SettingCalls : (EntryWritten(call'[q]) <=> EntryWritten(call[q]))
          /\ (EntryWritten(call[q]) => call'[q] = call[q])
    BY <1>1, <1>7, <1>8 DEF EntryWritten, SameButAt
  <2> QED BY <1>4, <1>5, <1>13, <2>1 DEF ServerFollows, EntryIsFollowed
<1>16. ProcessFits'
  BY <1>1, <1>4, <1>5 DEF SettingsFit, ProcessFits, IsCall
<1> QED BY <1>10, <1>11, <1>12, <1>14, <1>15, <1>16 DEF ServerFollows

(* What a boot makes of the row.                                           *)
LEMMA SeededFits ==
  ASSUME NEW w, IsRow(w)
  PROVE  /\ IsRow(Seeded(w)) /\ Seeded(w).source = w.source
         /\ Seeded(w).model = SeededModel(w) /\ Seeded(w).tracing = SeededTracing(w)
         /\ IsSetting(SeededModel(w)) /\ IsSetting(SeededTracing(w))
<1> DEFINE x == SeededModel(w)
           y == SeededTracing(w)
<1>1. IsSetting(x) /\ IsSetting(y)
  BY HomeAssumption DEF SeededModel, SeededTracing, IsRow, SettingFields
<1>2. Seeded(w) = [w EXCEPT !.model = x, !.tracing = y]
  BY DEF Seeded
<1> HIDE DEF x, y
<1>3. /\ IsRow([w EXCEPT !.model = x, !.tracing = y]) /\ [w EXCEPT !.model = x, !.tracing = y].source = w.source
      /\ [w EXCEPT !.model = x, !.tracing = y].model = x /\ [w EXCEPT !.model = x, !.tracing = y].tracing = y
  BY <1>1 DEF IsRow, SettingFields
<1> QED BY <1>1, <1>2, <1>3 DEF x, y

LEMMA BootFits ==
  ASSUME NEW w, IsRow(w), NEW s, IsSetting(s)
  PROVE  /\ IsSetting(ModelAtBoot(w))
         /\ TracerOf(s) = [over |-> TracerOf(s).over, exporter |-> TracerOf(s).exporter]
         /\ TracerOf(s).over = s /\ TracerOf(s).exporter = resolveLangfuseConfig(s)
         /\ IsSetting(resolveLangfuseConfig(s))
BY SeededFits, TracingFits, EmptyFits DEF ModelAtBoot, TracerOf

LEMMA Restarts ==
  ASSUME SettingsFit, ServerFollows, RestartServer
  PROVE  CallsFit' /\ ServerFollows' /\ RowsFit' /\ ProcessFits'
<1> DEFINE w == settingsRow[Home]
           s == TracingOverride(SeededTracing(w))
<1>1. IsRow(w) /\ IsRow(Seeded(w)) /\ Seeded(w).source = w.source /\ IsSetting(s)
  BY HomeAssumption, SeededFits, TracingFits DEF SettingsFit, RowsFit
<1>2. /\ settingsRow' = [settingsRow EXCEPT ![Home] = Seeded(settingsRow[Home])]
      /\ kept' = [kept EXCEPT ![Home] = Seeded(settingsRow[Home])]
      /\ lostFields' = [lostFields EXCEPT ![Home] = lostFields[Home] \cap {"source"}]
      /\ inUse' = ModelAtBoot(w) /\ tracer' = TracerOf(s) /\ entryOf' = entryOf
      /\ unsure' = (unsure \ {"tracing"}) \cup {"source" : r \in {q \in Busy : call[q].field = "source"}}
      /\ call' = [r \in SettingCalls |-> NoCall]
  BY DEF RestartServer
<1>3. /\ settingsRow'[Home] = Seeded(w) /\ kept'[Home] = Seeded(w)
      /\ lostFields'[Home] = lostFields[Home] \cap {"source"}
      /\ \A t \in Customers \ {Home} :
           settingsRow'[t] = settingsRow[t] /\ kept'[t] = kept[t] /\ lostFields'[t] = lostFields[t]
      /\ settingsRow' = [t \in Customers |-> settingsRow'[t]] /\ kept' = [t \in Customers |-> kept'[t]]
      /\ lostFields' = [t \in Customers |-> lostFields'[t]]
  BY <1>2, HomeAssumption DEF SettingsFit, RowsFit
<1>4. RowsFit'
  BY <1>1, <1>3 DEF SettingsFit, RowsFit
<1>5. ProcessFits'
  BY <1>1, <1>2, BootFits DEF SettingsFit, ProcessFits
<1>6. \A r \in SettingCalls : call'[r] = NoCall
  BY <1>2
<1>7. CallsFit' /\ CallsKnown'
  BY <1>2, <1>6, NoCallFits, NoCallKnown DEF CallsFit, CallsKnown
<1>8. FieldsStay'
  BY <1>3 DEF ServerFollows, FieldsStay
<1>9. SeenIsRow' /\ UseIsResolved' /\ RunsUseTheirModel'
  BY <1>6, NoCallFits DEF SeenIsRow, UseIsResolved, RunsUseTheirModel, CallAt
<1>10. \A f : OneAtMost(f)'
  BY <1>6, NoCallFits DEF OneAtMost, Busy
<1>11. TracerIsFollowed'
  BY <1>1, <1>2, <1>6, <1>10, NoCallFits, BootFits DEF TracerIsFollowed, CallAt
<1>12. EntryIsFollowed'
  <2> SUFFICES ASSUME "source" \notin unsure' PROVE EntryIsFollowed'
    BY DEF EntryIsFollowed
  <2>1. "source" \notin unsure /\ \A q \in SettingCalls : ~EntryWritten(call[q])
    BY <1>2 DEF Busy, EntryWritten
  <2>2. \/ "source" \in lostFields[Home] \/ settingsRow[Home].source \in {Unset, Empty}
        \/ entryOf[settingsRow[Home].source.name] = settingsRow[Home].source
    BY <2>1 DEF ServerFollows, EntryIsFollowed
  <2>3. \/ "source" \in lostFields'[Home] \/ settingsRow'[Home].source \in {Unset, Empty}
        \/ entryOf'[settingsRow'[Home].source.name] = settingsRow'[Home].source
    BY <1>1, <1>2, <1>3, <2>2
  <2>4. \A q \in SettingCalls : ~EntryWritten(call'[q])
    BY <1>6, NoCallFits DEF EntryWritten
  <2> QED BY <1>10, <2>3, <2>4 DEF EntryIsFollowed
<1> QED BY <1>4, <1>5, <1>7, <1>8, <1>9, <1>11, <1>12 DEF ServerFollows

-----------------------------------------------------------------------------
(* New settings of the provider, and the chosen model.                     *)
LEMMA UpsertHas ==
  ASSUME NEW list, IsList(list), NEW id
  PROVE  IsList(upsertCatalogModel(list, id)) /\ In(id, upsertCatalogModel(list, id))
<1>1. PICK l : l = Remaining(list, {id})
  OBVIOUS
<1>2. IsList(l)
  BY <1>1, ListWithout
<1> QED BY <1>1, <1>2, ListAppended DEF upsertCatalogModel

LEMMA UpsertOfNone ==
  ASSUME NEW id, NEW x
  PROVE  In(x, upsertCatalogModel(<<>>, id)) => x = id
<1>1. IsList(<<>>)
  <2>1. <<>> \in Seq({})
    OBVIOUS
  <2> QED BY <2>1 DEF IsList
<1>2. PICK l : l = Remaining(<<>>, {id})
  OBVIOUS
<1>3. IsList(l) /\ \A y : ~In(y, l)
  BY <1>1, <1>2, ListWithout, NothingIsInNone
<1> QED BY <1>2, <1>3, ListAppended DEF upsertCatalogModel

LEMMA EnabledHas ==
  ASSUME NEW list, IsList(list), NEW offs
  PROVE  /\ IsList(Enabled(list, offs))
         /\ \A x : In(x, Enabled(list, offs)) <=> In(x, list) /\ x \notin offs
BY ListWithout DEF Enabled

LEMMA NoneIsEmpty ==
  ASSUME NEW list, NEW x, In(x, list)
  PROVE  list # <<>>
BY NothingIsInNone

LEMMA TakesModel ==
  ASSUME NEW p, isModelProviderConfigured(p), NEW list, IsList(list), NEW offs, NEW id,
         TakeProvider(p, list, offs, id, <<>>)
  PROVE  LET s == SlugOf[p.name]
         IN  /\ provider' = p /\ IsList(listing') /\ In(s, listing') /\ s \notin offIds'
             /\ (id = s \/ list = <<>>) => active' = s
<1> DEFINE s == SlugOf[p.name]
           list2 == upsertCatalogModel(list, s)
           offs2 == offs \ {s}
           E == Enabled(list2, offs2)
           id2 == ActiveIn(E, id)
<1>1. /\ provider' = p /\ listing' = list2 /\ offIds' = offs2
      /\ active' = ActiveIn(listConfiguredModels(p, list2, offs2, <<>>), id2)
  BY DEF TakeProvider
<1>2. IsList(list2) /\ In(s, list2)
  BY UpsertHas
<1> HIDE DEF list2
<1>3. IsList(E) /\ \A x : In(x, E) <=> In(x, list2) /\ x \notin offs2
  BY <1>2, EnabledHas
<1>4. In(s, E) /\ E # <<>>
  BY <1>2, <1>3, NoneIsEmpty
<1>5. listConfiguredModels(p, list2, offs2, <<>>) = E
  BY <1>4 DEF listConfiguredModels
<1>6. ASSUME id = s \/ list = <<>> PROVE active' = s
  <2>1. id2 = s
    <3>1. CASE id = s
      BY <1>3, <1>4, <3>1, ActiveIsIn
    <3>2. CASE list = <<>>
      <4>1. In(id2, E)
        BY <1>3, <1>4, ActiveIsIn
      <4> QED BY <1>3, <3>2, <4>1, UpsertOfNone DEF list2
    <3> QED BY <1>6, <3>1, <3>2
  <2> QED BY <1>1, <1>3, <1>4, <1>5, <2>1, ActiveIsIn
<1> QED BY <1>1, <1>2, <1>6

LEMMA TakesNothing ==
  ASSUME NEW p, ~isModelProviderConfigured(p), NEW list, NEW offs, NEW id, NEW cat,
         TakeProvider(p, list, offs, id, cat)
  PROVE  provider' = p /\ listing' = list /\ offIds' = offs /\ active' = id
<1>1. /\ provider' = p /\ listing' = list /\ offIds' = offs
      /\ active' = ActiveIn(listConfiguredModels(p, list, offs, cat), id)
  BY DEF TakeProvider
<1>2. listConfiguredModels(p, list, offs, cat) = <<>>
  BY DEF listConfiguredModels
<1> QED BY <1>1, <1>2 DEF ActiveIn

LEMMA TakesCatalog ==
  ASSUME NEW p, isModelProviderConfigured(p), NEW list, NEW offs, NEW id, NEW cat, IsList(cat), cat # <<>>,
         TakeProvider(p, list, offs, id, cat)
  PROVE  provider' = p /\ listing' = list /\ offIds' = offs /\ In(active', cat)
<1>1. /\ provider' = p /\ listing' = list /\ offIds' = offs
      /\ active' = ActiveIn(listConfiguredModels(p, list, offs, cat), id)
  BY DEF TakeProvider
<1>2. listConfiguredModels(p, list, offs, cat) = cat
  BY DEF listConfiguredModels
<1> QED BY <1>1, <1>2, ActiveIsIn

LEMMA CatalogIsList == IsList(CatalogModels) /\ IsList(<<>>)
<1>1. <<>> \in Seq({})
  OBVIOUS
<1> QED BY <1>1, HomeAssumption DEF IsList

LEMMA TakesList ==
  ASSUME NEW p, NEW list, IsList(list), NEW offs, NEW id, NEW cat, TakeProvider(p, list, offs, id, cat)
  PROVE  provider' = p /\ IsList(listing')
<1>1. provider' = p /\ (listing' = list \/ listing' = upsertCatalogModel(list, SlugOf[p.name]))
  BY DEF TakeProvider
<1> QED BY <1>1, UpsertHas

(* What the server tells of its settings.                                  *)
LEMMA ViewTells ==
  ASSUME NEW m, IsSetting(m)
  PROVE  /\ IsSetting(View(m)) /\ View(m).secret \in {"blank", "set"}
         /\ catalog # <<>> => View(m) = Setting(CatalogDefault, "set", TRUE)
         /\ catalog = <<>> =>
              /\ isModelProviderConfigured(View(m)) <=> isModelProviderConfigured(m)
              /\ isModelProviderConfigured(m) => View(m).name = m.name
              /\ View(m).secret = "set" => m.secret # "blank"
<1>1. CASE catalog # <<>>
  BY <1>1 DEF View, Setting, IsSetting
<1>2. CASE catalog = <<>>
  <2>1. PICK n, k : n = normalize(m).name /\ k = IF normalize(m).secret = "blank" THEN "blank" ELSE "set"
    OBVIOUS
  <2>2. View(m) = Setting(n, k, TRUE)
    BY <1>2, <2>1 DEF View
  <2>3. IsSetting(View(m)) /\ View(m).name = n /\ View(m).secret = k
    BY <2>2 DEF Setting, IsSetting
  <2>4. CASE m = Unset
    BY <1>2, <2>1, <2>3, <2>4, EmptyFits DEF normalize, isModelProviderConfigured
  <2>5. CASE m # Unset
    <3>1. n = m.name /\ k = IF m.secret = "blank" THEN "blank" ELSE "set"
      BY <2>1, <2>5 DEF normalize
    <3> QED BY <1>2, <2>3, <3>1 DEF isModelProviderConfigured
  <2> QED BY <2>4, <2>5
<1> QED BY <1>1, <1>2

-----------------------------------------------------------------------------
(* A step of a save of the browser: the others stay, or are told.          *)
SaveStep(r) ==
  /\ IsBusy(call[r], "model") /\ call'[r].at \notin {"none", "load"}
  /\ \A q \in SettingCalls :
       /\ call'[q].field = call[q].field /\ call'[q].who = call[q].who
       /\ (call'[q].clears <=> call[q].clears) /\ call'[q].patch = call[q].patch
       /\ q # r => call'[q].at = call[q].at
SavesTo(r) ==
  /\ Saved(r)' => call'[r].next = HomeModel'
  /\ HomeModel' = HomeModel \/ Saved(r)'
  /\ Saved(r) => Saved(r)'

LEMMA SaveMoves ==
  ASSUME BrowserFollows, about = "browser", NEW r \in SettingCalls, SaveStep(r), ~confused => SavesTo(r),
         UNCHANGED <<about, catalog, browserVars>>
  PROVE  BrowserFollows'
<1>1. CallsAreOwn /\ ChoiceIsOffered /\ (confused \/ BrowserKnows)
  BY DEF BrowserFollows
<1>2. CallsAreOwn'
  BY <1>1 DEF CallsAreOwn, SaveStep, IsBusy
<1>3. ChoiceIsOffered' /\ confused' = confused
  BY <1>1 DEF ChoiceIsOffered, browserVars
<1>4. CASE confused
  BY <1>2, <1>3, <1>4 DEF BrowserFollows
<1>5. CASE ~confused
  <2>1. SavesTo(r) /\ BrowserKnows
    BY <1>1, <1>5
  <2>2. \A q \in SettingCalls : (call[q].at # "none" <=> q = r) /\ (call'[q].at # "none" <=> q = r)
    BY <2>1 DEF BrowserKnows, SaveIsAlone, SaveStep, IsBusy
  <2>3. call[r].field = "model" /\ call'[r].field = "model" /\ call'[r].at # "load"
    BY DEF SaveStep, IsBusy
  <2>4. SaveIsAlone'
    BY <2>2 DEF SaveIsAlone, IsBusy
  <2>5. AnswersAreTrue'
    BY <2>2, <2>3 DEF AnswersAreTrue, CallAt
  <2>6. SavesAreStored'
    BY <2>1, <2>2 DEF SavesAreStored, SavesTo, Saved
  <2>7. ASSUME known' = catalog' PROVE ProviderIsTrue' /\ (catalog' = <<>> => (byHand' \/ ChoiceIsTrue'))
    <3>1. known = catalog /\ UNCHANGED <<catalog, provider, listing, offIds, active, unusable, byHand>>
      BY <2>7 DEF browserVars
    <3>2. ProviderIsTrue /\ (catalog = <<>> => (byHand \/ ChoiceIsTrue))
      BY <2>1, <3>1 DEF BrowserKnows
    <3>3. ~Asks
      BY <2>2, <2>3 DEF Asks, IsBusy
    <3>6. Unanswered => Unanswered'
      <4>1. Unanswered => Saved(r)
        BY <2>2 DEF Unanswered, Saved
      <4> QED BY <2>1, <4>1 DEF Unanswered, SavesTo
    <3>7. HomeModel' = HomeModel \/ Unanswered'
      BY <2>1 DEF SavesTo, Unanswered
    <3>8. ProviderIsTrue'
      <4>1. catalog # <<>> => View(HomeModel') = View(HomeModel)
        BY DEF View
      <4>2. catalog = <<>> /\ Unanswered => catalog' = <<>> /\ Unanswered'
        BY <3>1, <3>6
      <4>3. View(HomeModel)' = View(HomeModel')
        BY <3>1 DEF View
      <4>4. CASE catalog # <<>>
        BY <3>1, <3>2, <3>3, <4>1, <4>3, <4>4 DEF ProviderIsTrue
      <4>5. CASE catalog = <<>> /\ HomeModel' = HomeModel
        BY <3>1, <3>2, <3>3, <4>2, <4>3, <4>5 DEF ProviderIsTrue
      <4>6. CASE catalog = <<>> /\ Unanswered'
        BY <3>1, <4>6 DEF ProviderIsTrue
      <4> QED BY <3>7, <4>4, <4>5, <4>6
    <3>9. catalog = <<>> => (byHand' \/ ChoiceIsTrue')
      <4> SUFFICES ASSUME catalog = <<>>, ~byHand, ~Unanswered' PROVE ChoiceIsTrue'
        BY <3>1 DEF ChoiceIsTrue
      <4>1. ChoiceIsTrue /\ ~Unanswered /\ HomeModel' = HomeModel
        BY <3>2, <3>6, <3>7
      <4> QED BY <3>1, <4>1 DEF ChoiceIsTrue, Chosen
    <3> QED BY <3>8, <3>9
  <2> QED BY <1>2, <1>3, <2>4, <2>5, <2>6, <2>7 DEF BrowserFollows, BrowserKnows
<1> QED BY <1>4, <1>5

LEMMA SaveLoadsInBrowser ==
  ASSUME SettingsFit, ServerFollows, BrowserFollows, about = "browser", NEW r \in SettingCalls,
         loadStoredSettings(r)
  PROVE  BrowserFollows'
<1> DEFINE c == call[r]
           m == Merged(c.field, normalize(settingsRow[c.who][c.field]), c.patch)
           x == IF c.field = "source" THEN "entry" ELSE "read"
           d == [c EXCEPT !.next = m, !.at = x]
<1>1. IsCall(c) /\ CallKnown(c) /\ c.at = "load" /\ c.field \in SettingFields
  BY CallIsBusy DEF loadStoredSettings, CallAt
<1>2. c.field = "model" /\ c.who = Home
  BY <1>1 DEF BrowserFollows, CallsAreOwn, SettingFields
<1>3. call' = [call EXCEPT ![r] = d]
  BY DEF loadStoredSettings, SettingsFit, CallsFit
<1>4. call'[r] = d /\ \A q \in SettingCalls \ {r} : call'[q] = call[q]
  BY <1>3 DEF SettingsFit, CallsFit
<1>5. /\ d.at = "read" /\ SameButAt(d, c) /\ SamePatch(d, c) /\ d.next = m
  <2> HIDE DEF m
  <2> QED BY <1>1, <1>2 DEF IsCall, CallFields, SameButAt, SamePatch
<1> HIDE DEF d, m
<1>8. SaveStep(r)
  BY <1>1, <1>2, <1>4, <1>5 DEF SaveStep, IsBusy, SameButAt, SamePatch
<1>9. UNCHANGED <<about, catalog, browserVars, settingsRow>>
  BY DEF loadStoredSettings, savedVars
<1>10. SavesTo(r)
  BY <1>1, <1>4, <1>5, <1>9 DEF SavesTo, Saved, HomeModel
<1> QED BY <1>8, <1>9, <1>10, SaveMoves

LEMMA SaveReadsInBrowser ==
  ASSUME SettingsFit, ServerFollows, BrowserFollows, about = "browser", NEW r \in SettingCalls, ReadRow(r)
  PROVE  BrowserFollows'
<1> DEFINE c == call[r]
           w == settingsRow[c.who]
           d == [c EXCEPT !.at = "write", !.seen = w, !.stale = FALSE]
<1>1. IsCall(c) /\ CallKnown(c) /\ c.at = "read" /\ c.field \in SettingFields
  BY CallIsBusy DEF ReadRow, CallAt, CallKnown
<1>2. c.field = "model" /\ c.who = Home
  BY <1>1 DEF BrowserFollows, CallsAreOwn, SettingFields
<1>3. call' = [call EXCEPT ![r] = d]
  BY DEF ReadRow, SettingsFit, CallsFit
<1>4. call'[r] = d /\ \A q \in SettingCalls \ {r} : call'[q] = call[q]
  BY <1>3 DEF SettingsFit, CallsFit
<1>5. IsRow(w)
  BY <1>1 DEF IsCall, SettingsFit, RowsFit
<1>6. d.at = "write" /\ SameButAt(d, c) /\ SamePatch(d, c) /\ d.next = c.next
  <2> HIDE DEF w
  <2> QED BY <1>1, <1>5 DEF IsCall, CallFields, SameButAt, SamePatch
<1> HIDE DEF d
<1>8. SaveStep(r)
  BY <1>1, <1>2, <1>4, <1>6 DEF SaveStep, IsBusy, SameButAt, SamePatch
<1>9. UNCHANGED <<about, catalog, browserVars, settingsRow>>
  BY DEF ReadRow, savedVars
<1>11. SavesTo(r)
  BY <1>1, <1>4, <1>6, <1>9 DEF SavesTo, Saved, HomeModel
<1> QED BY <1>8, <1>9, <1>11, SaveMoves

LEMMA SaveWritesInBrowser ==
  ASSUME SettingsFit, ServerFollows, BrowserFollows, about = "browser", NEW r \in SettingCalls, WriteRow(r)
  PROVE  BrowserFollows'
<1> DEFINE c == call[r]
           w == settingsRow[c.who]
           m == Merge(w, Content(c))
           d == [c EXCEPT !.at = IF c.field \in {"model", "tracing"} THEN "apply" ELSE "answer"]
<1>1. IsCall(c) /\ CallKnown(c) /\ c.at = "write" /\ c.field \in SettingFields /\ c.next.name # "unset"
  BY CallIsBusy DEF WriteRow, CallAt, CallKnown
<1>2. c.field = "model" /\ c.who = Home /\ Home \in Customers
  BY <1>1, HomeAssumption DEF BrowserFollows, CallsAreOwn, SettingFields
<1>3. /\ settingsRow' = [settingsRow EXCEPT ![c.who] = m]
      /\ call' = [q \in SettingCalls |->
                    IF q = r THEN d
                    ELSE IF call[q].who = c.who /\ CallAt(q, "write") THEN [call[q] EXCEPT !.stale = TRUE]
                    ELSE call[q]]
      /\ UNCHANGED <<about, catalog, browserVars>>
  BY DEF WriteRow
<1>4. IsRow(w)
  BY <1>2 DEF SettingsFit, RowsFit
<1>5. m[c.field] = c.next
  BY <1>1, <1>4, MergeFits
<1>6. settingsRow'[c.who] = m
  <2> HIDE DEF m
  <2> QED BY <1>2, <1>3 DEF SettingsFit, RowsFit
<1>7. HomeModel' = c.next
  BY <1>2, <1>5, <1>6 DEF HomeModel
<1>8. d.at = "apply" /\ SameButAt(d, c) /\ SamePatch(d, c) /\ d.next = c.next
  BY <1>1, <1>2, CallAtChanged
<1>9. call'[r] = d
  BY <1>3
<1>10. \A q \in SettingCalls \ {r} :
         call'[q].at = call[q].at /\ SameButAt(call'[q], call[q]) /\ SamePatch(call'[q], call[q])
  <2> TAKE q \in SettingCalls \ {r}
  <2>1. CASE call[q].who = c.who /\ CallAt(q, "write")
    <3>1. call'[q] = [call[q] EXCEPT !.stale = TRUE]
      BY <1>3, <2>1
    <3> QED BY <3>1, CallIsBusy, CallStaleChanged
  <2>2. CASE ~(call[q].who = c.who /\ CallAt(q, "write"))
    <3>1. call'[q] = call[q]
      BY <1>3, <2>2
    <3> QED BY <3>1 DEF SameButAt, SamePatch
  <2> QED BY <2>1, <2>2
<1> HIDE DEF d, m
<1>11. SaveStep(r)
  BY <1>1, <1>2, <1>8, <1>9, <1>10 DEF SaveStep, IsBusy, SameButAt, SamePatch
<1>12. SavesTo(r)
  <2>1. Saved(r)' /\ call'[r].next = c.next
    BY <1>1, <1>2, <1>8, <1>9 DEF Saved, SameButAt
  <2> QED BY <1>7, <2>1 DEF SavesTo
<1> QED BY <1>3, <1>11, <1>12, SaveMoves

LEMMA SaveAppliesInBrowser ==
  ASSUME SettingsFit, ServerFollows, BrowserFollows, about = "browser", NEW r \in SettingCalls,
         applyModelSettingsToRuntime(r)
  PROVE  BrowserFollows'
<1> DEFINE c == call[r]
           d == [c EXCEPT !.at = "answer"]
<1>1. IsCall(c) /\ CallKnown(c) /\ c.at = "apply" /\ c.field = "model"
  BY CallIsBusy DEF applyModelSettingsToRuntime, CallAt
<1>2. Crossing(r)[r] = c
  BY <1>1 DEF Crossing, CallAt
<1>3. call' = [Crossing(r) EXCEPT ![r] = d]
  BY <1>2 DEF applyModelSettingsToRuntime
<1>4. \A q \in SettingCalls : call[q].at # "resolve"
  <2> SUFFICES ASSUME NEW q \in SettingCalls, call[q].at = "resolve" PROVE FALSE
    OBVIOUS
  <2>1. call[q].field = "run"
    BY CallIsBusy DEF CallKnown
  <2> QED BY <2>1 DEF BrowserFollows, CallsAreOwn
<1>5. call'[r] = d /\ \A q \in SettingCalls \ {r} : call'[q] = call[q]
  BY <1>3, <1>4 DEF Crossing, CallAt
<1>6. d.at = "answer" /\ SameButAt(d, c) /\ SamePatch(d, c) /\ d.next = c.next
  BY <1>1, CallAtChanged
<1> HIDE DEF d
<1>8. SaveStep(r)
  BY <1>1, <1>5, <1>6 DEF SaveStep, IsBusy, SameButAt, SamePatch
<1>9. UNCHANGED <<about, catalog, browserVars, settingsRow>>
  BY DEF applyModelSettingsToRuntime, savedVars
<1>10. ~confused => call[r].next = HomeModel
  BY <1>1 DEF BrowserFollows, BrowserKnows, SavesAreStored, Saved
<1>11. ~confused => SavesTo(r)
  BY <1>1, <1>5, <1>6, <1>9, <1>10 DEF SavesTo, Saved, HomeModel, SameButAt
<1> QED BY <1>8, <1>9, <1>11, SaveMoves

(* A request ends and tells nothing, or is asked anew.                     *)
LEMMA OneCallInBrowser ==
  ASSUME SettingsFit, BrowserFollows, about = "browser", NEW r \in SettingCalls, NEW d,
         call' = [call EXCEPT ![r] = d],
         d.at = "none" \/ (d.field \in {"model", "get", "list"} /\ d.who = Home)
  PROVE  /\ CallsAreOwn' /\ call'[r] = d /\ \A q \in SettingCalls \ {r} : call'[q] = call[q]
<1>1. call'[r] = d /\ \A q \in SettingCalls \ {r} : call'[q] = call[q]
  BY DEF SettingsFit, CallsFit
<1>2. CallsAreOwn'
  <2> SUFFICES ASSUME NEW q \in SettingCalls, call'[q].at # "none"
               PROVE  call'[q].field \in {"model", "get", "list"} /\ call'[q].who = Home
    BY DEF CallsAreOwn
  <2> QED BY <1>1 DEF BrowserFollows, CallsAreOwn
<1> QED BY <1>1, <1>2

LEMMA RefusedInBrowser ==
  ASSUME SettingsFit, ServerFollows, BrowserFollows, about = "browser", NEW r \in SettingCalls, WriteRefused(r)
  PROVE  BrowserFollows'
<1> DEFINE c == call[r]
           d == [c EXCEPT !.at = "read", !.tries = c.tries + 1]
<1>1. IsCall(c) /\ c.at = "write"
  BY CallIsBusy DEF WriteRefused, CallAt
<1>2. c.field \in {"model", "get", "list"} /\ c.who = Home
  BY <1>1 DEF BrowserFollows, CallsAreOwn
<1>3. d.who = c.who /\ d.field = c.field
  BY <1>1 DEF IsCall, CallFields
<1>4. call' = [call EXCEPT ![r] = d] \/ call' = [call EXCEPT ![r] = NoCall]
  BY DEF WriteRefused, Ends
<1> HIDE DEF d
<1>5. CallsAreOwn'
  BY <1>2, <1>3, <1>4, NoCallFits, OneCallInBrowser
<1>6. confused' /\ UNCHANGED <<known, byHand, active>>
  BY DEF WriteRefused
<1>7. ChoiceIsOffered'
  BY <1>6 DEF BrowserFollows, ChoiceIsOffered
<1> QED BY <1>5, <1>6, <1>7 DEF BrowserFollows

LEMMA ReadInBrowser ==
  ASSUME SettingsFit, ServerFollows, BrowserFollows, about = "browser", NEW r \in SettingCalls, ReadForBrowser(r)
  PROVE  BrowserFollows'
<1> DEFINE c == call[r]
           m == IF c.field = "get" THEN View(settingsRow[Home].model)
                ELSE Setting("blank", "blank", catalog # <<>>)
           d == [c EXCEPT !.next = m, !.at = "answer"]
<1>1. IsCall(c) /\ c.at = "load" /\ c.field \in {"get", "list"} /\ c.who = Home
  BY CallIsBusy DEF ReadForBrowser, CallAt, BrowserFollows, CallsAreOwn
<1>2. call' = [call EXCEPT ![r] = d]
  BY DEF ReadForBrowser, SettingsFit, CallsFit
<1>3. d.at = "answer" /\ d.who = c.who /\ d.field = c.field /\ d.next = m
  <2> HIDE DEF m
  <2> QED BY <1>1 DEF IsCall, CallFields
<1>4. /\ c.field = "get" => m = View(HomeModel)
      /\ c.field = "list" => m.on = (catalog # <<>>)
  BY DEF HomeModel, Setting
<1> HIDE DEF d, m
<1>5. CallsAreOwn' /\ call'[r] = d /\ \A q \in SettingCalls \ {r} : call'[q] = call[q]
  BY <1>1, <1>2, <1>3, OneCallInBrowser
<1>6. UNCHANGED <<about, settingsRow, catalog, listing, offIds, active, provider, known, unusable, byHand, confused>>
  BY DEF ReadForBrowser, savedVars, browserVars
<1>7. ChoiceIsOffered'
  BY <1>6 DEF BrowserFollows, ChoiceIsOffered
<1>8. ASSUME ~confused PROVE BrowserKnows'
  <2>1. BrowserKnows
    BY <1>8 DEF BrowserFollows
  <2>2. \A q \in SettingCalls :
          /\ call'[q].at = "none" <=> call[q].at = "none"
          /\ call'[q].field = call[q].field
          /\ call'[q].field = "model" => call'[q] = call[q]
    BY <1>1, <1>3, <1>5
  <2>3. SaveIsAlone' /\ SavesAreStored'
    BY <1>6, <2>1, <2>2 DEF BrowserKnows, SaveIsAlone, SavesAreStored, IsBusy, Saved, HomeModel
  <2>4. View(HomeModel)' = View(HomeModel) /\ HomeModel' = HomeModel
    BY <1>6 DEF View, HomeModel
  <2>5. AnswersAreTrue'
    BY <1>3, <1>4, <1>5, <1>6, <2>1, <2>4 DEF BrowserKnows, AnswersAreTrue, CallAt
  <2>6. (Asks <=> Asks') /\ (Unanswered <=> Unanswered')
    BY <2>2 DEF Asks, Unanswered, IsBusy, Saved
  <2>7. ProviderIsTrue => ProviderIsTrue'
    BY <1>6, <2>4, <2>6 DEF ProviderIsTrue
  <2>8. ChoiceIsTrue => ChoiceIsTrue'
    BY <1>6, <2>4, <2>6 DEF ChoiceIsTrue, Chosen
  <2> QED BY <1>6, <2>1, <2>3, <2>5, <2>7, <2>8 DEF BrowserKnows
<1> QED BY <1>5, <1>6, <1>7, <1>8 DEF BrowserFollows

(* Nothing is asked, or what is asked is to tell.                          *)
LEMMA NothingAsked ==
  ASSUME Busy = {}
  PROVE  ~Asks /\ ~Unanswered
BY DEF Busy, Asks, Unanswered, IsBusy, Saved

LEMMA PickerOpensInBrowser ==
  ASSUME SettingsFit, BrowserFollows, about = "browser", NEW r \in SettingCalls, NEW q \in SettingCalls,
         MountPicker(r, q)
  PROVE  BrowserFollows'
<1>1. /\ r # q /\ Busy = {} /\ call' = [call EXCEPT ![r] = Opening("get"), ![q] = Opening("list")]
      /\ UNCHANGED <<about, settingsRow, catalog, listing, offIds, active, provider, known, unusable, byHand, confused>>
  BY DEF MountPicker, savedVars, browserVars
<1>2. /\ Opening("get").at = "load" /\ Opening("get").who = Home /\ Opening("get").field = "get"
      /\ Opening("list").at = "load" /\ Opening("list").who = Home /\ Opening("list").field = "list"
  BY OpeningIs
<1>3. /\ call'[r] = Opening("get") /\ call'[q] = Opening("list")
      /\ \A p \in SettingCalls \ {r, q} : call'[p] = call[p]
  BY <1>1 DEF SettingsFit, CallsFit
<1>4. \A p \in SettingCalls : call'[p].at # "none" =>
        call'[p].at = "load" /\ call'[p].who = Home /\ call'[p].field \in {"get", "list"}
  BY <1>1, <1>2, <1>3 DEF Busy
<1>5. CallsAreOwn' /\ ChoiceIsOffered'
  BY <1>1, <1>4 DEF CallsAreOwn, ChoiceIsOffered, BrowserFollows
<1>6. ASSUME ~confused PROVE BrowserKnows'
  <2>1. BrowserKnows
    BY <1>6 DEF BrowserFollows
  <2>2. SaveIsAlone' /\ AnswersAreTrue' /\ SavesAreStored'
    BY <1>4 DEF SaveIsAlone, AnswersAreTrue, SavesAreStored, IsBusy, CallAt, Saved
  <2>3. Asks'
    BY <1>2, <1>3 DEF Asks, IsBusy
  <2>4. ChoiceIsTrue => ChoiceIsTrue'
    BY <1>1, NothingAsked DEF ChoiceIsTrue, Chosen, HomeModel
  <2> QED BY <1>1, <2>1, <2>2, <2>3, <2>4 DEF BrowserKnows, ProviderIsTrue
<1> QED BY <1>1, <1>5, <1>6 DEF BrowserFollows

LEMMA SaveBeginsInBrowser ==
  ASSUME SettingsFit, BrowserFollows, about = "browser", NEW r \in SettingCalls, saveProvider(r)
  PROVE  BrowserFollows'
<1>1. PICK o \in Offers : /\ o.field = "model" /\ ~o.clears
                          /\ o.patch.secret # "blank" \/ provider.secret = "set"
                          /\ call' = [call EXCEPT ![r] = Request(Home, o)]
  BY DEF saveProvider
<1> DEFINE d == Request(Home, o)
<1>2. d.at = "load" /\ d.who = Home /\ d.field = "model" /\ d.patch = o.patch /\ ~d.clears
  BY <1>1, RequestFits, HomeAssumption
<1>3. call' = [call EXCEPT ![r] = d]
  BY <1>1
<1> HIDE DEF d
<1>4. CallsAreOwn' /\ call'[r] = d /\ \A q \in SettingCalls \ {r} : call'[q] = call[q]
  BY <1>2, <1>3, OneCallInBrowser
<1>5. /\ UNCHANGED <<about, settingsRow, catalog, listing, offIds, active, provider, known, unusable, byHand>>
      /\ confused' = (confused \/ Busy # {})
  BY DEF saveProvider, savedVars
<1>6. ChoiceIsOffered'
  BY <1>5 DEF BrowserFollows, ChoiceIsOffered
<1>7. ASSUME ~confused, Busy = {} PROVE BrowserKnows'
  <2>1. BrowserKnows
    BY <1>7 DEF BrowserFollows
  <2>2. \A q \in SettingCalls : call'[q].at # "none" => q = r
    BY <1>4, <1>7 DEF Busy
  <2>3. SaveIsAlone' /\ AnswersAreTrue' /\ SavesAreStored'
    BY <1>2, <1>4, <2>2 DEF SaveIsAlone, AnswersAreTrue, SavesAreStored, IsBusy, CallAt, Saved
  <2>4. ProviderIsTrue => provider = Empty \/ provider = View(HomeModel) \/ unusable
    BY <1>7, NothingAsked DEF ProviderIsTrue
  <2>5. View(HomeModel)' = View(HomeModel) /\ HomeModel' = HomeModel
    BY <1>5 DEF View, HomeModel
  <2>6. ProviderIsTrue => ProviderIsTrue'
    BY <1>5, <2>4, <2>5 DEF ProviderIsTrue
  <2>7. ChoiceIsTrue => ChoiceIsTrue'
    BY <1>5, <1>7, <2>5, NothingAsked DEF ChoiceIsTrue, Chosen
  <2> QED BY <1>5, <2>1, <2>3, <2>6, <2>7 DEF BrowserKnows
<1> QED BY <1>4, <1>5, <1>6, <1>7 DEF BrowserFollows

LEMMA SavedInBrowser ==
  ASSUME SettingsFit, BrowserFollows, about = "browser", NEW r \in SettingCalls, ProviderSaved(r)
  PROVE  BrowserFollows'
<1> DEFINE m == call[r].next
           id == SlugOf[m.name]
           p == Setting(m.name, "set", TRUE)
<1>1. /\ call[r].at = "answer" /\ call[r].field = "model"
      /\ UNCHANGED <<about, settingsRow, catalog, known, confused>>
  BY DEF ProviderSaved, savedVars, CallAt
<1>2. ~confused => BrowserKnows /\ m = HomeModel /\ \A q \in SettingCalls : call[q].at # "none" => q = r
  BY <1>1 DEF BrowserFollows, BrowserKnows, SaveIsAlone, SavesAreStored, IsBusy, Saved
<1>3. HomeModel' = HomeModel /\ View(HomeModel)' = View(HomeModel)
  BY <1>1 DEF HomeModel, View
<1>4. CASE isModelProviderConfigured(m)
  <2>1. /\ TakeProvider(p, upsertCatalogModel(listing, id), offIds \ {id}, id, known)
        /\ call' = [call EXCEPT ![r] = Opening("get")] /\ byHand' = FALSE
    BY <1>4 DEF ProviderSaved
  <2>2. Opening("get").at = "load" /\ Opening("get").who = Home /\ Opening("get").field = "get"
    BY OpeningIs
  <2>3. CallsAreOwn' /\ call'[r] = Opening("get") /\ \A q \in SettingCalls \ {r} : call'[q] = call[q]
    BY <2>1, <2>2, OneCallInBrowser
  <2>4. p.name = m.name /\ isModelProviderConfigured(p)
    BY <1>4 DEF isModelProviderConfigured, Setting
  <2>5. IsList(upsertCatalogModel(listing, id))
    BY UpsertHas DEF SettingsFit, BrowserFits
  <2>6. ChoiceIsOffered'
    <3> SUFFICES ASSUME known # <<>> PROVE In(active', known)
      BY <1>1 DEF ChoiceIsOffered
    <3>1. IsList(known)
      BY CatalogIsList DEF SettingsFit, BrowserFits
    <3> HIDE DEF p, id
    <3> QED BY <2>1, <2>4, <3>1, TakesCatalog
  <2>7. ASSUME ~confused PROVE BrowserKnows'
    <3>1. \A q \in SettingCalls : call'[q].at # "none" => q = r
      BY <1>2, <2>3, <2>7
    <3>2. SaveIsAlone' /\ AnswersAreTrue' /\ SavesAreStored'
      BY <2>2, <2>3, <3>1 DEF SaveIsAlone, AnswersAreTrue, SavesAreStored, IsBusy, CallAt, Saved
    <3>3. Asks'
      BY <2>2, <2>3 DEF Asks, IsBusy
    <3>4. ASSUME known = <<>> PROVE ChoiceIsTrue'
      <4>1. /\ In(SlugOf[p.name], listing') /\ SlugOf[p.name] \notin offIds'
            /\ active' = SlugOf[p.name]
        <5> DEFINE list == upsertCatalogModel(listing, id)
                   offs == offIds \ {id}
        <5>1. TakeProvider(p, list, offs, id, <<>>) /\ id = SlugOf[p.name] /\ IsList(list)
          BY <2>1, <2>4, <2>5, <3>4
        <5> HIDE DEF p, id, list, offs
        <5> QED BY <2>4, <5>1, TakesModel
      <4>2. m = HomeModel
        BY <1>2, <2>7
      <4>3. Chosen(HomeModel.name)'
        BY <1>3, <2>4, <4>1, <4>2 DEF Chosen
      <4> QED BY <1>3, <1>4, <4>2, <4>3 DEF ChoiceIsTrue
    <3> QED BY <1>1, <3>2, <3>3, <3>4 DEF BrowserKnows, ProviderIsTrue
  <2> QED BY <1>1, <2>3, <2>6, <2>7 DEF BrowserFollows
<1>5. CASE ~isModelProviderConfigured(m)
  <2>1. call' = [call EXCEPT ![r] = NoCall] /\ unusable' /\ UNCHANGED <<provider, listing, offIds, active, byHand>>
    BY <1>5 DEF ProviderSaved, Ends
  <2>2. CallsAreOwn' /\ call'[r] = NoCall /\ \A q \in SettingCalls \ {r} : call'[q] = call[q]
    BY <2>1, NoCallFits, OneCallInBrowser
  <2>3. ChoiceIsOffered'
    BY <1>1, <2>1 DEF BrowserFollows, ChoiceIsOffered
  <2>4. ASSUME ~confused PROVE BrowserKnows'
    <3>1. \A q \in SettingCalls : call'[q].at = "none"
      BY <1>2, <2>2, <2>4, NoCallFits
    <3>2. SaveIsAlone' /\ AnswersAreTrue' /\ SavesAreStored'
      BY <3>1 DEF SaveIsAlone, AnswersAreTrue, SavesAreStored, IsBusy, CallAt, Saved
    <3>3. ~isModelProviderConfigured(HomeModel)
      BY <1>2, <1>5, <2>4
    <3>4. ProviderIsTrue' /\ ChoiceIsTrue'
      BY <1>3, <2>1, <3>3 DEF ProviderIsTrue, ChoiceIsTrue
    <3> QED BY <1>1, <1>2, <2>1, <2>4, <3>2, <3>4 DEF BrowserKnows
  <2> QED BY <1>1, <2>2, <2>3, <2>4 DEF BrowserFollows
<1> QED BY <1>4, <1>5

(* An answer of the browser: the request is over, no save is left beside.  *)
LEMMA AnsweredInBrowser ==
  ASSUME SettingsFit, BrowserFollows, about = "browser", ~confused, NEW r \in SettingCalls,
         call[r].at = "answer", call[r].field \in {"get", "list"}, Ends(r),
         UNCHANGED <<settingsRow, catalog>>
  PROVE  /\ SaveIsAlone' /\ AnswersAreTrue' /\ SavesAreStored' /\ ~Unanswered /\ ~Unanswered'
         /\ call[r].field = "list" => (Asks => Asks')
<1>1. BrowserKnows
  BY DEF BrowserFollows
<1>2. \A q \in SettingCalls : IsBusy(call[q], "model") => FALSE
  BY <1>1 DEF BrowserKnows, SaveIsAlone, IsBusy
<1>3. call'[r] = NoCall /\ \A q \in SettingCalls \ {r} : call'[q] = call[q]
  BY DEF Ends, SettingsFit, CallsFit
<1>4. \A q \in SettingCalls : ~IsBusy(call'[q], "model")
  BY <1>2, <1>3, NoCallFits DEF IsBusy
<1>5. SaveIsAlone' /\ SavesAreStored' /\ ~Unanswered /\ ~Unanswered'
  BY <1>2, <1>4 DEF SaveIsAlone, SavesAreStored, Unanswered, Saved, IsBusy
<1>6. HomeModel' = HomeModel /\ View(HomeModel)' = View(HomeModel)
  BY DEF HomeModel, View
<1>7. AnswersAreTrue'
  BY <1>1, <1>3, <1>6, NoCallFits DEF BrowserKnows, AnswersAreTrue, CallAt
<1>8. call[r].field = "list" => (Asks => Asks')
  BY <1>3 DEF Asks, IsBusy
<1> QED BY <1>5, <1>7, <1>8

LEMMA RefreshedInBrowser ==
  ASSUME SettingsFit, BrowserFollows, about = "browser", NEW r \in SettingCalls, refreshProvider(r)
  PROVE  BrowserFollows'
<1> DEFINE p == call[r].next
<1>1. /\ call[r].at = "answer" /\ call[r].field = "get" /\ Ends(r)
      /\ UNCHANGED <<about, settingsRow, catalog, known, byHand>>
  BY DEF refreshProvider, savedVars, CallAt
<1>2. CallsAreOwn'
  BY <1>1, NoCallFits, OneCallInBrowser DEF Ends
<1>3. HomeModel' = HomeModel /\ View(HomeModel)' = View(HomeModel) /\ IsSetting(HomeModel)
  BY <1>1, HomeAssumption DEF SettingsFit, RowsFit, IsRow, SettingFields, HomeModel, View
<1>4. CASE confused' = TRUE /\ UNCHANGED active
  <2>1. ChoiceIsOffered'
    BY <1>1, <1>4 DEF BrowserFollows, ChoiceIsOffered
  <2> QED BY <1>2, <1>4, <2>1 DEF BrowserFollows
<1>5. CASE TakeProvider(p, listing, offIds, active, known) /\ UNCHANGED confused
  <2>1. IsList(listing) /\ IsList(known)
    BY CatalogIsList DEF SettingsFit, BrowserFits
  <2>2. ChoiceIsOffered'
    <3> SUFFICES ASSUME known # <<>>, ~byHand PROVE In(active', known)
      BY <1>1 DEF ChoiceIsOffered
    <3>1. CASE isModelProviderConfigured(p)
      BY <1>5, <2>1, <3>1, TakesCatalog
    <3>2. CASE ~isModelProviderConfigured(p)
      <4>1. active' = active
        BY <1>5, <3>2, TakesNothing
      <4> QED BY <4>1 DEF BrowserFollows, ChoiceIsOffered
    <3> QED BY <3>1, <3>2
  <2>3. ASSUME ~confused PROVE BrowserKnows'
    <3>1. BrowserKnows /\ p = View(HomeModel)
      BY <1>1, <2>3 DEF BrowserFollows, BrowserKnows, AnswersAreTrue, CallAt
    <3>2. SaveIsAlone' /\ AnswersAreTrue' /\ SavesAreStored' /\ ~Unanswered
      BY <1>1, <2>3, AnsweredInBrowser
    <3>3. ProviderIsTrue'
      <4>1. provider' = p
        BY <1>5 DEF TakeProvider
      <4> QED BY <1>3, <3>1, <4>1 DEF ProviderIsTrue
    <3>4. ASSUME known = <<>>, catalog = <<>>, ChoiceIsTrue PROVE ChoiceIsTrue'
      <4>1. (isModelProviderConfigured(p) <=> isModelProviderConfigured(HomeModel))
            /\ (isModelProviderConfigured(HomeModel) => p.name = HomeModel.name)
        BY <1>3, <3>1, <3>4, ViewTells
      <4>2. CASE ~isModelProviderConfigured(HomeModel)
        BY <1>3, <4>2 DEF ChoiceIsTrue
      <4>3. CASE isModelProviderConfigured(HomeModel)
        <5>1. active = SlugOf[p.name] \/ listing = <<>>
          BY <3>2, <3>4, <4>1, <4>3 DEF ChoiceIsTrue, Chosen
        <5>2. In(SlugOf[p.name], listing') /\ SlugOf[p.name] \notin offIds' /\ active' = SlugOf[p.name]
          BY <1>5, <2>1, <3>4, <4>1, <4>3, <5>1, TakesModel
        <5> QED BY <1>3, <4>1, <4>3, <5>2 DEF ChoiceIsTrue, Chosen
      <4> QED BY <4>2, <4>3
    <3> QED BY <1>1, <3>1, <3>2, <3>3, <3>4 DEF BrowserKnows
  <2> QED BY <1>1, <1>2, <1>5, <2>2, <2>3 DEF BrowserFollows
<1> QED BY <1>4, <1>5 DEF refreshProvider

LEMMA CatalogTakenInBrowser ==
  ASSUME SettingsFit, BrowserFollows, about = "browser", NEW r \in SettingCalls, bootstrapModelCatalog(r)
  PROVE  BrowserFollows'
<1> DEFINE p == Setting(CatalogDefault, "set", TRUE)
           id == ActiveIn(CatalogModels, active)
<1>1. /\ call[r].at = "answer" /\ call[r].field = "list" /\ Ends(r)
      /\ UNCHANGED <<about, settingsRow, catalog, byHand>>
  BY DEF bootstrapModelCatalog, savedVars, CallAt
<1>2. CallsAreOwn'
  BY <1>1, NoCallFits, OneCallInBrowser DEF Ends
<1>3. HomeModel' = HomeModel /\ View(HomeModel)' = View(HomeModel)
  BY <1>1 DEF HomeModel, View
<1>4. ~confused => BrowserKnows /\ call[r].next.on = (catalog # <<>>)
  BY <1>1 DEF BrowserFollows, BrowserKnows, AnswersAreTrue, CallAt
<1>5. ~confused => /\ SaveIsAlone' /\ AnswersAreTrue' /\ SavesAreStored' /\ ~Unanswered /\ ~Unanswered'
                   /\ Asks => Asks'
  BY <1>1, AnsweredInBrowser
<1>6. CASE /\ call[r].next.on /\ known' = CatalogModels
           /\ TakeProvider(p, CatalogModels, {}, id, CatalogModels) /\ UNCHANGED confused
  <2>1. IsList(CatalogModels)
    BY CatalogIsList
  <2>2. ChoiceIsOffered'
    <3> SUFFICES ASSUME CatalogModels # <<>> PROVE In(active', CatalogModels)
      BY <1>6 DEF ChoiceIsOffered
    <3>1. CASE isModelProviderConfigured(p)
      <4> HIDE DEF p, id
      <4> QED BY <1>6, <2>1, <3>1, TakesCatalog
    <3>2. CASE ~isModelProviderConfigured(p)
      <4>1. active' = id
        <5> HIDE DEF p, id
        <5> QED BY <1>6, <3>2, TakesNothing
      <4> QED BY <2>1, <4>1, ActiveIsIn
    <3> QED BY <3>1, <3>2
  <2>3. ASSUME ~confused PROVE BrowserKnows'
    <3>1. catalog # <<>> /\ provider' = p
      BY <1>4, <1>6, <2>3 DEF TakeProvider
    <3>2. View(HomeModel) = p
      BY <3>1 DEF View
    <3>3. ProviderIsTrue'
      BY <1>3, <3>1, <3>2 DEF ProviderIsTrue
    <3> QED BY <1>1, <1>5, <2>3, <3>1, <3>3 DEF BrowserKnows
  <2> QED BY <1>1, <1>2, <1>6, <2>2, <2>3 DEF BrowserFollows
<1>7. CASE UNCHANGED <<known, unusable, provider, listing, offIds, active>> /\ confused' = (confused \/ call[r].next.on)
  <2>1. ChoiceIsOffered'
    BY <1>1, <1>7 DEF BrowserFollows, ChoiceIsOffered
  <2>2. ASSUME ~confused PROVE BrowserKnows'
    <3>1. (ProviderIsTrue => ProviderIsTrue') /\ (ChoiceIsTrue => ChoiceIsTrue')
      BY <1>1, <1>3, <1>5, <1>7, <2>2 DEF ProviderIsTrue, ChoiceIsTrue, Chosen
    <3> QED BY <1>1, <1>4, <1>5, <1>7, <2>2, <3>1 DEF BrowserKnows
  <2> QED BY <1>1, <1>2, <1>7, <2>1, <2>2 DEF BrowserFollows
<1> QED BY <1>6, <1>7 DEF bootstrapModelCatalog

LEMMA ActInBrowser ==
  ASSUME BrowserFollows, about = "browser", NEW list, NEW offs, NEW id, Act(list, offs, id)
  PROVE  BrowserFollows'
<1>1. /\ byHand' = TRUE /\ confused' = (confused \/ Busy # {})
      /\ UNCHANGED <<about, settingsRow, call, catalog, provider, known, unusable>>
  BY DEF Act, savedVars
<1>2. CallsAreOwn' /\ ChoiceIsOffered'
  BY <1>1 DEF BrowserFollows, CallsAreOwn, ChoiceIsOffered
<1>3. ASSUME ~confused PROVE BrowserKnows'
  <2>1. BrowserKnows
    BY <1>3 DEF BrowserFollows
  <2>2. HomeModel' = HomeModel /\ View(HomeModel)' = View(HomeModel)
    BY <1>1 DEF HomeModel, View
  <2>3. /\ SaveIsAlone => SaveIsAlone'
        /\ AnswersAreTrue => AnswersAreTrue'
        /\ SavesAreStored => SavesAreStored'
        /\ ProviderIsTrue => ProviderIsTrue'
    <3>1. SaveIsAlone => SaveIsAlone'
      BY <1>1 DEF SaveIsAlone
    <3>2. AnswersAreTrue => AnswersAreTrue'
      BY <1>1, <2>2 DEF AnswersAreTrue, CallAt
    <3>3. SavesAreStored => SavesAreStored'
      BY <1>1, <2>2 DEF SavesAreStored, Saved
    <3>4. ProviderIsTrue => ProviderIsTrue'
      BY <1>1, <2>2 DEF ProviderIsTrue, Asks, Unanswered, Saved
    <3> QED BY <3>1, <3>2, <3>3, <3>4
  <2> QED BY <1>1, <2>1, <2>3 DEF BrowserKnows
<1> QED BY <1>1, <1>2, <1>3 DEF BrowserFollows

LEMMA CatalogEditedInBrowser ==
  ASSUME SettingsFit, BrowserFollows, about = "browser", EditCatalog
  PROVE  BrowserFollows'
<1>1. /\ confused' = (confused \/ Busy # {} \/ known # catalog)
      /\ catalog' = IF catalog = <<>> THEN CatalogModels ELSE <<>>
      /\ UNCHANGED <<about, settingsRow, call, listing, offIds, active, provider, known, unusable, byHand>>
  BY DEF EditCatalog, savedVars
<1>2. CallsAreOwn' /\ ChoiceIsOffered'
  BY <1>1 DEF BrowserFollows, CallsAreOwn, ChoiceIsOffered
<1>3. ASSUME ~confused, Busy = {}, known = catalog PROVE BrowserKnows'
  <2>1. BrowserKnows
    BY <1>3 DEF BrowserFollows
  <2>2. \A q \in SettingCalls : call'[q].at = "none"
    BY <1>1, <1>3 DEF Busy
  <2>3. SaveIsAlone' /\ AnswersAreTrue' /\ SavesAreStored'
    BY <2>2 DEF SaveIsAlone, AnswersAreTrue, SavesAreStored, IsBusy, CallAt, Saved
  <2>4. ASSUME known' = catalog' PROVE ProviderIsTrue' /\ (catalog' = <<>> => byHand' \/ ChoiceIsTrue')
    <3>1. catalog' = catalog
      BY <1>1, <1>3, <2>4
    <3>2. HomeModel' = HomeModel /\ View(HomeModel)' = View(HomeModel)
      BY <1>1, <3>1 DEF HomeModel, View
    <3>3. ~Asks /\ ~Unanswered
      BY <1>3, NothingAsked
    <3>4. (ProviderIsTrue => ProviderIsTrue') /\ (ChoiceIsTrue => ChoiceIsTrue')
      BY <1>1, <3>1, <3>2, <3>3 DEF ProviderIsTrue, ChoiceIsTrue, Chosen
    <3> QED BY <1>1, <1>3, <2>1, <3>1, <3>4 DEF BrowserKnows
  <2> QED BY <2>3, <2>4 DEF BrowserKnows
<1> QED BY <1>1, <1>2, <1>3 DEF BrowserFollows

-----------------------------------------------------------------------------
(* What the variables are stays, and the parts hold at the start.          *)
LEMMA StayedFit ==
  ASSUME SettingsFit, CallsFit',
         UNCHANGED <<settingsRow, kept, lostFields, entryOf, inUse, tracer, catalog, listing, provider, known>>
  PROVE  SettingsFit'
BY DEF SettingsFit, RowsFit, ProcessFits, BrowserFits

LEMMA BrowserStaysFit ==
  ASSUME SettingsFit, UNCHANGED <<catalog, browserVars>>
  PROVE  BrowserFits'
BY DEF SettingsFit, BrowserFits, browserVars

LEMMA NotInBrowser ==
  ASSUME BrowserFollows, about = "browser", NEW r \in SettingCalls, call[r].at # "none",
         call[r].field \notin {"model", "get", "list"}
  PROVE  FALSE
BY DEF BrowserFollows, CallsAreOwn

LEMMA OfServer ==
  ASSUME about # "browser", UNCHANGED about
  PROVE  BrowserFollows'
BY DEF BrowserFollows

LEMMA SettingsBegin == SettingsInit => SettingsInv
<1> SUFFICES ASSUME SettingsInit PROVE SettingsInv
  OBVIOUS
<1>1. PICK m \in {Unset} \cup {Setting(n, "k0", TRUE) : n \in ModelNames},
           a \in {Unset} \cup {Setting("sink", "blank", TRUE) : x \in {about} \cap {"server"}} :
        LET row == [f \in SettingFields |-> IF f = "model" THEN m ELSE IF f = "audit" THEN a ELSE Unset]
            old == m # Unset /\ catalog = <<>>
        IN /\ settingsRow = [t \in Customers |-> IF t = Home THEN Seeded(row) ELSE row]
           /\ listing = IF old THEN <<SlugOf[m.name]>> ELSE <<>>
           /\ active = IF old THEN SlugOf[m.name] ELSE "blank"
  BY DEF SettingsInit
<1> DEFINE row == [f \in SettingFields |-> IF f = "model" THEN m ELSE IF f = "audit" THEN a ELSE Unset]
<1>2. /\ settingsRow = [t \in Customers |-> IF t = Home THEN Seeded(row) ELSE row]
      /\ m # Unset /\ catalog = <<>> => listing = <<SlugOf[m.name]>> /\ active = SlugOf[m.name]
      /\ m = Unset \/ catalog # <<>> => listing = <<>> /\ active = "blank"
  BY <1>1
<1>3. /\ m = Unset \/ \E n \in ModelNames : m = Setting(n, "k0", TRUE)
      /\ a = Unset \/ a = Setting("sink", "blank", TRUE)
  BY <1>1
<1>4. m = Unset \/ (IsSetting(m) /\ isModelProviderConfigured(m))
  BY <1>3, HomeAssumption DEF IsSetting, Setting, isModelProviderConfigured
<1>5. IsSetting(m) /\ IsSetting(a)
  BY <1>3, <1>4, EmptyFits DEF IsSetting, Setting
<1>6. IsRow(row) /\ row.model = m /\ row.source = Unset
  BY <1>5, EmptyFits DEF IsRow, SettingFields
<1> HIDE DEF row
<1>7. /\ IsRow(Seeded(row)) /\ Seeded(row).source = Unset /\ Seeded(row).model = SeededModel(row)
  BY <1>6, SeededFits
<1>8. /\ settingsRow = [t \in Customers |-> settingsRow[t]] /\ settingsRow[Home] = Seeded(row)
      /\ \A t \in Customers : IsRow(settingsRow[t])
  BY <1>2, <1>6, <1>7, HomeAssumption
<1>9. /\ inUse = ModelAtBoot(settingsRow[Home])
      /\ tracer = TracerOf(TracingOverride(settingsRow[Home].tracing))
      /\ entryOf = [n \in SourceNames |-> Unset]
      /\ call = [r \in SettingCalls |-> NoCall]
      /\ kept = settingsRow /\ lostFields = [t \in Customers |-> {}] /\ unsure = {}
      /\ offIds = {} /\ provider = Empty /\ known = <<>> /\ unusable = FALSE /\ byHand = FALSE /\ confused = FALSE
      /\ catalog \in {<<>>, CatalogModels}
  BY DEF SettingsInit, SourceNames
<1>10. RowsFit
  BY <1>8, <1>9 DEF RowsFit
<1>11. \A r \in SettingCalls : call[r] = NoCall
  BY <1>9
<1>12. CallsFit /\ CallsKnown
  BY <1>9, <1>11, NoCallFits, NoCallKnown DEF CallsFit, CallsKnown
<1>13. IsSetting(TracingOverride(settingsRow[Home].tracing)) /\ IsRow(settingsRow[Home])
  BY <1>8, HomeAssumption, TracingFits DEF IsRow, SettingFields
<1>14. /\ tracer = [over |-> tracer.over, exporter |-> tracer.exporter] /\ IsSetting(tracer.over)
       /\ IsSetting(tracer.exporter) /\ tracer.exporter = resolveLangfuseConfig(tracer.over) /\ IsSetting(inUse)
  BY <1>9, <1>13, BootFits
<1>15. ProcessFits
  BY <1>9, <1>14 DEF ProcessFits
<1>16. BrowserFits
  <2>1. IsList(listing)
    <3>1. <<SlugOf[m.name]>> \in Seq({SlugOf[m.name]})
      OBVIOUS
    <3> QED BY <1>2, <3>1, CatalogIsList DEF IsList
  <2> QED BY <1>9, <2>1, EmptyFits DEF BrowserFits
<1>17. ServerFollows
  <2>1. FieldsStay
    BY <1>9 DEF FieldsStay
  <2>2. SeenIsRow /\ UseIsResolved /\ RunsUseTheirModel
    BY <1>11, NoCallFits DEF SeenIsRow, UseIsResolved, RunsUseTheirModel, CallAt
  <2>3. TracerIsFollowed
    BY <1>11, <1>14, NoCallFits DEF TracerIsFollowed, OneAtMost, Busy, CallAt
  <2>4. EntryIsFollowed
    <3>1. settingsRow[Home].source = Unset
      BY <1>7, <1>8
    <3> QED BY <1>11, <3>1, NoCallFits DEF EntryIsFollowed, OneAtMost, Busy, EntryWritten
  <2> QED BY <1>12, <2>1, <2>2, <2>3, <2>4 DEF ServerFollows
<1>18. BrowserFollows
  <2>1. CallsAreOwn /\ SaveIsAlone /\ AnswersAreTrue /\ SavesAreStored
    BY <1>11, NoCallFits DEF CallsAreOwn, SaveIsAlone, AnswersAreTrue, SavesAreStored,
       IsBusy, CallAt, Saved
  <2>2. ChoiceIsOffered /\ ProviderIsTrue
    BY <1>9 DEF ChoiceIsOffered, ProviderIsTrue
  <2>3. ASSUME catalog = <<>> PROVE ChoiceIsTrue
    <3>1. CASE m = Unset
      BY <1>2, <1>9, <2>3, <3>1, EmptyFits DEF ChoiceIsTrue
    <3>2. CASE m # Unset
      <4>1. HomeModel = m /\ isModelProviderConfigured(m)
        BY <1>4, <1>6, <1>7, <1>8, <2>3, <3>2 DEF HomeModel, SeededModel
      <4>2. In(active, listing)
        BY <1>2, <2>3, <3>2 DEF In
      <4> QED BY <1>2, <1>9, <2>3, <3>2, <4>1, <4>2 DEF ChoiceIsTrue, Chosen
    <3> QED BY <3>1, <3>2
  <2> QED BY <2>1, <2>2, <2>3 DEF BrowserFollows, BrowserKnows
<1> QED BY <1>10, <1>12, <1>15, <1>16, <1>17, <1>18 DEF SettingsInv, SettingsFit

(* The parts say what the property says.                                   *)
LEMMA SettingsShow == SettingsInv => SettingsTakeEffect
<1> SUFFICES ASSUME SettingsInv PROVE SettingsTakeEffect
  OBVIOUS
<1>1. SettingsFit /\ ServerFollows /\ BrowserFollows
  BY DEF SettingsInv
<1>2. FieldsStay /\ RunsUseTheirModel
  BY <1>1 DEF ServerFollows
<1>3. ExporterFollows
  <2> SUFFICES ASSUME ~Changing("tracing"), "tracing" \notin unsure
               PROVE  tracer.exporter = resolveLangfuseConfig(tracer.over)
    BY DEF ExporterFollows
  <2>1. \A r \in SettingCalls : ~CallAt(r, "flush")
    BY <1>1, CallIsBusy DEF Changing, Busy, CallAt, CallKnown
  <2> QED BY <1>1, <2>1 DEF ServerFollows, TracerIsFollowed
<1>4. EntryFollows
  <2>1. ~Changing("source") => \A r \in SettingCalls : ~EntryWritten(call[r])
    BY DEF Changing, Busy, EntryWritten
  <2> QED BY <1>1, <2>1 DEF EntryFollows, ServerFollows, EntryIsFollowed
<1>5. PickerTellsTheModel
  <2> SUFFICES ASSUME about = "browser", Busy = {}, ~confused, ~unusable, provider # Empty, known = catalog,
                      ~byHand \/ In(active, catalog)
               PROVE  /\ provider = View(settingsRow[Home].model)
                      /\ Offered # <<>> => PickerShows = Used
    BY DEF PickerTellsTheModel
  <2>1. ~Asks /\ ~Unanswered
    BY NothingAsked
  <2>2. ChoiceIsOffered /\ BrowserKnows /\ ProviderIsTrue /\ (catalog = <<>> => (byHand \/ ChoiceIsTrue))
    BY <1>1 DEF BrowserFollows, BrowserKnows
  <2>3. provider = View(HomeModel)
    BY <2>1, <2>2 DEF ProviderIsTrue
  <2>4. IsSetting(HomeModel)
    BY <1>1, HomeAssumption DEF SettingsFit, RowsFit, IsRow, SettingFields, HomeModel
  <2>5. ASSUME Offered # <<>> PROVE PickerShows = Used
    <3>1. isModelProviderConfigured(provider)
      BY <2>5 DEF Offered, listConfiguredModels
    <3>2. CASE catalog # <<>>
      <4>1. Offered = catalog
        BY <3>1, <3>2 DEF Offered, listConfiguredModels
      <4>2. In(active, catalog)
        BY <2>2, <3>2 DEF ChoiceIsOffered
      <4> QED BY <4>1, <4>2 DEF PickerShows, Used
    <3>3. CASE catalog = <<>>
      <4>1. ~In(active, catalog)
        BY <3>3, NothingIsInNone
      <4>2. ChoiceIsTrue
        BY <2>2, <3>3, <4>1
      <4>3. provider.secret = "set" /\ isModelProviderConfigured(HomeModel)
        BY <2>3, <2>4, <3>1, <3>3, ViewTells DEF isModelProviderConfigured
      <4>4. active = SlugOf[HomeModel.name] /\ In(active, listing) /\ active \notin offIds
        BY <2>1, <4>2, <4>3 DEF ChoiceIsTrue, Chosen
      <4>5. In(active, Enabled(listing, offIds)) /\ Enabled(listing, offIds) # <<>>
        BY <1>1, <4>4, EnabledHas, NoneIsEmpty DEF SettingsFit, BrowserFits
      <4>6. Offered = Enabled(listing, offIds)
        BY <3>1, <3>3, <4>5 DEF Offered, listConfiguredModels
      <4> QED BY <4>1, <4>4, <4>5, <4>6 DEF PickerShows, Used, HomeModel
    <3> QED BY <3>2, <3>3
  <2> QED BY <2>3, <2>5 DEF HomeModel
<1> QED BY <1>2, <1>3, <1>4, <1>5 DEF SettingsTakeEffect

-----------------------------------------------------------------------------
(* One request of either side.                                             *)
RequestSteps(r) ==
  \/ SaveSetting(r) \/ loadStoredSettings(r) \/ WriteEntry(r) \/ ReadRow(r) \/ WriteRow(r)
  \/ WriteRefused(r) \/ applyModelSettingsToRuntime(r) \/ applyLangfuseToRuntime(r) \/ Flush(r)
  \/ StartRun(r) \/ applyTenantModelSettings(r) \/ getModelConfig(r) \/ AnswerServer(r)
  \/ saveProvider(r) \/ ReadForBrowser(r) \/ ProviderSaved(r) \/ refreshProvider(r) \/ bootstrapModelCatalog(r)

(* Steps that are none of the browser's.                                   *)
LEMMA ServerSteps ==
  ASSUME SettingsInv, NEW r \in SettingCalls,
         \/ SaveSetting(r) \/ WriteEntry(r) \/ applyLangfuseToRuntime(r) \/ Flush(r)
         \/ StartRun(r) \/ applyTenantModelSettings(r) \/ getModelConfig(r) \/ AnswerServer(r)
  PROVE  SettingsInv'
<1>1. SettingsFit /\ ServerFollows /\ BrowserFollows
  BY DEF SettingsInv
<1>2. UNCHANGED <<about, catalog, browserVars>>
  BY DEF SaveSetting, WriteEntry, applyLangfuseToRuntime, Flush, StartRun, applyTenantModelSettings,
     getModelConfig, AnswerServer
<1>3. about # "browser"
  <2> SUFFICES ASSUME about = "browser" PROVE FALSE
    OBVIOUS
  <2>1. call[r].at # "none" /\ call[r].field \in {"source", "tracing", "run"}
    <3>1. CASE WriteEntry(r) \/ Flush(r) \/ getModelConfig(r)
      BY <1>1, <3>1, CallIsBusy DEF WriteEntry, Flush, getModelConfig, CallAt, CallKnown
    <3>2. CASE applyLangfuseToRuntime(r) \/ applyTenantModelSettings(r)
      BY <3>2 DEF applyLangfuseToRuntime, applyTenantModelSettings, CallAt
    <3> QED BY <3>1, <3>2 DEF SaveSetting, StartRun, AnswerServer
  <2> QED BY <1>1, <2>1, NotInBrowser
<1>4. BrowserFollows'
  BY <1>2, <1>3, OfServer
<1>5. BrowserFits'
  BY <1>1, <1>2, BrowserStaysFit
<1>6. CASE SaveSetting(r)
  BY <1>1, <1>4, <1>6, SavingBegins, StayedFit DEF SettingsInv, SaveSetting, processVars, browserVars
<1>7. CASE WriteEntry(r)
  <2>1. RowsFit'
    BY <1>1, <1>7 DEF WriteEntry, SettingsFit, RowsFit
  <2> QED BY <1>1, <1>4, <1>5, <1>7, <2>1, EntryWrites DEF SettingsInv, SettingsFit
<1>8. CASE applyLangfuseToRuntime(r)
  <2>1. RowsFit'
    BY <1>1, <1>8 DEF applyLangfuseToRuntime, savedVars, SettingsFit, RowsFit
  <2> QED BY <1>1, <1>4, <1>5, <1>8, <2>1, LangfuseApplies DEF SettingsInv, SettingsFit
<1>9. CASE Flush(r)
  <2>1. RowsFit'
    BY <1>1, <1>9 DEF Flush, SettingsFit, RowsFit
  <2> QED BY <1>1, <1>4, <1>5, <1>9, <2>1, FlushEnds DEF SettingsInv, SettingsFit
<1>10. CASE StartRun(r)
  BY <1>1, <1>4, <1>10, RunBegins, StayedFit DEF SettingsInv, StartRun, savedVars, processVars, browserVars
<1>11. CASE applyTenantModelSettings(r)
  <2>1. UNCHANGED <<savedVars, tracer>> /\ call[r].field = "run"
    BY <1>11 DEF applyTenantModelSettings
  <2>2. CASE /\ CallAt(r, "load") /\ inUse' = inUse
             /\ call' = [call EXCEPT ![r].at = "apply", ![r].next = normalize(settingsRow[call[r].who].model)]
    <3>1. CallsFit' /\ ServerFollows'
      BY <1>1, <2>1, <2>2, RunLoads DEF savedVars
    <3> QED BY <1>1, <1>2, <1>4, <2>1, <2>2, <3>1, StayedFit DEF SettingsInv, savedVars, browserVars
  <2>3. CASE CallAt(r, "apply") /\ inUse' = call[r].next /\ call' = [Crossing(r) EXCEPT ![r].at = "resolve"]
    <3>1. CallsFit' /\ ServerFollows' /\ ProcessFits'
      BY <1>1, <2>1, <2>3, UseCrosses DEF savedVars
    <3>2. RowsFit'
      BY <1>1, <2>1 DEF savedVars, SettingsFit, RowsFit
    <3> QED BY <1>4, <1>5, <3>1, <3>2 DEF SettingsInv, SettingsFit
  <2> QED BY <1>11, <2>2, <2>3 DEF applyTenantModelSettings
<1>12. CASE getModelConfig(r)
  BY <1>1, <1>4, <1>12, ModelTaken, StayedFit DEF SettingsInv, getModelConfig, savedVars, processVars, browserVars
<1>13. CASE AnswerServer(r)
  BY <1>1, <1>4, <1>13, ServerAnswered, StayedFit DEF SettingsInv, AnswerServer, savedVars, processVars, browserVars
<1> QED BY <1>6, <1>7, <1>8, <1>9, <1>10, <1>11, <1>12, <1>13

(* Steps of saves, of either side.                                         *)
LEMMA SavingSteps ==
  ASSUME SettingsInv, NEW r \in SettingCalls,
         \/ loadStoredSettings(r) \/ ReadRow(r) \/ WriteRow(r) \/ WriteRefused(r) \/ applyModelSettingsToRuntime(r)
  PROVE  SettingsInv'
<1>1. SettingsFit /\ ServerFollows /\ BrowserFollows
  BY DEF SettingsInv
<1>2. UNCHANGED <<about, catalog, listing, provider, known>>
  BY DEF loadStoredSettings, ReadRow, WriteRow, WriteRefused, applyModelSettingsToRuntime, browserVars
<1>3. BrowserFollows'
  <2>1. CASE about # "browser"
    BY <1>2, <2>1, OfServer
  <2>2. CASE about = "browser"
    BY <1>1, <2>2, SaveLoadsInBrowser, SaveReadsInBrowser, SaveWritesInBrowser, RefusedInBrowser,
       SaveAppliesInBrowser
  <2> QED BY <2>1, <2>2
<1>4. BrowserFits'
  BY <1>1, <1>2 DEF SettingsFit, BrowserFits
<1>5. CASE loadStoredSettings(r)
  BY <1>1, <1>2, <1>3, <1>5, LoadStored, StayedFit DEF SettingsInv, loadStoredSettings, savedVars, processVars
<1>6. CASE ReadRow(r)
  BY <1>1, <1>2, <1>3, <1>6, RowRead, StayedFit DEF SettingsInv, ReadRow, savedVars, processVars
<1>7. CASE WriteRow(r)
  <2>1. ProcessFits'
    BY <1>1, <1>7 DEF WriteRow, processVars, SettingsFit, ProcessFits
  <2> QED BY <1>1, <1>3, <1>4, <1>7, <2>1, RowWrites DEF SettingsInv, SettingsFit
<1>8. CASE WriteRefused(r)
  BY <1>1, <1>2, <1>3, <1>8, WriteIsRefused, StayedFit DEF SettingsInv, WriteRefused, processVars
<1>9. CASE applyModelSettingsToRuntime(r)
  <2>1. CallsFit' /\ ServerFollows' /\ ProcessFits'
    BY <1>1, <1>9, UseCrosses DEF applyModelSettingsToRuntime, savedVars
  <2>2. RowsFit'
    BY <1>1, <1>9 DEF applyModelSettingsToRuntime, savedVars, SettingsFit, RowsFit
  <2> QED BY <1>3, <1>4, <2>1, <2>2 DEF SettingsInv, SettingsFit
<1> QED BY <1>5, <1>6, <1>7, <1>8, <1>9

(* Steps of the browser's own requests.                                    *)
LEMMA BrowserSteps ==
  ASSUME SettingsInv, NEW r \in SettingCalls,
         \/ saveProvider(r) \/ ReadForBrowser(r) \/ ProviderSaved(r) \/ refreshProvider(r)
         \/ bootstrapModelCatalog(r)
  PROVE  SettingsInv'
<1>1. SettingsFit /\ ServerFollows /\ BrowserFollows
  BY DEF SettingsInv
<1>2. UNCHANGED <<about, catalog, savedVars, processVars>>
  BY DEF saveProvider, ReadForBrowser, ProviderSaved, refreshProvider, bootstrapModelCatalog
<1>3. CallsFit' /\ ServerFollows'
  BY <1>1, BrowserSaves, BrowserRead, SavedIsTold, ServerAnswered
<1>4. BrowserFollows'
  <2>1. CASE about # "browser"
    BY <1>2, <2>1, OfServer
  <2>2. CASE about = "browser"
    BY <1>1, <2>2, SaveBeginsInBrowser, ReadInBrowser, SavedInBrowser, RefreshedInBrowser, CatalogTakenInBrowser
  <2> QED BY <2>1, <2>2
<1>5. RowsFit' /\ ProcessFits'
  BY <1>1, <1>2 DEF SettingsFit, RowsFit, ProcessFits, savedVars, processVars
<1>6. IsList(listing') /\ IsSetting(provider') /\ known' \in {<<>>, CatalogModels}
  <2>1. IsList(listing) /\ IsSetting(provider) /\ known \in {<<>>, CatalogModels} /\ IsList(CatalogModels)
    BY <1>1, CatalogIsList DEF SettingsFit, BrowserFits
  <2>2. CASE saveProvider(r) \/ ReadForBrowser(r)
    BY <2>1, <2>2 DEF saveProvider, ReadForBrowser, browserVars
  <2>3. CASE ProviderSaved(r)
    <3> DEFINE m == call[r].next
               id == SlugOf[m.name]
               p == Setting(m.name, "set", TRUE)
               list == upsertCatalogModel(listing, id)
               offs == offIds \ {id}
    <3>1. known' = known
      BY <2>3 DEF ProviderSaved
    <3>2. CASE isModelProviderConfigured(m)
      <4>1. TakeProvider(p, list, offs, id, known)
        BY <2>3, <3>2 DEF ProviderSaved
      <4>2. IsList(list) /\ IsSetting(p)
        BY <2>1, UpsertHas DEF IsSetting, Setting
      <4> HIDE DEF list, p, offs, id
      <4>3. provider' = p /\ IsList(listing')
        BY <4>1, <4>2, TakesList
      <4> QED BY <2>1, <3>1, <4>2, <4>3
    <3>3. CASE ~isModelProviderConfigured(m)
      BY <2>1, <2>3, <3>1, <3>3 DEF ProviderSaved
    <3> QED BY <3>2, <3>3
  <2>4. CASE refreshProvider(r)
    <3>1. known' = known
      BY <2>4 DEF refreshProvider
    <3>2. IsSetting(call[r].next)
      BY <1>1, CallIsBusy DEF IsCall
    <3>3. CASE TakeProvider(call[r].next, listing, offIds, active, known)
      BY <2>1, <3>1, <3>2, <3>3, TakesList
    <3>4. CASE provider' = Empty /\ listing' = listing
      BY <2>1, <3>1, <3>4, EmptyFits
    <3> QED BY <2>4, <3>3, <3>4 DEF refreshProvider
  <2>5. CASE bootstrapModelCatalog(r)
    <3> DEFINE p == Setting(CatalogDefault, "set", TRUE)
               id == ActiveIn(CatalogModels, active)
    <3>1. CASE known' = CatalogModels /\ TakeProvider(p, CatalogModels, {}, id, CatalogModels)
      <4>1. IsSetting(p)
        BY DEF IsSetting, Setting
      <4> HIDE DEF p, id
      <4>2. provider' = p /\ IsList(listing')
        BY <2>1, <3>1, TakesList
      <4> QED BY <3>1, <4>1, <4>2
    <3>2. CASE UNCHANGED <<known, provider, listing>>
      BY <2>1, <3>2
    <3> QED BY <2>5, <3>1, <3>2 DEF bootstrapModelCatalog
  <2> QED BY <2>2, <2>3, <2>4, <2>5
<1>7. BrowserFits'
  BY <1>1, <1>2, <1>6 DEF SettingsFit, BrowserFits
<1> QED BY <1>3, <1>4, <1>5, <1>7 DEF SettingsInv, SettingsFit

(* The list of the screen, and the file of the catalog.                    *)
LEMMA ActKeeps ==
  ASSUME SettingsInv, NEW list, IsList(list), NEW offs, NEW id, Act(list, offs, id)
  PROVE  SettingsInv'
<1>1. SettingsFit /\ ServerFollows /\ BrowserFollows /\ about = "browser"
  BY DEF SettingsInv, Act
<1>2. BrowserFollows'
  BY <1>1, ActInBrowser
<1>3. UNCHANGED <<call, settingsRow, kept, lostFields, inUse, tracer, entryOf, unsure, catalog, provider, known>>
      /\ listing' = list
  BY DEF Act, savedVars, processVars
<1>4. CallsFit' /\ ServerFollows'
  BY <1>1, <1>3, ServerStays
<1>5. RowsFit' /\ ProcessFits' /\ BrowserFits'
  BY <1>1, <1>3 DEF SettingsFit, RowsFit, ProcessFits, BrowserFits
<1> QED BY <1>2, <1>4, <1>5 DEF SettingsInv, SettingsFit

LEMMA ListSteps ==
  ASSUME SettingsInv, selectModel \/ toggleModel \/ confirmDeleteModel
  PROVE  SettingsInv'
<1>1. IsList(listing)
  BY DEF SettingsInv, SettingsFit, BrowserFits
<1>2. \A gone : IsList(Remaining(listing, {gone}))
  BY <1>1, ListWithout
<1>3. \E list, offs, id : IsList(list) /\ Act(list, offs, id)
  <2>1. CASE selectModel
    BY <1>1, <2>1 DEF selectModel
  <2>2. CASE toggleModel
    BY <1>1, <2>2 DEF toggleModel
  <2>3. CASE confirmDeleteModel
    BY <1>2, <2>3 DEF confirmDeleteModel
  <2> QED BY <2>1, <2>2, <2>3
<1> QED BY <1>3, ActKeeps

LEMMA CatalogKeeps ==
  ASSUME SettingsInv, EditCatalog
  PROVE  SettingsInv'
<1>1. SettingsFit /\ ServerFollows /\ BrowserFollows /\ about = "browser"
  BY DEF SettingsInv, EditCatalog
<1>2. BrowserFollows'
  BY <1>1, CatalogEditedInBrowser
<1>3. UNCHANGED <<call, settingsRow, kept, lostFields, inUse, tracer, entryOf, unsure, listing, provider, known>>
      /\ catalog' \in {<<>>, CatalogModels}
  BY DEF EditCatalog, savedVars, processVars
<1>4. CallsFit' /\ ServerFollows'
  BY <1>1, <1>3, ServerStays
<1>5. RowsFit' /\ ProcessFits' /\ BrowserFits'
  BY <1>1, <1>3 DEF SettingsFit, RowsFit, ProcessFits, BrowserFits
<1> QED BY <1>2, <1>4, <1>5 DEF SettingsInv, SettingsFit

(* Restarts, and steps of two requests.                                    *)
LEMMA WideSteps ==
  ASSUME SettingsInv,
         RestartServer \/ \E r, q \in SettingCalls : SaveBusiness(r, q) \/ MountPicker(r, q)
  PROVE  SettingsInv'
<1>1. SettingsFit /\ ServerFollows /\ BrowserFollows
  BY DEF SettingsInv
<1>2. CASE RestartServer
  <2>1. about # "browser" /\ UNCHANGED <<about, catalog, browserVars>>
    BY <1>2 DEF RestartServer
  <2>2. BrowserFollows' /\ BrowserFits'
    BY <1>1, <2>1, OfServer, BrowserStaysFit
  <2> QED BY <1>1, <1>2, <2>2, Restarts DEF SettingsInv, SettingsFit
<1>3. ASSUME NEW r \in SettingCalls, NEW q \in SettingCalls, SaveBusiness(r, q) PROVE SettingsInv'
  <2>1. BrowserFollows'
    BY <1>3, OfServer DEF SaveBusiness
  <2> QED BY <1>1, <1>3, <2>1, BusinessBegins, StayedFit DEF SettingsInv, SaveBusiness, processVars, browserVars
<1>4. ASSUME NEW r \in SettingCalls, NEW q \in SettingCalls, MountPicker(r, q) PROVE SettingsInv'
  <2>1. BrowserFollows'
    BY <1>1, <1>4, PickerOpensInBrowser DEF MountPicker
  <2> QED BY <1>1, <1>4, <2>1, PickerOpens, StayedFit DEF SettingsInv, MountPicker, savedVars, processVars, browserVars
<1> QED BY <1>2, <1>3, <1>4

LEMMA SettingsMove == SettingsInv /\ [SettingsNext]_settingsVars => SettingsInv'
<1> SUFFICES ASSUME SettingsInv, [SettingsNext]_settingsVars PROVE SettingsInv'
  OBVIOUS
<1>1. CASE UNCHANGED settingsVars
  <2>1. SettingsFit /\ ServerFollows /\ BrowserFollows
    BY DEF SettingsInv
  <2>2. UNCHANGED <<about, settingsRow, kept, lostFields, entryOf, inUse, tracer, call, unsure, catalog,
                    listing, offIds, active, provider, known, unusable, byHand, confused>>
    BY <1>1 DEF settingsVars, savedVars, processVars, browserVars
  <2>3. CallsFit' /\ ServerFollows'
    BY <2>1, <2>2, ServerStays
  <2>4. SettingsFit'
    BY <2>1, <2>2, <2>3, StayedFit
  <2>5. BrowserFollows'
    <3>1. UNCHANGED <<CallsAreOwn, ChoiceIsOffered, SaveIsAlone, AnswersAreTrue, SavesAreStored>>
      BY <2>2 DEF CallsAreOwn, ChoiceIsOffered, SaveIsAlone, AnswersAreTrue, SavesAreStored, IsBusy, CallAt,
         Saved, View, HomeModel
    <3>2. UNCHANGED <<ProviderIsTrue, ChoiceIsTrue>>
      BY <2>2 DEF ProviderIsTrue, ChoiceIsTrue, Asks, Unanswered, Chosen, IsBusy, CallAt,
         Saved, View, HomeModel
    <3> QED BY <2>1, <2>2, <3>1, <3>2 DEF BrowserFollows, BrowserKnows
  <2> QED BY <2>3, <2>4, <2>5 DEF SettingsInv
<1>2. CASE RestartServer \/ \E r, q \in SettingCalls : SaveBusiness(r, q) \/ MountPicker(r, q)
  BY <1>2, WideSteps
<1>3. CASE EditCatalog \/ selectModel \/ toggleModel \/ confirmDeleteModel
  BY <1>3, CatalogKeeps, ListSteps
<1>4. ASSUME NEW r \in SettingCalls, RequestSteps(r) PROVE SettingsInv'
  BY <1>4, ServerSteps, SavingSteps, BrowserSteps DEF RequestSteps
<1> QED BY <1>1, <1>2, <1>3, <1>4 DEF SettingsNext, RequestSteps

(* Saved settings take effect and stay, whatever is saved, read, refused,  *)
(* applied, asked of the server or chosen in the browser, in any order,    *)
(* for any tenants and any number of requests.                             *)
THEOREM SettingsHold == SettingsSpec => []SettingsTakeEffect
<1>1. SettingsInit => SettingsInv
  BY SettingsBegin
<1>2. SettingsInv /\ [SettingsNext]_settingsVars => SettingsInv'
  BY SettingsMove
<1>3. SettingsInv => SettingsTakeEffect
  BY SettingsShow
<1> QED BY <1>1, <1>2, <1>3, PTL DEF SettingsSpec
=============================================================================
