# Verification of Veylin

Veylin is a desktop agent workspace: a Fastify server (`apps/server`) with a
SurrealDB database, packages it is built from (`packages/*`), a web client
(`apps/web`) and a Tauri shell (`apps/desktop`). This directory holds TLA+
models of the parts where several actors work on the same state, the TLC
instances that check them, and TLAPS proofs about them. Paths below are relative
to the repository root; `server/` stands for `apps/server/src/`, `web/` for
`apps/web/src/`.

Why these parts: the server is one Node process without locks. Almost every
operation is "read a row or a file, await, write it", and the awaits are where
two requests, a request and a worker, or a request and a shutdown interleave. The
client is its mirror: it applies answers in the order they arrive, to whatever is
on the screen by then. Tests cover each handler alone; what they can hardly reach
is the order of the awaits.

## 1. Inventory

| Component | State | Hard behaviour | Modelled in |
|---|---|---|---|
| Subagent delegation (`agent-task-tool.ts`, `agent-task-runner.ts`, `cancel-thread-tasks.ts`, `task-tools.ts`) | the `task` rows; the calls waiting for them | the row is shared and unlocked; a job is cancelled by id, a row by status, at different moments; workers outlive their calls | `SubagentTasks`, `Delegation` (whole) |
| Job queue (`queue.ts`) | `jobs`, the PQueue, cron tasks | bounded width, cancellation of waiting jobs, shutdown | inside `SubagentTasks` and `ScheduledRuns` |
| Chat runs (`routes/chat.ts`, `resumable-chat-stream.ts`, `chat-suspension-registry.ts`, `thread-activity.ts`) | `activeStreams`, `localRunAborts`, `suspendedRuns`, `consumedRuns`, the row's `suspendedRun` | a post supersedes the run before it; two copies of the open question; duplicate answers | `ChatRuns` |
| Thread state, goals and loops (`thread-state.ts`, `routes/goal-loop.ts`, `loop-scheduler.ts`, end of `routes/chat.ts`) | the thread row; timers | every writer writes back a row it read earlier | `ThreadRow` |
| MCP servers (`server.ts`, `mcp-store.ts`, `routes/mcp.ts`) | two files, one client, a toolset by tenant | global state replaced while others await | `ToolServers` |
| Table store, table tools, grid (`table-store.ts`, `table-tools.ts`, `table-transcript-restore.ts`, `table-grid.tsx`) | sheets in memory and in the database; answers of calls; rows on the screen | background writes in many calls without a transaction; undo from answers; rollback of edits | `TableStore` (whole), `TableOps`, `TableTools`, `TableReads`, `TableGrid` |
| Transcript sync (`thread-sync.ts`, `message-sync.ts`, `routes/threads.ts`; `web/lib/sync-thread-messages.ts`) | the browser's transcript and the server's copy | requests overtake each other; recall, delete and save are three calls | `TranscriptSync` |
| Automations and workflow runs (`routes/automations.ts`, `routes/workflows.ts`, `automation-worker.ts`, `*-store.ts`, `server.ts`) | definitions, run rows, cron tasks | rows and schedules must agree; a crash leaves runs unfinished | `ScheduledRuns` |
| Workflow walk and editor (`workflow-runner.ts`, `workflow-panel.tsx`) | visited nodes, queue, log; the canvas | joins, cycles, failing branches; answers that meet another canvas | `WorkflowWalk`, `WorkflowEditor` |
| Webhooks and event triggers (`routes/webhooks.ts`, `webhook-filter.ts`, `event-trigger-matcher.ts`) | hooks, triggers | deliveries served while the screen changes what they read; retries | `EventTriggers` |
| Hooks (`packages/hooks`, `hooks-service.ts`, `tool-hooks.ts`) | `hooks.json`, the list of disabled hooks, the bus | file rewrites, overlapping reloads, once-only hooks | `Hooks` |
| Knowledge base, local models (`rag-*.ts`, `embedding-service.ts`, `reranker-service.ts`) | documents, pieces, graph; model files | interrupted ingests and downloads | `KnowledgeBase`, `LocalModels` |
| Plugins, rules, skills (`plugin-store.ts`, `rules-store.ts`, `skills-store.ts`) | `plugins.json`, directories, rule and skill files | copy, prepare, enter: any step may fail | `Plugins`, `UserFiles` |
| Web client (`use-external-history.ts`, `use-aisdk-runtime-with-queue.ts`, `create-resilient-chat-fetch.ts`, `use-panel-tabs.ts`, ...) | histories, queue, stream, tabs, badges | answers in any order; broken streams; native pages | `ThreadHistory`, `ComposerRuns`, `StreamClient`, `TaskPanel`, `PanelTabs` |
| Development scripts (`apps/desktop/scripts`) | pid file, port, watchdogs | overlapping launches, kill by port | `DevServers` |
| Settings of a tenant (`packages/db/repos.ts`, `model-settings-store.ts`, `langfuse-settings-store.ts`, `model-resolve.ts`; `web/lib/model-settings.ts`) | one row; what is in use in the process; the browser's list of models | saves of different fields at once; settings of one tenant in use for all | `ProviderSettings` |
| Composer modes (`use-composer-settings.ts`, `plan-mode-sync.ts`, `goal-loop-sync.ts`, `chat-settings.ts`, `composer-plus-menu.tsx`; `routes/threads.ts`, `routes/goal-loop.ts`) | plan, goal and loop in the row; in the browser one plan mode and one pending goal or loop, and a cache by thread | switches, polls, fetches and the agent's own changes answered in any order | `ComposerModes` |
| Built-in tools, desktop shell | single calls; processes | | partly, inside the above |
| Agent runtime; dream consolidation; identity, policy, audit; database | | | not modelled: an agent run "answers, asks, fails or is aborted", a database call succeeds or, where it matters, fails |

`PROJECT.json` gives for each component its sources, what is modelled of it and
what is left out; the hazards, each at its line with the properties that would
catch it; and for every definition the lines it stands for.

How they interact. A chat run (`ChatRuns`) asks for the tools of its tenant
(`ToolServers`), asks the hooks (`Hooks`) and calls tools; `task` and
`task_continue` open a delegation (`SubagentTasks`), whose abort signal is that of
the run; the table tools (`TableTools`, `TableReads`) edit `TableStore`. Its end
judges the goal and winds up the loop (`ThreadRow`). Its stream is read by
`StreamClient`, begun and stopped by `ComposerRuns`. A finished turn makes the
browser send its transcript (`TranscriptSync`); what an edit dropped from it is
undone by `TableTools`. Schedules, webhooks and the user start runs
(`ScheduledRuns`, `EventTriggers`), which walk a graph (`WorkflowWalk`). A shutdown
stops the queues, drains the chat runs, flushes the tables and closes the
database (`server/server.ts`, `gracefulShutdown`). Each module takes the others'
part as steps that may happen or not: `AbortRun` in `SubagentTasks` is what
`Supersede` and `Stop` do in `ChatRuns`; `OthersWrite` in `TableGrid` is a tool of
the agent.

## 2. The modules

Conventions. What a handler does between two awaits is one action; every database
call or file access is an action of its own unless the module says otherwise. A
request, a stream, a question, a job or a write has the name of the call that
made it, so each is a model value and needs no identifiers. Constants named
`Faults`, `May` or `Topics` switch on what may go wrong; the module lists the
kinds. Ghost variables only record (what was said, who was overtaken, which
requests overlapped) and guard nothing. Definitions whose comment says "Mutant of"
are defective variants of an action, used to see that the properties tell them
apart; no specification uses them.

Each module begins with what it models, its bounds and what it leaves out. How the
larger ones correspond to the code:

**`SubagentTasks`** One row per task (`status`, `rowJob`, `result`), one record of
variables per tool call (`callAt`, `taskOf`, `aborted`, `answer`, `answerOf`), per job
and per stop request. `InsertTask` ... `ReturnCancelled` are the awaits of the tools;
`StartJob` ... `StoreWithdrawn` those of the queue and of `executeSubagentJob`;
`StopThread` ... `CancelJob` those of a stop request. `StartJob` is a step of its own
although p-queue starts a job inside `send` when a slot is free: every behaviour of
the code is one of the model. Workers have no task tools, so delegation does not
nest. Writes of rows do not fail here. **`Delegation`** is what delegation promises
the parent: a call is opened about a task, runs end well or badly, and the call is
closed once, with the text of a run of that task that really ended that way or with
no text. `SubagentTasks` implements it under `phaseBar`, `workBar`, `replyBar`.

**`ChatRuns`** is one thread. `at` is the place of each post in the handler, from
`arrived` over `superseding`, `launching`, `bound`, `running` to `closed`; `active`,
`registered`, `suspended`, `consumed` and `row` are the five registries. The row is
read in `Answer` and used in `Consume`, as in the code, where the prompt is prepared
in between.

**`ThreadRow`** has the row (`threadRow`), handler slots with what each holds of the
row it read (`held`), the timer, and the browser. `stale[h]` records that somebody
wrote since `h` read. `Handle` is a writer, with the re-reads the code makes.

**`ToolServers`** reads, merges and writes the two files in the order of
`mcp-store.ts`, then rebuilds the client (`disconnect`, `connect`, `list`). A file
that is opened for writing is empty until it is written.

**`TableStore`** has the sheets in memory, the chain of writes of each
(`chain`, `waits`), the progress of each write (`step`, `todo`, `held`), the database,
deletions and the phase of the server. A write stores the name, drops and stores
the columns, drops and stores the rows, each in one call, with the content it reads
from memory at that moment. Two ghosts name what the properties except: `crossed`, the
sheets that were edited or deleted again while they were being deleted, and `late`, those
edited after a shutdown began to flush. **`TableOps`** are the pure operations on a sheet;
**`TableTools`** the agent's writing calls, their answers, and their undo when a
conversation is rewound; **`TableReads`** a reading page by page while others write.

**`TranscriptSync`** has the browser's messages, the server's, requests on their way
and under or behind the lock of the thread, the reply being streamed, and the
tables. Normalisation, the shared prefix, the merge of notifications and the undo of
writes are operators translated from the functions of the same purpose.

**`ScheduledRuns`** has the definitions (`rows`), the tasks node-cron runs, the requests
in progress, run rows, jobs, and the boot: `Connect`, `Sweep`, `RegisterAll`. A ghost,
`contested`, names the definitions whose task may be wrong: two requests were about it at
once (`Ask`), or an enabled schedule was made something else (`Write`). A request that was
alone with it to its end and leaves a schedule settles it (`Apply`), and so does a restart.

**`ProviderSettings`** has the row of each tenant, each request's copy of it, the settings
in use (`inUse`, `tracer`), the entries of the business source in `mcp.json`, and the
browser's list, switched-off ids and chosen model. `ReadRow` and `WriteRow` are the two
calls of `upsertTenantSettings`; `Merged` is what a save makes of a blank secret, which keeps
the stored one but for the key of the model; `applyTenantModelSettings` and `getModelConfig` are the two
places of a run where it puts settings into use and where it takes its model.

**`ComposerModes`** has the modes of each row, what the browser shows and caches, the
requests on their way (served or not, and what a fetch has read), the last plan mode call
of each transcript, and two ghosts: `sure`, the modes that nothing the code leaves
unguarded has touched since they were switched or fetched, and `byHand`. `Switch` is what
the two menus and the chips do; `Fetched`, `PutAnswered` and `Fails` are the answers.

**`DevServers`** has launches (two scripts each), their watchdogs, each watchdog's
`tsx watch`, the pid file and the port.

`MC*` modules give the instances; `*Proofs` and `SubagentRefinement` hold the proofs.

## 3. What the runs check

Parts that share no state are checked by one run: a variable `subject` of the MC
module names the part that moves, and the others keep their initial state. So a run
is a disjoint sum of its parts, not their product, and each part is checked as
if it were alone.

| Run | Parts and bounds | Properties |
|---|---|---|
| `tasks_safety` | delegation: 1 task, 2 calls, 1 stop request, width 1, all faults; modes: 2 threads, 2 acts of the user, 4 requests at a time, fetches of one mode | `TypeOK`; `AnswerProvenance`: a returned text was written by a run of the same task; `NoOrphanRow`: no row is left unsettled with nobody to settle it; `NoUnsupervisedWorker`; `ImplementsDelegation`; `ModesAreTrue` |
| `fair_parts` | delegation without faults; 2 runs of an automation and a workflow, 2 crashes, failing database calls; under fairness | `AnswersArrive`, `RowsSettle`; `NoStuckRun`, `OutcomesAreFinal`, `RunsEnd` |
| `chat_parts` | chat: 3 posts, 2 may ask, 1 stop, all faults; row: 2 handler slots, a goal, a loop, 2 skills, five mixes of operations; tools: 1 server, 2 tenants, 2 requests; 3 launches | `RegistriesFollowRuns`, `QuestionsAreAnsweredOnce`; `OnlyStaleWritesHarm`, `LoopKeepsGoing`; `ToolsFollowFiles`; `OneDevServerIsLeft` |
| `table_parts` | store: 2 sheets, 2 edits, 2 deletions, crashes, shutdowns, refused calls; the same with edits that cross a deletion or come after a shutdown began, 1 deletion and no call refused; tools: 3 writes; reads: 3 rows, page size 1, 2 writes in between | `StoreFollowsMemory`, `SheetsAreWrittenInTurn`; `TranscriptIsTrue`; `PagesCoverTheSheet` |
| `sync_follows` | 4 turns, 2 cells, 1 old notification, edits, 2 flushes, compactions of a short thread | `CopiesFollowClient`, `NotesArePreserved` |
| `sync_parts` | transcript: 3 turns, edits, requests that overtake each other, restarts; stream: 3 frames, 4 faults; composer: 3 messages, 1 edit; tabs: 2 threads, 3 tabs, 6 acts; plugins: 2, of a repository and a path, 2 steps; rules and skills: 2 names, 2 saves | `OnlyDroppedIsUndone`; `StreamIsWhole`; `QueueIsServed`; `TabsKeepTheirPages`; `PluginsAreWhole`; `ChoicesAreKept` |
| `background_parts` | schedules: 1 automation, 2 workflows, 3 requests, 1 crash; 3 requests for one automation that overlap and change its kind; walk: 256 graphs of 5 nodes, any database call refused; editor: 2 workflows, 2 calls at once; the two models; 1 document of 3 pieces; 2 hooks, 2 requests; settings: 2 tenants and 2 requests at once, or 3 acts in the browser | `TasksFollowRows`; `LogIsAWalk`; `StoredIsItsOwn`; `ModelsAreWhole`; `KnowledgeConsistent`; `HooksAreObeyed`; `SettingsTakeEffect` |
| `app_parts` | histories: 3 threads, 2 turns, 1 failing load; grid: 2 sheets, 1 row, 2 answers at once, 3 events; subagents: 1 task, 2 fetches; triggers: a webhook, 2 automations, a workflow, 2 deliveries that may overlap, reads that fail, and the settings screen | `HistoryIsShown`; `SettledGridShowsStore`; `PanelSettles`; `EventsAreAnswered` |
| `tasks_stopped`, `table_resurrected`, `sync_repeated`, `runs_bad_cron` | expected violations | section 4 |

Every property of a passing run has a mutant in `PROJECT.json` that violates it.
Several are conjunctions whose parts are named in the modules:
`RegistriesFollowRuns` is `NoStaleMapping` (a thread is never mapped to a finished
stream) and `DrainExact` (the drain waits for exactly the runs not told to stop);
`QuestionsAreAnsweredOnce` is `SingleResume` and `RowAnswerable`; `StoreFollowsMemory` is
`Settled` and `ShutdownKeepsAll`; `SheetsAreWrittenInTurn` is `WritesAreSerial` and
what `NoResurrection` says (a deleted sheet is not stored again), of the sheets not in
`crossed`.

Bounds. Two calls on one task give every race between a call, a late worker and a
continuation; a third (10.2 million states) showed nothing new. Three posts are a
question, its answer and a rival. A write and the one queued behind it on one sheet,
with a deletion on either side, need two edits and two deletions. Four turns are
needed for an edit that drops two replies writing one cell and a turn after it. Two
crashes allow a crash within the sweep of the first. Two handler slots are a reader
and one that overtakes it; the mixes of operations (`Topics`) are those that touch
the same fields of the row. Three launches are what is left, a launch that keeps or
replaces it, and one after both. Two fetches, answers or requests at once are what it
takes to be overtaken. Two halves of a frame are enough to be torn. Four requests are the
three switches of one click and a fetch they overtake. Where the proofs
of section 5 cover a property, its bounds are of no consequence.

Symmetry is used for values that only name things (requests, edits, names);
`CHOOSE` is only applied where one value qualifies, or to values outside the symmetry
set.

Deadlock is not checked: calls, posts, edits, faults and crashes are finite in number,
so every behaviour really ends when all are served. That nobody waits for ever is
what `AnswersArrive`, `RowsSettle` and `RunsEnd` say, and what the "once all is at
rest" form of the others presupposes.

Fairness (`fair_parts`): weak fairness of each call's, job's and stop request's steps
and of `StartJob`: Node resumes every continuation, the database answers, generations
end (the provider's stream ends or times out), the poll of `awaitTaskCompletion`
repeats, and p-queue starts a job whenever a slot is free. Nothing is assumed of
requests, aborts and stops. For runs of automations and workflows: weak fairness of
the boot and of each job; the server is started again and a job that was begun goes
on. A crash needs no fairness, its number is bounded.

## 4. Where the code and its words part

Kept as runs that violate the property, each with a finding in `PROJECT.json`:

* `tasks_stopped`: an inline task that was reported cancelled ends `done`
  (`server/agent-task-tool.ts:240`).
* `table_resurrected`: an edit that arrives while its sheet is being deleted stores the
  sheet again (`server/table-store.ts:910`).
* `sync_repeated`: when the user says the same thing twice, the next sync reverses the
  table writes of the later replies (`server/thread-sync.ts:124`).
* `runs_bad_cron`: a cron expression node-cron does not accept is stored before it is
  tried; from then on the server exits at every boot (`server/server.ts:349`).

The passing properties name the other exceptions met on the way, so that they do not
hide them. By module:

* `SubagentTasks`: `NoOrphanRow` excepts `Stranded` rows: a worker that fails before
  `executeSubagentJob` (its call then polls for ever), an inline continuation that
  throws, a stopped queue. A continuation may be answered with the text of an earlier
  aborted run that ended late, hence "a run of the task".
* `ChatRuns`: controllers of runs whose agent threw at the start are never taken off
  the record, and a shutdown waits for them. A superseded run that ends late clears
  the mapping and the question of its successor; a poll between bind and capture
  unmaps a starting run. A second answer that read the row early may be consumed after
  the resumed run asked its next question.
* `ThreadRow`: a handler overtaken between its read and its write revives a stopped goal
  or loop, loses a skill, or puts a generated title over a given one. Timers are not
  set again at boot: only the browser's wake-up keeps a loop going then.
* `ToolServers`: requests that overlap may lose a server, leave a client unclosed or an
  entry without its headers; a stop between the two files loses headers.
* `TableStore`: an edit after the flush has begun is answered and lost (`late`); an edit or
  a deletion that crosses a deletion may start a second chain while the first one writes
  (`crossed`). The sheets concerned are excepted, the others are not.
* `TableTools`, `TableReads`: a call that answers not ok is never undone although some of
  its operations were applied; column operations are never undone, and cells are
  refused when their column is gone; a filter on a column deleted between two pages
  filters nothing, and deletions between pages shift the offset.
* `TranscriptSync`: `StoredIsClient` needs requests that arrive in order and a browser
  that waits for a compaction; with a compaction of a thread longer than `KeepRecent` the
  kept messages' writes are taken back; a stopped reply that is then edited away leaves
  its write (the run has no `"stop"`). A late edit is lost with its request.
* `ScheduledRuns`: of two requests about one definition, the one that wrote first may apply
  last; a schedule that is made an event or a manual workflow keeps its task, since the
  routes look only at rows that are schedules now. `TasksFollowRows` excepts the definition
  (`contested`) until a request alone with it or a restart settles it. `OutcomesAreFinal`
  excepts a job's own catch block, which marks a finished run failed when the call after it
  throws.
* `EventTriggers`: deliveries are not told apart, so one that is sent again after its "ok"
  was lost, or before it came, starts anything again, workflows included; after answers
  that were heard only automations are started twice, when the workflows could not be read
  or the filter of one threw after the automations were started. An automation's filter
  that throws stops the whole delivery; workflow filters and key expressions are never
  validated, and a short-circuit lets an invalid one pass; a lost answer loses a new
  webhook's secret.
* `Hooks`: a hook that runs once is consumed only when its handlers have finished, and
  never when it runs in the background; nobody passes `callMcpTool`, so such hooks always
  fail; "ask" is not a denial; an update removes and adds, in two writes; an edited
  disabled hook becomes enabled; overlapping reloads may leave an older list on the bus.
* `KnowledgeBase`, `LocalModels`: a deletion that overlaps its ingestion leaves pieces; the
  last file of a broken-off download counts as there.
* `WorkflowWalk`: an entry is pushed before it is stored, so a node that ran well and whose
  entry the database refused is in the log twice, the second time as the error that
  fails the run; a run that is done becomes failed when the time of it cannot be stored
  on its workflow; and what the outer catch block cannot store stays running until the
  sweep of the next start. The line logged for a graph without an entry node is left out.
* `WorkflowEditor`: the answer of a save that meets another document on the canvas makes
  the next save overwrite that one's row.
* `Plugins`: deleted while another request writes an older list, a plugin comes back
  without its directory; a failed re-install removes the directory and leaves the entry;
  when the tools cannot be rebuilt the route answers 400 though the plugin is installed;
  a torn `plugins.json` reads as empty; a write of it that is refused once it was opened
  empties the list, one that is refused in an installation leaves a directory without an
  entry, and the installs of the database are given up when their list cannot be written.
* `UserFiles`: renaming a rule onto another's name, or creating a skill under one,
  overwrites it; a skill whose directory has another name is copied when it is edited and
  cannot be deleted; the migration of rules ended by an invalid name is never resumed.
* `StreamClient`: a chunk cut within a frame is followed by the whole frame again; the
  marker in the first half of the finish frame closes early; the banner may stay
  "reconnecting"; a stopped stream is resumed until the store forgets it.
* `ComposerRuns`: runs of a resume or an edit are unknown to the queue; steering while the
  previous message is being prepared leaves two streams; the suppression of a stop is
  lifted by the return of the message it stopped.
* `ThreadHistory`: sending does not wait for the history, so writing before it arrived or
  after it failed replaces what is stored; leaving a thread opened later leaves "Retry"
  without a handler; a load that fails after its thread was left takes the error of the
  thread now shown (`errorTaken`), which then is blank and has no "Retry", against "retry
  instead of Welcome blank" (`web/lib/history-load-state.ts:1`).
* `TableGrid`: events within three seconds of an edit are dropped; an answer is applied
  whatever its sheet and age; a refused or lost edit puts back the whole snapshot it took,
  also over rows that a load has brought since. `TaskPanel`: answers are applied in the
  order they arrive; Stop shows cancelled even when it failed; a task that is continued
  after it was seen to end is only shown running by the next fetch.
* `PanelTabs`: a sheet answered after a switch of threads goes to the thread then in
  front; two "+ table" before the answer make twins.
* `ProviderSettings`: a save that waits between its read and its write puts back every
  other field it read; the model override is the process's, so a run may take the
  model of another tenant (`server/routes/chat.ts:164` and `:249`); cleared Langfuse
  settings give way to those of the environment; a cleared or renamed business source
  leaves its entry enabled; an older name chosen in the picker changes nothing but the
  picker; a model that is switched off is no longer on the screen that would switch it on;
  deleting the only model of a list of the server leaves no choice, and a switch after a
  deletion may choose a model outside the list, so the picker shows the first one while
  runs use the stored one; an entry of the business source whose row another save put
  back stays different after a restart, which does not write it again. A save of the model
  without a key erases the stored key: the schema of the patch makes a key left out a blank
  one, which is spread over the row (`model-settings-store.ts:67-68`,
  `shared/model.ts:26-34`), while the screen leaves the key out when its field is empty and
  the provider it shows has one (`models-settings-screen.tsx:163-171`). The screen tells of an
  error and goes on with the provider it had, and so does the picker until it is opened
  again: `PickerTellsTheModel` excepts that time (`unusable`).
* `ComposerModes`: a tool call that entered plan mode is applied again whenever the messages
  change, over what the user switched since; plan mode and a pending goal or loop are one
  setting for all threads, so the answer to a fetch of a thread that was left shows its
  mode on the thread in front, and a message that waited for its goal goes out with the
  plan mode of the thread then shown; a refused fetch switches plan mode off; the answer to
  an older switch lifts the shield of a newer one, and a fetch read before a switch but
  answered after it puts the old mode back.
* `DevServers`: an exiting watchdog removes the pid file whoever it names, so the next
  launch finds a healthy server "not owned" and replaces it; overlapping launches leave
  two watchdogs; `lsof -ti :port | xargs kill -9` also kills who is merely connected,
  a watchdog or the launching script itself; a watchdog killed with SIGKILL leaves its
  `tsx watch`.

## 5. What is proved

For every value of the constants that satisfies the assumptions named in the modules,
TLAPS proves, from one inductive invariant each:

| Theorem | Property | Inductive invariant | Module |
|---|---|---|---|
| `TypeCorrect`, `AnswersAreProduced`, `WorkersAreSupervised`, `RowsAreOwned` | `TypeOK`, `AnswerProvenance`, `NoUnsupervisedWorker`, `NoOrphanRow` | `IInv` | `SubagentTasksProofs` |
| `Refinement` | `ImplementsDelegation` | `IInv` | `SubagentRefinement` |
| `RegistriesAreTrue`, `AnsweredOnce` | `RegistriesFollowRuns`, `QuestionsAreAnsweredOnce` | that of `ChatInvariant` | `ChatRunsProofs` |
| `WrittenInTurn`; `MemoryIsFollowed` | `SheetsAreWrittenInTurn`; `StoreFollowsMemory` | that of `TableInvariant`; `FollowInv` | `TableStoreProofs` |
| `GridsSettle` | `SettledGridShowsStore` | `GridInv` | `TableStoreProofs` |
| `NoRunIsStuck`, `OutcomesStay`, `TasksAreThoseOfRows` | `NoStuckRun`, `OutcomesAreFinal`, `TasksFollowRows` | that of `ScheduleInvariant` | `ScheduledRunsProofs` |
| `WalksAreLogged`; `SettingsHold` | `LogIsAWalk`; `SettingsTakeEffect` | `WalkInv`; `SettingsInv` | `ScheduledRunsProofs` |
| `KnowledgeStaysConsistent`, `ModelsStayWhole`, `StoredStaysItsOwn`, `HooksStayObeyed` | `KnowledgeConsistent`, `ModelsAreWhole`, `StoredIsItsOwn`, `HooksAreObeyed` | one for each component | `BackgroundPartsProofs` |
| `PluginsStayWhole`; `ChoicesStay`; `PanelsSettle` | `PluginsAreWhole`; `ChoicesAreKept`; `PanelSettles` | `PluginsInv`; `FilesInv`; `PanelInv` | `BackgroundPartsProofs` |
| `ToolsFollow`; `OnlyTheStaleHarm`, `LoopsKeepGoing`; `ModesAreTold` | `ToolsFollowFiles`; `OnlyStaleWritesHarm`, `LoopKeepsGoing`; `ModesAreTrue` | `ToolsInv`; `RowInv`, `LoopInv`; `ModesInv` | `ThreadPartsProofs` |
| `LaunchesConverge`; `QueueServed`; `EventsAnswered` | `OneDevServerIsLeft`; `QueueIsServed`; `EventsAreAnswered` | `DevInv`; `ComposerInv`; `EventsInv` | `AppPartsProofs` |
| `AnswersAreWhole`; `HistoriesAreShown` | `StreamIsWhole`; `HistoryIsShown` | `StreamInv`; `HistoryInv` | `AppPartsProofs` |

Every inductive invariant was checked with TLC on the instance of its run before it was
proved. No theorem assumes that something does not go wrong: all hold whatever is switched
on (`Faults`, `May`, `Topics`), and what the code does not protect is named in the
property itself, by ghosts of the model or by its premises (section 4). The constants'
assumptions say what a value may be (names apart, bounds that are numbers); of substance
is only that the nodes of a workflow are finite in number (`GraphsAssumption`).

Five proofs failed first because the model or the property was wrong outside the bounds of
its run, and were done after it was corrected: what a load that fails late does to
another thread (`ThreadHistory`), a task continued unseen (`TaskPanel`), a rollback over
newer rows (`TableGrid`), a choice outside the list of the server and a business source
after a restart (`ProviderSettings`).

Why the properties are not inductive, and what strengthens them:

* Delegation. A returned text is right because the row's text is, and that stays so
  because a run that has ended never changes how it ended. `NoOrphanRow` breaks when the
  owner of an unsettled row is a waiting job that a stop request is about to cancel: the
  request has already written `cancelled`, and a continuation has queued the row again.
  `SafelyOwned` does not count such a job; the continuation itself is then an owner until
  it sends its job, and the request can only cancel jobs it has seen (`Links`). The
  refinement maps a step of a call, a job or a stop request to a step of `Delegation` or
  a stutter, one lemma for each action.
* Chat runs. What a post owns of the registries at each of its places; that its
  controller is on record from `launching` until it is taken off; and of a question, who
  may still bring it back.
* Table store. Every queued write is in the chain of its sheet and waits for the one
  before it; exactly one is at work; a sheet that is gone has no write left that would
  store it. A crossed sheet is bound by none of this, and its writes touch no other sheet's.
  For `StoreFollowsMemory` only the last write of a chain counts (`Told`): what
  it has stored so far begins what its sheet shows, because a change would have queued
  another write behind it; and a shutdown waits for the last of every chain, itself or
  by way of a deletion that seeds the next sheet (`AllAwaited`).
* Runs and schedules. A run that is not over has a job, is about to be swept, or its job
  threw. What a request that is alone with its definition has read is what the row is, at
  each of its steps (`RowsDuring`), whatever happened before it came; so the task it sets
  or takes away is right, also where it was wrong. Of a definition that is not contested
  every request is alone, and its task is right until the row is written (`TaskDuring`).
* Knowledge base, models, editor, hooks. The stage of the upload, deletion, download,
  save or request says which of its writes are done; each conjunct of the property is
  the last stage's.
* Plugins. A request that met no other knows what is in the directory at each of its
  steps (`Placing`) and, unless another wrote an older list, that entry and directory
  agree (`Keeping`); nothing is at work while the rows of an older version are copied
  (`Migrating`).
* Rules, skills, settings. While no two saves overlap, every text meant is in one file
  (`Filed`), but between writing a renamed rule and removing its old file, where it will
  be once that file is gone (`ChangingFile`); what a save of the settings will write is
  what the user switched off (`ChangingSettings`). `TextsMove` says once what a change
  of some files does to `Filed`, and each write is an instance of it.
* Thread row. A handler that nobody overtook holds the row as it is, but for a wake time
  that has come (`SameButWake`); so its write changes what it meant to. For
  `LoopKeepsGoing`: in a thread without a goal no writer touches it (`GoalFree`), and the
  prompt of a loop waits for its acknowledgement (`AcksAwaited`).
* Tool servers. A request that overlaps no other holds what the files have.
* Development servers. The last launch, having met no other, has ended all it found by
  the time it spawns or keeps one watchdog (`Converging`); no other launch acts
  meanwhile (`LaunchesInTurn`).
* Composer. Where each message is says whether the queue counts it; a stream the queue
  does not know is always one that was begun by a resume or an edit, and two are on
  together only after one of the marks of `misheard` was set.
* Event triggers. How far each delivery has got bounds what it may have started by then,
  and what its sender was told is how it ended; and of the screen, that the newest load
  carries what is stored, unless a request is done whose answer is not in, or one was
  never told (`ScreenInv`).

* Walk. What stands in the queue was found by what is logged, and is behind whatever was
  found before it (`QueuedInOrder`); what was found has run or is queued
  (`NothingIsLeftOut`), as long as no entry was refused; and where the job is says what
  the database still lacks of the log.
* Settings. A write that nobody overtook has read the row as it is, so it changes its own
  fields; a run between putting settings into use and taking its model finds its own, but
  for the marks; the exporter follows its settings unless a save is at its flush; an entry
  is written before the row that names it (`ServerFollows`). In the browser one save is on
  its way at a time, and the choice is what was saved last or a model of the list
  (`BrowserFollows`).
* Stream. What was read ends every frame up to the cursor, once and in order, and a
  connection goes on from there or one half further (`Comes`, `GoesOnFrom`).
* History. What a load has fetched is how the server's copy began, and that is how the chat
  begins (`CopiesBegin`); a thread in front that waits for its history is loaded, or has
  its error or lost it (`FrontLoads`).
* Modes. A mode is `sure` only if the newest switch under way says what the chip says, or
  none is and the row does, and no older one will be served after it (`SureOf`).
* Task panel. As long as the store does not show a change, its news is on its way, in an
  event or in a fetch that was not overtaken (`StoreCatchesUp`).
* Grid. A reply older than the store is overtaken by an event or followed by a load; the
  last event on its way for a row has the row's value; and the edits of a row that nobody
  told of balance, as many away from the store's value as back to it, so undoing them in
  any order ends there (`Balanced`).

Each lemma `...Step` or `...Keeps` shows that a conjunct is kept by one group of actions.

What stays with TLC: liveness under fairness (`AnswersArrive`, `RowsSettle`, `RunsEnd`)
and whatever needs ENABLED; and properties that hang on what a selection from a sequence, a
fold over it or its order by a key computes (`CopiesFollowClient`, `OnlyDroppedIsUndone`,
`NotesArePreserved`, `TranscriptIsTrue`, `PagesCoverTheSheet`): the provers cannot look into
`SelectSeq` or the folds. Where a recursive function does, as in `Remaining` of
`ProviderSettings`, the induction is done by hand with the least counterexample
(`LeastOfNats` in `ScheduledRunsProofs`). No proof has been written for
`TabsKeepTheirPages`.

## 6. What is not modelled

The agent runtime, prompts and token limits; ranking, embeddings and citations; the
database and its migrations; identity, policy, audit; dream consolidation; the file, search and shell
tools, which `packages/tools/src/registry.ts` switches off; navigation history, which
nobody uses; the sidecar process of the desktop shell and the panel menu; rendering.
`ChatRuns` leaves out the mode without a datastore, `TranscriptSync` a reload of the
page, turns that continue a tool call, checklists and failing database calls,
`DevServers` bundled sidecars, Windows and log rotation, `EventTriggers` cron rows, "run
now" and two windows that race. Each module names the rest.

## 7. Plan

1. Proofs of `TabsKeepTheirPages`, and of `NotesArePreserved` and `OnlyDroppedIsUndone` with
   the selections of `TranscriptSync` as recursive functions.
2. The sidecar of the desktop shell.
3. A shutdown over `ChatRuns`, `SubagentTasks` and `TableStore` in the order of
   `gracefulShutdown`.

## 8. Running

In this directory: `tlc -workers 2 -config ChatParts.cfg MCChatParts.tla` (the runs with
their modules are in `PROJECT.json`), and `tlapm ThreadPartsProofs.tla` for the proofs
of a module. The largest runs take two to four minutes each, the largest proof modules
seven.
