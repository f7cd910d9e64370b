---- MODULE MCBackgroundParts ----
(* Work that goes on beside the chat: schedules and their runs, the walk of a
   workflow and the editor of its definition, the models the server downloads and
   the documents it reads, the settings of its providers.  The parts share no state, so one run checks them one
   at a time. *)
EXTENDS ScheduledRuns, WorkflowWalk, WorkflowEditor, LocalModels, KnowledgeBase,
  Hooks, ProviderSettings, TLC

CONSTANTS a1, w1, w2, n1, n2, q1, q2, q3, d1, hg, hd, s1, s2, ta, tb

\* Five nodes; the first may be an entry, the second branches; the edges a
\* definition has, one of them to a node that is not there, and those it may have.
Edge(a, l, b) == [source |-> a, label |-> l, target |-> b]
FixedEdges == { Edge(1, "source", 2), Edge(3, "source", 4), Edge(4, "source", 5), Edge(4, "source", 9) }
SomeEdges == { Edge(1, "source", 3), Edge(2, "true", 3), Edge(2, "false", 4),
               Edge(2, "error", 4), Edge(2, "source", 3), Edge(5, "source", 1) }
Kinds(first, second) == <<first, second, "step", "code", "step">>
WalkGraphs == [kind : {Kinds(f, s) : f \in {"start", "step"}, s \in {"if_else", "guarded"}},
               edges : {FixedEdges \cup es : es \in SUBSET SomeEdges}]

\* Two hooks of tool calls, one of them to run once.
HookEvents == (hg :> "tool") @@ (hd :> "tool")

\* Two names of models, two the catalog lists, and what a screen may save: with a secret,
\* without one, without a name, cleared.  The environment has settings of Langfuse and no model.
Slugs == ("na" :> "ia") @@ ("nb" :> "ib") @@ ("ca" :> "sa") @@ ("cb" :> "sb")
Catalog == <<"ca", "cb">>
Offer(f, n, s, o) == [field |-> f, patch |-> Setting(n, s, o), clears |-> FALSE]
Cleared(f) == [field |-> f, patch |-> Empty, clears |-> TRUE]
SomeOffers == { Offer("model", "na", "k1", TRUE), Offer("model", "nb", "blank", TRUE),
                Offer("model", "blank", "k1", TRUE), Cleared("model"),
                Offer("tracing", "pk", "k1", TRUE), Offer("tracing", "pk", "blank", FALSE),
                Offer("source", "crm", "k1", TRUE), Offer("source", "erp", "blank", FALSE),
                Offer("audit", "url", "blank", TRUE) }
NoModel == Unset
EnvLangfuse == Setting("env", "ke", TRUE)

\* The requests for settings, the workflows of the editor and the names of schedules are
\* the same values: no behaviour is about two of them.
Symmetry == Permutations(Changes) \cup Permutations(Names)

VARIABLE subject  \* the part this behaviour is about; the others stay as they began

partsVars == <<subject, scheduleVars, walkVars, editorVars, modelVars, knowledgeVars, hookVars, settingsVars>>

\* Requests of every definition, one after another and none that changes its kind; and
\* requests for an automation that overlap and change its kind, with no crash.
OneByOne ==
  \/ BeingServed = {} /\ ClientStep /\ \A q \in BeingServed' :
       LET c == calls'[q]
       IN Exists(c.d) /\ "kind" \in DOMAIN c.patch => c.patch["kind"] = rows[c.d].kind
  \/ ServerStep
Overlapping ==
  /\ ScheduleNext
  /\ \A q \in BeingServed' : calls'[q].d \in Automations
  /\ crashes' = 0

PartsInit ==
  /\ subject \in {"schedules", "crossed schedules", "walk", "editor", "models", "documents", "hooks", "settings"}
  /\ ModelsInit /\ KnowledgeInit
  /\ subject # "hooks" => wanted = {}
  /\ HooksInit
  /\ subject # "walk" => graph = [kind |-> Kinds("start", "if_else"), edges |-> FixedEdges]
  /\ WalkInit
  /\ subject # "editor" => storedGraph = [w \in WorkflowIds |-> "none"]
  /\ EditorInit
  /\ subject \notin {"schedules", "crossed schedules"} => rows = [d \in Defs |-> Absent]
  /\ ScheduleInit
  /\ subject = "crossed schedules" => \A w \in Workflows : rows[w] = Absent
  /\ subject # "settings" => about = "server"
  /\ SettingsInit
  /\ about = "server" => settingsRow[Home].audit = Unset
  /\ subject # "settings" => settingsRow[Home].model = Unset

PartsNext ==
  /\ UNCHANGED subject
  /\ \/ subject = "schedules" /\ OneByOne /\ UNCHANGED <<walkVars, editorVars, modelVars, knowledgeVars, hookVars, settingsVars>>
     \/ subject = "crossed schedules" /\ Overlapping /\ UNCHANGED <<walkVars, editorVars, modelVars, knowledgeVars, hookVars, settingsVars>>
     \/ subject = "walk" /\ WalkNext /\ UNCHANGED <<scheduleVars, editorVars, modelVars, knowledgeVars, hookVars, settingsVars>>
     \/ subject = "editor" /\ EditorNext /\ UNCHANGED <<scheduleVars, walkVars, modelVars, knowledgeVars, hookVars, settingsVars>>
     \/ subject = "models" /\ ModelsNext /\ UNCHANGED <<scheduleVars, walkVars, editorVars, knowledgeVars, hookVars, settingsVars>>
     \/ subject = "documents" /\ KnowledgeNext /\ UNCHANGED <<scheduleVars, walkVars, editorVars, modelVars, hookVars, settingsVars>>
     \/ subject = "hooks" /\ HooksNext /\ UNCHANGED <<scheduleVars, walkVars, editorVars, modelVars, knowledgeVars, settingsVars>>
     \/ subject = "settings" /\ SettingsNext /\ UNCHANGED <<scheduleVars, walkVars, editorVars, modelVars, knowledgeVars, hookVars>>

PartsSpec == PartsInit /\ [][PartsNext]_partsVars
====
