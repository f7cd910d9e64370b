---- MODULE MCSyncParts ----
(* A thread as the browser shows it: its transcript and its copy in the server, the
   stream of a run, the composer's queue, the tabs of the right panel; and the plugins, rules and skills its screens install.  The
   parts share no state, so one run checks them one at a time; the model values
   stand for turns of the transcript and for messages of the queue. *)
EXTENDS TranscriptSync, StreamClient, ComposerRuns, PanelTabs, Plugins, UserFiles, TLC

CONSTANTS t1, t2, t3, c1, n1, pa, pb, pl, pm, ra, rb, fa, fb

Symmetry == Permutations(Turns)

VARIABLE subject  \* the part this behaviour is about; the others stay as they began

partsVars == <<subject, vars, streamVars, composerVars, panelTabsVars, pluginVars, userVars>>

PartsInit ==
  /\ subject \in {"transcript", "stream", "composer", "tabs", "plugins", "user files"}
  /\ (subject # "user files" => topic = "settings") /\ UserFilesInit
  /\ PluginsInit
  /\ PanelTabsInit /\ (subject # "tabs" => onScreen = pa /\ stateRef = byThread[pb])
  /\ ComposerInit
  /\ StreamInit /\ (subject # "stream" => native = TRUE /\ banner = "none")
  /\ Init /\ (subject # "transcript" => NoTurn)

PartsNext ==
  /\ UNCHANGED subject
  /\ \/ subject = "transcript" /\ FailingNext /\ UNCHANGED <<streamVars, composerVars, panelTabsVars, pluginVars, userVars>>
     \/ subject = "stream" /\ StreamNext /\ UNCHANGED <<vars, composerVars, panelTabsVars, pluginVars, userVars>>
     \/ subject = "composer" /\ ComposerNext /\ UNCHANGED <<vars, streamVars, panelTabsVars, pluginVars, userVars>>
     \/ subject = "tabs" /\ PanelTabsNext /\ UNCHANGED <<vars, streamVars, composerVars, pluginVars, userVars>>
     \/ subject = "plugins" /\ PluginsNext /\ UNCHANGED <<vars, streamVars, composerVars, panelTabsVars, userVars>>
     \/ subject = "user files" /\ UserFilesNext /\ UNCHANGED <<vars, streamVars, composerVars, panelTabsVars, pluginVars>>

PartsSpec == PartsInit /\ [][PartsNext]_partsVars
====
