---- MODULE MCAppParts ----
(* What the page shows beside the chat: the list of threads with the history each of
   them loads, the grid of a sheet, and the subagents in the status bar.  The parts
   share no state, so one run checks them one at a time. *)
EXTENDS ThreadHistory, TableGrid, TaskPanel, EventTriggers, TLC

CONSTANTS ha, hb, hc, hu, hv, sa, sb, va, vb, k1, ta, fa

(* One event, one thread for the workflows, and two filters: one that never
   throws, and one that throws for the event though not for the sample. *)
MCKeyBy == [x \in {"type", "bad"} |-> IF x = "type" THEN "opened" ELSE "throws"]
MCPayloads == {[key |-> "opened", keyBy |-> MCKeyBy, thread |-> "t1",
                says |-> [p |-> "yes", q |-> "throws", n |-> "no"]]}
MCSamplePayload == [key |-> "opened", keyBy |-> MCKeyBy, thread |-> NoFlowThread,
                    says |-> [p |-> "no", q |-> "throws", n |-> "yes"]]
MCFlawless == <<<<"n", "p">>>>
MCFilters == {MCFlawless, <<<<"p">>, <<"q">>>>}
MCFlowThread == [f \in Flows |-> "t1"]

Symmetry == Permutations(CellValues)

VARIABLE subject  \* the part this behaviour is about; the others stay as they began

partsVars == <<subject, historyVars, gridVars, panelVars, eventVars>>

PartsInit ==
  /\ subject \in {"threads", "grid", "subagents", "triggers"}
  /\ EventInit
  /\ \A i \in Starters : triggerRows[i] # Dropped =>
       /\ \A h \in hookRows : triggerRows[i].source = h.source
       /\ triggerRows[i].on = EventKeys
       /\ watched = "screen" \/ i \in Flows => triggerRows[i].filter = Flawless
       /\ watched = "deliveries" => triggerRows[i].enabled
  /\ watched = "deliveries" => \A i \in Starters : triggerRows[i] # Dropped
  /\ \A h \in hookRows : watched = "screen" <=> h.source = GithubHook
  /\ subject # "triggers" => /\ watched = "screen"
                             /\ \A i \in Starters : triggerRows[i] # Dropped /\ triggerRows[i].enabled
  /\ subject # "threads" => following = "badges"
  /\ HistoryInit
  /\ PanelInit
  /\ subject # "grid" => tabs = Tabs
  /\ GridInit /\ active = sa
  /\ \A s \in Tabs : store[s] = Blank <=> subject # "grid" \/ s # active

PartsNext ==
  /\ UNCHANGED subject
  /\ \/ subject = "threads" /\ HistoryNext /\ UNCHANGED <<gridVars, panelVars, eventVars>>
     \/ subject = "grid" /\ GridNext /\ UNCHANGED <<historyVars, panelVars, eventVars>>
     \/ subject = "subagents" /\ PanelNext /\ UNCHANGED <<historyVars, gridVars, eventVars>>
     \/ subject = "triggers" /\ EventNext /\ UNCHANGED <<historyVars, gridVars, panelVars>>

PartsSpec == PartsInit /\ [][PartsNext]_partsVars
====
