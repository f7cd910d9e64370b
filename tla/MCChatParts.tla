---- MODULE MCChatParts ----
(* A thread as the server sees it: the runs of its chat, its state row, the
   tool servers its runs use; and the server itself, as the launches of a
   developer start and stop it.  The parts share no state, so one run checks them one
   at a time, and model values serve twice: rs1 and rs2 are also handlers of the row,
   p1 and p2 also skills. *)
EXTENDS ChatRuns, ThreadRow, ToolServers, DevServers, TLC

CONSTANTS p1, p2, p3, s1, g1, l1, sa, t1, t2, rs1, rs2

AllFaults == FaultKinds
TwoAsk == {p1, p2}
RowTopics == { GoalOps \cup {"finish", "late ack", "close"}, LoopOps \cup OwnOps,
               {"set goal", "set loop", "finish", "crash"},
               {"activate", "refresh", "crash"}, {"entitle", "rename", "todos", "delete"} }

\* Only the first two posts may wait for an answer.
Symmetry == Permutations({p1, p2}) \cup Permutations(RequestSlots)

VARIABLE subject  \* the part this behaviour is about; the others stay as they began

partsVars == <<subject, vars, rowVars, toolVars, devVars>>

PartsInit ==
  /\ subject \in {"chat", "row", "tools", "dev servers"}
  /\ DevInit
  /\ Init /\ ToolsInit
  /\ RowInit /\ (subject # "row" => topic = CHOOSE t \in Topics : TRUE)

PartsNext ==
  /\ UNCHANGED subject
  /\ \/ subject = "chat" /\ Next /\ UNCHANGED <<rowVars, toolVars, devVars>>
     \/ subject = "row" /\ RowNext /\ UNCHANGED <<vars, toolVars, devVars>>
     \/ subject = "tools" /\ ToolsNext /\ UNCHANGED <<vars, rowVars, devVars>>
     \/ subject = "dev servers" /\ DevNext /\ UNCHANGED <<vars, rowVars, toolVars>>

PartsSpec == PartsInit /\ [][PartsNext]_partsVars
====
