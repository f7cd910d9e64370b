-------------------------- MODULE MCSubagentTasks --------------------------
(* What the agent does in a conversation beside its answers: the tasks it delegates,
   and the modes it enters and leaves under the composer's switches.  The parts share
   no state, so one run checks them one at a time. *)
EXTENDS SubagentTasks, ComposerModes, TLC

CONSTANTS c1, c2, c3, t1, t2, s1, s2, ca, cb

NoFaults == {}
\* The fetches of one mode at a time.
OneEach == {{m} : m \in Modes}

Symmetry == Permutations(Calls) \cup Permutations(Tasks) \cup Permutations(Stops)

VARIABLE subject  \* the part this behaviour is about; the other stays as it began

partsVars == <<subject, vars, modeVars>>

PartsInit ==
  /\ subject \in {"tasks", "modes"}
  /\ Init
  /\ ModesInit /\ front = ca
  /\ subject # "modes" => followed = {"plan"} /\ \A m \in Modes : ~modeRow[ca][m]

PartsNext ==
  /\ UNCHANGED subject
  /\ \/ subject = "tasks" /\ Next /\ UNCHANGED modeVars
     \/ subject = "modes" /\ ModesNext /\ UNCHANGED vars

PartsSpec == PartsInit /\ [][PartsNext]_partsVars
TasksSpec == PartsInit /\ subject = "tasks" /\ [][PartsNext]_partsVars
=============================================================================
