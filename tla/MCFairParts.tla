---- MODULE MCFairParts ----
(* What must come to an end, given the fairness the code's scheduling justifies:
   the tool calls and tasks of a thread; and the runs of automations and
   workflows, across crashes.  The parts share no state, so one run checks them
   one at a time. *)
EXTENDS SubagentTasks, ScheduledRuns, TLC

CONSTANTS c1, c2, t1, s1, a1, w1, n1, r1, r2

NoFaults == {}

VARIABLE subject  \* the part this behaviour is about; the other stays as it began

partsVars == <<subject, vars, scheduleVars>>

PartsInit ==
  /\ subject \in {"tasks", "runs"}
  /\ Init
  /\ subject # "runs" => rows = [d \in Defs |-> Absent]
  /\ ScheduleInit

PartsNext ==
  /\ UNCHANGED subject
  /\ \/ subject = "tasks" /\ Next /\ UNCHANGED <<scheduleVars>>
     \/ subject = "runs" /\ ScheduleNext /\ UNCHANGED <<vars>>

\* The fairness of each part, for the part that moves.
PartsSpec ==
  /\ PartsInit /\ [][PartsNext]_partsVars
  /\ Fairness
  /\ WF_partsVars(subject = "runs" /\ Boot /\ UNCHANGED <<subject, vars>>)
  /\ \A r \in Runs : WF_partsVars(subject = "runs" /\ RunStep(r) /\ UNCHANGED <<subject, vars>>)
====
