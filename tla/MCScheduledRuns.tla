-------------------------- MODULE MCScheduledRuns --------------------------
(* ScheduledRuns on small instances. *)
EXTENDS ScheduledRuns, TLC

\* Requests, runs, names and definitions of one sort are interchangeable.
Symmetry ==
    Permutations(Changes) \cup Permutations(Runs) \cup Permutations(Names)
        \cup Permutations(Workflows) \cup Permutations(Automations)
============================================================================
