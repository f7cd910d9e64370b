---------------------------- MODULE WorkflowWalk ----------------------------
(***************************************************************************)
(* The walk of one workflow run over its graph                              *)
(* (apps/server/src/workflow-runner.ts): the entry nodes, the queue, the      *)
(* nodes that ran, which edges an outcome selects, the branch a failing node   *)
(* may have, and the log that is stored after every node.                    *)
(*                                                                         *)
(* Every database call of the job may be refused: the log is appended to       *)
(* before it is stored, a node whose entry was refused is logged again by the   *)
(* catch block of the loop, and what the outer catch block cannot store is      *)
(* left to the sweep at the next start (ScheduledRuns).  One worker walks one   *)
(* run, so nothing comes between a node and its entry.                         *)
(* Kinds are told apart by how they end: "step" stands for every kind but      *)
(* if_else, code and http_request; "guarded" is a code or http_request node     *)
(* whose errorStrategy is fail-branch.  What a node computes is left out.      *)
(***************************************************************************)
EXTENDS Naturals, Sequences, SequencesExt

CONSTANT Graphs  \* definitions: the kind of each node and the labelled edges

WalkKinds == {"start", "step", "if_else", "code", "guarded"}
EdgeLabels == {"source", "true", "false", "error"}

ASSUME GraphsAssumption ==
  \A g \in Graphs : /\ IsFiniteSet(DOMAIN g.kind)
                    /\ \A n \in DOMAIN g.kind : g.kind[n] \in WalkKinds
                    /\ \A e \in g.edges : e.label \in EdgeLabels

VARIABLES
  graph,      \* the definition of the workflow, as the run read it
  queue,      \* nodes to run, in order
  visited,    \* nodes taken from the queue to be run
  log,        \* what was logged: the node and its outcome; "throw" is an error
  storedLog,  \* the log in the database
  walkAt,     \* where the job is, see WalkPoints
  runStatus,  \* the row's status: "none" until it exists, "queued", "running", "done", "failed"
  lastRun,    \* was the workflow's lastRunAt set?
  refused     \* was a database call of this job refused?

walkVars == <<graph, queue, visited, log, storedLog, walkAt, runStatus, lastRun, refused>>

\* Before the run, in the loop, in its catch block, after it with a failed node,
\* storing the time of a run that is done, in the outer catch block, and over.
WalkPoints == {"begin", "loop", "caught", "failed", "touch", "outer", "over"}

nodeIds == DOMAIN graph.kind

\* The start nodes; without one, the nodes no edge leads to.
startNodes ==
  LET roots == { n \in nodeIds : graph.kind[n] = "start" }
  IN IF roots # {} THEN roots ELSE { n \in nodeIds : ~ \E e \in graph.edges : e.target = n }

supportsFailBranch(kind) == kind \in {"code", "guarded"}

\* How running a node of this kind can end; "throw" fails the run.
outcomes(kind) ==
  CASE kind = "start"   -> {"success"}
    [] kind = "if_else" -> {"true", "false", "throw"}
    [] kind = "guarded" -> {"success", "error"}
    [] OTHER            -> {"success", "throw"}

Follows(kind, outcome, label) ==
  CASE kind = "if_else"         -> label = outcome
    [] supportsFailBranch(kind) -> (label = "error") <=> (outcome = "error")
    [] OTHER                    -> label \notin {"true", "false", "error"}

selectEdges(n, outcome) ==
  { e \in graph.edges : e.source = n /\ Follows(graph.kind[n], outcome, e.label) }

\* What the edges lead to, unless it ran or the edge dangles.
Reached(edges) == { e.target : e \in edges } \cap (nodeIds \ visited)

EnqueueInFront(rest, found) == found \o rest  \* a bug: a stack
Enqueue(rest, found) == rest \o found

WalkInit ==
  /\ graph \in Graphs
  /\ queue = <<>>
  /\ visited = {}
  /\ log = <<>> /\ storedLog = <<>>
  /\ walkAt = "begin"
  /\ runStatus = "none"
  /\ lastRun = FALSE
  /\ refused = FALSE

\* The database accepts a call, which changes the row and goes on at next, or
\* refuses it, which throws to where it is caught.
Stores(status, next, caughtAt) ==
  \/ runStatus' = status /\ storedLog' = log' /\ walkAt' = next /\ UNCHANGED refused
  \/ walkAt' = caughtAt /\ refused' = TRUE /\ UNCHANGED <<runStatus, storedLog>>

\* The run is created and marked as running, or failed at once without an entry
\* node.  What is refused here nothing catches.
StartWalk ==
  /\ walkAt = "begin"
  /\ UNCHANGED <<graph, visited, log, lastRun>>
  /\ \E order \in SetToSeqs(startNodes) : queue' = order
  /\ \/ Stores(IF startNodes = {} THEN "failed" ELSE "running",
               IF startNodes = {} THEN "over" ELSE "loop", "over")
     \/ /\ runStatus' \in {"queued", "running"} /\ (runStatus' = "running" => startNodes = {})
        /\ walkAt' = "over" /\ refused' = TRUE /\ UNCHANGED storedLog

SkipVisited ==
  /\ walkAt = "loop" /\ queue # <<>> /\ Head(queue) \in visited
  /\ queue' = Tail(queue)
  /\ UNCHANGED <<graph, visited, log, storedLog, walkAt, runStatus, lastRun, refused>>

\* One turn of the loop: the node runs and is logged, and if the entry is stored
\* what its outcome selects is queued, in the order of the edges.  The catch block
\* logs a node that throws; the entry of another that is refused throws to it.
runNode ==
  /\ walkAt = "loop" /\ queue # <<>> /\ Head(queue) \notin visited
  /\ LET n == Head(queue)
     IN \E outcome \in outcomes(graph.kind[n]) :
          /\ visited' = visited \cup {n}
          /\ log' = Append(log, [node |-> n, outcome |-> outcome])
          /\ IF outcome = "throw"
             THEN Stores("running", "failed", "outer")
             ELSE Stores("running", "loop", "caught")
          /\ IF walkAt' = "loop"
             THEN \E order \in SetToSeqs(Reached(selectEdges(n, outcome)) \ {n}) :
                    queue' = Enqueue(Tail(queue), order)
             ELSE queue' = Tail(queue)
  /\ UNCHANGED <<graph, lastRun>>

\* The catch block of the loop, where the entry of a node that ran was refused.
LogAgain ==
  /\ walkAt = "caught"
  /\ log' = Append(log, [node |-> Last(log).node, outcome |-> "throw"])
  /\ Stores("running", "failed", "outer")
  /\ UNCHANGED <<graph, queue, visited, lastRun>>

FinishRun ==
  /\ UNCHANGED <<graph, queue, visited, log, lastRun>>
  /\ \/ /\ walkAt = "loop" /\ queue = <<>>
        /\ Stores("done", "touch", "outer")
     \/ /\ walkAt = "failed"
        /\ Stores("failed", "over", "outer")

touchWorkflowLastRun ==
  /\ walkAt = "touch"
  /\ \/ lastRun' = TRUE /\ walkAt' = "over" /\ UNCHANGED refused
     \/ walkAt' = "outer" /\ refused' = TRUE /\ UNCHANGED lastRun
  /\ UNCHANGED <<graph, queue, visited, log, storedLog, runStatus>>

\* The outer catch block.
GiveUp ==
  /\ walkAt = "outer"
  /\ UNCHANGED <<graph, queue, visited, log, lastRun>>
  /\ Stores("failed", "over", "over")

WalkNext ==
  \/ StartWalk \/ SkipVisited \/ runNode \/ LogAgain
  \/ FinishRun \/ touchWorkflowLastRun \/ GiveUp
WalkSpec == WalkInit /\ [][WalkNext]_walkVars

-----------------------------------------------------------------------------
\* Was a way to this node selected by the first k nodes of the log?
Selected(i, n) ==
  log[i].outcome # "throw" /\ \E e \in selectEdges(log[i].node, log[i].outcome) : e.target = n
FoundBy(n, k) == n \in startNodes \/ \E i \in 1..k : Selected(i, n)

\* The log is a breadth-first walk of the edges the outcomes select: a node runs
\* only after an outcome selected a way to it, and nodes run in the order in which
\* they were found.  No node is logged twice, not at the join of two branches nor
\* in a cycle, except the last one, as an error after the database refused its
\* entry; only the last entry can have failed the run.  A run that is done has left
\* out nothing that the outcomes selected.  A run that is over stands in the
\* database as it went, whole and done or failed, unless a call was refused; and the
\* workflow has the time of a run only if that run is done.
LogIsAWalk ==
  /\ \A i, j \in DOMAIN log : log[i].node = log[j].node /\ i < j =>
       i = j - 1 /\ j = Len(log) /\ log[j].outcome = "throw" /\ refused
  /\ \A i \in DOMAIN log :
       /\ FoundBy(log[i].node, i - 1)
       /\ \A j \in 1..(i - 1), k \in 0..Len(log) :
            FoundBy(log[i].node, k) => FoundBy(log[j].node, k)
       /\ log[i].outcome = "throw" => i = Len(log) /\ walkAt # "loop" /\ runStatus # "done"
  /\ runStatus = "done" =>
       \A n \in nodeIds : FoundBy(n, Len(log)) => \E i \in DOMAIN log : log[i].node = n
  /\ runStatus \in {"done", "failed"} => storedLog = log
  /\ walkAt = "over" => runStatus \in {"done", "failed"} \/ refused
  /\ lastRun => runStatus = "done"
=============================================================================
