--------------------------- MODULE WorkflowEditor ---------------------------
(***************************************************************************)
(* The workflow panel (apps/web/.../panels/workflow-panel.tsx) and the        *)
(* routes behind it (apps/server/src/routes/workflows.ts): the graph that is   *)
(* shown and edited, the workflow it is taken for, the tab's workflowId with    *)
(* the effect that follows it, and the requests of the panel, each answered     *)
(* in its own time while the user goes on.                                    *)
(*                                                                         *)
(* What is on the canvas, stored or on its way is named by the workflow it is    *)
(* the graph of: "draft" for the draft on the canvas, "old" for one that is no    *)
(* longer there.  A call is a request with what its handler does next.         *)
(* Left out: editing (it changes what the graph is, not whose), runs and their   *)
(* log, names (a save may be refused for its name); one thread is fixed.        *)
(***************************************************************************)
EXTENDS Naturals, FiniteSets

CONSTANTS
  WorkflowIds, \* ids of workflows
  CallsAtOnce  \* the user starts nothing more while so many pending are open

ASSUME CallsAssumption == CallsAtOnce \in Nat
ASSUME IdsAssumption == WorkflowIds \cap {"none", "gone", "draft", "old"} = {}

VARIABLES
  storedGraph,    \* whose graph each workflow holds; "none" before it is made, "gone"
  tabId,     \* workflowId in the state of the panel's tab, "none" without one
  opened,    \* the workflow in the panel's state, "none" without one
  isNewDraft,
  shown,     \* whose graph the nodes and edges on the canvas are
  workflows, \* the list in the menu
  saving,
  pending,     \* open requests
  crossed    \* was a save answered while another graph was on the canvas?

editorVars == <<storedGraph, tabId, opened, isNewDraft, shown, workflows, saving, pending, crossed>>

Stored == { w \in WorkflowIds : storedGraph[w] \notin {"none", "gone"} }

\* editingWorkflowId: what a save writes to.
editingWorkflowId ==
  IF isNewDraft THEN "none" ELSE IF opened # "none" THEN opened ELSE tabId

RequestWorkflow(do, at, w, whose) ==
  [do |-> do, at |-> at, workflow |-> w, graph |-> whose, live |-> TRUE, served |-> FALSE]

\* A change of the tab's workflowId runs the effect again; the run before it
\* stops where it looks, after its list.
Follow(open, w) ==
  IF w = tabId THEN open
  ELSE { IF c.do = "effect" THEN [c EXCEPT !.live = FALSE] ELSE c : c \in open }
         \cup {RequestWorkflow("effect", "list", w, "none")}

Renamed(open, whose) == { IF c.graph = "draft" THEN [c EXCEPT !.graph = whose] ELSE c : c \in open }

EditorInit ==
  /\ \E have \in SUBSET WorkflowIds :
       /\ storedGraph = [w \in WorkflowIds |-> IF w \in have THEN w ELSE "none"]
       /\ tabId \in have \cup {"none"}
  /\ opened = "none"
  /\ isNewDraft = TRUE
  /\ shown = "draft"
  /\ workflows = {}
  /\ saving = FALSE
  /\ pending = {RequestWorkflow("effect", "list", tabId, "none")}
  /\ crossed = FALSE

\* A bug: a new draft that leaves what was opened.
startNewWorkflowHalf(ended) ==
  /\ shown' = "draft"
  /\ pending' = Renamed(pending \ ended, "old")
  /\ UNCHANGED <<isNewDraft, opened, tabId>>

\* startNewWorkflow: an empty draft that is no workflow yet, at the end of a call.
startNewWorkflow(ended) ==
  /\ isNewDraft' = TRUE
  /\ opened' = "none"
  /\ shown' = "draft"
  /\ tabId' = "none"
  /\ pending' = Follow(Renamed(pending \ ended, "old"), "none")

\* The end of loadWorkflow: graph, workflow and tab follow the answer.
OpenWorkflow(c) ==
  /\ opened' = c.workflow
  /\ shown' = c.graph
  /\ isNewDraft' = FALSE
  /\ tabId' = c.workflow
  /\ pending' = Follow(Renamed(pending \ {c}, "old"), c.workflow)

Continue(c, next) ==
  /\ pending' = (pending \ {c}) \cup {next}
  /\ UNCHANGED <<tabId, opened, isNewDraft, shown>>
Free == Cardinality(pending) < CallsAtOnce
BeginCall(request) ==
  /\ Free
  /\ pending' = pending \cup {request}
  /\ UNCHANGED <<storedGraph, tabId, opened, isNewDraft, shown, workflows, crossed>>

-----------------------------------------------------------------------------
\* The user.
\* loadWorkflow from the menu.
Pick == \E w \in workflows : BeginCall(RequestWorkflow("open", "load", w, "none")) /\ UNCHANGED saving

\* saveWorkflow: from its button, which a save under way disables, to have
\* something to run, and before a new draft.
saveWorkflow ==
  \E do \in {"save", "new"} :
    /\ do = "save" => ~saving \/ editingWorkflowId = "none"
    /\ saving' = TRUE
    /\ BeginCall(IF editingWorkflowId = "none"
             THEN RequestWorkflow(do, "post", "none", shown)
             ELSE RequestWorkflow(do, "put", editingWorkflowId, shown))

\* confirmWorkflowDelete of a workflow; one that was edited at the click is
\* replaced on the canvas.
confirmWorkflowDelete ==
  \E w \in workflows :
    /\ BeginCall(RequestWorkflow(IF editingWorkflowId = w THEN "replace" ELSE "remove", "delete", w, "none"))
    /\ UNCHANGED saving

\* ... and of a draft.
discardDraft ==
  /\ isNewDraft
  /\ IF workflows = {}
     THEN /\ startNewWorkflow({})
          /\ UNCHANGED <<storedGraph, workflows, saving, crossed>>
     ELSE \E w \in workflows : BeginCall(RequestWorkflow("open", "load", w, "none")) /\ UNCHANGED saving

-----------------------------------------------------------------------------
\* The server.  A load reads, the others write; one that refuses is a call that
\* fails.  A list is read when its answer arrives: it only fills the menu, which is
\* stale anyway.
AnswerOf(c, whose) == [c EXCEPT !.served = TRUE, !.graph = whose]
AnswerCall(c, whose) ==
  /\ pending' = (pending \ {c}) \cup {AnswerOf(c, whose)}
  /\ UNCHANGED <<tabId, opened, isNewDraft, shown, workflows, saving, crossed>>

ServeGet(c) == c.at = "load" /\ AnswerCall(c, storedGraph[c.workflow]) /\ UNCHANGED storedGraph
ServePut(c) == c.at = "put" /\ storedGraph' = [storedGraph EXCEPT ![c.workflow] = c.graph] /\ AnswerCall(c, c.graph)
ServeDelete(c) == c.at = "delete" /\ storedGraph' = [storedGraph EXCEPT ![c.workflow] = "gone"] /\ AnswerCall(c, c.graph)

\* A draft becomes the workflow it is storedGraph as, wherever it is.
ServePost(c) ==
  /\ c.at = "post"
  /\ \E w \in WorkflowIds :
       /\ storedGraph[w] = "none"
       /\ storedGraph' = [storedGraph EXCEPT ![w] = w]
       /\ shown' = IF c.graph = "draft" THEN w ELSE shown
       /\ pending' = LET rest == (pending \ {c}) \cup {[AnswerOf(c, c.graph) EXCEPT !.workflow = w]}
                   IN IF c.graph = "draft" THEN Renamed(rest, w) ELSE rest
  /\ UNCHANGED <<tabId, opened, isNewDraft, workflows, saving, crossed>>

ServeCall ==
  \E c \in pending :
    /\ ~c.served
    /\ \/ c.workflow \in Stored /\ (ServeGet(c) \/ ServePut(c) \/ ServeDelete(c))
       \/ ServePost(c)
-----------------------------------------------------------------------------
\* The panel gets an answer.
Loaded(c) ==
  /\ c.at = "load"
  /\ OpenWorkflow(c)
  /\ UNCHANGED <<workflows, saving, crossed>>

\* The answer of a save makes its workflow the one that is edited, whatever is shown.
Saved(c) ==
  /\ c.at \in {"put", "post"}
  /\ opened' = c.workflow
  /\ isNewDraft' = FALSE
  /\ tabId' = IF c.at = "post" THEN c.workflow ELSE tabId
  /\ pending' = Follow(pending \ {c}, tabId') \cup {RequestWorkflow(c.do, "list", c.workflow, "none")}
  /\ crossed' = (crossed \/ shown # c.workflow)
  /\ UNCHANGED <<shown, workflows, saving>>

GoneThere(c) ==
  /\ c.at = "delete"
  /\ Continue(c, RequestWorkflow(c.do, "list", c.workflow, "none"))
  /\ UNCHANGED <<workflows, saving, crossed>>

\* What follows the list: the effect opens what the tab names, a save is over, a
\* new draft asks once more, a deleted workflow is replaced by the first.
Listed(c) ==
  /\ c.at = "list"
  /\ workflows' = Stored
  /\ saving' = (saving /\ c.do \notin {"save", "new"})
  /\ \/ /\ c.do = "effect" /\ c.live
        /\ IF c.workflow = "none" THEN startNewWorkflow({c})
           ELSE Continue(c, RequestWorkflow("open", "load", c.workflow, "none"))
     \/ c.do = "new" /\ Continue(c, RequestWorkflow("new", "list again", c.workflow, "none"))
     \/ /\ c.do = "replace"
        /\ IF Stored = {} THEN startNewWorkflow({c})
           ELSE \E w \in Stored : Continue(c, RequestWorkflow("open", "load", w, "none"))
     \/ /\ c.do \in {"save", "remove"} \/ (c.do = "effect" /\ ~c.live)
        /\ pending' = pending \ {c}
        /\ UNCHANGED <<tabId, opened, isNewDraft, shown>>
  /\ UNCHANGED crossed
ListedAgain(c) ==
  /\ c.at = "list again"
  /\ workflows' = Stored
  /\ startNewWorkflow({c})
  /\ UNCHANGED <<saving, crossed>>

Receive ==
  \E c \in pending :
    /\ c.served \/ c.at \in {"list", "list again"}
    /\ Loaded(c) \/ Saved(c) \/ GoneThere(c) \/ Listed(c) \/ ListedAgain(c)
    /\ UNCHANGED storedGraph

\* A request is refused, or fails on its way there or back: the handler shows an error and ends.
Fail ==
  \E c \in pending :
    /\ pending' = pending \ {c}
    /\ saving' = (saving /\ ~(c.do \in {"save", "new"} /\ c.at # "list again"))
    /\ UNCHANGED <<storedGraph, tabId, opened, isNewDraft, shown, workflows, crossed>>

EditorNext ==
  \/ Pick \/ saveWorkflow \/ confirmWorkflowDelete \/ discardDraft
  \/ ServeCall \/ Receive \/ Fail
EditorSpec == EditorInit /\ [][EditorNext]_editorVars

-----------------------------------------------------------------------------
\* A workflow is only ever overwritten with its own document, unless a save was
\* answered after the user had another document on the canvas: its answer makes
\* the panel take the one for the other.
StoredIsItsOwn == crossed \/ \A w \in Stored : storedGraph[w] = w
=============================================================================
