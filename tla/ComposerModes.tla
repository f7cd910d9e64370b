--------------------------- MODULE ComposerModes ---------------------------
(***************************************************************************)
(* Plan, goal and loop mode of a conversation: what its row on the server  *)
(* says (apps/server/src/routes: threads.ts, goal-loop.ts, chat.ts), and   *)
(* what the composer shows of it (apps/web/src/lib: use-composer-settings, *)
(* plan-mode-sync, goal-loop-sync, chat-settings; the plus and the slash   *)
(* menu and the chips).  Switches are shown at once and posted; the row is *)
(* fetched when a conversation opens, while it runs and when a run ends;   *)
(* plan mode is also told by the tool calls among the messages.            *)
(*                                                                         *)
(* Plan mode and what is pending are one setting of the browser for all    *)
(* conversations.  A goal or loop is on or not; how they go on is in       *)
(* ThreadRow, a stopped run in ChatRuns, the queue in ComposerRuns.  A     *)
(* request that equals one on its way stands for both.  Left out: new      *)
(* conversations, skills and to-dos, which are only read.                  *)
(***************************************************************************)
EXTENDS Naturals, FiniteSets

CONSTANTS Conversations, Followed, MaxDoings, MaxFetches  \* what is done, and requests at a time

Modes == {"plan", "goal", "loop"}

ASSUME FollowedAssumption == Followed \subseteq SUBSET Modes

VARIABLES
  followed,      \* the modes whose fetches this behaviour is about
  modeRow,       \* of each conversation, which modes its row has on
  front,         \* the conversation on the screen
  chatSettings,  \* plan mode, and whether a goal or a loop is pending
  modeCache,     \* what the browser last knew of each conversation
  visited,       \* those whose plan mode it knows
  posting,       \* planModeSyncPending and goalClearInFlight
  fetches,       \* requests on their way
  agentOn,       \* conversations with a run
  lastCall,      \* the last plan mode tool call of each transcript,
  heardOf,       \* and of the messages in the browser
  opening,       \* are these about to arrive?
  doings,
  sure,          \* modes that the composer has reason to show as it does
  byHand         \* was plan mode not switched on by an answer since the user's last switch?

screenVars == <<followed, front, chatSettings, modeCache, visited, posting, heardOf, opening>>
modeVars == <<modeRow, screenVars, fetches, agentOn, lastCall, doings, sure, byHand>>

Fetch(what, t, mode, on) ==
  [what |-> what, of |-> t, mode |-> mode, on |-> on,
   served |-> FALSE, got |-> FALSE, stale |-> FALSE, old |-> FALSE]
Same(c, t, mode) == c.of = t /\ c.mode = mode
Puts(t, mode) == {c \in fetches : c.what # "get" /\ Same(c, t, mode)}

\* What is sent, to what is left of the others: a switch makes earlier ones old.
Sends(left, new) ==
  fetches' = new \cup
    {[c EXCEPT !.old = @ \/ (c.what # "get" /\ \E n \in new : n.what # "get" /\ Same(n, c.of, c.mode))] : c \in left}
Overtaken(t, mode) ==
  {[c EXCEPT !.stale = @ \/ (c.served /\ Same(c, t, mode))] : c \in fetches}
RoomFor(n) == Cardinality(fetches) + n <= MaxFetches
Does == doings < MaxDoings /\ doings' = doings + 1

\* A goal is not fetched while it is being cleared.
fetchModes(t) == {Fetch("get", t, m, FALSE) : m \in {x \in followed : x = "goal" => t \notin posting.goal}}

ModesInit ==
  /\ front \in Conversations /\ followed \in Followed
  /\ \E on \in {{}} \cup {{m} : m \in Modes} :
       modeRow = [t \in Conversations |-> [m \in Modes |-> t = front /\ m \in on]]
  /\ chatSettings = [m \in Modes |-> FALSE]
  /\ modeCache = [t \in Conversations |-> [m \in Modes |-> FALSE]]
  /\ visited = {} /\ posting = [m \in {"plan", "goal"} |-> {}]
  /\ fetches = fetchModes(front) /\ agentOn = {} /\ opening = TRUE
  /\ lastCall = [t \in Conversations |-> {}] /\ heardOf = lastCall
  /\ doings = 0 /\ sure = {} /\ byHand = TRUE

-----------------------------------------------------------------------------
\* The switches.  What is switched is posted and shown at once, but for a loop, which
\* is shown until it is stopped; a goal or a loop is pending until a message brings it.
Posted(modes, on) == {Fetch("put", front, m, on) : m \in modes}

Switch(offs, plan, pending) ==
  /\ Does /\ RoomFor(Cardinality(offs \cup plan))
  /\ chatSettings' = [m \in Modes |-> m \in pending \cup plan \/ (chatSettings[m] /\ m \notin offs)]
  /\ modeCache' = [modeCache EXCEPT ![front] =
       [m \in Modes |-> m \in plan \/ (@[m] /\ m \notin offs \ {"loop"})]]
  /\ visited' = IF "plan" \in offs \cup plan THEN visited \cup {front} ELSE visited
  /\ posting' = [m \in {"plan", "goal"} |->
                   IF m \in offs \cup plan THEN posting[m] \cup {front} ELSE posting[m]]
  /\ Sends(fetches, Posted(offs, FALSE) \cup Posted(plan, TRUE))
  /\ sure' = (sure \cup offs \cup plan) \ (offs \cap {"loop"})
  /\ byHand' = (byHand \/ plan \cup pending # {})
  /\ UNCHANGED <<followed, modeRow, front, agentOn, lastCall, heardOf, opening>>

\* Switching one on switches off the other two.
ClearsPlanOnly(keep) == {"plan"} \ {keep}
clearOtherComposerModes(keep) == Modes \ {keep}

setPlanMode(on) ==
  IF on THEN Switch(clearOtherComposerModes("plan"), {"plan"}, {}) ELSE Switch({"plan"}, {}, {})
ModeOn(mode) == chatSettings[mode] \/ (mode # "plan" /\ modeCache[front][mode])
toggle(mode) ==
  IF ModeOn(mode) THEN Switch({mode}, {}, {}) ELSE Switch(clearOtherComposerModes(mode), {}, {mode})

ComposerPlusMenu == setPlanMode(~chatSettings.plan) \/ toggle("goal") \/ toggle("loop")
ComposerSlashMenu == \E exit \in {ModeOn("plan")} : setPlanMode(~exit) \/ toggle("goal") \/ toggle("loop")
RemoveChip(mode) == ModeOn(mode) /\ Switch({mode}, {}, {})

-----------------------------------------------------------------------------
\* The server.
ReadMode(c) ==
  /\ c.what = "get" /\ ~c.served
  /\ fetches' = (fetches \ {c}) \cup {[c EXCEPT !.served = TRUE, !.got = modeRow[c.of][c.mode]]}
  /\ UNCHANGED <<modeRow, screenVars, agentOn, lastCall, doings, sure, byHand>>

\* A mode is written; a goal is refused while a loop is on.  A chat writes plan mode
\* before its run begins.
GoalRefused(c) == c.mode = "goal" /\ c.on /\ modeRow[c.of].loop
Unordered(c) == ~c.old /\ \E d \in Puts(c.of, c.mode) : d.old /\ ~d.served
WriteMode(c) ==
  /\ c.what # "get" /\ ~c.served
  /\ modeRow' = IF GoalRefused(c) THEN modeRow ELSE [modeRow EXCEPT ![c.of][c.mode] = c.on]
  /\ fetches' = (Overtaken(c.of, c.mode) \ {c}) \cup
       {d \in {[c EXCEPT !.served = TRUE, !.got = c.on /\ ~GoalRefused(c)]} : c.what = "put"}
  /\ agentOn' = IF c.what = "send" THEN agentOn \cup {c.of} ELSE agentOn
  /\ sure' = IF c.of = front /\ Unordered(c) THEN sure \ {c.mode} ELSE sure
  /\ UNCHANGED <<screenVars, lastCall, doings, byHand>>

\* The agent enters or leaves plan mode, starts the loop or ends it.
AgentSets(t, mode, on) ==
  /\ t \in agentOn
  /\ mode = "loop" /\ on => ~modeRow[t].goal
  /\ modeRow' = [modeRow EXCEPT ![t][mode] = on]
  /\ lastCall' = IF mode = "plan" THEN [lastCall EXCEPT ![t] = {on}] ELSE lastCall
  /\ fetches' = Overtaken(t, mode)
  /\ sure' = IF t = front THEN sure \ {mode} ELSE sure
  /\ UNCHANGED <<screenVars, agentOn, doings, byHand>>

\* The goal may be met.  The end of the run on the screen makes the browser fetch.
ModesRunEnds(t) ==
  /\ t \in agentOn /\ agentOn' = agentOn \ {t}
  /\ RoomFor(Cardinality(followed))
  /\ \E met \in BOOLEAN :
       /\ met => modeRow[t].goal
       /\ modeRow' = IF met THEN [modeRow EXCEPT ![t].goal = FALSE] ELSE modeRow
       /\ sure' = IF met /\ t = front THEN sure \ {"goal"} ELSE sure
       /\ LET left == IF met THEN Overtaken(t, "goal") ELSE fetches
          IN Sends(left, IF t = front THEN fetchModes(t) ELSE {})
  /\ UNCHANGED <<screenVars, lastCall, doings, byHand>>

-----------------------------------------------------------------------------
\* The browser.  Plan mode is set for a conversation, and on the screen, whichever is there.
UpToDate(c) ==
  /\ c.of = front /\ ~c.stale
  /\ Puts(c.of, c.mode) \subseteq {c} \/ (c.what = "get" /\ c.mode # "loop" /\ c.of \in posting[c.mode])
Trusted(c, changes) ==
  sure' = IF UpToDate(c) THEN sure \cup {c.mode} ELSE IF changes THEN sure \ {c.mode} ELSE sure

applyPlanModeForThread(t, on) ==
  /\ modeCache' = [modeCache EXCEPT ![t].plan = on]
  /\ visited' = visited \cup {t}
  /\ chatSettings' = [chatSettings EXCEPT !.plan = on]
  /\ byHand' = (byHand /\ ~(on /\ ~chatSettings.plan))

OverwritesSwitch(c, on) ==
  applyPlanModeForThread(c.of, on) /\ Trusted(c, on # chatSettings.plan)
applyFetchedPlanMode(c, on) ==
  IF c.of \in posting.plan THEN UNCHANGED <<modeCache, visited, chatSettings, sure, byHand>>
  ELSE applyPlanModeForThread(c.of, on) /\ Trusted(c, on # chatSettings.plan)

writeCached(c) ==
  /\ modeCache' = [modeCache EXCEPT ![c.of][c.mode] = c.got]
  /\ Trusted(c, c.of = front /\ c.got # modeCache[front][c.mode])
ShowsCleared(c) == writeCached(c) /\ UNCHANGED chatSettings
fetchThreadGoal(c) ==
  /\ IF c.of \in posting.goal THEN UNCHANGED <<modeCache, sure>> ELSE writeCached(c)
  /\ UNCHANGED chatSettings
\* A loop that is on is pending no more.
fetchThreadLoop(c) ==
  /\ writeCached(c)
  /\ chatSettings' = [chatSettings EXCEPT !.loop = @ /\ ~c.got]

Fetched(c) ==
  /\ c.what = "get" /\ c.served
  /\ \/ c.mode = "plan" /\ applyFetchedPlanMode(c, c.got)
     \/ c.mode = "goal" /\ fetchThreadGoal(c) /\ UNCHANGED <<visited, byHand>>
     \/ c.mode = "loop" /\ fetchThreadLoop(c) /\ UNCHANGED <<visited, byHand>>
  /\ fetches' = fetches \ {c}
  /\ UNCHANGED <<followed, modeRow, front, posting, heardOf, opening, agentOn, lastCall, doings>>

\* The chat is sent with the plan mode of the screen.
sendMessage(t) == Fetch("send", t, "plan", chatSettings.plan)

\* While plan mode is switched, or a goal cleared, what is fetched does not count.
Shields(c) == c.what = "put" /\ (c.mode = "plan" \/ (c.mode = "goal" /\ ~c.on))

\* A switch is answered.  The message that waited for its goal goes out, set or not.
PutAnswered(c) ==
  /\ c.what = "put" /\ c.served
  /\ posting' = IF Shields(c) THEN [posting EXCEPT ![c.mode] = @ \ {c.of}] ELSE posting
  /\ Sends(fetches \ {c}, IF c.mode = "goal" /\ c.on THEN {sendMessage(c.of)} ELSE {})
  /\ \/ c.mode = "plan" /\ UNCHANGED <<modeCache, chatSettings, sure>>
     \/ c.mode = "goal" /\ c.on /\ ~c.got /\ UNCHANGED <<modeCache, chatSettings, sure>>
     \/ c.mode = "goal" /\ c.on /\ c.got /\ writeCached(c) /\ chatSettings' = [chatSettings EXCEPT !.goal = FALSE]
     \/ (c.mode = "loop" \/ (c.mode = "goal" /\ ~c.on)) /\ writeCached(c) /\ UNCHANGED chatSettings
  /\ UNCHANGED <<followed, modeRow, front, visited, heardOf, opening, agentOn, lastCall, doings, byHand>>

\* A switch or a message fails, before or after it was served; a refused fetch of plan
\* mode says it is off, the others say nothing.
Fails(c) ==
  /\ fetches' = fetches \ {c}
  /\ \/ /\ c.what = "get" /\ c.mode = "plan" /\ ~c.served
        /\ applyFetchedPlanMode([c EXCEPT !.stale = TRUE], FALSE)
        /\ UNCHANGED posting
     \/ /\ c.what # "get"
        /\ posting' = IF Shields(c) THEN [posting EXCEPT ![c.mode] = @ \ {c.of}] ELSE posting
        /\ sure' = IF ~c.served /\ c.of = front THEN sure \ {c.mode} ELSE sure
        /\ UNCHANGED <<modeCache, visited, chatSettings, byHand>>
  /\ UNCHANGED <<followed, modeRow, front, heardOf, opening, agentOn, lastCall, doings>>

\* The messages change: the last result among them counts, once more.
inferPlanModeFromThreadMessages ==
  /\ opening \/ front \in agentOn
  /\ heardOf' \in {[heardOf EXCEPT ![front] = r] : r \in {lastCall[front]} \cup (IF opening THEN {} ELSE {heardOf[front]})}
  /\ opening' = FALSE
  /\ IF heardOf'[front] = {} THEN UNCHANGED <<modeCache, visited, chatSettings, sure, byHand>>
     ELSE \E on \in heardOf'[front] :
            /\ applyPlanModeForThread(front, on)
            /\ sure' = IF on = chatSettings.plan THEN sure ELSE sure \ {"plan"}
  /\ UNCHANGED <<followed, modeRow, front, posting, fetches, agentOn, lastCall, doings>>

\* Another conversation is opened; requests for the one before go on.
OpenConversation(t) ==
  /\ t # front /\ Does /\ RoomFor(Cardinality(followed))
  /\ front' = t /\ opening' = TRUE /\ sure' = {}
  /\ Sends(fetches, fetchModes(t))
  /\ IF t \in visited THEN applyPlanModeForThread(t, modeCache[t].plan)
     ELSE UNCHANGED <<modeCache, visited, chatSettings, byHand>>
  /\ UNCHANGED <<followed, modeRow, posting, heardOf, agentOn, lastCall>>

PollModes(mode) ==
  /\ Does /\ RoomFor(1)
  /\ mode = "plan" => front \in agentOn
  /\ Sends(fetches, {c \in fetchModes(front) : c.mode = mode})
  /\ UNCHANGED <<modeRow, screenVars, agentOn, lastCall, sure, byHand>>

\* A message: a pending goal is set first.
SendFirst ==
  /\ front \notin agentOn /\ Does /\ RoomFor(1)
  /\ \A c \in fetches : c.of = front => c.what # "send" /\ ~(c.mode = "goal" /\ c.on)
  /\ \/ /\ chatSettings.goal
        /\ Sends(fetches, Posted({"goal"}, TRUE)) /\ sure' = sure \ {"goal"}
     \/ /\ ~chatSettings.goal
        /\ Sends(fetches, {sendMessage(front)}) /\ sure' = sure \cup {"plan"}
  /\ UNCHANGED <<modeRow, screenVars, agentOn, lastCall, byHand>>

-----------------------------------------------------------------------------
ModesNext ==
  \/ ComposerPlusMenu \/ ComposerSlashMenu \/ inferPlanModeFromThreadMessages \/ SendFirst
  \/ \E m \in Modes : RemoveChip(m) \/ PollModes(m)
  \/ \E t \in Conversations :
       \/ OpenConversation(t) \/ ModesRunEnds(t)
       \/ \E m \in {"plan", "loop"}, on \in BOOLEAN : AgentSets(t, m, on)
  \/ \E c \in fetches : ReadMode(c) \/ WriteMode(c) \/ Fetched(c) \/ PutAnswered(c) \/ Fails(c)

ModesSpec == ModesInit /\ [][ModesNext]_modeVars

-----------------------------------------------------------------------------
\* What the row will say once all that is under way is served.
Coming(mode) ==
  LET newest == {c \in Puts(front, mode) : ~c.old}
  IN IF newest = {} THEN modeRow[front][mode] ELSE \A c \in newest : c.on
Chip(mode) == IF mode = "plan" THEN chatSettings.plan ELSE modeCache[front][mode]

OneAtMost == \A m, n \in Modes : chatSettings[m] /\ chatSettings[n] => m = n

\* The composer tells the modes of the conversation on the screen.  No two are switched on
\* together; and a chip says what the row says, or will once the switches on their way are
\* served, from when it was switched or fetched until something the code does not guard against:
\* an answer older than the row, or of another conversation, an old tool call among the
\* messages, a failure, requests that overtake each other, or a change by the agent not fetched
\* yet (use-composer-settings.ts:37-90, goal-loop-sync.ts:38-96).
ModesAreTrue ==
  /\ byHand => OneAtMost
  /\ ~(chatSettings.goal /\ chatSettings.loop)
  /\ \A m \in sure : Chip(m) = Coming(m)
=============================================================================
