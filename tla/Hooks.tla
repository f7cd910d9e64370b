------------------------------- MODULE Hooks -------------------------------
(***************************************************************************)
(* The user's hooks: hooks.json and the list of disabled hooks in              *)
(* settings.json (packages/hooks/src/user-hooks-store.ts, loader.ts;             *)
(* apps/server/src/veylin-settings-file.ts), the routes and the page that           *)
(* change them (hooks-service.ts, routes/hooks.ts, hooks-settings-screen.tsx),       *)
(* the bus that runs them (bus.ts, runners/) and a chat run whose prompt and         *)
(* tool call ask them (routes/chat.ts, tool-hooks.ts).                         *)
(*                                                                         *)
(* A hook stands for its identity key.  Requests overlap: every read and every    *)
(* write of a file is a step, and a file is empty from the moment it is opened     *)
(* until it is written.  The server may stop at any time.  One tenant; the hooks   *)
(* of projects, plugins and other programs, matchers, and what a hook adds to a    *)
(* prompt or an input are left out.                                        *)
(***************************************************************************)
EXTENDS Naturals

CONSTANTS HookKeys,
          EventOf,      \* "prompt", "tool" or "after"
          OnceOnly,     \* the hooks to run once
          Background,   \* async or asyncRewake
          HookSlots,    \* bound: requests at a time
          HookSteps     \* bound: requests and stops of the server

VARIABLES
  hookFiles,        \* hooks.json and the disabled hooks of settings.json
  handlers,     \* what the bus has of each hook: "absent", "on", "off"
  onceConsumed,
  asking,       \* the requests under way
  hooksShown,   \* what the page shows of each hook
  hookSteps,
  wanted,       \* what the changes answered so far amount to
  mixed,        \* did a change work on a file others changed, or was it cut off?
  overtaken,    \* did the last reload apply files that had changed since it read them?
  times,        \* in how many prompts or calls each hook that runs once was asked
  together      \* were two of those under way at a time?

hookVars == <<hookFiles, handlers, onceConsumed, asking, hooksShown, hookSteps, wanted,
              mixed, overtaken, times, together>>
ghosts == <<wanted, mixed, times, together>>

Text(keys) == [whole |-> TRUE, keys |-> keys]
Torn == [whole |-> FALSE, keys |-> {}]   \* reads as if nothing were there
NoRequest == [does |-> "nothing", hook |-> {}, to |-> {}, step |-> "free", read |-> {}, off |-> {},
              waiting |-> {}, said |-> {}]

\* loadAllHooks: a hook of the file is off if it is in the list of disabled ones.
loadAllHooks(found, disabled) ==
  [h \in HookKeys |-> IF h \notin found THEN "absent" ELSE IF h \in disabled THEN "off" ELSE "on"]

\* The page shows the hooks there are.
HooksInit ==
  /\ wanted \in SUBSET HookKeys
  /\ hookFiles = [hooks |-> Text(wanted), settings |-> Text({})]
  /\ handlers = loadAllHooks(wanted, {}) /\ hooksShown = handlers
  /\ onceConsumed = {} /\ hookSteps = 0
  /\ asking = [s \in HookSlots |-> NoRequest]
  /\ mixed = FALSE /\ overtaken = FALSE
  /\ times = [h \in OnceOnly |-> 0] /\ together = FALSE

\* Request s goes on with some of its fields changed.
AtStep(s, step) == asking[s].step = step
To(s, r, step) == asking' = [asking EXCEPT ![s] = [r EXCEPT !.step = step]]
GoesTo(s, step) == To(s, asking[s], step)

-----------------------------------------------------------------------------
\* Requests: the page changes what it shows, lists the hooks, a chat run begins.
AskServer(s, request, step) ==
  /\ AtStep(s, "free") /\ hookSteps < HookSteps
  /\ hookSteps' = hookSteps + 1
  /\ To(s, request, step)
  /\ UNCHANGED <<hookFiles, handlers, onceConsumed, hooksShown, overtaken, ghosts>>
ListedHooks == {h \in HookKeys : hooksShown[h] # "absent"}

saveHook(s) ==
  \E g \in HookKeys :
    \/ AskServer(s, [NoRequest EXCEPT !.does = "add", !.to = {g}], "read")
    \/ \E h \in ListedHooks : AskServer(s, [NoRequest EXCEPT !.does = "update", !.hook = {h}, !.to = {g}], "look")

confirmDeleteHook(s) ==
  \E h \in ListedHooks : AskServer(s, [NoRequest EXCEPT !.does = "remove", !.hook = {h}], "read")

toggleHook(s) ==
  \E h \in ListedHooks :
    AskServer(s, [NoRequest EXCEPT !.does = "toggle", !.hook = {h},
                             !.to = IF hooksShown[h] = "on" THEN {h} ELSE {}], "read off")

loadHooks(s) == \E d \in {"list", "run"} : AskServer(s, [NoRequest EXCEPT !.does = d], "load off")

\* readUserHooksConfig.  An update looks for the hook before it removes it, and adds
\* the new one last; a hook that is not there is not found.
readUserHooks(s) ==
  LET r == asking[s]
      found == hookFiles["hooks"].keys
      missing == r.hook # {} /\ r.hook \cap found = {}
      r2 == [r EXCEPT !.read = found] IN
  /\ r.step \in {"look", "read"}
  /\ \/ r.step = "look" /\ IF missing THEN asking' = [asking EXCEPT ![s] = NoRequest]
                                      ELSE To(s, r2, "read")
     \/ r.step = "read" /\ ~missing /\ To(s, r2, "open")
     \/ r.step = "read" /\ missing /\ r.does = "remove"
          /\ asking' = [asking EXCEPT ![s] = NoRequest]
     \/ r.step = "read" /\ missing /\ r.does = "update"
          /\ To(s, [r EXCEPT !.hook = {}], "read")
  /\ UNCHANGED <<hookFiles, handlers, onceConsumed, hooksShown, hookSteps, overtaken, ghosts>>

getDisabledHooks(s) ==
  LET r == asking[s]
      r2 == [r EXCEPT !.off = hookFiles["settings"].keys] IN
  /\ r.step = "read off"
  /\ IF r.does = "remove" /\ r.hook \cap hookFiles["settings"].keys = {}
     THEN To(s, r, "load off") ELSE To(s, r2, "open off")
  /\ UNCHANGED <<hookFiles, handlers, onceConsumed, hooksShown, hookSteps, overtaken, ghosts>>

\* writeFile opens the file, which empties it, and then writes it.  The text of
\* two writers may be mixed up.
Opened(s, f, read, next) ==
  /\ hookFiles' = [hookFiles EXCEPT ![f] = Torn]
  /\ mixed' = (mixed \/ hookFiles[f] # Text(read))
  /\ GoesTo(s, next)
Written(f, keys) ==
  /\ \E text \in {Text(keys)} \cup IF hookFiles[f].whole THEN {Torn} ELSE {} :
       hookFiles' = [hookFiles EXCEPT ![f] = text]
  /\ mixed' = (mixed \/ hookFiles[f].whole)

\* writeUserHooksConfig: an update writes twice, first without the old hook.
writeUserHooks(s) ==
  LET r == asking[s]
      removing == r.hook # {}
      keys == IF removing THEN r.read \ r.hook ELSE r.read \cup r.to
      again == removing /\ r.does = "update" IN
  /\ \/ r.step = "open" /\ Opened(s, "hooks", r.read, "write") /\ UNCHANGED wanted
     \/ /\ r.step = "write"
        /\ Written("hooks", keys)
        /\ wanted' = IF removing THEN wanted \ r.hook ELSE wanted \cup r.to
        /\ IF again THEN To(s, [r EXCEPT !.hook = {}], "read")
           ELSE GoesTo(s, IF r.does = "remove" THEN "read off" ELSE "load off")
  /\ UNCHANGED <<handlers, onceConsumed, hooksShown, hookSteps, overtaken, times, together>>

\* setDisabledHooks: by the switch, or to forget a hook that was removed.
setDisabledHooks(s) ==
  LET r == asking[s] IN
  /\ \/ r.step = "open off" /\ Opened(s, "settings", r.off, "write off")
     \/ /\ r.step = "write off"
        /\ Written("settings", (r.off \ r.hook) \cup r.to)
        /\ GoesTo(s, "load off")
  /\ UNCHANGED <<handlers, onceConsumed, hooksShown, hookSteps, overtaken, wanted, times, together>>

-----------------------------------------------------------------------------
\* reloadHooksForTenant: the settings, the hooks, and then the bus.
ReadSettings(s) ==
  /\ AtStep(s, "load off")
  /\ To(s, [asking[s] EXCEPT !.off = hookFiles["settings"].keys], "load")
  /\ UNCHANGED <<hookFiles, handlers, onceConsumed, hooksShown, hookSteps, overtaken, ghosts>>

ReadHooks(s) ==
  /\ AtStep(s, "load")
  /\ To(s, [asking[s] EXCEPT !.read = hookFiles["hooks"].keys], "apply")
  /\ UNCHANGED <<hookFiles, handlers, onceConsumed, hooksShown, hookSteps, overtaken, ghosts>>

\* A change that was made has the page list the hooks; a run goes on to its prompt.
setHandlers(s) ==
  LET r == asking[s]
      loaded == loadAllHooks(r.read, r.off) IN
  /\ AtStep(s, "apply")
  /\ handlers' = loaded
  /\ overtaken' = (loaded # loadAllHooks(hookFiles["hooks"].keys, hookFiles["settings"].keys))
  /\ CASE r.does = "run" -> To(s, [NoRequest EXCEPT !.does = "run"], "prompt")
       [] r.does = "list" -> GoesTo(s, "answer")
       [] OTHER -> To(s, [NoRequest EXCEPT !.does = "list"], "load off")
  /\ UNCHANGED <<hookFiles, onceConsumed, hooksShown, hookSteps, ghosts>>

ShowHooks(s) ==
  /\ AtStep(s, "answer")
  /\ hooksShown' = loadAllHooks(asking[s].read, asking[s].off)
  /\ asking' = [asking EXCEPT ![s] = NoRequest]
  /\ UNCHANGED <<hookFiles, handlers, onceConsumed, hookSteps, overtaken, ghosts>>

-----------------------------------------------------------------------------
\* HookBus.emit: the hooks of the event that are on; those that run once were not
\* asked before.  Nobody waits for the ones in the background.
Matches(h, event) == EventOf[h] = event
Candidates(event) ==
  {h \in HookKeys : handlers[h] = "on" /\ Matches(h, event) /\ h \notin onceConsumed}

Asked == [prompt |-> "prompt asked", tool |-> "tool asked", after |-> "after asked"]

emit(s) ==
  LET r == asking[s]
      asked == Candidates(r.step) \ Background IN
  /\ r.step \in {"prompt", "tool", "after"}
  /\ asking' = [asking EXCEPT ![s].step = Asked[r.step], ![s].waiting = asked]
  /\ times' = [h \in OnceOnly |-> IF h \in asked THEN times[h] + 1 ELSE times[h]]
  /\ together' = (together \/ \E t \in HookSlots : asking[t].waiting \cap asked \cap OnceOnly # {})
  /\ UNCHANGED <<hookFiles, handlers, onceConsumed, hooksShown, hookSteps, wanted, mixed, overtaken>>

\* What a hook comes to, by its kind; "silent" for one that fails, is stopped for
\* its time or says nothing.  No one gives the bus a way to call MCP tools, and no
\* other kind reports a timeout: the option to deny after one has no effect.
CommandSays == {"allow", "deny", "ask", "silent"}
HttpSays == {"allow", "deny", "ask", "silent"}
PromptSays == {"allow", "deny", "ask", "silent"}
McpToolSays == {"silent"}
Verdicts == CommandSays \cup HttpSays \cup PromptSays \cup McpToolSays

AskBeforeDeny(said) ==   \* a bug: a question hides a denial
  IF "ask" \in said THEN "ask" ELSE IF "deny" \in said THEN "deny" ELSE "allow"

mergeResults(said) ==
  IF "deny" \in said THEN "deny" ELSE IF "ask" \in said THEN "ask" ELSE "allow"

\* A denied prompt ends the run, a denied call is reported instead of made; a
\* question is not asked.  What is said afterwards changes nothing.
AfterVerdict(s, r, event, decision) ==
  CASE event = "prompt" /\ decision = "deny" -> asking' = [asking EXCEPT ![s] = NoRequest]
    [] event = "prompt" /\ decision # "deny" -> To(s, [r EXCEPT !.said = {}], "tool")
    [] event = "tool" /\ decision = "deny" -> To(s, [r EXCEPT !.said = {}], "after")
    [] event = "tool" /\ decision # "deny" -> To(s, r, "call")
    [] event = "after" -> asking' = [asking EXCEPT ![s] = NoRequest]

HookAnswered(s) ==
  LET r == asking[s] IN
  \E event \in {"prompt", "tool", "after"} :
    /\ r.step = Asked[event]
    /\ onceConsumed' = onceConsumed \cup (r.waiting \cap OnceOnly)
    /\ \E verdict \in [r.waiting -> Verdicts] :
         LET said == {verdict[h] : h \in r.waiting} IN
         AfterVerdict(s, [r EXCEPT !.waiting = {}, !.said = said], event, mergeResults(said))
    /\ UNCHANGED <<hookFiles, handlers, hooksShown, hookSteps, overtaken, ghosts>>

\* The tool runs and ends, well or not: either way hooks are told.
ToolEnds(s) ==
  /\ AtStep(s, "call")
  /\ To(s, [asking[s] EXCEPT !.said = {}], "after")
  /\ UNCHANGED <<hookFiles, handlers, onceConsumed, hooksShown, hookSteps, overtaken, ghosts>>

-----------------------------------------------------------------------------
\* The buses and the requests are gone, the files stay as they are.
HookServerStops ==
  /\ hookSteps < HookSteps
  /\ hookSteps' = hookSteps + 1
  /\ asking' = [s \in HookSlots |-> NoRequest]
  /\ handlers' = loadAllHooks({}, {}) /\ onceConsumed' = {}
  /\ overtaken' = TRUE
  /\ mixed' = (mixed \/ (\E s \in HookSlots : asking[s].does = "update" /\ asking[s].hook = {})
                      \/ \E f \in {"hooks", "settings"} : ~hookFiles[f].whole)
  /\ times' = [h \in OnceOnly |-> 0]
  /\ UNCHANGED <<hookFiles, hooksShown, wanted, together>>

HooksNext ==
  \/ \E s \in HookSlots :
       \/ saveHook(s) \/ confirmDeleteHook(s) \/ toggleHook(s) \/ loadHooks(s)
       \/ readUserHooks(s) \/ getDisabledHooks(s)
       \/ writeUserHooks(s) \/ setDisabledHooks(s)
       \/ ReadSettings(s) \/ ReadHooks(s) \/ setHandlers(s) \/ ShowHooks(s)
       \/ emit(s) \/ HookAnswered(s) \/ ToolEnds(s)
  \/ HookServerStops
HooksSpec == HooksInit /\ [][HooksNext]_hookVars

-----------------------------------------------------------------------------
\* While no request is under way the bus has the hooks of the files and the file
\* has what the user asked for, unless a reload was overtaken and unless a change
\* met another one or was cut off.  A tool runs only if none of the hooks it waited
\* for denied it, and a hook that runs once is asked once as long as two prompts or
\* calls do not ask it at the same time.
HooksAreObeyed ==
  /\ (\A s \in HookSlots : AtStep(s, "free")) =>
       /\ ~overtaken => handlers = loadAllHooks(hookFiles["hooks"].keys, hookFiles["settings"].keys)
       /\ ~mixed => hookFiles["hooks"] = Text(wanted)
  /\ \A s \in HookSlots : AtStep(s, "call") => "deny" \notin asking[s].said
  /\ ~together => \A h \in OnceOnly : times[h] <= 1
=============================================================================
