---- MODULE EventTriggers ----
(***************************************************************************)
(* Webhooks, and the automations and workflows their deliveries start      *)
(* (server/src/routes/webhooks.ts, webhook-store.ts, webhook-filter.ts,    *)
(* event-trigger-matcher.ts, automation-store.ts), and the settings screen *)
(* that makes, edits and deletes them (automations-settings-screen.tsx).   *)
(* A delivery is served between reads of the database, any of which may    *)
(* fail, while the screen changes what it reads; its sender may send it    *)
(* again, also while it is being served, until it hears an "ok", and the   *)
(* answer may be lost.  The server does not know one delivery from another. *)
(* A dispatch puts a job in the memory of the server and cannot fail; the  *)
(* run it becomes is ScheduledRuns'.                                       *)
(* A secret is the number of the webhook it was made for; a filter is a    *)
(* conjunction of alternatives, as "&&" is split before "||", and what an  *)
(* atom says of a payload is the payload's.  Left out: names, headers, the *)
(* preset's other fields, secrets the user brings, run now, cron rows.     *)
(***************************************************************************)
EXTENDS Naturals, Sequences, FiniteSets, Functions, FiniteSetsExt

CONSTANTS Triggers,      \* event automations
          Flows,         \* event workflows
          HookSources, GithubHook,  \* slugs of webhooks, and the preset's
          EventKeys,
          Exprs,         \* what eventKeyExpr of a webhook may be
          Payloads,      \* the events: key, keyBy, says and thread
          SamplePayload, \* what validateWebhookFilter tries a filter with
          Filters, Flawless, \* filters, and the one of a new form
          FlowThread,    \* the thread of each workflow, or NoFlowThread
          NoFlowThread,
          Dropped,       \* a row that is not there
          Sends,         \* bound: deliveries, retries included
          ScreenActs,    \* bound: what users ask the server to do
          LostAnswers    \* bound: answers that never arrive

ASSUME EventTriggersAssumption ==
  /\ Triggers \cap Flows = {} /\ GithubHook \in HookSources /\ Flawless \in Filters
  /\ FlowThread \in [Flows -> {FlowThread[f] : f \in Flows}]
  /\ Sends \in Nat /\ ScreenActs \in Nat /\ LostAnswers \in Nat

VARIABLES
  watched,       \* what this behaviour follows: "deliveries" or the "screen"
  triggerRows,   \* the rows of automations and workflows
  hookRows,      \* the rows of webhooks: id, source, expr, enabled
  hookCount,     \* ids given to webhooks
  deliveries,    \* the deliveries so far
  screenRequests,         \* requests of the screen (or of another client) on their way
  shownRows, shownHooks,    \* the lists on the screen
  screenLoads, loadCount,   \* load()s on their way, and load()s begun
  loadingScreen, screenFailed,
  editingRow,       \* what the form of an automation is for: a row, "new", or Dropped
  pendingButtons,\* the busy flags that are set
  secretsShown,  \* secrets the dialog showed
  overtakenLoad, \* an older load was applied after a newer one
  lostSecrets,   \* webhooks whose creation was answered to nobody
  unaware,       \* a change was made and its answer lost: the first load after it, or 0
  answersLost, screenActs

eventVars == <<watched, triggerRows, hookRows, hookCount, deliveries, screenRequests, shownRows, shownHooks,
               screenLoads, loadCount, loadingScreen, screenFailed, editingRow, pendingButtons,
               secretsShown, overtakenLoad, lostSecrets, unaware, answersLost, screenActs>>
hookVars == <<hookRows, hookCount>>
viewVars == <<shownRows, shownHooks, screenLoads, loadCount, loadingScreen, screenFailed, editingRow,
              pendingButtons, secretsShown, overtakenLoad>>
faultVars == <<lostSecrets, unaware, answersLost>>

Starters == Triggers \cup Flows
Forms == [enabled : BOOLEAN, source : HookSources, on : SUBSET EventKeys, filter : Filters]

-----------------------------------------------------------------------------
(* Filters and keys.                                                       *)

(* What a sequence of verdicts comes to when its reading ends at the first *)
(* that is not `on`.                                                       *)
FirstOther(verdicts, on) ==
  LET others == {i \in DOMAIN verdicts : verdicts[i] # on}
  IN IF others = {} THEN on ELSE verdicts[Min(others)]

(* every() over the conjuncts, some() over the alternatives of each: what  *)
(* is not reached is not evaluated, so it cannot throw.                    *)
evaluateWebhookFilter(filter, says) ==
  FirstOther([i \in DOMAIN filter |->
                FirstOther([j \in DOMAIN filter[i] |-> says[filter[i][j]]], "no")], "yes")

(* A filter is saved when it does not throw for the sample payload.        *)
validateWebhookFilter(filter) == evaluateWebhookFilter(filter, SamplePayload.says) # "throws"

(* A key that is not in the payload is "unknown"; a bad expression throws. *)
extractEventKey(expr, event) == event.keyBy[expr]
resolveEventKey(hook, event) ==
  IF hook.source = GithubHook THEN event.key ELSE extractEventKey(hook.expr, event)

getWebhookConfig(source) == {h \in hookRows : h.source = source /\ h.enabled}
verifyWebhookSignature(signed, hook) == signed = hook.id

(* What the trigger of row r says of a delivery: "yes", "no" or "throws".  *)
matchesEventTrigger(r, source, key, event) ==
  IF r.source # source \/ key \notin r.on THEN "no" ELSE evaluateWebhookFilter(r.filter, event.says)

(* A workflow is for the events of its own thread.                         *)
MayBeMeant(f, event) ==
  /\ FlowThread[f] # NoFlowThread
  /\ event.thread \in {NoFlowThread, FlowThread[f]}

ListedToo(ids, source) ==    \* a bug
  {i \in ids : triggerRows[i] # Dropped /\ triggerRows[i].source = source}

(* listEventAutomations, listEventWorkflows.                               *)
Listed(ids, source) ==
  {i \in ids : triggerRows[i] # Dropped /\ triggerRows[i].enabled /\ triggerRows[i].source = source}

VerdictsOf(ids, rows, d) ==
  [i \in {i \in ids : rows[i] # Dropped /\ rows[i].enabled /\ (i \in Flows => MayBeMeant(i, d.event))}
     |-> matchesEventTrigger(rows[i], d.source, d.eventKey, d.event)]

Saying(verdicts, v) == {i \in DOMAIN verdicts : verdicts[i] = v}

-----------------------------------------------------------------------------
(* POST /api/events/:tenantId/:source.                                     *)

Underway(d) == d.at \in {"config", "automations", "dispatching", "workflows", "dispatching workflows"}
Answered(d) == d.at \in {"unknown source", "bad signature", "failed", "ok"}

(* What the sender has heard of a delivery, whose answer may be lost.      *)
SenderTold(event) == \E i \in DOMAIN deliveries : /\ deliveries[i].event = event
                                                 /\ deliveries[i].told /\ deliveries[i].at = "ok"

(* A first delivery, or one more of an event the sender has heard no "ok"  *)
(* for: `unheard` are those it sent before and had no answer to.           *)
Deliver(event, source, signed) ==
  /\ watched = "deliveries" /\ Len(deliveries) < Sends
  /\ ~SenderTold(event)
  /\ deliveries' = Append(deliveries,
       [event |-> event, source |-> source, signed |-> signed, at |-> "config", eventKey |-> Dropped,
        told |-> FALSE, unheard |-> {i \in DOMAIN deliveries : ~deliveries[i].told},
        todo |-> {}, started |-> {}, ever |-> {}, always |-> {}])
  /\ UNCHANGED <<watched, triggerRows, hookVars, screenRequests, viewVars, faultVars, screenActs>>

(* The answer reaches the sender.                                          *)
SenderHears(i) ==
  /\ Answered(deliveries[i]) /\ deliveries' = [deliveries EXCEPT ![i].told = TRUE]
  /\ UNCHANGED <<watched, triggerRows, hookVars, screenRequests, viewVars, faultVars, screenActs>>

StepTo(d, at, todo, started) == [d EXCEPT !.at = at, !.todo = todo, !.started = started]

(* getWebhookConfig, the signature and the key: 404, 401 or 500.           *)
ReadConfig(i) ==
  LET d == deliveries[i]
      found == getWebhookConfig(d.source)
  IN /\ d.at = "config"
     /\ \E h \in found \cup {Dropped} :
          /\ h = Dropped => found = {}
          /\ deliveries' = [deliveries EXCEPT ![i] =
               IF h = Dropped THEN StepTo(d, "unknown source", {}, {})
               ELSE IF ~verifyWebhookSignature(d.signed, h) THEN StepTo(d, "bad signature", {}, {})
               ELSE LET key == resolveEventKey(h, d.event)
                        read == [d EXCEPT !.eventKey = key]
                        meant == Saying(VerdictsOf(Starters, triggerRows, read), "yes")
                    IN IF key = "throws" THEN StepTo(d, "failed", {}, {})
                       ELSE [read EXCEPT !.at = "automations", !.ever = meant, !.always = meant]]
     /\ UNCHANGED <<watched, triggerRows, hookVars, screenRequests, viewVars, faultVars, screenActs>>

(* The list is read once, and every row of it is matched before the first  *)
(* is dispatched: a filter that throws ends the request.                   *)
MatchAll(ids, d) ==
  LET listed == {s \in Listed(ids, d.source) : s \in Flows => MayBeMeant(s, d.event)}
      verdicts == [s \in listed |-> matchesEventTrigger(triggerRows[s], d.source, d.eventKey, d.event)]
  IN [todo |-> Saying(verdicts, "yes"), throws |-> Saying(verdicts, "throws") # {}]

ListAndMatch(i) ==
  LET d == deliveries[i]
      first == d.at = "automations"
      match == MatchAll(IF first THEN Triggers ELSE Flows, d)
  IN /\ d.at \in {"automations", "workflows"}
     /\ deliveries' = [deliveries EXCEPT ![i] =
          IF match.throws THEN StepTo(d, "failed", {}, d.started)
          ELSE StepTo(d, IF first THEN "dispatching" ELSE "dispatching workflows", match.todo, d.started)]
     /\ UNCHANGED <<watched, triggerRows, hookVars, screenRequests, viewVars, faultVars, screenActs>>

(* A read of the database throws.                                          *)
ReadFails(i) ==
  LET d == deliveries[i]
  IN /\ d.at \in {"config", "automations", "workflows"}
     /\ deliveries' = [deliveries EXCEPT ![i] = StepTo(d, "failed", {}, d.started)]
     /\ UNCHANGED <<watched, triggerRows, hookVars, screenRequests, viewVars, faultVars, screenActs>>

(* dispatchAutomation, dispatchWorkflow: one is awaited after the other.   *)
Dispatch(i) ==
  LET d == deliveries[i]
  IN /\ d.at \in {"dispatching", "dispatching workflows"}
     /\ \/ \E s \in d.todo : deliveries' =
             [deliveries EXCEPT ![i] = StepTo(d, d.at, d.todo \ {s}, d.started \cup {s})]
        \/ d.todo = {} /\ deliveries' = [deliveries EXCEPT ![i].at =
             IF d.at = "dispatching" THEN "workflows" ELSE "ok"]
     /\ UNCHANGED <<watched, triggerRows, hookVars, screenRequests, viewVars, faultVars, screenActs>>

-----------------------------------------------------------------------------
(* What the routes of the screen do to the rows.                           *)

(* The rows change under the deliveries being served.                      *)
SetRows(rows) ==
  /\ triggerRows' = rows
  /\ deliveries' = [i \in DOMAIN deliveries |->
       LET d == deliveries[i]
           meant == Saying(VerdictsOf(Starters, rows, d), "yes")
       IN IF Underway(d) /\ d.at # "config"
          THEN [d EXCEPT !.ever = @ \cup meant, !.always = @ \cap meant] ELSE d]

(* The answer to another client is of no interest.                         *)
Respond(r, verdict, secret) ==
  screenRequests' = (screenRequests \ {r}) \cup
    (IF watched = "deliveries" /\ verdict # "inserting" THEN {}
     ELSE {[r EXCEPT !.at = verdict, !.secret = secret]})

(* createAutomation, updateAutomation: a filter that throws for the sample *)
(* is refused; a row that is gone is 404.  A workflow is updated as well,  *)
(* by the tools of the agent and by its panel: nothing tries its filter.   *)
ServeRow(r) ==
  /\ r \in screenRequests /\ r.at = "sent" /\ r.kind \in {"create", "update", "toggle", "delete"}
  /\ \/ /\ r.kind = "create"
        /\ IF r.of = Dropped \/ ~validateWebhookFilter(r.form.filter)
           THEN Respond(r, "refused", 0) /\ UNCHANGED <<triggerRows, deliveries>>
           ELSE Respond(r, "done", 0) /\ SetRows([triggerRows EXCEPT ![r.of] = r.form])
     \/ /\ r.kind = "update"
        /\ IF triggerRows[r.of] = Dropped \/ (r.of \in Triggers /\ ~validateWebhookFilter(r.form.filter))
           THEN Respond(r, "refused", 0) /\ UNCHANGED <<triggerRows, deliveries>>
           ELSE Respond(r, "done", 0)
                /\ SetRows([triggerRows EXCEPT ![r.of] = [r.form EXCEPT !.enabled = triggerRows[r.of].enabled]])
     \/ /\ r.kind = "toggle"
        /\ IF triggerRows[r.of] = Dropped
           THEN Respond(r, "refused", 0) /\ UNCHANGED <<triggerRows, deliveries>>
           ELSE Respond(r, "done", 0)
                /\ SetRows([triggerRows EXCEPT ![r.of].enabled = r.form.enabled])
     \/ /\ r.kind = "delete"
        /\ IF triggerRows[r.of] = Dropped
           THEN Respond(r, "refused", 0) /\ UNCHANGED <<triggerRows, deliveries>>
           ELSE Respond(r, "done", 0) /\ SetRows([triggerRows EXCEPT ![r.of] = Dropped])
  /\ UNCHANGED <<watched, hookVars, viewVars, faultVars, screenActs>>

InsertAnyWebhook(r) ==    \* a bug
  /\ hookCount' = hookCount + 1
  /\ hookRows' = hookRows \cup {[id |-> hookCount + 1, source |-> r.of, expr |-> r.form, enabled |-> TRUE]}
  /\ Respond(r, "done", IF r.kind = "github" THEN 0 ELSE hookCount + 1)

(* The index of tenant and source lets one row in.                         *)
InsertWebhook(r) ==
  IF \E h \in hookRows : h.source = r.of
  THEN Respond(r, "refused", 0) /\ UNCHANGED hookVars
  ELSE /\ hookCount' = hookCount + 1
       /\ hookRows' = hookRows \cup {[id |-> hookCount + 1, source |-> r.of, expr |-> r.form, enabled |-> TRUE]}
       /\ Respond(r, "done", hookCount + 1)

(* createGithubWebhookEndpoint reads first: the row that is there is the   *)
(* answer, without its secret.                                             *)
LookForGithub(r) ==
  /\ r \in screenRequests /\ r.at = "sent" /\ r.kind = "github"
  /\ IF \E h \in hookRows : h.source = GithubHook
     THEN Respond(r, "done", 0) ELSE Respond(r, "inserting", 0)
  /\ UNCHANGED <<watched, triggerRows, hookVars, deliveries, viewVars, faultVars, screenActs>>

(* updateWebhookEndpoint: what the request leaves out stays.               *)
Edited(h, r) == IF r.kind = "edit hook" THEN [h EXCEPT !.expr = r.form] ELSE [h EXCEPT !.enabled = r.form]

ServeHook(r) ==
  /\ r \in screenRequests
  /\ \/ r.at = "sent" /\ r.kind = "custom" /\ InsertWebhook(r)
     \/ r.at = "inserting" /\ InsertWebhook(r)
     \/ /\ r.at = "sent" /\ r.kind \in {"edit hook", "switch hook", "delete hook"}
        /\ LET old == {h \in hookRows : h.id = r.of}
           IN IF old = {} THEN Respond(r, "refused", 0) /\ UNCHANGED hookVars
              ELSE /\ hookRows' = (hookRows \ old) \cup
                        {Edited(h, r) : h \in {h \in old : r.kind # "delete hook"}}
                   /\ Respond(r, "done", 0) /\ UNCHANGED hookCount
  /\ UNCHANGED <<watched, triggerRows, deliveries, viewVars, faultVars, screenActs>>

(* The database refuses what a route asks of it: nothing has changed.  One *)
(* that changed a row and cannot read it back is an answer lost.           *)
RouteFails(r) ==
  /\ watched = "screen"
  /\ r \in screenRequests /\ r.at \in {"sent", "inserting"} /\ Respond(r, "refused", 0)
  /\ UNCHANGED <<watched, triggerRows, hookVars, deliveries, viewVars, faultVars, screenActs>>

-----------------------------------------------------------------------------
(* The screen.                                                             *)

Watching == watched = "screen" /\ ~loadingScreen /\ ~screenFailed
Ask(kind, of, form) ==
  /\ screenActs < ScreenActs /\ screenActs' = screenActs + 1
  /\ screenRequests' = screenRequests \cup {[n |-> screenActs + 1, kind |-> kind, of |-> of, form |-> form,
                           at |-> "sent", secret |-> 0]}

(* Another client, one request at a time, while deliveries are followed.   *)
AskElsewhere ==
  /\ watched = "deliveries" /\ screenRequests = {}
  /\ \/ \E t \in {t \in Starters : triggerRows[t] # Dropped} :
          \/ Ask("toggle", t, [triggerRows[t] EXCEPT !.enabled = ~triggerRows[t].enabled])
          \/ \E f \in Filters \ {triggerRows[t].filter} :
               Ask("update", t, [triggerRows[t] EXCEPT !.filter = f])
     \/ \E t \in Triggers : Ask("delete", t, Dropped)
     \/ Ask("github", GithubHook, CHOOSE x \in Exprs : TRUE)
     \/ \E h \in hookRows : \/ \E x \in Exprs \ {h.expr} : Ask("edit hook", h.id, x)
                            \/ Ask("switch hook", h.id, ~h.enabled)
                            \/ Ask("delete hook", h.id, h.expr)
  /\ UNCHANGED <<watched, triggerRows, hookVars, deliveries, viewVars, faultVars>>

Toggled(t) == ~shownRows[t].enabled

(* The buttons of a card and the form of an automation: save() and the     *)
(* toggle have no busy flag, so a second click sends again.                *)
ClickCard ==
  /\ Watching
  /\ \/ /\ editingRow' \in {t \in Triggers : shownRows[t] # Dropped} \cup {"new", Dropped}
        /\ editingRow' # editingRow /\ UNCHANGED <<screenRequests, pendingButtons, screenActs>>
     \/ \E t \in Triggers : shownRows[t] # Dropped
          /\ Ask("toggle", t, [shownRows[t] EXCEPT !.enabled = Toggled(t)])
          /\ UNCHANGED <<editingRow, pendingButtons>>
     \/ \E t \in Triggers : shownRows[t] # Dropped /\ "delete" \notin pendingButtons
          /\ Ask("delete", t, Dropped)
          /\ pendingButtons' = pendingButtons \cup {"delete"} /\ UNCHANGED editingRow
     \/ /\ editingRow \in {t \in Triggers : shownRows[t] # Dropped}
        /\ \E f \in Filters : Ask("update", editingRow, [shownRows[editingRow] EXCEPT !.filter = f])
        /\ UNCHANGED <<editingRow, pendingButtons>>
     \/ /\ editingRow = "new"
        /\ LET free == {t \in Triggers : triggerRows[t] = Dropped /\ \A r \in screenRequests : r.of # t}
           IN \E t \in free : Ask("create", t, [enabled |-> TRUE, source |-> GithubHook,
                                                on |-> EventKeys, filter |-> Flawless])
        /\ UNCHANGED <<editingRow, pendingButtons>>
  /\ UNCHANGED <<watched, triggerRows, hookVars, deliveries, faultVars, shownRows, shownHooks,
                 screenLoads, loadCount, loadingScreen, screenFailed, secretsShown, overtakenLoad>>

(* The dialogs of webhooks are busy until their answer.                    *)
ClickHook ==
  /\ Watching
  /\ \E kind \in {"github", "custom", "edit hook", "delete hook"} \ pendingButtons :
       /\ CASE kind = "github" -> Ask(kind, GithubHook, CHOOSE x \in Exprs : TRUE)
            [] kind = "custom" -> \E s \in HookSources \ {GithubHook} : \E x \in Exprs : Ask(kind, s, x)
            [] kind = "edit hook" -> \E h \in shownHooks : \E x \in Exprs \ {h.expr} : Ask(kind, h.id, x)
            [] kind = "delete hook" -> \E h \in shownHooks : Ask(kind, h.id, h.expr)
       /\ pendingButtons' = pendingButtons \cup {kind}
  /\ UNCHANGED <<watched, triggerRows, hookVars, deliveries, faultVars, shownRows, shownHooks,
                 screenLoads, loadCount, loadingScreen, screenFailed, editingRow, secretsShown, overtakenLoad>>

NewLoad == [n |-> loadCount + 1, rows |-> Dropped, hooks |-> Dropped]
LoadLists ==
  /\ loadCount' = loadCount + 1 /\ screenLoads' = screenLoads \cup {NewLoad}
  /\ loadingScreen' = TRUE /\ screenFailed' = FALSE

(* The answer: a save closes its form, a webhook made shows its secret,    *)
(* and the lists are read again; a refusal changes nothing on the screen.  *)
AnswerArrives(r) ==
  /\ watched = "screen" /\ r \in screenRequests /\ r.at \in {"done", "refused"}
  /\ screenRequests' = screenRequests \ {r} /\ pendingButtons' = pendingButtons \ {r.kind}
  /\ IF r.at = "done"
     THEN /\ LoadLists
          /\ editingRow' = IF r.kind \in {"create", "update"} THEN Dropped ELSE editingRow
          /\ secretsShown' = secretsShown \cup ({r.secret} \ {0})
     ELSE UNCHANGED <<loadCount, screenLoads, loadingScreen, screenFailed, editingRow, secretsShown>>
  /\ UNCHANGED <<watched, triggerRows, hookVars, deliveries, faultVars, shownRows, shownHooks,
                 overtakenLoad, screenActs>>

(* The answer is lost, though the server may have done what was asked.     *)
AnswerLost(r) ==
  /\ watched = "screen" /\ r \in screenRequests /\ r.at \in {"done", "refused"}
  /\ answersLost < LostAnswers /\ answersLost' = answersLost + 1
  /\ screenRequests' = screenRequests \ {r} /\ pendingButtons' = pendingButtons \ {r.kind}
  /\ unaware' = IF r.at = "done" THEN loadCount + 1 ELSE unaware
  /\ lostSecrets' = lostSecrets \cup ({r.secret} \ {0})
  /\ UNCHANGED <<watched, triggerRows, hookVars, deliveries, shownRows, shownHooks, screenLoads, loadCount,
                 loadingScreen, screenFailed, editingRow, secretsShown, overtakenLoad, screenActs>>

(* The two lists are asked for together and read one by one.               *)
ServeLoad(l) ==
  /\ l \in screenLoads
  /\ \/ l.rows = Dropped /\ screenLoads' = (screenLoads \ {l}) \cup {[l EXCEPT !.rows = triggerRows]}
     \/ l.hooks = Dropped /\ screenLoads' = (screenLoads \ {l}) \cup {[l EXCEPT !.hooks = hookRows]}
  /\ UNCHANGED <<watched, triggerRows, hookVars, deliveries, faultVars, shownRows, shownHooks, screenRequests,
                 loadCount, loadingScreen, screenFailed, editingRow, pendingButtons, secretsShown,
                 overtakenLoad, screenActs>>

(* A load has no generation: whichever arrives is shown, and ends the      *)
(* loading of all.                                                         *)
LoadArrives(l) ==
  /\ l \in screenLoads /\ l.rows # Dropped /\ l.hooks # Dropped
  /\ shownRows' = l.rows /\ shownHooks' = l.hooks
  /\ overtakenLoad' = \E k \in (l.n + 1) .. loadCount : \A o \in screenLoads : o.n # k
  /\ unaware' = IF l.n >= unaware THEN 0 ELSE unaware
  /\ screenLoads' = screenLoads \ {l} /\ loadingScreen' = FALSE
  /\ UNCHANGED <<watched, triggerRows, hookVars, deliveries, lostSecrets, answersLost, screenRequests, loadCount,
                 screenFailed, editingRow, pendingButtons, secretsShown, screenActs>>

LoadFails(l) ==
  /\ l \in screenLoads /\ answersLost < LostAnswers /\ answersLost' = answersLost + 1
  /\ screenLoads' = screenLoads \ {l} /\ loadingScreen' = FALSE /\ screenFailed' = TRUE
  /\ UNCHANGED <<watched, triggerRows, hookVars, deliveries, screenRequests, shownRows, shownHooks, loadCount,
                 editingRow, pendingButtons, secretsShown, overtakenLoad, lostSecrets, unaware, screenActs>>

RetryLoad ==
  /\ watched = "screen" /\ screenFailed /\ ~loadingScreen /\ LoadLists
  /\ UNCHANGED <<watched, triggerRows, hookVars, deliveries, faultVars, screenRequests, shownRows, shownHooks,
                 editingRow, pendingButtons, secretsShown, overtakenLoad, screenActs>>

-----------------------------------------------------------------------------
EventInit ==
  /\ watched \in {"deliveries", "screen"}
  /\ triggerRows \in [Starters -> Forms \cup {Dropped}]
  /\ \A f \in Flows : triggerRows[f] # Dropped
  /\ \A t \in Triggers : triggerRows[t] # Dropped => validateWebhookFilter(triggerRows[t].filter)
  /\ \E s \in HookSources : hookRows = {[id |-> 1, source |-> s, expr |-> CHOOSE x \in Exprs : TRUE, enabled |-> TRUE]}
  /\ hookCount = 1
  /\ deliveries = <<>> /\ screenRequests = {}
  /\ shownRows = triggerRows /\ shownHooks = hookRows
  /\ screenLoads = {} /\ loadCount = 0 /\ loadingScreen = FALSE /\ screenFailed = FALSE
  /\ editingRow = Dropped /\ pendingButtons = {} /\ secretsShown = {1} /\ overtakenLoad = FALSE
  /\ lostSecrets = {} /\ unaware = 0 /\ answersLost = 0 /\ screenActs = 0

ServeAny == \E r \in screenRequests : ServeRow(r) \/ LookForGithub(r) \/ ServeHook(r) \/ RouteFails(r)
KnownUrls == {h.source : h \in hookRows} \cup {deliveries[i].source : i \in DOMAIN deliveries}
DeliverAny == \E e \in Payloads, s \in KnownUrls, k \in 1 .. hookCount : Deliver(e, s, k)
HandleAny == \E i \in DOMAIN deliveries :
               ReadConfig(i) \/ ListAndMatch(i) \/ ReadFails(i) \/ Dispatch(i) \/ SenderHears(i)
AnswerAny == \E r \in screenRequests : AnswerArrives(r) \/ AnswerLost(r)
LoadAny == \E l \in screenLoads : ServeLoad(l) \/ LoadArrives(l) \/ LoadFails(l)

EventNext == DeliverAny \/ HandleAny \/ ServeAny \/ AskElsewhere \/ ClickCard \/ ClickHook
             \/ AnswerAny \/ LoadAny \/ RetryLoad

EventSpec == EventInit /\ [][EventNext]_eventVars

-----------------------------------------------------------------------------
(* Of a delivery: what matched from its receipt to its answer was started  *)
(* when it was answered "ok", and nothing was that did not match at some   *)
(* time meanwhile.                                                         *)
StartsWhatMatched ==
  \A i \in DOMAIN deliveries :
    LET d == deliveries[i]
    IN /\ d.started \subseteq d.ever
       /\ d.at = "ok" => d.always \subseteq d.started

(* A delivery sent after the answers to the earlier ones of its event were *)
(* heard starts nothing a second time but automations, and only where the  *)
(* earlier one failed between the automations and the workflows, because   *)
(* the workflows could not be read or the filter of one threw.  After an   *)
(* answer that was lost or is late anything may be started a second time.  *)
RepeatsOnlyAutomations ==
  \A i, j \in DOMAIN deliveries :
    LET again == deliveries[i].started \cap deliveries[j].started
    IN (i < j /\ deliveries[i].event = deliveries[j].event /\ i \notin deliveries[j].unheard /\ again # {}) =>
         deliveries[i].at = "failed" /\ again \subseteq Triggers

(* A filter is tried before it is saved, but an automation whose filter    *)
(* throws for this payload only still stops the delivery: then nothing was *)
(* started.  A delivery that fails has started no workflow.                *)
FailsBeforeStarting ==
  \A i \in DOMAIN deliveries : deliveries[i].at = "failed" => deliveries[i].started \subseteq Triggers

(* The secret of every webhook was shown once, or the answer that carried  *)
(* it is on its way or was lost; one webhook per source.                   *)
SecretsWereShown ==
  watched = "screen" =>
    /\ \A h \in hookRows : h.id \in secretsShown \cup lostSecrets \cup {r.secret : r \in screenRequests}
    /\ \A g, h \in hookRows : g.source = h.source => g = h

(* Once nothing is on its way the screen shows the rows, unless a change   *)
(* was made whose answer was lost or an older list arrived after a newer.  *)
ScreenShowsRows ==
  (watched = "screen" /\ screenRequests = {} /\ screenLoads = {} /\ ~screenFailed /\ unaware = 0 /\ ~overtakenLoad) =>
    shownRows = triggerRows /\ shownHooks = hookRows

(* Deliveries start what they should, and what the sender was told of only *)
(* once, whatever the screen changes meanwhile and whatever fails; and the *)
(* screen shows what deliveries will meet.                                 *)
EventsAreAnswered ==
  /\ StartsWhatMatched /\ RepeatsOnlyAutomations /\ FailsBeforeStarting
  /\ SecretsWereShown /\ ScreenShowsRows
====
