------------------------- MODULE ProviderSettings -------------------------
(***************************************************************************)
(* The settings of a tenant, one row of the database with a field for the  *)
(* model provider, for Langfuse, for the business source and for the audit *)
(* webhook (packages/db/src/repos.ts, apps/server/src: model-settings-     *)
(* store.ts, langfuse-settings-store.ts, ports/business-source/            *)
(* mcp-adapter.ts, ports/audit/local.ts); what of it is in use in the      *)
(* process, for all tenants (packages/shared/src/model-resolve.ts,         *)
(* packages/runtime/src/storage.ts); and the model picker and the screen   *)
(* of models of the browser, with their own list in localStorage           *)
(* (model-settings.ts, use-model-provider.ts).  A behaviour is about the   *)
(* server or about the browser.                                            *)
(*                                                                         *)
(* Every setting is a name (of the model, the server, the webhook; with it *)
(* goes the address), a secret and a switch.  Left out: the other fields   *)
(* of the row, which settings.json took over (UserFiles), the allowlist of *)
(* tools, the rebuild of the MCP clients (ToolServers), context windows.   *)
(***************************************************************************)
EXTENDS Naturals, Sequences

CONSTANTS
  Customers, Home,         \* the tenants, and the one the server starts with
  SettingCalls,            \* requests at a time, and in all, of the server and of the browser:
  MaxAsked, MaxClicks,
  ModelNames, SlugOf,      \* names of models, and the id the browser makes of each
  CatalogModels,           \* what models.local.json may list, in its order
  CatalogDefault,          \* its default
  Offers,                  \* what the screens save: a field, a setting, or a clear
  EnvModel, EnvTracing     \* the settings of the environment

Setting(name, secret, on) == [name |-> name, secret |-> secret, on |-> on]
Empty == Setting("blank", "blank", FALSE)
Unset == Setting("unset", "blank", FALSE)
SettingFields == {"model", "tracing", "source", "audit"}
IsSetting(s) == s = Setting(s.name, s.secret, s.on)

ASSUME HomeAssumption ==
  /\ Home \in Customers
  /\ IsSetting(EnvModel) /\ IsSetting(EnvTracing)
  /\ ModelNames \cap {"blank", "unset"} = {}
  /\ CatalogModels \in Seq({CatalogModels[i] : i \in DOMAIN CatalogModels})
ASSUME OffersAssumption ==
  \A o \in Offers :
    /\ o.field \in SettingFields /\ o.clears \in BOOLEAN
    /\ IsSetting(o.patch) /\ o.patch.name # "unset"

VARIABLES
  about,        \* "server" or "browser"
  settingsRow,  \* of each tenant its row
  inUse,        \* the model settings of the process
  tracer,       \* the Langfuse settings of the process, and those its exporter was made of
  entryOf,      \* the entries of mcp.json that the business source wrote
  call,         \* what each request is at
  asks,         \* how many there were
  kept,         \* of each tenant's fields the setting last saved
  lostFields,   \* fields that a save of another put back
  unsure,       \* reloads of the exporter and saves of the source that crossed or failed
  catalog,      \* what models.local.json lists
  listing, offIds, active,  \* localStorage: the models, those switched off, the chosen one
  provider,     \* what the browser knows of the settings
  known,        \* the catalog of the server as the browser fetched it
  unusable,     \* has a save left what no run can use, and the browser what it had before?
  byHand, confused \* has the user changed list or choice, have requests overlapped or failed?

MaxCalls == IF about = "server" THEN MaxAsked ELSE MaxClicks

processVars == <<inUse, tracer>>
savedVars == <<settingsRow, entryOf, kept, lostFields, unsure>>
browserVars == <<listing, offIds, active, provider, known, unusable, byHand, confused>>
settingsVars == <<about, savedVars, processVars, call, asks, catalog, browserVars>>

isModelProviderConfigured(s) == s.name \notin {"blank", "unset"} /\ s.secret # "blank"
normalize(s) == IF s = Unset THEN Empty ELSE s

\* A blank secret keeps the one there is, but not the key of the model: what a patch
\* leaves out its schema makes blank, and that is what is saved (model-settings-store.ts:67-68).
Merged(field, existing, patch) ==
  [patch EXCEPT !.secret = IF field # "model" /\ @ = "blank" THEN existing.secret ELSE @]

\* Remaining settings the environment counts; switched off or without keys there is no exporter.
resolveLangfuseConfig(over) ==
  LET s == IF over = Unset THEN EnvTracing ELSE over
  IN IF s.on /\ s.secret # "blank" THEN s ELSE Empty
TracingOverride(s) == IF normalize(s) = Empty THEN Unset ELSE s

\* What a run uses: what is blank is taken from the environment.
applyOpenAICompatibleOverrides(s) ==
  [s EXCEPT !.name = IF @ = "blank" THEN normalize(EnvModel).name ELSE @,
            !.secret = IF @ = "blank" THEN EnvModel.secret ELSE @]

NoCall == [at |-> "none", who |-> Home, field |-> "none", patch |-> Empty, clears |-> FALSE,
         next |-> Empty, seen |-> [f \in SettingFields |-> Unset], stale |-> FALSE, tries |-> 0]
Busy == {r \in SettingCalls : call[r].at # "none"}
CallAt(r, at) == call[r].at = at
Moves(r, at) == call' = [call EXCEPT ![r].at = at]
Ends(r) == call' = [call EXCEPT ![r] = NoCall]

-----------------------------------------------------------------------------
\* At boot the tenant of the desktop gets the settings of the environment if it has none.
SeededModel(row) ==
  IF catalog # <<>> THEN row.model
  ELSE IF isModelProviderConfigured(row.model) \/ ~isModelProviderConfigured(EnvModel)
  THEN row.model ELSE EnvModel
SeededTracing(row) ==
  IF normalize(row.tracing) = Empty /\ resolveLangfuseConfig(Unset) # Empty
  THEN EnvTracing ELSE row.tracing
Seeded(row) == [row EXCEPT !.model = SeededModel(row), !.tracing = SeededTracing(row)]
ModelAtBoot(row) ==
  IF catalog = <<>> /\ isModelProviderConfigured(SeededModel(row)) THEN SeededModel(row) ELSE Empty
TracerOf(over) == [over |-> over, exporter |-> resolveLangfuseConfig(over)]

SettingsInit ==
  /\ about \in {"server", "browser"}
  /\ catalog \in IF about = "server" THEN {<<>>} ELSE {<<>>, CatalogModels}
  /\ \E m \in {Unset} \cup {Setting(n, "k0", TRUE) : n \in ModelNames},
        a \in {Unset} \cup {Setting("sink", "blank", TRUE) : x \in {about} \cap {"server"}} :
       LET row == [f \in SettingFields |-> IF f = "model" THEN m ELSE IF f = "audit" THEN a ELSE Unset]
           old == m # Unset /\ catalog = <<>>
       IN /\ settingsRow = [t \in Customers |-> IF t = Home THEN Seeded(row) ELSE row]
          /\ listing = IF old THEN <<SlugOf[m.name]>> ELSE <<>>
          /\ active = IF old THEN SlugOf[m.name] ELSE "blank"
  /\ inUse = ModelAtBoot(settingsRow[Home])
  /\ tracer = TracerOf(TracingOverride(settingsRow[Home].tracing))
  /\ entryOf = [n \in {o.patch.name : o \in {p \in Offers : p.field = "source"}} |-> Unset]
  /\ call = [r \in SettingCalls |-> NoCall] /\ asks = 0
  /\ kept = settingsRow /\ lostFields = [t \in Customers |-> {}] /\ unsure = {}
  /\ offIds = {} /\ provider = Empty /\ known = <<>> /\ unusable = FALSE /\ byHand = FALSE /\ confused = FALSE

\* The process ends and starts again; requests are lost.
RestartServer ==
  /\ about = "server" /\ asks < MaxCalls
  /\ asks' = asks + 1
  /\ settingsRow' = [settingsRow EXCEPT ![Home] = Seeded(@)]
  /\ kept' = [kept EXCEPT ![Home] = Seeded(settingsRow[Home])]
  /\ lostFields' = [lostFields EXCEPT ![Home] = @ \cap {"source"}]
  /\ inUse' = ModelAtBoot(settingsRow[Home])
  /\ tracer' = TracerOf(TracingOverride(SeededTracing(settingsRow[Home])))
  /\ unsure' = (unsure \ {"tracing"}) \cup {"source" : r \in {q \in Busy : call[q].field = "source"}}
  /\ call' = [r \in SettingCalls |-> NoCall]
  /\ UNCHANGED <<about, entryOf, catalog, browserVars>>

-----------------------------------------------------------------------------
\* A request to change a setting.  The business screen sends two at once.
Request(t, o) ==
  [NoCall EXCEPT !.at = IF o.clears \/ o.field = "audit" THEN "read" ELSE "load",
               !.who = t, !.field = o.field, !.patch = o.patch, !.clears = o.clears,
               !.next = IF o.clears THEN Empty ELSE o.patch]
Overlaps(o) == {o.field : r \in {q \in Busy : call[q].field = o.field}}

SaveSetting(r) ==
  /\ about = "server" /\ call[r] = NoCall /\ asks < MaxCalls
  /\ \E o \in Offers, t \in Customers :
       /\ o.field = "source" => t = Home
       /\ call' = [call EXCEPT ![r] = Request(t, o)]
       /\ unsure' = unsure \cup Overlaps(o)
  /\ asks' = asks + 1
  /\ UNCHANGED <<about, settingsRow, entryOf, kept, lostFields, processVars, catalog, browserVars>>

SaveBusiness(r, q) ==
  /\ about = "server" /\ r # q /\ call[r] = NoCall /\ call[q] = NoCall /\ asks < MaxCalls
  /\ \E s, a \in Offers :
       /\ s.field = "source" /\ ~s.clears /\ a.field = "audit"
       /\ call' = [call EXCEPT ![r] = Request(Home, s), ![q] = Request(Home, a)]
       /\ unsure' = unsure \cup Overlaps(s)
  /\ asks' = asks + 1
  /\ UNCHANGED <<about, settingsRow, entryOf, kept, lostFields, processVars, catalog, browserVars>>

loadStoredSettings(r) ==
  LET c == call[r]
      stored == normalize(settingsRow[c.who][c.field])
  IN /\ CallAt(r, "load") /\ c.field \in SettingFields
     /\ call' = [call EXCEPT ![r].next = Merged(c.field, stored, c.patch),
                             ![r].at = IF c.field = "source" THEN "entry" ELSE "read"]
     /\ UNCHANGED <<about, savedVars, processVars, asks, catalog, browserVars>>

\* The entry of the business server is written before the row.
EntryForgotten(r) == CallAt(r, "entry") /\ Moves(r, "read")
  /\ UNCHANGED <<about, savedVars, processVars, asks, catalog, browserVars>>
WriteEntry(r) ==
  /\ CallAt(r, "entry")
  /\ entryOf' = [entryOf EXCEPT ![call[r].next.name] = call[r].next]
  /\ Moves(r, "read")
  /\ UNCHANGED <<about, settingsRow, kept, lostFields, unsure, processVars, asks, catalog, browserVars>>

-----------------------------------------------------------------------------
\* upsertTenantSettings: the row is read, and all of it is written with the one field
\* changed.  What was never set is not part of what is written.
ReadRow(r) ==
  /\ CallAt(r, "read")
  /\ call' = [call EXCEPT ![r].at = "write", ![r].seen = settingsRow[call[r].who], ![r].stale = FALSE]
  /\ UNCHANGED <<about, savedVars, processVars, asks, catalog, browserVars>>

Content(c) == [c.seen EXCEPT ![c.field] = c.next]
MergeAll(row, content) == content
Merge(row, content) == [f \in SettingFields |-> IF content[f] = Unset THEN row[f] ELSE content[f]]

\* A write that follows another's read and write puts back what it read.
WriteRow(r) ==
  LET c == call[r]
      putBack == {f \in SettingFields \ {c.field} : c.stale /\ c.seen[f] # Unset}
  IN /\ CallAt(r, "write")
     /\ settingsRow' = [settingsRow EXCEPT ![c.who] = Merge(@, Content(c))]
     /\ kept' = [kept EXCEPT ![c.who][c.field] = c.next]
     /\ lostFields' = [lostFields EXCEPT ![c.who] = (@ \cup putBack) \ {c.field}]
     /\ call' = [q \in SettingCalls |->
                   IF q = r THEN [c EXCEPT !.at = IF c.field \in {"model", "tracing"} THEN "apply" ELSE "answer"]
                   ELSE IF call[q].who = c.who /\ CallAt(q, "write") THEN [call[q] EXCEPT !.stale = TRUE]
                   ELSE call[q]]
     /\ UNCHANGED <<about, entryOf, unsure, processVars, asks, catalog, browserVars>>

\* Of two writes at once one may be refused: it is tried again from the read, three
\* times in all.  A row that is not there yet cannot be created twice.
WriteRefused(r) ==
  LET c == call[r]
      first == \A f \in SettingFields : c.seen[f] = Unset
  IN /\ CallAt(r, "write")
     /\ c.stale \/ \E q \in Busy \ {r} : call[q].who = c.who /\ CallAt(q, "write")
     /\ \/ /\ c.tries < 2
           /\ call' = [call EXCEPT ![r] = [c EXCEPT !.at = "read", !.tries = @ + 1]]
           /\ UNCHANGED unsure
        \/ /\ c.tries = 2 \/ first
           /\ Ends(r) /\ unsure' = unsure \cup ({"source"} \cap {c.field})
     /\ confused' = TRUE
     /\ UNCHANGED <<about, settingsRow, entryOf, kept, lostFields, processVars, asks, catalog,
                    listing, offIds, active, provider, known, unusable, byHand>>

-----------------------------------------------------------------------------
\* The saved settings are put into use, whosever they are.  A run in between notices.
Crossing(r) == [q \in SettingCalls |-> IF CallAt(q, "resolve") THEN [call[q] EXCEPT !.stale = TRUE] ELSE call[q]]

applyModelSettingsToRuntime(r) ==
  /\ call[r].field = "model" /\ CallAt(r, "apply")
  /\ inUse' = call[r].next
  /\ call' = [Crossing(r) EXCEPT ![r].at = "answer"]
  /\ UNCHANGED <<about, savedVars, tracer, asks, catalog, browserVars>>

\* The exporter is made of the new settings, what is buffered is sent, then it takes over.
applyLangfuseToRuntime(r) ==
  LET over == TracingOverride(call[r].next)
  IN /\ call[r].field = "tracing" /\ CallAt(r, "apply")
     /\ tracer' = [tracer EXCEPT !.over = over]
     /\ call' = [call EXCEPT ![r].at = "flush", ![r].next = resolveLangfuseConfig(over)]
     /\ UNCHANGED <<about, savedVars, inUse, asks, catalog, browserVars>>
Flush(r) ==
  /\ CallAt(r, "flush")
  /\ \/ tracer' = [tracer EXCEPT !.exporter = call[r].next] /\ UNCHANGED unsure
     \/ unsure' = unsure \cup {"tracing"} /\ UNCHANGED tracer
  /\ Moves(r, "answer")
  /\ UNCHANGED <<about, settingsRow, entryOf, kept, lostFields, inUse, asks, catalog, browserVars>>

\* A run puts the settings of its tenant into use and takes its model a while later.
StartRun(r) ==
  /\ about = "server" /\ call[r] = NoCall /\ asks < MaxCalls
  /\ \E t \in Customers : call' = [call EXCEPT ![r] = [NoCall EXCEPT !.at = "load", !.who = t, !.field = "run"]]
  /\ asks' = asks + 1
  /\ UNCHANGED <<about, savedVars, processVars, catalog, browserVars>>
ApplyIfSet(r) ==
  LET c == call[r]
  IN /\ c.field = "run"
     /\ \/ /\ CallAt(r, "load")
           /\ call' = [call EXCEPT ![r].at = "apply", ![r].next = normalize(settingsRow[c.who].model)]
           /\ UNCHANGED inUse
        \/ /\ CallAt(r, "apply")
           /\ inUse' = IF isModelProviderConfigured(c.next) THEN c.next ELSE inUse
           /\ call' = [Crossing(r) EXCEPT ![r].at = "resolve"]
     /\ UNCHANGED <<about, savedVars, tracer, asks, catalog, browserVars>>
applyTenantModelSettings(r) ==
  LET c == call[r]
  IN /\ c.field = "run"
     /\ \/ /\ CallAt(r, "load")
           /\ call' = [call EXCEPT ![r].at = "apply", ![r].next = normalize(settingsRow[c.who].model)]
           /\ UNCHANGED inUse
        \/ /\ CallAt(r, "apply")
           /\ inUse' = c.next /\ call' = [Crossing(r) EXCEPT ![r].at = "resolve"]
     /\ UNCHANGED <<about, savedVars, tracer, asks, catalog, browserVars>>
getModelConfig(r) ==
  /\ CallAt(r, "resolve")
  /\ call' = [call EXCEPT ![r].at = "runs", ![r].patch = applyOpenAICompatibleOverrides(inUse)]
  /\ UNCHANGED <<about, savedVars, processVars, asks, catalog, browserVars>>

AnswerServer(r) ==
  /\ about = "server" /\ call[r].at \in {"answer", "runs"}
  /\ Ends(r)
  /\ UNCHANGED <<about, savedVars, processVars, asks, catalog, browserVars>>

-----------------------------------------------------------------------------
\* The browser.  What the server says of its settings: the catalog, if there is one.
View(m) ==
  IF catalog # <<>> THEN Setting(CatalogDefault, "set", TRUE)
  ELSE Setting(normalize(m).name, IF normalize(m).secret = "blank" THEN "blank" ELSE "set", TRUE)

In(id, s) == \E i \in DOMAIN s : s[i] = id
Remaining(s, gone) ==
  LET Left[i \in 0..Len(s)] ==
        IF i = 0 THEN <<>> ELSE IF s[i] \in gone THEN Left[i - 1] ELSE Append(Left[i - 1], s[i])
  IN  Left[Len(s)]
Enabled(list, offs) == Remaining(list, offs)
AsBefore(list, id) == id
ActiveIn(list, id) == IF list = <<>> \/ In(id, list) THEN id ELSE Head(list)
listConfiguredModels(p, list, offs, cat) ==
  IF ~isModelProviderConfigured(p) THEN <<>>
  ELSE IF cat # <<>> THEN cat
  ELSE IF Enabled(list, offs) # <<>> THEN Enabled(list, offs) ELSE <<SlugOf[p.name]>>
Offered == listConfiguredModels(provider, listing, offIds, known)
upsertCatalogModel(list, id) == Append(Remaining(list, {id}), id)

\* New settings of the provider, fetched or announced: their model joins the list, and
\* the chosen model must be one of those offered.
TakeProvider(p, list, offs, id, cat) ==
  LET joins == cat = <<>> /\ isModelProviderConfigured(p)
      list2 == IF joins THEN upsertCatalogModel(list, SlugOf[p.name]) ELSE list
      offs2 == IF joins THEN offs \ {SlugOf[p.name]} ELSE offs
      id2 == IF joins THEN ActiveIn(Enabled(list2, offs2), id) ELSE id
  IN /\ provider' = p /\ listing' = list2 /\ offIds' = offs2
     /\ active' = ActiveIn(listConfiguredModels(p, list2, offs2, cat), id2)

Opening(what) == [NoCall EXCEPT !.at = "load", !.field = what]

\* The picker or the screen opens: it fetches the settings and the catalog at once.
MountPicker(r, q) ==
  /\ about = "browser" /\ r # q /\ Busy = {} /\ asks < MaxCalls
  /\ call' = [call EXCEPT ![r] = Opening("get"), ![q] = Opening("list")]
  /\ asks' = asks + 1
  /\ UNCHANGED <<about, savedVars, processVars, catalog, browserVars>>
saveProvider(r) ==
  /\ about = "browser" /\ call[r] = NoCall /\ asks < MaxCalls
  /\ \A q \in Busy : call[q].field # "model"
  /\ \E o \in Offers :
       /\ o.field = "model" /\ ~o.clears
       /\ o.patch.secret # "blank" \/ provider.secret = "set"
       /\ call' = [call EXCEPT ![r] = Request(Home, o)]
  /\ asks' = asks + 1 /\ confused' = (confused \/ Busy # {})
  /\ UNCHANGED <<about, savedVars, processVars, catalog, listing, offIds, active, provider, known, unusable, byHand>>

ReadForBrowser(r) ==
  LET c == call[r]
  IN /\ CallAt(r, "load") /\ c.field \in {"get", "list"}
     /\ call' = [call EXCEPT ![r].at = "answer",
                   ![r].next = IF c.field = "get" THEN View(settingsRow[Home].model)
                               ELSE Setting("blank", "blank", catalog # <<>>)]
     /\ UNCHANGED <<about, savedVars, processVars, asks, catalog, browserVars>>

\* The saved model is chosen, every other part of the browser hears of it, and the
\* settings are fetched again.  A save without a key, or a name, ends with an error: the
\* row has lost it, and the browser goes on with what it had.
ProviderSaved(r) ==
  LET m == call[r].next
      id == SlugOf[m.name]
  IN /\ about = "browser" /\ CallAt(r, "answer") /\ call[r].field = "model"
     /\ IF isModelProviderConfigured(m)
        THEN /\ TakeProvider(Setting(m.name, "set", TRUE), upsertCatalogModel(listing, id), offIds \ {id}, id, known)
             /\ call' = [call EXCEPT ![r] = Opening("get")]
             /\ unusable' = FALSE /\ byHand' = FALSE
        ELSE Ends(r) /\ unusable' = TRUE /\ UNCHANGED <<provider, listing, offIds, active, byHand>>
     /\ UNCHANGED <<about, savedVars, processVars, asks, catalog, known, confused>>

refreshProvider(r) ==
  /\ CallAt(r, "answer") /\ call[r].field = "get"
  /\ \/ TakeProvider(call[r].next, listing, offIds, active, known) /\ UNCHANGED confused
     \/ provider' = Empty /\ confused' = TRUE /\ UNCHANGED <<listing, offIds, active>>
  /\ unusable' = FALSE /\ Ends(r)
  /\ UNCHANGED <<about, savedVars, processVars, asks, catalog, known, byHand>>

\* The catalog replaces the list; the chosen model is one of it before the default is looked at.
bootstrapModelCatalog(r) ==
  /\ CallAt(r, "answer") /\ call[r].field = "list"
  /\ \/ /\ call[r].next.on
        /\ known' = CatalogModels
        /\ TakeProvider(Setting(CatalogDefault, "set", TRUE), CatalogModels, {},
                        ActiveIn(CatalogModels, active), CatalogModels)
        /\ unusable' = FALSE /\ UNCHANGED confused
     \/ /\ UNCHANGED <<known, unusable, provider, listing, offIds, active>>
        /\ confused' = (confused \/ call[r].next.on)
  /\ Ends(r)
  /\ UNCHANGED <<about, savedVars, processVars, asks, catalog, byHand>>

-----------------------------------------------------------------------------
\* The list of the screen: a model is chosen, switched on or off, or deleted.
Act(list, offs, id) ==
  /\ about = "browser" /\ asks < MaxCalls /\ asks' = asks + 1
  /\ listing' = list /\ offIds' = offs /\ active' = id /\ byHand' = TRUE
  /\ confused' = (confused \/ Busy # {})
  /\ UNCHANGED <<about, savedVars, processVars, call, catalog, provider, known, unusable>>
selectModel == \E i \in DOMAIN Offered : Offered[i] \notin offIds /\ Act(listing, offIds, Offered[i])
\* The chosen model, switched off, gives way to another that is offered.
toggleModel ==
  \E i \in DOMAIN Offered :
    LET id == Offered[i]
        offs == {x \in (offIds \cup {id}) \ (offIds \cap {id}) : In(x, listing)}
        others == Remaining(Offered, offs \cup {id})
    IN Act(listing, offs, IF active = id /\ id \notin offIds /\ others # <<>> THEN Head(others)
                          ELSE ActiveIn(Enabled(listing, offs), active))
confirmDeleteModel ==
  \E i \in DOMAIN Offered :
    LET gone == Offered[i]
        list == Remaining(listing, {gone})
        offs == offIds \ {gone}
        id1 == IF In(gone, listing) THEN ActiveIn(Enabled(list, offs), active) ELSE active
        left == listConfiguredModels(provider, list, offs, known)
        others == Remaining(left, {gone})
    IN Act(list, offs, IF active # gone THEN ActiveIn(left, id1)
                       ELSE IF others = <<>> THEN "blank" ELSE Head(others))

\* The file of the catalog is written, or removed.
EditCatalog ==
  /\ about = "browser" /\ asks < MaxCalls /\ asks' = asks + 1
  /\ catalog' = IF catalog = <<>> THEN CatalogModels ELSE <<>>
  /\ confused' = (confused \/ Busy # {} \/ known # catalog)
  /\ UNCHANGED <<about, savedVars, processVars, call, listing, offIds, active, provider, known, unusable, byHand>>

-----------------------------------------------------------------------------
SettingsNext ==
  \/ RestartServer \/ EditCatalog \/ selectModel \/ toggleModel \/ confirmDeleteModel
  \/ \E r, q \in SettingCalls : SaveBusiness(r, q) \/ MountPicker(r, q)
  \/ \E r \in SettingCalls :
       \/ SaveSetting(r) \/ loadStoredSettings(r) \/ WriteEntry(r) \/ ReadRow(r) \/ WriteRow(r)
       \/ WriteRefused(r) \/ applyModelSettingsToRuntime(r) \/ applyLangfuseToRuntime(r) \/ Flush(r)
       \/ StartRun(r) \/ applyTenantModelSettings(r) \/ getModelConfig(r) \/ AnswerServer(r)
       \/ saveProvider(r) \/ ReadForBrowser(r) \/ ProviderSaved(r) \/ refreshProvider(r) \/ bootstrapModelCatalog(r)

SettingsSpec == SettingsInit /\ [][SettingsNext]_settingsVars

-----------------------------------------------------------------------------
Changing(f) == \E r \in Busy : call[r].field = f

\* A field of the row is what was last saved in it, whatever was saved in the others.
FieldsStay == \A t \in Customers, f \in SettingFields :
  f \notin lostFields[t] => settingsRow[t][f] = kept[t][f]

\* A run uses the model of its tenant, unless another's settings came into use meanwhile.
RunsUseTheirModel == \A r \in SettingCalls :
  CallAt(r, "runs") /\ ~call[r].stale => call[r].patch = applyOpenAICompatibleOverrides(call[r].next)

ExporterFollows ==
  ~Changing("tracing") /\ "tracing" \notin unsure => tracer.exporter = resolveLangfuseConfig(tracer.over)
EntryFollows ==
  LET s == settingsRow[Home].source
  IN ~Changing("source") /\ "source" \notin unsure /\ "source" \notin lostFields[Home] /\ s \notin {Unset, Empty}
       => entryOf[s.name] = s

\* The model a run with the chosen id would use, and the one that the picker shows.
Used == IF In(active, catalog) THEN active ELSE SlugOf[settingsRow[Home].model.name]
PickerShows == IF In(active, Offered) THEN active ELSE Head(Offered)
PickerTellsTheModel ==
  /\ about = "browser" /\ Busy = {} /\ ~confused /\ ~unusable /\ provider # Empty /\ known = catalog
  /\ ~byHand \/ In(active, catalog)
  => /\ provider = View(settingsRow[Home].model)
     /\ Offered # <<>> => PickerShows = Used

\* Saved settings take effect and stay: a field of a tenant's row is what was last saved in
\* it unless another save of the row, read before and written after, put it back; a run uses its
\* tenant's model unless other settings came into use between; the exporter and the
\* entry of the business server follow theirs unless saves crossed or failed; and the picker
\* shows the model that runs use, but where the user took another from the list, or saved
\* the provider without its key or name and has not opened the picker again
\* (repos.ts:371-425, model-settings-store.ts:60-76, chat.ts:164-255, langfuse-settings-store.ts:148-182).
SettingsTakeEffect ==
  FieldsStay /\ RunsUseTheirModel /\ ExporterFollows /\ EntryFollows /\ PickerTellsTheModel
=============================================================================
