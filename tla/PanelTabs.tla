---- MODULE PanelTabs ----
(***************************************************************************)
(* The tabs of the right panel and the native pages of its web tabs        *)
(* (web/src/components/assistant-ui/right-panel/use-panel-tabs.ts,         *)
(* web-browser-panel.tsx, lib/panel-tabs-storage.ts,                       *)
(* lib/tauri-web-view.ts, desktop/src-tauri/src/web_view.rs).              *)
(* Each thread has its tabs in local storage.  A web tab's page is not part*)
(* of the document: the shell draws it above the window, and everything    *)
(* that covers the panel or moves to another tab must hide it.  Hiding is  *)
(* one call; showing waits for the layout and for the shell, and goes on   *)
(* whatever happened meanwhile.  The sheet of a table tab is made by a     *)
(* request, whose answer adds the tab to the thread then on screen.        *)
(***************************************************************************)
EXTENDS Naturals, Sequences, FiniteSets, Functions, SequencesExt

CONSTANTS PanelThreads,
          MaxTabs,    \* bound: tabs made
          PanelSteps, \* bound: acts of the user
          NoSheet

ASSUME PanelTabsAssumption == MaxTabs \in Nat /\ PanelSteps \in Nat

VARIABLES
  onScreen,   \* the thread of the list item shown
  threadIdRef, stateRef, \* the thread whose tabs the panel holds, and those tabs
  byThread,   \* local storage: the tabs of each thread
  pages,      \* the shell: the tabs that have a page, "shown" or "hidden"
  inView,     \* panel open, chat in view, no question asked
  showing,    \* pages being shown: the tab, what comes next, overtaken or not
  creating,   \* the threads whose new sheet is awaited
  made, acts,
  strays,     \* table tabs that arrived in another thread than they were asked in
  twins,      \* table tabs that arrived when there was one already
  loose       \* pages shown by a call that was overtaken

panelTabsVars == <<onScreen, threadIdRef, stateRef, byThread, pages, inView, showing,
                   creating, made, acts, strays, twins, loose>>

emptyPanelTabsState == [tabs |-> <<>>, activeId |-> 0]

Singletons == {"table", "rag"}
Tab(id, kind, sheet, url) == [id |-> id, kind |-> kind, sheet |-> sheet, url |-> url]
TabsOf(p) == ToSet(p.tabs)
IdsIn(p) == {tab.id : tab \in TabsOf(p)}
ActiveTabs(p) == {tab \in TabsOf(p) : tab.id = p.activeId}

(* The tab whose page is to be seen: the active one, if it is a web tab    *)
(* with an address.                                                        *)
PageTab(p) == {tab.id : tab \in {a \in ActiveTabs(p) : a.kind = "web" /\ a.url}}

(* One tab of each kind but "web", the active one before the others.       *)
dedupeSingletonTabs(p) ==
  LET Kept(i) == \/ p.tabs[i].kind = "web"
                 \/ p.tabs[i].id = p.activeId
                 \/ \A j \in DOMAIN p.tabs :
                      p.tabs[j].kind = p.tabs[i].kind /\ j # i => j > i /\ p.tabs[j].id # p.activeId
      Keep[i \in 0..Len(p.tabs)] ==
        IF i = 0 THEN <<>> ELSE IF Kept(i) THEN Append(Keep[i - 1], p.tabs[i]) ELSE Keep[i - 1]
  IN Keep[Len(p.tabs)]

normalizeState(p) ==
  LET tabs == dedupeSingletonTabs(p)
  IN IF tabs = <<>> THEN emptyPanelTabsState
     ELSE [tabs |-> tabs,
           activeId |-> IF \E i \in DOMAIN tabs : tabs[i].id = p.activeId THEN p.activeId
                        ELSE tabs[1].id]

(* A restart of the window finds what an earlier one stored.               *)
PanelTabsInit ==
  /\ onScreen \in PanelThreads /\ threadIdRef = onScreen
  /\ byThread \in [PanelThreads -> {emptyPanelTabsState,
                                    [tabs |-> <<Tab(MaxTabs + 1, "web", NoSheet, TRUE)>>,
                                     activeId |-> MaxTabs + 1]}]
  /\ Cardinality({t \in PanelThreads : byThread[t] # emptyPanelTabsState}) <= 1
  /\ stateRef = byThread[onScreen]
  /\ pages = << >> /\ inView = FALSE /\ showing = {} /\ creating = {}
  /\ made = 0 /\ acts = 0 /\ strays = {} /\ twins = {} /\ loose = {}

-----------------------------------------------------------------------------
(* The shell.  Its commands find the page by the tab's id.                 *)
hide_all(ps) == [i \in DOMAIN ps |-> "hidden"]
hide_web_view(ps, ids) == [i \in DOMAIN ps |-> IF i \in ids THEN "hidden" ELSE ps[i]]
close_web_view(ps, ids) == [i \in DOMAIN ps \ ids |-> ps[i]]

(* What the panel does once it holds p and the shell the pages ps: the page*)
(* that was in front is hidden when its tab no longer is, every page when  *)
(* none is to be seen, and the page of the tab in front is brought up.  The*)
(* bringing up that has not begun is dropped; the rest goes on, overtaken. *)
ShowPanel(p, ps, seen, closed) ==
  LET same == p.activeId = stateRef.activeId /\ seen = inView
      kept == same /\ PageTab(p) = PageTab(stateRef)
  IN /\ stateRef' = p /\ inView' = seen
     /\ pages' = IF same THEN ps
                 ELSE IF ~seen \/ ActiveTabs(p) = {} \/ \E a \in ActiveTabs(p) : a.kind # "web"
                 THEN hide_all(ps)
                 ELSE hide_web_view(ps, {stateRef.activeId} \ {p.activeId})
     /\ loose' = {i \in loose : i \in DOMAIN pages' /\ (i \in IdsIn(p) => pages'[i] = "shown")}
     /\ showing' =
          {[s EXCEPT !.overtaken = @ \/ ~same \/ s.id \in closed] :
             s \in IF kept THEN showing ELSE {r \in showing : r.next # "frame"}}
          \cup (IF ~kept /\ seen
                THEN {[id |-> i, next |-> "frame", overtaken |-> FALSE] : i \in PageTab(p)} ELSE {})

commitOnScreen(p, ps, closed) ==    \* a bug
  /\ ShowPanel(p, ps, inView, closed)
  /\ byThread' = [byThread EXCEPT ![onScreen] = normalizeState(p)]

(* commit: the tabs shown are the tabs stored.                             *)
commit(p, ps, closed) ==
  /\ ShowPanel(p, ps, inView, closed)
  /\ byThread' = [byThread EXCEPT ![threadIdRef] = normalizeState(p)]

Act == acts < PanelSteps /\ onScreen = threadIdRef /\ acts' = acts + 1
Same == UNCHANGED <<onScreen, threadIdRef>>
WithTab(p, tab) == [tabs |-> Append(p.tabs, tab), activeId |-> tab.id]

(* "+": a kind that is there is brought to the front; a table waits for its*)
(* sheet.                                                                  *)
OpenTab(kind) ==
  LET there == {tab \in TabsOf(stateRef) : tab.kind = kind}
  IN /\ Act /\ Same
     /\ \/ /\ kind \in Singletons /\ there # {}
           /\ commit([stateRef EXCEPT !.activeId = (CHOOSE t \in there : \A u \in there : t.id <= u.id).id],
                     pages, {})
           /\ UNCHANGED <<creating, made>>
        \/ /\ kind = "table" /\ there = {} /\ threadIdRef \notin creating
           /\ creating' = creating \cup {threadIdRef}
           /\ UNCHANGED <<made, stateRef, byThread, pages, inView, showing, loose>>
        \/ /\ kind # "table" /\ (kind \in Singletons => there = {}) /\ made < MaxTabs
           /\ made' = made + 1
           /\ commit(WithTab(stateRef, Tab(made', kind, NoSheet, FALSE)), pages, {})
           /\ UNCHANGED creating
     /\ UNCHANGED <<strays, twins>>

(* The sheet was made for the thread that asked; the tab is put where the  *)
(* user is now.  A request that failed leaves the panel alone.             *)
SheetAnswered ==
  \E th \in creating :
    /\ creating' = creating \ {th}
    /\ \/ /\ made < MaxTabs
          /\ made' = made + 1
          /\ commit(WithTab(stateRef, Tab(made', "table", th, FALSE)), pages, {})
          /\ strays' = IF th # threadIdRef THEN strays \cup {made'} ELSE strays
          /\ twins' = IF \E tab \in TabsOf(stateRef) : tab.kind = "table"
                      THEN twins \cup {made'} ELSE twins
       \/ UNCHANGED <<made, stateRef, byThread, pages, inView, showing, loose, strays, twins>>
    /\ UNCHANGED <<acts, onScreen, threadIdRef>>

(* A citation in a message opens the knowledge panel.                      *)
focusRagCitation == OpenTab("rag")

(* The tab to the right takes its place, or else the one to the left.      *)
WithoutTab(p, id) ==
  LET idx == CHOOSE i \in DOMAIN p.tabs : p.tabs[i].id = id
      tabs == SelectSeq(p.tabs, LAMBDA tab : tab.id # id)
      fallback == IF idx <= Len(tabs) THEN tabs[idx].id
                  ELSE IF tabs # <<>> THEN tabs[idx - 1].id ELSE 0
  IN [tabs |-> tabs, activeId |-> IF p.activeId = id THEN fallback ELSE p.activeId]

ClosesNoPage(tab) == {}    \* a bug
ClosesPage(tab) == IF tab.kind = "web" THEN {tab.id} ELSE {}

CloseTab ==
  \E tab \in TabsOf(stateRef) :
    LET gone == ClosesPage(tab)
    IN /\ Act /\ Same
       /\ commit(WithoutTab(stateRef, tab.id), close_web_view(pages, gone), gone)
       /\ UNCHANGED <<creating, made, strays, twins>>

(* A click on a tab, or a page mentioned in the composer.                  *)
ActivateTab ==
  \E tab \in TabsOf(stateRef) :
    /\ Act /\ Same /\ tab.id # stateRef.activeId
    /\ commit([stateRef EXCEPT !.activeId = tab.id], pages, {})
    /\ UNCHANGED <<creating, made, strays, twins>>

(* The panel is opened or closed, another view or a question covers it.    *)
ToggleView ==
  /\ Act /\ Same
  /\ ShowPanel(stateRef, pages, ~inView, {})
  /\ UNCHANGED <<byThread, creating, made, strays, twins>>

-----------------------------------------------------------------------------
(* Another thread.  The list item changes first; the effect binds the panel*)
(* to it before the user can act again, but an answer may come between.    *)
SwitchThread ==
  /\ Act
  /\ onScreen' \in PanelThreads \ {onScreen}
  /\ UNCHANGED <<threadIdRef, stateRef, byThread, pages, inView, showing, creating, made,
                 strays, twins, loose>>

(* Binding: store the outgoing tabs, close their pages, load the new ones. *)
closeWebTabs(p) == hide_all(close_web_view(pages, {tab.id : tab \in {t \in TabsOf(p) : t.kind = "web"}}))

BindThread ==
  /\ onScreen # threadIdRef
  /\ threadIdRef' = onScreen
  /\ byThread' = [byThread EXCEPT ![threadIdRef] = normalizeState(stateRef)]
  /\ ShowPanel(normalizeState(byThread[onScreen]), closeWebTabs(stateRef), inView, IdsIn(stateRef))
  /\ UNCHANGED <<onScreen, creating, made, acts, strays, twins>>

(* The window is loaded anew: the tabs come from storage, the pages stay in*)
(* the shell, hidden; what was being shown is taken as done by then.       *)
ReloadWindow ==
  /\ Act
  /\ onScreen' \in PanelThreads /\ threadIdRef' = onScreen'
  /\ stateRef' = normalizeState(byThread[onScreen'])
  /\ pages' = hide_all(pages) /\ inView' = FALSE
  /\ showing' = {} /\ creating' = {} /\ loose' = loose
  /\ UNCHANGED <<byThread, made, strays, twins>>

-----------------------------------------------------------------------------
(* Showing a page.                                                         *)
Goes(s, nexts) ==
  showing' = (showing \ {s}) \cup {[s EXCEPT !.next = n] : n \in nexts}
Loosen(s) ==
  loose' = IF s.overtaken THEN loose \cup {s.id} ELSE loose \ {s.id}

(* An address is entered: the page is opened, the tab learns it afterwards.*)
openUrl ==
  \E tab \in ActiveTabs(stateRef) :
    /\ Act /\ Same /\ tab.kind = "web" /\ inView
    /\ ~\E s \in showing : s.id = tab.id /\ s.next = "open address"  \* disabled while loading
    /\ showing' = showing \cup {[id |-> tab.id, next |-> "open address", overtaken |-> FALSE]}
    /\ UNCHANGED <<stateRef, byThread, pages, inView, creating, made, strays, twins, loose>>

(* revealWebView, once its frame has come: it asks the shell to show.      *)
RevealFrame ==
  \E s \in {r \in showing : r.next = "frame"} :
    /\ onScreen = threadIdRef
    /\ Goes(s, {"show"})
    /\ UNCHANGED <<onScreen, threadIdRef, stateRef, byThread, pages, inView, creating, made,
                   acts, strays, twins, loose>>

(* The window is visible again, or a menu above the page closed.           *)
RestorePage ==
  /\ Act /\ Same /\ inView /\ PageTab(stateRef) # {}
  /\ showing' = showing \cup {[id |-> i, next |-> "show", overtaken |-> FALSE] : i \in PageTab(stateRef)}
  /\ UNCHANGED <<stateRef, byThread, pages, inView, creating, made, strays, twins, loose>>

(* show_web_view hides every page first; whether the tab had one decides   *)
(* whether the panel opens it.                                             *)
show_web_view ==
  \E s \in {r \in showing : r.next = "show"} :
    /\ pages' = IF s.id \in DOMAIN pages THEN [hide_all(pages) EXCEPT ![s.id] = "shown"]
                ELSE hide_all(pages)
    /\ IF s.id \in DOMAIN pages THEN Goes(s, {}) /\ Loosen(s) ELSE Goes(s, {"open"}) /\ UNCHANGED loose
    /\ UNCHANGED <<onScreen, threadIdRef, stateRef, byThread, inView, creating, made, acts,
                   strays, twins>>

(* open_web_view hides every page, then moves the tab's own or makes it.   *)
open_web_view ==
  \E s \in {r \in showing : r.next \in {"open", "open address"}} :
    /\ pages' = [i \in DOMAIN pages \cup {s.id} |-> IF i = s.id THEN "shown" ELSE "hidden"]
    /\ Loosen(s)
    /\ Goes(s, IF s.next = "open address" THEN {"address"} ELSE {})
    /\ UNCHANGED <<onScreen, threadIdRef, stateRef, byThread, inView, creating, made, acts,
                   strays, twins>>

(* updateState: the tab, if the panel still has it, learns its address,    *)
(* which is one more reason to bring its page up.                          *)
updateState ==
  \E s \in {r \in showing : r.next = "address"} :
    LET p == [stateRef EXCEPT !.tabs =
                [i \in DOMAIN @ |-> IF @[i].id = s.id THEN [@[i] EXCEPT !.url = TRUE] ELSE @[i]]]
        again == inView /\ PageTab(p) # PageTab(stateRef)
    IN /\ stateRef' = p
       /\ byThread' = [byThread EXCEPT ![threadIdRef] = normalizeState(p)]
       /\ showing' = (showing \ {s}) \cup
            (IF again THEN {[id |-> i, next |-> "frame", overtaken |-> FALSE] : i \in PageTab(p)} ELSE {})
       /\ UNCHANGED <<onScreen, threadIdRef, pages, inView, creating, made, acts, strays,
                      twins, loose>>

PanelTabsNext ==
  \/ \E kind \in {"table", "web"} : OpenTab(kind)
  \/ focusRagCitation \/ RestorePage \/ SheetAnswered \/ CloseTab \/ ActivateTab \/ ToggleView
  \/ SwitchThread \/ BindThread \/ ReloadWindow
  \/ openUrl \/ RevealFrame \/ show_web_view \/ open_web_view \/ updateState

PanelTabsSpec == PanelTabsInit /\ [][PanelTabsNext]_panelTabsVars

-----------------------------------------------------------------------------
(* A table tab shows a sheet of the thread it is in, whichever thread was  *)
(* on screen when the answers came, except for a tab whose thread was left *)
(* while its sheet was made; what the panel shows is what the next visit   *)
(* of the thread will find, except for a second table tab.                 *)
(* (use-panel-tabs.ts:86 and :144)                                         *)
TabsBelong ==
  /\ \A th \in PanelThreads :
       \A tab \in TabsOf(byThread[th]) :
         tab.kind = "table" => tab.sheet = th \/ tab.id \in strays
  /\ normalizeState(stateRef) = byThread[threadIdRef]
  /\ stateRef = byThread[threadIdRef] \/ IdsIn(stateRef) \cap twins # {}

(* When no page is being shown, the only page on screen is that of the     *)
(* active tab of a panel in view, and every page the shell keeps is that of*)
(* a tab some thread still has, except for pages shown by a call that a    *)
(* switch, a cover or a close overtook.  (web-browser-panel.tsx:153 and    *)
(* :288, use-panel-tabs.ts:125 and :183, web_view.rs:252)                  *)
PagesKeepTheirPlace ==
  showing = {} /\ onScreen = threadIdRef =>
    \A i \in DOMAIN pages \ loose :
      /\ \E th \in PanelThreads : i \in IdsIn(byThread[th])
      /\ pages[i] = "shown" => inView /\ stateRef.activeId = i

(* Tabs stay in their thread and pages with their tabs: TabsBelong, and    *)
(* PagesKeepTheirPlace.                                                    *)
TabsKeepTheirPages == TabsBelong /\ PagesKeepTheirPlace

-----------------------------------------------------------------------------
====
