---- MODULE TableGrid ----
(***************************************************************************)
(* The table of the right panel (web/src/components/assistant-ui/          *)
(* table-grid.tsx).  It shows one sheet of the server's store, kept fresh  *)
(* by whole loads and by the events of one EventSource; cells are changed  *)
(* at once and the change is rolled back when the server refuses it; rows  *)
(* are added, deleted and imported by a request whose reply replaces the   *)
(* rows.  Other users of the store (the agent's table tools, another       *)
(* window) change it at any time.  Requests overtake each other, their     *)
(* answers may be lost, and the event stream breaks and comes back.        *)
(*                                                                         *)
(* A row is a key with one value, Gone when the sheet has no such row; the *)
(* order of rows, columns, names, filters and selections are left out.     *)
(***************************************************************************)
EXTENDS Integers, Sequences

CONSTANTS Tabs,   \* the sheet ids there may ever be
          RowKeys, CellValues, Gone, \* row keys, their values, no row
          Nowhere,  \* DEFAULT_TABLE_SHEET, the id answered when no sheet is left
          AtOnce,   \* bound: requests of the grid in flight
          Events,   \* bound: changes of the store, acts of the user, and losses
          HistoryLimit

AllRows == "allRows" \* sheetReplace, schemaChange
SheetList == "sheetList" \* sheetsChange

ASSUME GridAssumption == /\ Gone \notin CellValues
                         /\ Nowhere \notin Tabs
                         /\ RowKeys \cap {AllRows, SheetList} = {}
                         /\ {AtOnce, Events, HistoryLimit} \subseteq Nat

VARIABLES tabs, made, store, clock, \* the server: tabs of the thread, ids used, rows, changes
          feed, online, heard, \* events on their way, the stream is open, last change applied
          active, rows, loading, error, last, editing, undo, redo,
          asked,    \* requests of the grid in flight
          happened, \* acts of the user, broken streams and lost messages so far
          strange   \* names of the known ways a grid goes wrong that this one met

gridVars == <<tabs, made, store, clock, feed, online, heard, active, rows, loading, error,
              last, editing, undo, redo, asked, happened, strange>>
server == <<tabs, made, store, clock>>
page == <<heard, active, rows, loading, error, last, editing, undo, redo, strange>>

RowOps == {"add", "drop", "import", "column"} \* answered with all rows
Unseen == {} \* lastSerialized = ''
Blank == [k \in RowKeys |-> Gone]
Pending == -1
Refused == -2

(* A request: what it is about, its answer once the server gave one, and,  *)
(* of an edit, whether an answer or an event came for the rows since.      *)
Asking(op, s) ==
  [op |-> op, sheet |-> s, first |-> FALSE, key |-> AllRows, value |-> Gone,
   before |-> Blank, late |-> FALSE, at |-> Pending, got |-> Blank, list |-> {}]

Load(s, first) == [Asking("load", s) EXCEPT !.first = first]

Happens == clock + happened < Events /\ happened' = happened + 1
Room == Len(asked) < AtOnce
AnswersWithout(i) == SubSeq(asked, 1, i - 1) \o SubSeq(asked, i + 1, Len(asked))
Late(s) == [j \in DOMAIN s |-> [s[j] EXCEPT !.late = (s[j].op = "patch")]]

-----------------------------------------------------------------------------
(* The server: table-store.ts and routes/tables.ts.                        *)

(* A change and the event that tells of it; with no stream it is told to nobody. *)
Emit(s, k, v) ==
  /\ clock + happened < Events
  /\ clock' = clock + 1
  /\ feed' = IF online THEN Append(feed, [sheet |-> s, key |-> k, value |-> v, no |-> clock + 1])
             ELSE feed

WriteCells(s, k, v) ==
  /\ s \in tabs
  /\ Emit(s, k, v)
  /\ store' = [store EXCEPT ![s] = IF k = AllRows THEN [x \in RowKeys |-> v]
                                   ELSE [@ EXCEPT ![k] = v]]
  /\ UNCHANGED <<tabs, made>>

(* A sheet is created, empty and under an id of its own, or deleted.       *)
List(s) ==
  /\ s \in tabs \/ s \notin made
  /\ tabs' = (IF s \in tabs THEN tabs \ {s} ELSE tabs \cup {s})
  /\ made' = made \cup {s}
  /\ Emit(s, SheetList, Gone)
  /\ UNCHANGED store

updateTableRows(s, k, v) == WriteCells(s, k, v) /\ store[s][k] # Gone
addTableRow(s, k, v) == WriteCells(s, k, v) /\ store[s][k] = Gone
deleteTableRows(s, k) == WriteCells(s, k, Gone)
importTableSheet(s, v) == WriteCells(s, AllRows, v)
deleteTableColumn(s, v) == WriteCells(s, AllRows, v) /\ store[s] # Blank

OthersWrite ==
  /\ \E s \in tabs, v \in CellValues :
       \/ \E k \in RowKeys : \/ updateTableRows(s, k, v) \/ addTableRow(s, k, v)
                          \/ deleteTableRows(s, k)
       \/ importTableSheet(s, v) \/ deleteTableColumn(s, v)
  /\ UNCHANGED <<online, page, asked, happened>>

OthersList ==
  /\ \E s \in Tabs : List(s)
  /\ UNCHANGED <<online, page, asked, happened>>

Answer(i, s) ==
  LET r == asked[i] IN
  asked' = [asked EXCEPT ![i] =
    [r EXCEPT !.sheet = s, !.at = clock',
              !.got = IF r.op \in {"load"} \cup RowOps THEN store'[s] ELSE r.got,
              !.list = IF r.op \in {"list", "delete"} THEN tabs' ELSE r.list]]

Refuse(i) == asked' = [asked EXCEPT ![i].at = Refused] /\ UNCHANGED <<server, feed>>

(* The server serves one request, in any order.                            *)
Serve ==
  /\ \E i \in DOMAIN asked :
       LET r == asked[i] IN
       /\ r.at = Pending
       /\ \/ /\ r.op = "list" \/ (r.op = "load" /\ r.sheet \in tabs)
             /\ UNCHANGED <<server, feed>> /\ Answer(i, r.sheet)
          \/ r.op \notin {"list", "create"} /\ r.sheet \notin tabs /\ Refuse(i)
          \/ r.op = "create" /\ \E s \in Tabs \ made : List(s) /\ Answer(i, s)
          \/ r.op = "delete" /\ r.sheet \in tabs /\ List(r.sheet) /\ Answer(i, r.sheet)
          \/ r.op = "add" /\ addTableRow(r.sheet, r.key, r.value) /\ Answer(i, r.sheet)
          \/ r.op = "drop" /\ deleteTableRows(r.sheet, r.key) /\ Answer(i, r.sheet)
          \/ r.op = "import" /\ importTableSheet(r.sheet, r.value) /\ Answer(i, r.sheet)
          \/ r.op = "column" /\ deleteTableColumn(r.sheet, r.value) /\ Answer(i, r.sheet)
          \/ r.op = "patch" /\ updateTableRows(r.sheet, r.key, r.value) /\ Answer(i, r.sheet)
          \/ /\ r.op = "patch" /\ r.sheet \in tabs
             /\ store[r.sheet][r.key] = Gone /\ Refuse(i)
  /\ UNCHANGED <<online, page, happened>>

-----------------------------------------------------------------------------
(* The grid and its answers.                                               *)

(* The rows of reply r replace those shown.  A reply of another sheet and  *)
(* one older than an event already applied are applied all the same; one   *)
(* that is still true, read off an open stream while no edit is on its way *)
(* whose failure would put older rows back, ends what went wrong.          *)
Later(n) == IF n > heard THEN n ELSE heard

Cures(r) ==
  /\ r.sheet = active /\ r.at >= clock /\ r.at >= heard /\ online
  /\ \A i \in DOMAIN asked : asked[i].op # "patch"

Take(r) ==
  /\ rows' = r.got /\ last' = {r.got} /\ heard' = Later(r.at)
  /\ strange' = {o \in {"crossed", "older"} : /\ rows # r.got
                                             /\ \/ o = "crossed" /\ r.sheet # active
                                                \/ o = "older" /\ r.at < heard}
                 \cup (IF ~Cures(r) THEN strange
                       ELSE IF r.first THEN {} ELSE strange \cap {"jumped"})

applyPayload(r) ==
  /\ loading' = (loading /\ ~r.first)
  /\ error' = FALSE
  /\ \/ /\ editing \/ (last = {r.got} /\ rows # r.got)
        /\ strange' = strange \cup {IF editing THEN "held" ELSE "same"}
        /\ heard' = Later(r.at)
        /\ UNCHANGED <<rows, last>>
     \/ ~editing /\ (last # {r.got} \/ rows = r.got) /\ Take(r)
  /\ UNCHANGED <<active, editing, undo, redo>>

(* setActiveSheetId, resetSheetUiState and setLoading(true): another sheet *)
(* closes the stream and loads; the sheet shown already only waits.        *)
ShowSheet(s, waiting) ==
  /\ active' = s /\ loading' = TRUE
  /\ undo' = <<>> /\ redo' = <<>> /\ last' = Unseen
  /\ IF s = active
     THEN /\ strange' = strange \cup {"jumped"}
          /\ asked' = waiting
          /\ UNCHANGED <<feed, online, heard>>
     ELSE /\ asked' = Append(waiting, Load(s, TRUE))
          /\ feed' = <<>> /\ online' = FALSE /\ heard' = 0
          /\ UNCHANGED strange
  /\ UNCHANGED editing

(* A refused or unanswered edit puts back every row as it was before it.   *)
RollBack(r) ==
  /\ rows' = r.before /\ last' = {r.before}
  /\ strange' = strange \cup {o \in {"crossed", "undone", "unanswered"} :
                               \/ o = "crossed" /\ r.sheet # active
                               \/ o = "undone" /\ (\/ r.late
                                                   \/ rows # [r.before EXCEPT ![r.key] = r.value])
                               \/ o = "unanswered" /\ r.at >= 0}
  /\ UNCHANGED <<heard, active, loading, error, editing, undo, redo>>

Failed(r) ==
  \/ r.op = "patch" /\ RollBack(r)
  \/ /\ r.op = "load"
     /\ loading' = (loading /\ ~r.first)
     /\ error' = (error \/ r.first)
     /\ strange' = IF r.first THEN strange ELSE strange \cup {"missed"}
     /\ UNCHANGED <<heard, active, rows, last, editing, undo, redo>>
  \/ r.op = "list" /\ strange' = strange \cup {"missed"}
     /\ UNCHANGED <<heard, active, rows, loading, error, last, editing, undo, redo>>
  \/ r.op \in RowOps \cup {"create", "delete"} /\ UNCHANGED page

Succeeded(i) ==
  LET r == asked[i] IN
  \/ /\ r.op = "load" /\ applyPayload(r)
     /\ asked' = Late(AnswersWithout(i)) /\ UNCHANGED <<feed, online>>
  \/ /\ r.op = "patch"
     /\ asked' = AnswersWithout(i) /\ UNCHANGED <<page, feed, online>>
  \/ /\ r.op \in RowOps /\ Take(r) /\ editing' = TRUE
     /\ asked' = Late(AnswersWithout(i))
     /\ UNCHANGED <<active, loading, error, undo, redo, feed, online>>
  \/ r.op = "create" /\ ShowSheet(r.sheet, AnswersWithout(i)) /\ rows' = Blank /\ error' = FALSE
  \/ /\ r.op \in {"list", "delete"} \* the sheet this grid showed when it asked is not listed
     /\ r.first /\ r.sheet \notin r.list
     /\ r.list # {} \/ r.op = "delete"
     /\ \E s \in (IF r.list = {} THEN {Nowhere} ELSE r.list) : ShowSheet(s, AnswersWithout(i))
     /\ UNCHANGED <<rows, error>>
  \/ /\ r.op \in {"list", "delete"}
     /\ ~r.first \/ r.sheet \in r.list \/ (r.list = {} /\ r.op = "list")
     /\ asked' = AnswersWithout(i) /\ UNCHANGED <<page, feed, online>>

ArriveAtGrid ==
  /\ \E i \in DOMAIN asked :
       \/ asked[i].at >= 0 /\ Succeeded(i)
       \/ /\ asked[i].at = Refused /\ Failed(asked[i])
          /\ asked' = AnswersWithout(i) /\ UNCHANGED <<feed, online>>
  /\ UNCHANGED <<server, happened>>

(* A request does not reach the server, or its answer does not come back;  *)
(* the first load of a sheet is tried six times before it gives up.        *)
Lose ==
  /\ Happens
  /\ \E i \in DOMAIN asked : Failed(asked[i]) /\ asked' = AnswersWithout(i)
  /\ UNCHANGED <<server, feed, online>>

(* es.onmessage                                                            *)
Hear ==
  /\ feed # <<>> /\ feed' = Tail(feed)
  /\ LET e == Head(feed) IN
     \/ /\ e.key = SheetList /\ Room
        /\ asked' = Append(asked, [Asking("list", active) EXCEPT !.first = TRUE])
        /\ UNCHANGED <<rows, heard>>
     \/ /\ e.key # SheetList /\ e.sheet # active
        /\ UNCHANGED <<rows, heard, asked>>
     \/ /\ e.key = AllRows /\ e.sheet = active /\ Room
        /\ asked' = Append(asked, Load(active, FALSE))
        /\ UNCHANGED <<rows, heard>>
     \/ /\ e.key \in RowKeys /\ e.sheet = active
        /\ rows' = [rows EXCEPT ![e.key] = e.value]
        /\ heard' = e.no
        /\ asked' = Late(asked)
  /\ UNCHANGED <<server, online, active, loading, error, last, editing, undo, redo,
                 happened, strange>>

(* es.onopen, also after the browser reconnected: one whole load.          *)
onopenQuietly == online' = TRUE /\ UNCHANGED asked
onopen == online' = TRUE /\ Room /\ asked' = Append(asked, Load(active, FALSE))

Open == ~online /\ onopen /\ UNCHANGED <<server, feed, page, happened>>

Break ==
  /\ online /\ Happens
  /\ online' = FALSE /\ feed' = <<>>
  /\ UNCHANGED <<server, page, asked>>

-----------------------------------------------------------------------------
(* The user.                                                               *)
Acting == Happens /\ UNCHANGED server

(* commitRows and applyHistory: shown at once, then sent.                  *)
Put(k, v) ==
  /\ rows' = (IF rows[k] = Gone THEN rows ELSE [rows EXCEPT ![k] = v])
  /\ last' = {rows'} /\ editing' = TRUE
  /\ IF rows[k] = Gone THEN UNCHANGED asked
     ELSE /\ Room
          /\ asked' = Append(asked, [Asking("patch", active) EXCEPT
                                       !.key = k, !.value = v, !.before = rows])
  /\ UNCHANGED <<feed, online, heard, active, loading, error, strange>>

collectEdits(k, v) == [key |-> k, before |-> rows[k], after |-> v]

Newest(s) == IF Len(s) > HistoryLimit THEN Tail(s) ELSE s

onRowsChange ==
  /\ Acting /\ ~loading
  /\ \E k \in RowKeys, v \in CellValues :
       /\ rows[k] \notin {Gone, v}
       /\ Put(k, v)
       /\ undo' = Newest(Append(undo, collectEdits(k, v)))
       /\ redo' = <<>>

handleUndo ==
  /\ Acting /\ ~loading /\ undo # <<>>
  /\ LET b == undo[Len(undo)] IN Put(b.key, b.before) /\ redo' = Append(redo, b)
  /\ undo' = SubSeq(undo, 1, Len(undo) - 1)

handleRedo ==
  /\ Acting /\ ~loading /\ redo # <<>>
  /\ LET b == redo[Len(redo)] IN Put(b.key, b.after) /\ undo' = Newest(Append(undo, b))
  /\ redo' = SubSeq(redo, 1, Len(redo) - 1)

(* The buttons of the tool bar: the rows are the reply's.                  *)
Press(op, k, v) ==
  /\ Acting /\ ~loading /\ Room
  /\ asked' = Append(asked, [Asking(op, active) EXCEPT !.key = k, !.value = v])
  /\ UNCHANGED <<feed, online, page>>

handleAddRow == \E k \in RowKeys, v \in CellValues : Press("add", k, v)
handleDeleteRows == \E k \in RowKeys : rows[k] # Gone /\ Press("drop", k, Gone)
handleDeleteColumn == \E v \in CellValues : Press("column", AllRows, v)
handleImportFile == \E v \in CellValues : Press("import", AllRows, v)

switchSheet ==
  /\ Acting /\ Room
  /\ \E s \in tabs \ {active} : ShowSheet(s, asked)
  /\ rows' = Blank /\ error' = FALSE

confirmDeleteSheet ==
  /\ Acting /\ Room
  /\ \E s \in tabs : asked' = Append(asked, [Asking("delete", s) EXCEPT !.first = (s = active)])
  /\ UNCHANGED <<feed, online, page>>

createThreadSheet == asked' = Append(asked, Asking("create", Nowhere))

submitAddSheet ==
  /\ Acting /\ Room /\ createThreadSheet
  /\ UNCHANGED <<feed, online, page>>

Retry ==
  /\ Acting /\ Room /\ error /\ ~loading /\ rows = Blank
  /\ loading' = TRUE /\ error' = FALSE
  /\ asked' = Append(asked, Load(active, TRUE))
  /\ UNCHANGED <<feed, online, heard, active, rows, last, editing, undo, redo, strange>>

(* Three seconds after the last edit payloads are shown again.             *)
EditingEnds ==
  /\ editing /\ editing' = FALSE
  /\ UNCHANGED <<server, feed, online, heard, active, rows, loading, error, last, undo, redo,
                 asked, happened, strange>>

-----------------------------------------------------------------------------
GridInit ==
  /\ tabs \in SUBSET Tabs \ {{}} /\ made = tabs
  /\ store \in [Tabs -> [RowKeys -> CellValues \cup {Gone}]]
  /\ \A s \in Tabs \ tabs : store[s] = Blank
  /\ active \in tabs
  /\ clock = 0 /\ feed = <<>> /\ online = FALSE /\ heard = 0
  /\ rows = Blank /\ loading = TRUE /\ error = FALSE /\ last = Unseen /\ editing = FALSE
  /\ undo = <<>> /\ redo = <<>>
  /\ asked = <<Load(active, TRUE)>>
  /\ happened = 0 /\ strange = {}

GridNext ==
  \/ OthersWrite \/ OthersList \/ Serve \/ ArriveAtGrid \/ Lose \/ Hear \/ Open \/ Break
  \/ onRowsChange \/ handleUndo \/ handleRedo
  \/ handleAddRow \/ handleDeleteRows \/ handleDeleteColumn \/ handleImportFile
  \/ switchSheet \/ confirmDeleteSheet \/ submitAddSheet \/ Retry \/ EditingEnds

GridSpec == GridInit /\ [][GridNext]_gridVars

(* When nothing is on its way and none of the known oddities happened, the *)
(* grid shows a sheet of the thread, has stopped waiting, and its rows are *)
(* the server's, whatever order answers and events came in (applyPayload,  *)
(* es.onopen, es.onmessage, commitRows, confirmDeleteSheet).               *)
SettledGridShowsStore ==
  (online /\ feed = <<>> /\ asked = <<>> /\ ~error /\ strange = {})
    => /\ ~loading
       /\ active \in tabs => rows = store[active]
       /\ tabs # {} => active \in tabs
====
