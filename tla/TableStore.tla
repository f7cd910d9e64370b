----------------------------- MODULE TableStore -----------------------------
(***************************************************************************)
(* The sheets of the table panel (apps/server/src/table-store.ts): the      *)
(* in-memory store every request works on, the chain of writes that copies   *)
(* each sheet to the database, sheet deletion, shutdown and restart.         *)
(*                                                                         *)
(* Every call that changes a sheet queues one write, so an edit names its    *)
(* write too; a deletion names the write of the sheet it may have to seed.   *)
(* A row is a pair <<key, value>>, and an edit is the key of the row it adds *)
(* and the value of the cells it sets; a column and a name are the edit that  *)
(* gave them.  Database calls are single steps, in the order of the code.     *)
(*                                                                         *)
(* Left out: what a cell may hold (sanitizePatch), queries, change events,    *)
(* the thread a sheet belongs to, a crash during the first boot's seeding.    *)
(***************************************************************************)
EXTENDS Naturals, Sequences, FiniteSets

CONSTANTS
  Sheets,   \* sheet ids
  Main,     \* DEFAULT_TABLE_SHEET
  Edits,    \* calls that change a sheet, at most one each
  Removals, \* calls of deleteTableSheet
  Faults,   \* what may go wrong, a subset of FaultKinds
  None

\* "write", "remove": the database refuses a call of a write, of a deletion;
\* "crash": the server dies; "overlap": a sheet is changed while it is deleted;
\* "late": a sheet is edited after the shutdown has begun to flush.
FaultKinds == {"write", "remove", "crash", "overlap", "late"}

ASSUME MainAssumption == Main \in Sheets
ASSUME DistinctAssumption == Edits \cap Removals = {} /\ None \notin Edits \cup Removals \cup Sheets
ASSUME FaultsAssumption == Faults \subseteq FaultKinds
ASSUME AbsentAssumption == "absent" \notin Edits \cup {None}

VARIABLES
  sheets,   \* sheetStore
  chain,    \* persistChains: the last write queued for each sheet
  on,       \* the sheet each write is for
  waits,    \* the write it was queued behind
  step,     \* how far it is
  todo,     \* what it still has to store in its current step
  held,     \* the sheet object it works on, once that left the store
  db,       \* the tables table_sheet, table_column and table_row
  removal,  \* how far each deletion is
  doomed,   \* the sheet it deletes
  awaits,   \* the write it waits for
  phase,    \* of the server
  flushing, \* the writes the shutdown waits for
  crossed,  \* the sheets that were changed, or deleted again, while they were deleted
  late      \* the sheets that were edited after the shutdown had begun to flush
            \* (both are histories of this process)

writeVars == <<on, waits, step, todo, held>>
removalVars == <<removal, doomed, awaits>>
serverVars == <<phase, flushing>>
vars == <<sheets, chain, writeVars, db, removalVars, serverVars, crossed, late>>

Writes == Edits \cup Removals
Named(n) == [name |-> n, cols |-> <<>>, rows |-> <<>>]
Absent == Named("absent")
Present(s) == sheets[s].name # "absent"

Writing == {"naming", "droppingColumns", "columns", "droppingRows", "rows"}
Queued == {"waiting"} \cup Writing
Deleting == {"waiting", "sheet", "columns", "rows", "forget", "seeding"}
Serving == phase = "up" \/ ("late" \in Faults /\ phase \in {"flushing", "closing"})
Doomed(s) == \E r \in Removals : removal[r] \in Deleting /\ doomed[r] = s

Init ==
  /\ sheets = [s \in Sheets |-> IF s = Main THEN Named(None) ELSE Absent]
  /\ db = sheets
  /\ chain = [s \in Sheets |-> None]
  /\ on = [w \in Writes |-> None]
  /\ waits = [w \in Writes |-> None]
  /\ step = [w \in Writes |-> "unused"]
  /\ todo = [w \in Writes |-> <<>>]
  /\ held = [w \in Writes |-> Absent]
  /\ removal = [r \in Removals |-> "unused"]
  /\ doomed = [r \in Removals |-> None]
  /\ awaits = [r \in Removals |-> None]
  /\ phase = "up"
  /\ flushing = {}
  /\ crossed = {}
  /\ late = {}

-----------------------------------------------------------------------------
(* Calls that change a sheet: in memory at once, then a write is queued. *)

\* Mutants of Enqueue: the write does not wait; no write is queued behind another.
EnqueueAtOnce(w, s) ==
  /\ on' = [on EXCEPT ![w] = s]
  /\ step' = [step EXCEPT ![w] = "waiting"]
  /\ chain' = [chain EXCEPT ![s] = w]
  /\ UNCHANGED <<waits, todo, held>>
EnqueueOnce(w, s) ==
  /\ on' = [on EXCEPT ![w] = s]
  /\ waits' = [waits EXCEPT ![w] = chain[s]]
  /\ step' = [step EXCEPT ![w] = IF chain[s] = None THEN "waiting" ELSE "done"]
  /\ chain' = [chain EXCEPT ![s] = IF @ = None THEN w ELSE @]
  /\ UNCHANGED <<todo, held>>

\* enqueuePersist, behind the last write of the sheet.
Enqueue(w, s) ==
  /\ on' = [on EXCEPT ![w] = s]
  /\ waits' = [waits EXCEPT ![w] = chain[s]]
  /\ step' = [step EXCEPT ![w] = "waiting"]
  /\ chain' = [chain EXCEPT ![s] = w]
  /\ UNCHANGED <<todo, held>>

\* An edit that leaves sheet s as c.
Change(e, s, c) ==
  /\ step[e] = "unused"
  /\ Serving
  /\ Doomed(s) => "overlap" \in Faults
  /\ sheets' = [sheets EXCEPT ![s] = c]
  /\ Enqueue(e, s)
  /\ crossed' = crossed \cup {t \in {s} : Doomed(t)}
  /\ late' = late \cup {t \in {s} : phase # "up"}
  /\ UNCHANGED <<db, removalVars, serverVars>>

Keys(s) == {sheets[s].rows[i][1] : i \in DOMAIN sheets[s].rows}

\* filter: what is left of a list without the elements at some places, in order.
Kept(list, gone) ==
  LET left == DOMAIN list \ gone
  IN [j \in 1..Cardinality(left) |->
        list[CHOOSE i \in left : Cardinality({k \in left : k <= i}) = j]]

\* createTableSheet: slugifySheetId picks an id that is not in use.
CreateSheet(e, s) == ~Present(s) /\ Change(e, s, Named(e))

RenameSheet(e, s) == Present(s) /\ Change(e, s, [sheets[s] EXCEPT !.name = e])

AddRow(e, s) == Present(s) /\ Change(e, s, [sheets[s] EXCEPT !.rows = Append(@, <<e, e>>)])

\* updateTableRow and updateTableRows: the rows with these keys.
UpdateRows(e, s, keys) ==
  /\ Present(s)
  /\ keys # {}
  /\ Change(e, s, [sheets[s] EXCEPT !.rows =
       [i \in DOMAIN @ |-> IF @[i][1] \in keys THEN <<@[i][1], e>> ELSE @[i]]])

DeleteRows(e, s, keys) ==
  /\ Present(s)
  /\ keys # {}
  /\ Change(e, s, [sheets[s] EXCEPT !.rows = Kept(@, {i \in DOMAIN @ : @[i][1] \in keys})])

\* restoreDeletedTableRows, for one row k of the sheet, behind the first n rows.
RestoreRow(e, s, k, n) ==
  /\ Present(s)
  /\ on[k] = s
  /\ k \notin Keys(s)
  /\ Change(e, s, [sheets[s] EXCEPT !.rows =
       SubSeq(@, 1, n) \o <<<<k, k>>>> \o SubSeq(@, n + 1, Len(@))])

AddColumn(e, s) == Present(s) /\ Change(e, s, [sheets[s] EXCEPT !.cols = Append(@, e)])

DeleteColumn(e, s, col) ==
  /\ Present(s)
  /\ Change(e, s, [sheets[s] EXCEPT !.cols = Kept(@, {i \in DOMAIN @ : @[i] = col})])

\* importTableSheet replaces the columns and the rows.
Import(e, s) ==
  /\ Present(s)
  /\ Change(e, s, [sheets[s] EXCEPT !.cols = <<e>>, !.rows = <<<<e, e>>>>])

Edit(e) ==
  \E s \in Sheets :
    \/ CreateSheet(e, s) \/ RenameSheet(e, s) \/ AddRow(e, s) \/ AddColumn(e, s) \/ Import(e, s)
    \/ \E keys \in SUBSET Keys(s) : UpdateRows(e, s, keys) \/ DeleteRows(e, s, keys)
    \/ \E k \in Edits, n \in 0..Len(sheets[s].rows) : RestoreRow(e, s, k, n)
    \/ \E i \in DOMAIN sheets[s].cols : DeleteColumn(e, s, sheets[s].cols[i])

-----------------------------------------------------------------------------
(* persistSheetLatest *)

\* The object a write works on: it was read from the store at the start.
Object(w) == IF held[w] # Absent THEN held[w] ELSE sheets[on[w]]

\* The write is over, done or failed; nobody queues behind it any more.
Over == {"done", "failed"}
Ended(w, how) ==
  /\ step' = [step EXCEPT ![w] = how]
  /\ chain' = [chain EXCEPT ![on[w]] = IF @ = w THEN None ELSE @]
  /\ UNCHANGED todo

Advance(w, to, what) ==
  /\ step' = [step EXCEPT ![w] = to]
  /\ todo' = [todo EXCEPT ![w] = what]
  /\ UNCHANGED chain

Begin(w) ==
  /\ step[w] = "waiting"
  /\ waits[w] # None => step[waits[w]] \in Over
  /\ IF Present(on[w]) THEN Advance(w, "naming", <<sheets[on[w]].name>>)
     ELSE Ended(w, "done")
  /\ UNCHANGED <<sheets, on, waits, held, db, removalVars, serverVars, crossed, late>>

\* The database takes calls.
Connected == phase # "closed"

\* upsertTableSheet, then the columns are read.
StoreName(w) ==
  /\ step[w] = "naming"
  /\ Connected
  /\ db' = [db EXCEPT ![on[w]].name = todo[w][1]]
  /\ Advance(w, "droppingColumns", Object(w).cols)
  /\ UNCHANGED <<sheets, on, waits, held, removalVars, serverVars, crossed, late>>

\* After the last column the rows are read.
ColumnsLeft(w, cols) ==
  IF cols = <<>> THEN Advance(w, "droppingRows", Object(w).rows) ELSE Advance(w, "columns", cols)
RowsLeft(w, rows) == IF rows = <<>> THEN Ended(w, "done") ELSE Advance(w, "rows", rows)

\* replaceTableColumns and replaceTableRows: all are deleted, then stored one by one.
DropColumns(w) ==
  /\ step[w] = "droppingColumns"
  /\ Connected
  /\ db' = [db EXCEPT ![on[w]].cols = <<>>]
  /\ ColumnsLeft(w, todo[w])
  /\ UNCHANGED <<sheets, on, waits, held, removalVars, serverVars, crossed, late>>

StoreColumn(w) ==
  /\ step[w] = "columns"
  /\ Connected
  /\ db' = [db EXCEPT ![on[w]].cols = Append(@, Head(todo[w]))]
  /\ ColumnsLeft(w, Tail(todo[w]))
  /\ UNCHANGED <<sheets, on, waits, held, removalVars, serverVars, crossed, late>>

DropRows(w) ==
  /\ step[w] = "droppingRows"
  /\ Connected
  /\ db' = [db EXCEPT ![on[w]].rows = <<>>]
  /\ RowsLeft(w, todo[w])
  /\ UNCHANGED <<sheets, on, waits, held, removalVars, serverVars, crossed, late>>

StoreRow(w) ==
  /\ step[w] = "rows"
  /\ Connected
  /\ db' = [db EXCEPT ![on[w]].rows = Append(@, Head(todo[w]))]
  /\ RowsLeft(w, Tail(todo[w]))
  /\ UNCHANGED <<sheets, on, waits, held, removalVars, serverVars, crossed, late>>

\* The error is logged, and the chain goes on.
WriteFails(w) ==
  /\ step[w] \in Writing
  /\ "write" \in Faults \/ ~Connected
  /\ Ended(w, "failed")
  /\ UNCHANGED <<sheets, on, waits, held, db, removalVars, serverVars, crossed, late>>

-----------------------------------------------------------------------------
(* deleteTableSheet *)

Moved(r, to) == removal' = [removal EXCEPT ![r] = to]

\* Mutant of DeleteSheet: the queued writes are not awaited.
DeleteSheetAtOnce(r, s) ==
  /\ removal[r] = "unused"
  /\ phase = "up"
  /\ Doomed(s) => "overlap" \in Faults
  /\ Present(s)
  /\ Moved(r, "sheet")
  /\ doomed' = [doomed EXCEPT ![r] = s]
  /\ chain' = [chain EXCEPT ![s] = None]
  /\ crossed' = crossed \cup {t \in {s} : Doomed(t)}
  /\ UNCHANGED <<sheets, writeVars, db, awaits, serverVars, late>>

\* The last queued write is awaited, if there is one.
DeleteSheet(r, s) ==
  /\ removal[r] = "unused"
  /\ phase = "up"
  /\ Doomed(s) => "overlap" \in Faults
  /\ Present(s)
  /\ Moved(r, IF chain[s] = None THEN "sheet" ELSE "waiting")
  /\ doomed' = [doomed EXCEPT ![r] = s]
  /\ awaits' = [awaits EXCEPT ![r] = chain[s]]
  /\ crossed' = crossed \cup {t \in {s} : Doomed(t)}
  /\ UNCHANGED <<sheets, chain, writeVars, db, serverVars, late>>

\* persistChains.delete: whatever is queued by now.
Unchain(r) ==
  /\ removal[r] = "waiting"
  /\ step[awaits[r]] \in Over
  /\ Moved(r, "sheet")
  /\ chain' = [chain EXCEPT ![doomed[r]] = None]
  /\ UNCHANGED <<sheets, writeVars, db, doomed, awaits, serverVars, crossed, late>>

\* deleteTableSheet of the database: the sheet, its columns, its rows.
DeleteStored(r) ==
  /\ Connected
  /\ \/ /\ removal[r] = "sheet"
        /\ db' = [db EXCEPT ![doomed[r]].name = "absent"]
        /\ Moved(r, "columns")
     \/ /\ removal[r] = "columns"
        /\ db' = [db EXCEPT ![doomed[r]].cols = <<>>]
        /\ Moved(r, "rows")
     \/ /\ removal[r] = "rows"
        /\ db' = [db EXCEPT ![doomed[r]].rows = <<>>]
        /\ Moved(r, "forget")
  /\ UNCHANGED <<sheets, chain, writeVars, doomed, awaits, serverVars, crossed, late>>

\* The caller is told that the sheet could not be deleted.
RemoveFails(r) ==
  /\ removal[r] \in {"sheet", "columns", "rows"}
  /\ "remove" \in Faults \/ ~Connected
  /\ Moved(r, "failed")
  /\ UNCHANGED <<sheets, chain, writeVars, db, doomed, awaits, serverVars, crossed, late>>

\* The sheet leaves the store; writes under way keep their object.  The last
\* sheet is followed by a new default sheet, whose write is awaited.
Forget(r) ==
  /\ removal[r] = "forget"
  /\ LET s == doomed[r]
         left == {q \in Sheets \ {s} : Present(q)}
     IN /\ IF left # {}
           THEN /\ sheets' = [sheets EXCEPT ![s] = Absent]
                /\ Moved(r, "removed")
                /\ UNCHANGED <<chain, on, waits, step, todo>>
           ELSE /\ sheets' = [sheets EXCEPT ![s] = Absent, ![Main] = Named(None)]
                /\ Moved(r, "seeding")
                /\ on' = [on EXCEPT ![r] = Main]
                /\ waits' = [waits EXCEPT ![r] = chain[Main]]
                /\ step' = [step EXCEPT ![r] = "waiting"]
                /\ chain' = [chain EXCEPT ![Main] = r]
                /\ UNCHANGED todo
        /\ held' = [w \in Writes |-> IF step[w] \in Writing /\ on[w] = s /\ held[w] = Absent
                                     THEN sheets[s] ELSE held[w]]
  /\ UNCHANGED <<db, doomed, awaits, serverVars, crossed, late>>

Seeded(r) ==
  /\ removal[r] = "seeding"
  /\ step[r] \in Over
  /\ Moved(r, "removed")
  /\ UNCHANGED <<sheets, chain, writeVars, db, doomed, awaits, serverVars, crossed, late>>

-----------------------------------------------------------------------------
(* Shutdown, crash and boot *)

\* Mutant of Flush: nothing is awaited.
FlushNothing ==
  /\ phase = "up"
  /\ phase' = "flushing"
  /\ flushing' = {}
  /\ UNCHANGED <<sheets, chain, writeVars, db, removalVars, crossed, late>>

\* flushTablePersists: the writes that are the last of their chain now.
Flush ==
  /\ phase = "up"
  /\ phase' = "flushing"
  /\ flushing' = {chain[s] : s \in Sheets} \ {None}
  /\ UNCHANGED <<sheets, chain, writeVars, db, removalVars, crossed, late>>

Flushed ==
  /\ phase = "flushing"
  /\ \A w \in flushing : step[w] \in Over
  /\ phase' = "closing"
  /\ UNCHANGED <<sheets, chain, writeVars, db, removalVars, flushing, crossed, late>>

\* app.close lets the requests in progress end, then the database is closed.
Close ==
  /\ phase = "closing"
  /\ \A r \in Removals : removal[r] \notin Deleting
  /\ phase' = "closed"
  /\ UNCHANGED <<sheets, chain, writeVars, db, removalVars, flushing, crossed, late>>

\* What the database holds of a sheet that is listed in table_sheet.
Stored(s) == IF db[s].name = "absent" THEN Absent ELSE db[s]

\* initTableStore of the next process: a database without sheets is seeded.
Restart ==
  /\ phase = "closed" \/ "crash" \in Faults
  /\ db' = IF \A s \in Sheets : db[s].name = "absent" THEN [db EXCEPT ![Main] = Named(None)] ELSE db
  /\ sheets' = [s \in Sheets |-> Stored(s)']
  /\ chain' = [s \in Sheets |-> None]
  /\ step' = [w \in Writes |-> IF step[w] = "unused" THEN "unused" ELSE "done"]
  /\ todo' = [w \in Writes |-> <<>>]
  /\ held' = [w \in Writes |-> Absent]
  /\ removal' = [r \in Removals |-> IF removal[r] \in {"unused", "removed"} THEN removal[r] ELSE "lost"]
  /\ phase' = "up"
  /\ flushing' = {}
  /\ crossed' = {}
  /\ late' = {}
  /\ UNCHANGED <<on, waits, doomed, awaits>>

-----------------------------------------------------------------------------
Persist(w) ==
  \/ Begin(w) \/ StoreName(w) \/ DropColumns(w) \/ StoreColumn(w) \/ DropRows(w) \/ StoreRow(w)
  \/ WriteFails(w)

Deletion(r) == Unchain(r) \/ DeleteStored(r) \/ RemoveFails(r) \/ Forget(r) \/ Seeded(r)

Next ==
  \/ \E e \in Edits : Edit(e)
  \/ \E r \in Removals, s \in Sheets : DeleteSheet(r, s)
  \/ \E w \in Writes : Persist(w)
  \/ \E r \in Removals : Deletion(r)
  \/ Flush \/ Flushed \/ Close
  \/ Restart

Spec == Init /\ [][Next]_vars

-----------------------------------------------------------------------------
(* Correctness *)

\* A call of the database was refused since the server started: the sheet is stored
\* in part until it is changed again.
Torn(s) ==
  \/ \E w \in Writes : on[w] = s /\ step[w] = "failed"
  \/ \E r \in Removals : doomed[r] = s /\ removal[r] = "failed"

\* A sheet that no write and no deletion works on is stored exactly as it is shown;
\* one that is not shown is not stored.  So a crash loses only what is being written.
\* (Until the next start this is not said of a sheet in crossed.)
Settled ==
  \A s \in Sheets \ crossed :
    (~Torn(s) /\ ~Doomed(s) /\ \A w \in Writes : on[w] = s => step[w] \notin Queued)
      => sheets[s] = Stored(s)

\* "Per-sheet serial persist chain so concurrent fire-and-forget writes cannot
\* interleave" (table-store.ts): no two writes store the same sheet at a time, unless
\* it was changed while it was deleted.
WritesAreSerial ==
  \A v, w \in Writes :
    (step[v] \in Writing /\ step[w] \in Writing /\ on[v] = on[w])
      => v = w \/ on[v] \in crossed

\* What left the store is not stored again.
StaysGone(s) == (~Present(s) /\ ~Doomed(s)) => db[s].name = "absent"

\* A deleted sheet stays deleted ("otherwise a queued write can resurrect the
\* sheet", table-store.ts), whatever was done to it meanwhile.
NoResurrection == \A s \in Sheets : StaysGone(s)

\* When the database is closed, everything the users saw is in it ("Wait for
\* in-flight sheet persists (call before closing the DB)", table-store.ts), but for
\* the sheets in crossed and those edited too late.
ShutdownKeepsAll ==
  phase = "closed" => \A s \in Sheets \ (crossed \cup late) : Torn(s) \/ sheets[s] = Stored(s)

\* While the server runs and when it has stopped, the database has what was shown:
\* Settled, and ShutdownKeepsAll.
StoreFollowsMemory == Settled /\ ShutdownKeepsAll

\* One write of a sheet at a time, and none after its deletion: WritesAreSerial, and
\* what NoResurrection says of the sheets nobody changed during their deletion.
SheetsAreWrittenInTurn == WritesAreSerial /\ \A s \in Sheets \ crossed : StaysGone(s)

=============================================================================
