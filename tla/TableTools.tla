---- MODULE TableTools ----
(***************************************************************************)
(* The writing tools of the agent on one sheet (server/src/table-tools.ts) *)
(* and what becomes of their answers: the transcript keeps them, the page  *)
(* counts from them what a reply changed (web/src/lib/table-tool-diff.ts), *)
(* and when the user goes back in the conversation the server undoes the   *)
(* calls of the dropped replies from them, newest first                    *)
(* (server/src/table-transcript-restore.ts).  The user also writes by      *)
(* hand, which no answer tells of.                                         *)
(*                                                                         *)
(* A call is one step, as none of its parts waits for anything.  That a    *)
(* call belongs to the thread of its sheet, its limits, and the tools of   *)
(* older transcripts are left out.                                         *)
(***************************************************************************)
EXTENDS TableOps

CONSTANTS Batches,     \* the updates of a call of table_update_cells
          Structures,  \* the operations of a call of table_edit_structure
          HandWrites,  \* what the user does: an update, or an operation
          MaxWritten   \* bound: calls and writes by hand

VARIABLES sheetNow,
          written, \* the calls since the start, and the writes by hand, with the sheet each found and left
          madeSoFar, \* calls and writes by hand so far
          rewound  \* the last thing that happened, when the user went back: what was undone

toolVars == <<sheetNow, written, madeSoFar, rewound>>

NotRewound == [to |-> 0]
NewId(s) == 1 + Max({0} \cup UNION {IdsOfRows(w.found) \cup IdsOfRows(w.left) : w \in ToSet(written)} \cup IdsOfRows(s))

-----------------------------------------------------------------------------
(* table_update_cells.                                                     *)

\* Of two updates of one field of a row only the later is in the patch.
PatchOf(updates, id) ==
  LET Later(i) == \E j \in DOMAIN updates : /\ j > i /\ updates[j].row = id
                                            /\ updates[j].field = updates[i].field
      at == SetToSortSeq({i \in DOMAIN updates : updates[i].row = id /\ ~Later(i)}, <)
  IN  [n \in DOMAIN at |-> [field |-> updates[at[n]].field, value |-> updates[at[n]].value]]

RowsOf(updates) == {updates[i].row : i \in DOMAIN updates}

\* updateTableRows: every row is there and takes something of its patch, or nothing is written.
Acceptable(s, updates) ==
  \A id \in RowsOf(updates) :
    id \in IdsOfRows(s) /\ DOMAIN sanitizePatch(PatchOf(updates, id), s.columns) # {}

AfterUpdates(s, updates) ==
  FoldLeft(LAMBDA t, id : updateTableRow(t, id, PatchOf(updates, id)), s, SetToSeq(RowsOf(updates)))

CellsOf(s, updates) ==
  UNION {LET applied == sanitizePatch(PatchOf(updates, id), s.columns)
         IN  {[row |-> id, column |-> k, value |-> applied[k],
               previous |-> s.rows[RowAt(s, id)].cells[k]] : k \in DOMAIN applied} : id \in RowsOf(updates)}

applyTableCellUpdates(s, updates) ==
  IF Acceptable(s, updates)
  THEN [sheet |-> AfterUpdates(s, updates), ok |-> TRUE, cells |-> CellsOf(s, updates), results |-> <<>>]
  ELSE [sheet |-> s, ok |-> FALSE, cells |-> {}, results |-> <<>>]

-----------------------------------------------------------------------------
(* table_edit_structure: the operations in order; one that fails does not  *)
(* keep the next from being tried.                                         *)

NoResult == [op |-> "none", ok |-> TRUE, keys |-> <<>>, gone |-> <<>>]

AddRows(s, op, id) ==
  [sheet |-> WithRow(s, id),
   result |-> [NoResult EXCEPT !.op = op.op, !.keys = <<id>>]]

DeleteRowsOf(s, op) ==
  LET gone == Removed(s, op.rows)
  IN  [sheet |-> WithoutRows(s, op.rows),
       result |-> [NoResult EXCEPT !.op = op.op, !.ok = gone # <<>>, !.gone = gone]]

AddColumns(s, op) ==
  [sheet |-> WithColumn(s, op.name),
   result |-> [NoResult EXCEPT !.op = op.op, !.keys = <<slugifyColumnKey(op.name, s.columns)>>]]

DeleteColumns(s, op) ==
  LET known == Contains(s.columns, op.field)
  IN  [sheet |-> WithoutColumn(s, op.field),
       result |-> [NoResult EXCEPT !.op = op.op, !.ok = known,
                                   !.keys = IF known THEN <<op.field>> ELSE <<>>]]

Operate(s, op, id) ==
  CASE op.op = "add_rows" -> AddRows(s, op, id)
    [] op.op = "delete_rows" -> DeleteRowsOf(s, op)
    [] op.op = "add_columns" -> AddColumns(s, op)
    [] op.op = "delete_columns" -> DeleteColumns(s, op)

applyTableStructureOps(s, ops) ==
  LET One(acc, op) == LET done == Operate(acc.sheet, op, acc.next)
                      IN  [sheet |-> done.sheet, next |-> acc.next + 1,
                           results |-> Append(acc.results, done.result)]
      all == FoldLeft(One, [sheet |-> s, next |-> NewId(s), results |-> <<>>], ops)
  IN  [sheet |-> all.sheet, ok |-> \A i \in DOMAIN all.results : all.results[i].ok,
       cells |-> {}, results |-> all.results]

-----------------------------------------------------------------------------
(* Undo from the answers.                                                  *)

\* The cells of a call get back what they held, if their row and column are there.
UndoCells(s, w) ==
  LET Patch(id) == LET cells == SetToSeq({c \in w.cells : c.row = id})
                   IN  [n \in DOMAIN cells |-> [field |-> cells[n].column, value |-> cells[n].previous]]
  IN  FoldLeft(LAMBDA t, id : updateTableRow(t, id, Patch(id)), s, SetToSeq({c.row : c \in w.cells}))

UndoResult(s, result) ==
  CASE result.op = "add_rows" -> WithoutRows(s, ToSet(result.keys))
    [] result.op = "delete_rows" -> restoreDeletedTableRows(s, result.gone)
    [] OTHER -> s  \* columns are not undone

UndoStructureInOrder(s, w) ==
  FoldLeft(LAMBDA t, r : UndoResult(t, r), s, SelectSeq(w.results, LAMBDA r : r.ok))

\* The operations that did not fail, newest first.
UndoStructure(s, w) ==
  FoldRight(LAMBDA r, t : UndoResult(t, r), SelectSeq(w.results, LAMBDA r : r.ok), s)

\* A call that answered not ok is passed over, whatever parts of it were done.
undoTableCellMutation(s, w) ==
  IF w.tool = "hand" \/ ~w.ok THEN s
  ELSE IF w.tool = "cells" THEN UndoCells(s, w) ELSE UndoStructure(s, w)

undoTableCellMutations(s, calls) == FoldRight(LAMBDA w, t : undoTableCellMutation(t, w), calls, s)

-----------------------------------------------------------------------------
(* The counts the page shows for a call.                                   *)

diffUpdateCells(w) ==
  [added |-> Cardinality({c \in w.cells : c.value # Blank0}),
   removed |-> Cardinality({c \in w.cells : c.previous # Blank0})]

CountIn(results, ops, Size(_)) ==
  FoldLeft(LAMBDA n, r : IF r.ok /\ r.op \in ops THEN n + Size(r) ELSE n, 0, results)

diffEditStructure(w) ==
  [added |-> CountIn(w.results, {"add_rows", "add_columns"}, LAMBDA r : Len(r.keys)),
   removed |-> CountIn(w.results, {"delete_rows", "delete_columns"}, LAMBDA r : Len(r.keys) + Len(r.gone))]

tableToolDiff(w) ==
  IF ~w.ok THEN [added |-> 0, removed |-> 0]
  ELSE IF w.tool = "cells" THEN diffUpdateCells(w) ELSE diffEditStructure(w)

-----------------------------------------------------------------------------
Write(tool, done) ==
  /\ madeSoFar < MaxWritten /\ madeSoFar' = madeSoFar + 1
  /\ sheetNow' = done.sheet
  /\ written' = Append(written, [tool |-> tool, found |-> sheetNow, left |-> done.sheet, ok |-> done.ok,
                                 cells |-> done.cells, results |-> done.results])
  /\ rewound' = NotRewound

table_update_cells == \E updates \in Batches : Write("cells", applyTableCellUpdates(sheetNow, updates))

table_edit_structure == \E ops \in Structures : Write("structure", applyTableStructureOps(sheetNow, ops))

\* The routes of the grid use the same functions; their answers are not kept.
ByHand ==
  \E h \in HandWrites :
    /\ Write("hand", IF h.kind = "cells" THEN applyTableCellUpdates(sheetNow, h.what)
                     ELSE applyTableStructureOps(sheetNow, h.what))
    /\ sheetNow' # sheetNow

(* The conversation goes back to where it was before one of its calls; what *)
(* cannot be undone is from now on like a write by hand.                   *)
undoRemoved(from) ==
  LET over == SubSeq(written, from, Len(written))
      results == FoldLeft(LAMBDA all, w : all \o w.results, <<>>, over)
  IN  /\ rewound = NotRewound
      /\ sheetNow' = undoTableCellMutations(sheetNow, over)
      /\ rewound' = [to |-> from, over |-> over]
      /\ written' = SubSeq(written, 1, from - 1)
                    \o IF sheetNow' = over[1].found THEN <<>>
                       ELSE <<[over[1] EXCEPT !.tool = "hand", !.left = sheetNow', !.cells = {},
                                              !.results = results]>>
      /\ UNCHANGED madeSoFar

ToolsInit ==
  /\ sheetNow \in {[columns |-> [i \in 1..2 |-> IF i = 1 THEN <<n, 0>> ELSE <<StatusName, 0>>],
                    rows |-> <<[BlankRow(1) EXCEPT !.cells[<<n, 0>>] = v], BlankRow(2)>>]
                     : n \in ColumnNames \ {StatusName}, v \in Contents \ {Blank0}}
  /\ written = <<>> /\ madeSoFar = 0 /\ rewound = NotRewound

ToolsNext ==
  \/ table_update_cells \/ table_edit_structure \/ ByHand
  \/ \E from \in DOMAIN written : undoRemoved(from)

ToolsSpec == ToolsInit /\ [][ToolsNext]_toolVars

-----------------------------------------------------------------------------
(* Properties.                                                             *)

CellsIn(s) == {<<r.id, k>> : r \in ToSet(s.rows), k \in ToSet(s.columns)}
CellOf(s, c) == s.rows[RowAt(s, c[1])].cells[c[2]]

RowsTouched(s, t) ==
  {id \in IdsOfRows(s) \cup IdsOfRows(t) :
     IF id \in IdsOfRows(s) \cap IdsOfRows(t)
     THEN s.rows[RowAt(s, id)].cells # t.rows[RowAt(t, id)].cells ELSE TRUE}

(* What a rewind cannot bring back: rows changed by hand or by a call that *)
(* answered not ok, and columns made or removed.                           *)
RowsLost(over) ==
  UNION {RowsTouched(w.found, w.left) : w \in {x \in ToSet(over) : x.tool = "hand" \/ ~x.ok}}

ColumnsLost(over) ==
  UNION {UNION {ToSet(r.keys) : r \in {x \in ToSet(w.results) : x.op \in {"add_columns", "delete_columns"}}}
           : w \in ToSet(over)}

RewindRestores ==
  rewound.to > 0 =>
    LET was == rewound.over[1].found
        rowsLost == RowsLost(rewound.over)
        columnsLost == ColumnsLost(rewound.over)
    IN  /\ RowsTouched(was, sheetNow) \subseteq
             rowsLost \cup {id \in IdsOfRows(was) \cap IdsOfRows(sheetNow) :
                             \A k \in ColumnKeys \ columnsLost :
                                CellOf(was, <<id, k>>) = CellOf(sheetNow, <<id, k>>)}
        /\ rowsLost = {} => [i \in DOMAIN was.rows |-> was.rows[i].id]
                              = [i \in DOMAIN sheetNow.rows |-> sheetNow.rows[i].id]

(* What an answer tells of is all the call changed, and the counts are     *)
(* those of the sheets before and after it.                                *)
CallIsTold(w) ==
  LET told == {<<c.row, c.column>> : c \in w.cells}
      diff == tableToolDiff(w)
  IN  CASE w.tool = "cells" ->
             /\ {c \in CellsIn(w.found) : CellOf(w.left, c) # CellOf(w.found, c)} \subseteq told
             /\ diff = [added |-> Cardinality({c \in told : CellOf(w.left, c) # Blank0}),
                        removed |-> Cardinality({c \in told : CellOf(w.found, c) # Blank0})]
        [] w.tool = "structure" ->
             w.ok => diff.added - diff.removed = Len(w.left.rows) + Len(w.left.columns)
                                                 - Len(w.found.rows) - Len(w.found.columns)
        [] OTHER -> TRUE

CallsAreTold == \A i \in DOMAIN written : CallIsTold(written[i])

(* The answers of the table tools say what their calls changed, and to go  *)
(* back in a conversation brings a sheet back to what it was, but for rows *)
(* that were written by hand or by a call that partly failed, and columns. *)
TranscriptIsTrue == RewindRestores /\ CallsAreTold
====
