---- MODULE TableOps ----
(***************************************************************************)
(* What the table store does to one sheet (server/src/table-store.ts): the *)
(* operators shared by the agent's table tools (TableTools) and by its     *)
(* reading of a sheet page by page (TableReads).                           *)
(*                                                                         *)
(* A sheet is its columns and its rows, both in order.  The key of a       *)
(* column is made of its name, with a number when the key is taken; a cell *)
(* holds a number, Blank standing for the empty and for the missing one.   *)
(* Widths, frozen columns and number columns are left out, and so is a     *)
(* name that reads like another column's key.                              *)
(***************************************************************************)
EXTENDS Integers, Sequences, SequencesExt, FiniteSets

CONSTANTS ColumnNames, StatusName, \* names of columns, and the one of status columns
          Contents, Options        \* what a cell may hold, and a status cell may hold

Blank0 == 0
Shown == -1 \* <<name, Shown>> refers to a column by its display name

ASSUME TableAssumption == /\ StatusName \in ColumnNames
                          /\ Blank0 \in Contents /\ Options \subseteq Contents

KeyNumbers == 0..6 \* bound: columns of one name
ColumnKeys == ColumnNames \X KeyNumbers
NoColumn == <<>>

BlankRow(id) == [id |-> id, cells |-> [k \in ColumnKeys |-> Blank0]]
IdsOfRows(s) == {s.rows[i].id : i \in DOMAIN s.rows}
RowAt(s, id) == CHOOSE i \in DOMAIN s.rows : s.rows[i].id = id

slugifyColumnKey(name, columns) ==
  <<name, CHOOSE n \in KeyNumbers : /\ <<name, n>> \notin ToSet(columns)
                              /\ \A m \in 0..(n - 1) : <<name, m>> \in ToSet(columns)>>

\* A field of a call is a key, or else the name of the first column that has it.
findColumn(columns, field) ==
  IF Contains(columns, field) THEN field
  ELSE LET named == SelectSeq(columns, LAMBDA k : field = <<k[1], Shown>>)
       IN  IF named = <<>> THEN NoColumn ELSE Head(named)

isAllowedStatusValue(value, column) ==
  column[1] = StatusName => value \in Options \cup {Blank0}

(* sanitizePatch: the fields of known columns with values they accept; of  *)
(* two fields that mean one column the later wins.                         *)
sanitizePatch(patch, columns) ==
  LET Fine(p) == /\ findColumn(columns, p.field) # NoColumn
                 /\ isAllowedStatusValue(p.value, findColumn(columns, p.field))
      fine == SelectSeq(patch, Fine)
      Of(k) == SelectSeq(fine, LAMBDA p : findColumn(columns, p.field) = k)
  IN  [k \in {findColumn(columns, fine[i].field) : i \in DOMAIN fine} |-> Last(Of(k)).value]

WithCells(s, id, applied) ==
  [s EXCEPT !.rows[RowAt(s, id)].cells =
     [k \in ColumnKeys |-> IF k \in DOMAIN applied THEN applied[k] ELSE @[k]]]

updateTableRow(s, id, patch) ==
  IF id \in IdsOfRows(s) THEN WithCells(s, id, sanitizePatch(patch, s.columns)) ELSE s

WithRow(s, id) == [s EXCEPT !.rows = Append(@, BlankRow(id))]

\* The rows taken out, each with the place it had.
Removed(s, ids) ==
  LET at == SetToSortSeq({i \in DOMAIN s.rows : s.rows[i].id \in ids}, <)
  IN  [n \in DOMAIN at |-> [index |-> at[n], row |-> s.rows[at[n]]]]

WithoutRows(s, ids) == [s EXCEPT !.rows = SelectSeq(@, LAMBDA r : r.id \notin ids)]

\* Rows that are not there go back to the places they had, the first one first.
restoreDeletedTableRows(s, removed) ==
  LET Back(t, r) == IF r.row.id \in IdsOfRows(t) THEN t
                    ELSE [t EXCEPT !.rows = InsertAt(@, IF r.index > Len(@) + 1 THEN Len(@) + 1
                                                       ELSE r.index, r.row)]
  IN  FoldLeft(Back, s, removed)

WithColumn(s, name) == [s EXCEPT !.columns = Append(@, slugifyColumnKey(name, @))]

\* The column goes by its key only, and its cells with it.
WithoutColumn(s, field) ==
  IF ~Contains(s.columns, field) THEN s
  ELSE [columns |-> SelectSeq(s.columns, LAMBDA k : k # field),
        rows |-> [i \in DOMAIN s.rows |-> [s.rows[i] EXCEPT !.cells[field] = Blank0]]]
====
