---- MODULE MCTableParts ----
(* The tables of a thread: their store in the server, and the agent's tools that
   write and read a sheet.  The parts share no state, so one run checks them one at
   a time. *)
EXTENDS TableStore, TableTools, TableReads, TLC

CONSTANTS main, other, e1, e2, r1, r2

Symmetry == Permutations(Edits) \cup Permutations(Removals)

(* What the agent and the user may ask of the table tools.                 *)
Field(name) == <<name, 0>>
Update(r, f, v) == <<[row |-> r, field |-> f, value |-> v]>>
Operation(op) == [op |-> op, rows |-> {}, name |-> "note", field |-> Field("note")]

SomeBatches ==
  {Update(1, Field("note"), v) : v \in {0, 2}}
  \cup {Update(r, <<"status", Shown>>, v) : r \in 1..2, v \in {1, 2}}
  \cup {Update(1, Field("status"), 1) \o Update(r, <<"status", Shown>>, 0) : r \in 1..2}

RowsGone(ids) == [Operation("delete_rows") EXCEPT !.rows = ids]
ColumnGone(f) == [Operation("delete_columns") EXCEPT !.field = f]
SomeOperations ==
  {Operation("add_rows"), Operation("add_columns"), ColumnGone(Field("note")), RowsGone({1}), RowsGone({1, 2})}

SomeStructures ==
  {<<o>> : o \in SomeOperations}
  \cup {<<Operation("add_rows"), RowsGone({2, 3})>>, <<Operation("add_rows"), ColumnGone(<<"note", Shown>>)>>}

SomeHandWrites ==
  {[kind |-> "cells", what |-> Update(1, Field("status"), 1)], [kind |-> "cells", what |-> Update(2, Field("note"), 2)],
   [kind |-> "structure", what |-> <<RowsGone({1})>>], [kind |-> "structure", what |-> <<Operation("add_rows")>>]}

(* What the agent may ask to read.                                         *)
SomeQuestions ==
  {Anything, [Anything EXCEPT !.keys = {1, 3}], [Anything EXCEPT !.text = 1],
   [Anything EXCEPT !.sort = <<"status", Shown>>],
   [Anything EXCEPT !.sort = Field("status"), !.descending = TRUE],
   [Anything EXCEPT !.group = Field("status")],
   [Anything EXCEPT !.group = Field("status"), !.byCount = TRUE, !.descending = TRUE]}
  \cup {[Anything EXCEPT !.filters = <<[field |-> Field("status"), op |-> o, value |-> 1]>>]
          : o \in {"empty", "not_empty", "eq", "gt"}}

VARIABLE subject  \* the part this behaviour is about; the others stay as they began

partsVars == <<subject, vars, toolVars, readVars>>

NoRows == [columns |-> <<>>, rows |-> <<>>] \* the sheet of the parts a behaviour is not about

PartsInit ==
  /\ subject \in {"store", "crossed store", "table tools", "table reads"}
  /\ IF subject = "table reads" THEN ReadsInit
     ELSE sheetRead = NoRows /\ reading = NotReading /\ writes = 0 /\ disturbed = FALSE
  /\ IF subject = "table tools" THEN ToolsInit
     ELSE sheetNow = NoRows /\ written = <<>> /\ madeSoFar = 0 /\ rewound = NotRewound
  /\ Init

\* One deletion, and nothing is refused while the database is open: what calls that
\* cross a deletion or the shutdown do to the other sheets.
FewerFailures ==
  /\ \E r \in Removals : removal'[r] = "unused"
  /\ \A r \in Removals : removal'[r] # "failed"
  /\ \A w \in Writes : step'[w] = "failed" => phase = "closed"

PartsNext ==
  /\ UNCHANGED subject
  /\ \/ subject = "store" /\ Next /\ crossed' = {} /\ late' = {} /\ UNCHANGED <<toolVars, readVars>>
     \/ subject = "crossed store" /\ Next /\ FewerFailures /\ UNCHANGED <<toolVars, readVars>>
     \/ subject = "table tools" /\ ToolsNext /\ UNCHANGED <<vars, readVars>>
     \/ subject = "table reads" /\ ReadsNext /\ UNCHANGED <<vars, toolVars>>

PartsSpec == PartsInit /\ [][PartsNext]_partsVars
====
