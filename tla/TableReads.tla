---- MODULE TableReads ----
(***************************************************************************)
(* The agent reads a sheet with table_get, page after page at the offset   *)
(* the last answer names, while others write to it.  Every call runs the   *)
(* whole query again (shared/src/table-query.ts) over the sheet as it is.  *)
(*                                                                         *)
(* Cells are compared as numbers, blank first; the full text search is the *)
(* search of one value; of the aggregates there is the count of a group.   *)
(***************************************************************************)
EXTENDS TableOps

CONSTANTS ReadRows,   \* how many rows there are at first
          Questions,  \* the queries of table_get
          PageSize,   \* the limit of a call
          ReadWrites  \* bound: writes while a reading goes on

VARIABLES sheetRead, reading, writes, disturbed

readVars == <<sheetRead, reading, writes, disturbed>>

Anything == [keys |-> {}, text |-> Blank0, filters |-> <<>>, sort |-> NoColumn,
             descending |-> FALSE, group |-> NoColumn, byCount |-> FALSE]

CellIn(row, k) == row.cells[k]

-----------------------------------------------------------------------------
(* The query: row_keys, text, filters, sort, groups, page.                 *)

applyTextQuery(rows, text) ==
  IF text = Blank0 THEN rows
  ELSE SelectSeq(rows, LAMBDA r : \E k \in ColumnKeys : CellIn(r, k) = text)

matchFilter(row, k, f) ==
  CASE f.op = "empty" -> CellIn(row, k) = Blank0
    [] f.op = "not_empty" -> CellIn(row, k) # Blank0
    [] f.op = "eq" -> CellIn(row, k) = f.value
    [] f.op = "gt" -> CellIn(row, k) # Blank0 /\ f.value # Blank0 /\ CellIn(row, k) > f.value

\* A filter on a column that is not there filters nothing.
applyColumnFilters(rows, columns, filters) ==
  SelectSeq(rows, LAMBDA r : \A i \in DOMAIN filters :
    LET k == findColumn(columns, filters[i].field) IN k # NoColumn => matchFilter(r, k, filters[i]))

\* Sorted by a value, rows of the same value in the order they had.
SortedBy(s, Value(_), descending) ==
  LET Before(i, j) == \/ IF descending THEN Value(s[i]) > Value(s[j]) ELSE Value(s[i]) < Value(s[j])
                      \/ Value(s[i]) = Value(s[j]) /\ i < j
      order == SetToSortSeq(DOMAIN s, Before)
  IN  [n \in DOMAIN order |-> s[order[n]]]

sortRows(rows, columns, q) ==
  LET k == findColumn(columns, q.sort)
  IN  IF k = NoColumn THEN rows ELSE SortedBy(rows, LAMBDA r : CellIn(r, k), q.descending)

matchedRows(s, q) ==
  LET asked == IF q.keys = {} THEN s.rows ELSE SelectSeq(s.rows, LAMBDA r : r.id \in q.keys)
  IN  sortRows(applyColumnFilters(applyTextQuery(asked, q.text), s.columns, q.filters), s.columns, q)

\* Groups in the order of their first rows, or by their counts.
aggregateRows(rows, k) ==
  LET values == [i \in DOMAIN rows |-> CellIn(rows[i], k)]
      firsts == SetToSortSeq({i \in DOMAIN rows : \A j \in 1..(i - 1) : values[j] # values[i]}, <)
  IN  [n \in DOMAIN firsts |-> [value |-> values[firsts[n]],
         count |-> Cardinality({i \in DOMAIN rows : values[i] = values[firsts[n]]})]]

sortGroups(groups, q) ==
  IF q.byCount THEN SortedBy(groups, LAMBDA g : g.count, q.descending) ELSE groups

Grouped(s, q) == findColumn(s.columns, q.group) # NoColumn

Answered(s, q) ==
  LET rows == matchedRows(s, q)
  IN  IF Grouped(s, q) THEN sortGroups(aggregateRows(rows, findColumn(s.columns, q.group)), q)
      ELSE [i \in DOMAIN rows |-> rows[i].id]

slice(s, from, to) == SubSeq(s, from + 1, IF to > Len(s) THEN Len(s) ELSE to)

runTableQueryShort(s, q, offset) ==
  LET all == Answered(s, q)
      page == slice(all, offset, offset + PageSize)
  IN  [page |-> page, hasMore |-> offset + Len(page) + 1 < Len(all)]

runTableQuery(s, q, offset) ==
  LET all == Answered(s, q)
      page == slice(all, offset, offset + PageSize)
  IN  [page |-> page, hasMore |-> offset + Len(page) < Len(all)]

-----------------------------------------------------------------------------
NotReading == [on |-> FALSE, query |-> Anything, seen |-> <<>>, more |-> FALSE]

Turned(r, q) ==
  LET got == runTableQuery(sheetRead, q, Len(r.seen))
  IN  [on |-> TRUE, query |-> q, seen |-> r.seen \o got.page, more |-> got.hasMore]

BeginReading ==
  /\ ~reading.on
  /\ \E q \in Questions : reading' = Turned(NotReading, q)
  /\ UNCHANGED <<sheetRead, writes, disturbed>>

\* Call table_get again with offset = what was read so far.
ReadOn ==
  /\ reading.more
  /\ reading' = Turned(reading, reading.query)
  /\ UNCHANGED <<sheetRead, writes, disturbed>>

(* A write in the middle of a reading.                                     *)
UsedBy(q) ==
  {findColumn(sheetRead.columns, f) :
     f \in {q.sort, q.group} \cup {q.filters[i].field : i \in DOMAIN q.filters}} \ {NoColumn}

Matches(id, q) == \E i \in DOMAIN matchedRows(sheetRead, q) : matchedRows(sheetRead, q)[i].id = id

WriteTo(s, disturbing) ==
  /\ reading.more /\ writes < ReadWrites
  /\ sheetRead' = s
  /\ writes' = writes + 1
  /\ disturbed' = (disturbed \/ disturbing)
  /\ UNCHANGED reading

\* A blank row at the end: it is read last, unless the query sorts or groups.
RowAdded ==
  LET id == 1 + ReadRows + writes
      q == reading.query
  IN  WriteTo(WithRow(sheetRead, id), UsedBy(q) \cap {findColumn(sheetRead.columns, q.sort),
                                              findColumn(sheetRead.columns, q.group)} # {})

RowDeleted ==
  \E id \in IdsOfRows(sheetRead) :
    WriteTo(WithoutRows(sheetRead, {id}), Matches(id, reading.query))

CellWritten ==
  \E id \in IdsOfRows(sheetRead), k \in ToSet(sheetRead.columns), v \in Contents :
    /\ isAllowedStatusValue(v, k)
    /\ WriteTo(WithCells(sheetRead, id, [x \in {k} |-> v]),
               k \in UsedBy(reading.query) \/ reading.query.text # Blank0)

ColumnDeleted ==
  \E k \in ToSet(sheetRead.columns) :
    WriteTo(WithoutColumn(sheetRead, k), k \in UsedBy(reading.query) \/ reading.query.text # Blank0)

ReadsInit ==
  /\ sheetRead \in {[columns |-> SetToSeq({<<n, 0>> : n \in ColumnNames}),
                     rows |-> [i \in 1..ReadRows |->
                                 [BlankRow(i) EXCEPT !.cells[<<StatusName, 0>>] = f[i]]]]
                      : f \in [1..ReadRows -> {Blank0} \cup Options]}
  /\ reading = NotReading /\ writes = 0 /\ disturbed = FALSE

ReadsNext == BeginReading \/ ReadOn \/ RowAdded \/ RowDeleted \/ CellWritten \/ ColumnDeleted

ReadsSpec == ReadsInit /\ [][ReadsNext]_readVars

-----------------------------------------------------------------------------
(* What a query asks for, said of one row and of two.                      *)
Wanted(r, q) ==
  /\ q.keys # {} => r.id \in q.keys
  /\ q.text # Blank0 => \E k \in ToSet(sheetRead.columns) : CellIn(r, k) = q.text
  /\ \A i \in DOMAIN q.filters :
       LET f == q.filters[i]
           k == findColumn(sheetRead.columns, f.field)
       IN  k # NoColumn =>
             CASE f.op = "empty" -> CellIn(r, k) = Blank0
               [] f.op = "not_empty" -> CellIn(r, k) # Blank0
               [] f.op = "eq" -> CellIn(r, k) = f.value
               [] f.op = "gt" -> CellIn(r, k) \notin 0..f.value

WantedRows(q) == {r \in ToSet(sheetRead.rows) : Wanted(r, q)}

\* The row x comes before the row y.
Precedes(x, y, q) ==
  LET k == findColumn(sheetRead.columns, q.sort)
      a == IF k = NoColumn \/ ~q.descending THEN x ELSE y
      b == IF a = x THEN y ELSE x
  IN  IF k # NoColumn /\ CellIn(x, k) # CellIn(y, k) THEN CellIn(a, k) < CellIn(b, k)
      ELSE RowAt(sheetRead, x.id) < RowAt(sheetRead, y.id)

RowsAreRead(q) ==
  LET row(i) == sheetRead.rows[RowAt(sheetRead, reading.seen[i])]
  IN  /\ ToSet(reading.seen) = {r.id : r \in WantedRows(q)}
      /\ \A i, j \in DOMAIN reading.seen : i < j => Precedes(row(i), row(j), q)

GroupsAreRead(q) ==
  LET k == findColumn(sheetRead.columns, q.group)
      InGroup(v) == {r \in WantedRows(q) : CellIn(r, k) = v}
  IN  /\ Len(reading.seen) = Cardinality({CellIn(r, k) : r \in WantedRows(q)})
      /\ ToSet(reading.seen) = {[value |-> CellIn(r, k), count |-> Cardinality(InGroup(CellIn(r, k)))]
                                  : r \in WantedRows(q)}
      /\ q.byCount => \A i, j \in DOMAIN reading.seen :
           i < j => IF q.descending THEN reading.seen[i].count >= reading.seen[j].count
                    ELSE reading.seen[i].count <= reading.seen[j].count

(* An agent that has turned the last page has read every row (or group)    *)
(* the query asks for, once and in order, whatever was written in between  *)
(* that the query does not look at, blank rows at the end included.        *)
PagesCoverTheSheet ==
  reading.on /\ ~reading.more /\ ~disturbed =>
    IF Grouped(sheetRead, reading.query) THEN GroupsAreRead(reading.query) ELSE RowsAreRead(reading.query)
====
