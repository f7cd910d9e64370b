-------------------------- MODULE TableStoreProofs --------------------------
(***************************************************************************)
(* Proofs about TableStore and, after them, about TableGrid.               *)
(*                                                                         *)
(* The writes of a sheet take turns, and a sheet that was deleted is not   *)
(* stored again, unless this sheet was changed while it was deleted: it    *)
(* is in crossed until the next start (a run of MCTableStore shows that    *)
(* it may come back), and the invariants are those of all the others.      *)
(*                                                                         *)
(* The chain of a sheet is a line of writes, each behind the one before it *)
(* (Lined): only the first may be writing, and the map persistChains holds *)
(* the last.  A deletion finds the line empty and keeps it empty.          *)
(*                                                                         *)
(* And the database follows what is shown (FollowInv).  Only the last      *)
(* write of a line counts: what it has stored so far is the beginning of   *)
(* what its sheet shows (Told), since a change of the sheet would have     *)
(* queued another write behind it; and a shutdown waits for the last of    *)
(* every line.                                                             *)
(*                                                                         *)
(* A grid that met none of its known oddities and has nothing on its way   *)
(* shows the server's rows (GridInv).  Three arguments carry it: a reply   *)
(* older than the store is overtaken by an event heard or on its way, or a *)
(* load follows it (Overtaken); the last event on its way for a row has    *)
(* the row's value (FeedIsTrue); and the edits nobody told of balance, one *)
(* away from the store's value for each one back to it, so that undoing    *)
(* them in any order ends with that value (Balanced).                      *)
(***************************************************************************)
EXTENDS TableStore, TableGrid, FiniteSetTheorems, SequenceTheorems, TLAPS

Erasing == {"sheet", "columns", "rows", "forget"}

HasFields(c) == c = [f \in {"name", "cols", "rows"} |-> c[f]]

TableTypeOK ==
  /\ sheets = [s \in Sheets |-> sheets[s]] /\ \A s \in Sheets : HasFields(sheets[s])
  /\ db = [s \in Sheets |-> db[s]] /\ \A s \in Sheets : HasFields(db[s])
  /\ chain \in [Sheets -> Writes \cup {None}]
  /\ on \in [Writes -> Sheets \cup {None}]
  /\ waits \in [Writes -> Writes \cup {None}]
  /\ step \in [Writes -> {"unused"} \cup Queued \cup Over]
  /\ removal \in [Removals -> {"unused", "failed", "removed", "lost"} \cup Deleting]
  /\ doomed \in [Removals -> Sheets \cup {None}]
  /\ awaits \in [Removals -> Writes \cup {None}]
  /\ \A w \in Writes : step[w] # "unused" => on[w] \in Sheets
  /\ \A r \in Removals : removal[r] # "unused" => doomed[r] \in Sheets

\* The writes that are queued for sheet s are q[1] .. q[n], in the order of the chain.
Lined(s, n, q) ==
  /\ \A i, j \in 1..n : q[i] = q[j] => i = j
  /\ {w \in Writes : on[w] = s /\ step[w] \in Queued} = {q[i] : i \in 1..n}
  /\ chain[s] = IF n = 0 THEN None ELSE q[n]
  /\ \A i \in 2..n : waits[q[i]] = q[i - 1] /\ step[q[i]] = "waiting"
  /\ n > 0 => waits[q[1]] = None \/ step[waits[q[1]]] \in Over

InTurn == \A s \in Sheets \ crossed : \E n \in Nat : \E q \in [1..n -> Writes] : Lined(s, n, q)

\* What a deletion that is under way may rely on, when nobody crosses it.
DeletionsAlone ==
  /\ \A r, o \in Removals :
       removal[r] \in Deleting /\ removal[o] \in Deleting /\ doomed[r] = doomed[o] /\ doomed[r] \notin crossed
         => r = o
  /\ \A r \in Removals : removal[r] \notin {"seeding", "removed", "lost"} => step[r] = "unused"
  /\ \A r \in Removals : removal[r] = "waiting" /\ doomed[r] \notin crossed =>
       awaits[r] \in Writes /\ chain[doomed[r]] \in {awaits[r], None}
  /\ \A r \in Removals : removal[r] \in Erasing /\ doomed[r] \notin crossed => chain[doomed[r]] = None
  /\ \A r \in Removals :
       removal[r] \in Erasing \cup {"waiting"} /\ doomed[r] \notin crossed => Present(doomed[r])
  /\ \A r \in Removals :
       removal[r] \in Erasing \ {"sheet"} /\ doomed[r] \notin crossed => db[doomed[r]].name = "absent"

\* What is not shown is not stored and not being stored.
GoneIsGone ==
  /\ \A w \in Writes : step[w] \in Queued => Present(on[w]) \/ on[w] \in crossed
  /\ \A s \in Sheets \ crossed : ~Present(s) => db[s].name = "absent"

TableInv == TableTypeOK /\ InTurn /\ DeletionsAlone /\ GoneIsGone

-----------------------------------------------------------------------------
(* What the chain of one sheet says. *)

\* None is not a write.
LEMMA NoneIsNoWrite == None \notin Writes
  BY DistinctAssumption DEF Writes

\* The chain of a sheet holds a write that is still queued for it, or none is.
LEMMA ChainHoldsQueued ==
  ASSUME TableTypeOK, InTurn, NEW s \in Sheets \ crossed
  PROVE  /\ chain[s] = None => \A w \in Writes : on[w] = s => step[w] \notin Queued
         /\ chain[s] # None => chain[s] \in Writes /\ on[chain[s]] = s /\ step[chain[s]] \in Queued
<1>0. PICK n \in Nat : \E q \in [1..n -> Writes] : Lined(s, n, q)
  BY DEF InTurn
<1>1. PICK q \in [1..n -> Writes] : Lined(s, n, q)
  BY <1>0
<1>2. CASE n = 0
  BY <1>1, <1>2 DEF Lined
<1>3. CASE n > 0
  <2>1. n \in 1..n /\ q[n] \in Writes /\ chain[s] = q[n]
    BY <1>1, <1>3 DEF Lined
  <2>2. q[n] \in {w \in Writes : on[w] = s /\ step[w] \in Queued}
    BY <1>1, <2>1 DEF Lined
  <2> QED
    BY <2>1, <2>2, NoneIsNoWrite
<1> QED
  BY <1>2, <1>3

\* A write that is storing, or that need not wait any longer, is the first of its line.
LEMMA FirstOfLine ==
  ASSUME TableTypeOK, NEW w \in Writes, NEW n \in Nat, NEW q \in [1..n -> Writes],
         Lined(on[w], n, q), step[w] \in Queued,
         step[w] = "waiting" => waits[w] = None \/ step[waits[w]] \in Over
  PROVE  n > 0 /\ q[1] = w
<1>1. PICK i \in 1..n : w = q[i]
  BY DEF Lined
<1>2. CASE i = 1
  BY <1>1, <1>2
<1>3. CASE i # 1
  <2>1. i \in 2..n /\ i - 1 \in 1..n
    BY <1>3
  <2>2. waits[w] = q[i - 1] /\ step[w] = "waiting" /\ q[i - 1] \in Writes
    BY <1>1, <2>1 DEF Lined
  <2>3. step[q[i - 1]] \in Queued
    BY <2>1 DEF Lined
  <2> QED
    BY <2>2, <2>3, NoneIsNoWrite DEF Queued, Writing, Over
<1> QED
  BY <1>2, <1>3

\* A new write is put at the end of the line of its sheet.
LEMMA EnqueueKeepsTurn ==
  ASSUME TableTypeOK, InTurn, NEW w \in Writes, NEW s \in Sheets, step[w] = "unused",
         on' = [on EXCEPT ![w] = s], waits' = [waits EXCEPT ![w] = chain[s]],
         step' = [step EXCEPT ![w] = "waiting"], chain' = [chain EXCEPT ![s] = w],
         crossed \subseteq crossed'
  PROVE  InTurn'
<1> USE DEF TableTypeOK
<1> SUFFICES ASSUME NEW t \in Sheets \ crossed'
             PROVE  \E n \in Nat : \E q \in [1..n -> Writes] : Lined(t, n, q)'
  BY DEF InTurn
<1>0. PICK n \in Nat : \E q \in [1..n -> Writes] : Lined(t, n, q)
  BY DEF InTurn
<1>1. PICK q \in [1..n -> Writes] : Lined(t, n, q)
  BY <1>0
<1>2. \A i \in 1..n : q[i] \in Writes /\ q[i] # w
  <2> HIDE DEF TableTypeOK
  <2>1. \A i \in 1..n : q[i] \in {v \in Writes : on[v] = t /\ step[v] \in Queued}
    <3>1. {v \in Writes : on[v] = t /\ step[v] \in Queued} = {q[i] : i \in 1..n}
      BY <1>1 DEF Lined
    <3>2. \A i \in 1..n : q[i] \in {q[j] : j \in 1..n}
      OBVIOUS
    <3> QED
      BY <3>1, <3>2, SMT
  <2>2. step[w] \notin Queued
    BY DEF Queued, Writing
  <2> QED
    BY <2>1, <2>2
<1>3. \A v \in Writes : v # w => on'[v] = on[v] /\ waits'[v] = waits[v] /\ step'[v] = step[v]
  OBVIOUS
<1>4. on'[w] = s /\ waits'[w] = chain[s] /\ step'[w] = "waiting" /\ chain'[s] = w
  OBVIOUS
<1>5. \A v \in Writes : step[v] \in Over => step'[v] \in Over
  BY <1>3 DEF Over
<1>6. n > 0 => 1 \in 1..n /\ q[1] \in Writes /\ (waits[q[1]] = None \/ step[waits[q[1]]] \in Over)
  BY <1>1 DEF Lined
<1>7. n > 0 => waits'[q[1]] = None \/ step'[waits'[q[1]]] \in Over
  <2> SUFFICES ASSUME n > 0, waits'[q[1]] # None
               PROVE  step'[waits'[q[1]]] \in Over
    OBVIOUS
  <2>1. waits'[q[1]] = waits[q[1]] /\ waits[q[1]] \in Writes /\ step[waits[q[1]]] \in Over
    BY <1>2, <1>3, <1>6
  <2> QED
    BY <2>1, <1>5
<1>8. CASE t # s
  <2>1. chain'[t] = chain[t]
    BY <1>8
  <2>2. {v \in Writes : on'[v] = t /\ step'[v] \in Queued}
          = {v \in Writes : on[v] = t /\ step[v] \in Queued}
    BY <1>3, <1>4, <1>8 DEF Queued, Writing
  <2>3. \A i \in 2..n : waits'[q[i]] = q[i - 1] /\ step'[q[i]] = "waiting"
    BY <1>1, <1>2, <1>3 DEF Lined
  <2>4. Lined(t, n, q)'
    BY <1>1, <1>7, <2>1, <2>2, <2>3 DEF Lined
  <2> QED
    BY <2>4
<1>9. CASE t = s
  <2> DEFINE p == [i \in 1..(n + 1) |-> IF i = n + 1 THEN w ELSE q[i]]
  <2>1. p \in [1..(n + 1) -> Writes] /\ p[n + 1] = w /\ \A i \in 1..n : p[i] = q[i]
    BY <1>2
  <2>2. \A i \in 1..(n + 1) : i \in 1..n \/ i = n + 1
    OBVIOUS
  <2> HIDE DEF p
  <2>3. \A i, j \in 1..(n + 1) : p[i] = p[j] => i = j
    BY <1>1, <1>2, <2>1, <2>2 DEF Lined
  <2>4. {v \in Writes : on'[v] = t /\ step'[v] \in Queued}
          = {v \in Writes : on[v] = t /\ step[v] \in Queued} \cup {w}
    BY <1>3, <1>4, <1>9 DEF Queued, Writing
  <2>5. {p[i] : i \in 1..(n + 1)} = {q[i] : i \in 1..n} \cup {w}
    <3>1. \A i \in 1..n : i \in 1..(n + 1)
      OBVIOUS
    <3>2. n + 1 \in 1..(n + 1)
      OBVIOUS
    <3> QED
      BY <2>1, <2>2, <3>1, <3>2
  <2>6. {v \in Writes : on'[v] = t /\ step'[v] \in Queued} = {p[i] : i \in 1..(n + 1)}
    BY <1>1, <2>4, <2>5 DEF Lined
  <2>7. \A i \in 2..(n + 1) : waits'[p[i]] = p[i - 1] /\ step'[p[i]] = "waiting"
    <3> SUFFICES ASSUME NEW i \in 2..(n + 1)
                 PROVE  waits'[p[i]] = p[i - 1] /\ step'[p[i]] = "waiting"
      OBVIOUS
    <3>1. CASE i = n + 1
      <4>1. n > 0 /\ p[i] = w /\ p[i - 1] = q[n] /\ chain[s] = q[n]
        BY <1>1, <1>9, <2>1, <3>1 DEF Lined
      <4> QED
        BY <1>4, <4>1
    <3>2. CASE i # n + 1
      <4>1. i \in 2..n /\ i \in 1..n /\ i - 1 \in 1..n
        BY <3>2
      <4>2. p[i] = q[i] /\ p[i - 1] = q[i - 1]
        BY <2>1, <4>1
      <4>3. waits[q[i]] = q[i - 1] /\ step[q[i]] = "waiting"
        BY <1>1, <4>1 DEF Lined
      <4> QED
        BY <1>2, <1>3, <4>1, <4>2, <4>3
    <3> QED
      BY <3>1, <3>2
  <2>8. waits'[p[1]] = None \/ step'[waits'[p[1]]] \in Over
    <3>1. CASE n = 0
      <4>1. p[1] = w
        BY <2>1, <3>1
      <4>2. chain[s] = None
        BY <1>1, <1>9, <3>1 DEF Lined
      <4> QED
        BY <1>4, <4>1, <4>2
    <3>2. CASE n > 0
      <4>1. 1 \in 1..n
        BY <3>2
      <4>2. p[1] = q[1]
        BY <2>1, <4>1
      <4> QED
        BY <1>7, <3>2, <4>2
    <3> QED
      BY <3>1, <3>2
  <2>9. chain'[t] = p[n + 1] /\ n + 1 \in Nat /\ n + 1 # 0
    BY <1>4, <1>9, <2>1
  <2>10. Lined(t, n + 1, p)'
    BY <2>3, <2>6, <2>7, <2>8, <2>9 DEF Lined
  <2> QED
    BY <2>1, <2>9, <2>10
<1> QED
  BY <1>8, <1>9

\* The first write of a line may go on, and it leaves the line when it is over.
LEMMA FirstKeepsTurn ==
  ASSUME TableTypeOK, InTurn, NEW w \in Writes, on[w] \in Sheets, step[w] \in Queued,
         step[w] = "waiting" => waits[w] = None \/ step[waits[w]] \in Over,
         UNCHANGED <<on, waits, crossed>>, NEW to, step' = [step EXCEPT ![w] = to],
         \/ to \in Writing /\ UNCHANGED chain
         \/ to \in Over /\ chain' = [chain EXCEPT ![on[w]] = IF @ = w THEN None ELSE @]
  PROVE  InTurn'
<1> USE DEF TableTypeOK
<1> SUFFICES ASSUME NEW t \in Sheets \ crossed'
             PROVE  \E n \in Nat : \E q \in [1..n -> Writes] : Lined(t, n, q)'
  BY DEF InTurn
<1>0. PICK n \in Nat : \E q \in [1..n -> Writes] : Lined(t, n, q)
  BY DEF InTurn
<1>1. PICK q \in [1..n -> Writes] : Lined(t, n, q)
  BY <1>0
<1>2. \A v \in Writes : v # w => step'[v] = step[v]
  OBVIOUS
<1>3. step'[w] = to /\ step[w] \notin Over
  BY DEF Queued, Writing, Over
<1>4. \A v \in Writes : step[v] \in Over => step'[v] \in Over
  BY <1>2, <1>3
<1>5. n > 0 => 1 \in 1..n /\ q[1] \in Writes /\ (waits'[q[1]] = None \/ step'[waits'[q[1]]] \in Over)
  <2> SUFFICES ASSUME n > 0
               PROVE  1 \in 1..n /\ q[1] \in Writes
                      /\ (waits'[q[1]] = None \/ step'[waits'[q[1]]] \in Over)
    OBVIOUS
  <2>1. 1 \in 1..n /\ q[1] \in Writes
    OBVIOUS
  <2>2. waits[q[1]] \in Writes \cup {None} /\ (waits[q[1]] = None \/ step[waits[q[1]]] \in Over)
    BY <1>1, <2>1 DEF Lined
  <2> QED
    BY <1>4, <2>1, <2>2
<1>6. CASE t # on[w]
  <2>1. \A i \in 1..n : q[i] \in Writes /\ q[i] # w
    BY <1>1, <1>6 DEF Lined
  <2>2. chain'[t] = chain[t]
    BY <1>6
  <2>3. {v \in Writes : on'[v] = t /\ step'[v] \in Queued}
          = {v \in Writes : on[v] = t /\ step[v] \in Queued}
    BY <1>2, <1>6
  <2>4. \A i \in 2..n : waits'[q[i]] = q[i - 1] /\ step'[q[i]] = "waiting"
    BY <1>1, <1>2, <2>1 DEF Lined
  <2>5. Lined(t, n, q)'
    BY <1>1, <1>5, <2>2, <2>3, <2>4 DEF Lined
  <2> QED
    BY <2>5
<1>7. CASE t = on[w]
  <2>1. n > 0 /\ q[1] = w /\ 1 \in 1..n
    BY <1>1, <1>7, FirstOfLine
  <2>2. \A i \in 2..n : q[i] \in Writes /\ q[i] # w /\ i \in 1..n /\ i - 1 \in 1..n
    <3> SUFFICES ASSUME NEW i \in 2..n
                 PROVE  q[i] \in Writes /\ q[i] # w /\ i \in 1..n /\ i - 1 \in 1..n
      OBVIOUS
    <3>1. i \in 1..n /\ i - 1 \in 1..n /\ i # 1
      OBVIOUS
    <3> QED
      BY <1>1, <2>1, <3>1 DEF Lined
  <2>3. \A i \in 2..n : waits'[q[i]] = q[i - 1] /\ step'[q[i]] = "waiting"
    BY <1>1, <1>2, <2>2 DEF Lined
  <2>4. CASE to \in Writing /\ UNCHANGED chain
    <3>1. to \in Queued
      BY <2>4 DEF Queued
    <3>2. {v \in Writes : on'[v] = t /\ step'[v] \in Queued}
            = {v \in Writes : on[v] = t /\ step[v] \in Queued}
      BY <1>2, <1>3, <3>1
    <3>3. Lined(t, n, q)'
      BY <1>1, <1>5, <2>3, <2>4, <3>2 DEF Lined
    <3> QED
      BY <3>3
  <2>5. CASE to \in Over /\ chain' = [chain EXCEPT ![on[w]] = IF @ = w THEN None ELSE @]
    <3> DEFINE p == [i \in 1..(n - 1) |-> q[i + 1]]
    <3>1. n - 1 \in Nat /\ \A i \in 1..(n - 1) : i + 1 \in 2..n /\ i + 1 \in 1..n
      BY <2>1
    <3>2. p \in [1..(n - 1) -> Writes] /\ \A i \in 1..(n - 1) : p[i] = q[i + 1]
      BY <3>1
    <3> HIDE DEF p
    <3>3. \A i, j \in 1..(n - 1) : p[i] = p[j] => i = j
      <4> SUFFICES ASSUME NEW i \in 1..(n - 1), NEW j \in 1..(n - 1), p[i] = p[j]
                   PROVE  i = j
        OBVIOUS
      <4>1. q[i + 1] = q[j + 1] /\ i + 1 \in 1..n /\ j + 1 \in 1..n
        BY <3>1, <3>2
      <4>2. i + 1 = j + 1
        BY <1>1, <4>1 DEF Lined
      <4> QED
        BY <4>2
    <3>4. {v \in Writes : on'[v] = t /\ step'[v] \in Queued}
            = {v \in Writes : on[v] = t /\ step[v] \in Queued} \ {w}
      BY <1>2, <1>3, <2>5 DEF Over, Queued, Writing
    <3>5. {p[i] : i \in 1..(n - 1)} = {q[i] : i \in 1..n} \ {w}
      <4>1. \A i \in 1..(n - 1) : p[i] \in {q[j] : j \in 1..n} \ {w}
        BY <2>2, <3>1, <3>2
      <4>2. \A j \in 1..n : q[j] # w => j - 1 \in 1..(n - 1) /\ p[j - 1] = q[j]
        <5> SUFFICES ASSUME NEW j \in 1..n, q[j] # w
                     PROVE  j - 1 \in 1..(n - 1) /\ p[j - 1] = q[j]
          OBVIOUS
        <5>1. j # 1
          BY <2>1
        <5>2. j - 1 \in 1..(n - 1) /\ (j - 1) + 1 = j
          BY <5>1
        <5> QED
          BY <3>2, <5>2
      <4>3. ASSUME NEW v \in {q[j] : j \in 1..n} \ {w}
            PROVE  v \in {p[i] : i \in 1..(n - 1)}
        BY <4>2
      <4>4. ASSUME NEW v \in {p[i] : i \in 1..(n - 1)}
            PROVE  v \in {q[j] : j \in 1..n} \ {w}
        BY <4>1
      <4> QED
        BY <4>3, <4>4
    <3>6. {v \in Writes : on'[v] = t /\ step'[v] \in Queued} = {p[i] : i \in 1..(n - 1)}
      BY <1>1, <3>4, <3>5 DEF Lined
    <3>7. \A i \in 2..(n - 1) : waits'[p[i]] = p[i - 1] /\ step'[p[i]] = "waiting"
      <4> SUFFICES ASSUME NEW i \in 2..(n - 1)
                   PROVE  waits'[p[i]] = p[i - 1] /\ step'[p[i]] = "waiting"
        OBVIOUS
      <4>1. i \in 1..(n - 1) /\ i - 1 \in 1..(n - 1) /\ i + 1 \in 2..n
            /\ (i - 1) + 1 = i /\ (i + 1) - 1 = i
        OBVIOUS
      <4>2. p[i] = q[i + 1] /\ p[i - 1] = q[i]
        BY <3>2, <4>1
      <4>3. waits'[q[i + 1]] = q[i] /\ step'[q[i + 1]] = "waiting"
        BY <2>3, <4>1
      <4> QED
        BY <4>2, <4>3
    <3>8. n - 1 > 0 => waits'[p[1]] = None \/ step'[waits'[p[1]]] \in Over
      <4> SUFFICES ASSUME n - 1 > 0
                   PROVE  step'[waits'[p[1]]] \in Over
        OBVIOUS
      <4>1. 1 \in 1..(n - 1) /\ 2 \in 2..n /\ 1 + 1 = 2
        OBVIOUS
      <4>3. p[1] = q[2]
        BY <3>2, <4>1
      <4>2. waits'[q[2]] = w
        BY <2>1, <2>3, <4>1
      <4> QED
        BY <1>3, <2>5, <4>2, <4>3
    <3>9. chain'[t] = IF n - 1 = 0 THEN None ELSE p[n - 1]
      <4>1. chain[t] = q[n] /\ chain'[t] = IF chain[t] = w THEN None ELSE chain[t]
        BY <1>1, <1>7, <2>1, <2>5 DEF Lined
      <4>2. CASE n = 1
        BY <2>1, <4>1, <4>2
      <4>3. CASE n # 1
        <5>1. n \in 2..n /\ n - 1 \in 1..(n - 1) /\ (n - 1) + 1 = n
          BY <2>1, <4>3
        <5>2. q[n] # w /\ p[n - 1] = q[n]
          BY <2>2, <3>2, <5>1
        <5> QED
          BY <4>1, <4>3, <5>2
      <4> QED
        BY <4>2, <4>3
    <3>10. Lined(t, n - 1, p)'
      BY <3>3, <3>6, <3>7, <3>8, <3>9 DEF Lined
    <3> QED
      BY <3>1, <3>2, <3>10
  <2> QED
    BY <2>4, <2>5
<1> QED
  BY <1>6, <1>7

-----------------------------------------------------------------------------
(* What the steps do, as far as these invariants are concerned. *)

\* Every edit leaves a sheet that is shown, with its three fields.
LEMMA EditEffect ==
  ASSUME TableTypeOK, NEW e \in Edits, Edit(e)
  PROVE  \E s \in Sheets : \E c : HasFields(c) /\ c.name # "absent" /\ Change(e, s, c)
<1>1. PICK s \in Sheets :
      \/ CreateSheet(e, s) \/ RenameSheet(e, s) \/ AddRow(e, s) \/ AddColumn(e, s) \/ Import(e, s)
      \/ \E keys \in SUBSET Keys(s) : UpdateRows(e, s, keys) \/ DeleteRows(e, s, keys)
      \/ \E k \in Edits, n \in 0..Len(sheets[s].rows) : RestoreRow(e, s, k, n)
      \/ \E i \in DOMAIN sheets[s].cols : DeleteColumn(e, s, sheets[s].cols[i])
  BY DEF Edit
<1>2. HasFields(sheets[s]) /\ e # "absent"
  BY AbsentAssumption DEF TableTypeOK
<1>3. ASSUME NEW c, HasFields(c), c.name # "absent", Change(e, s, c)
      PROVE  \E d : HasFields(d) /\ d.name # "absent" /\ Change(e, s, d)
  BY <1>3
<1>4. ASSUME NEW newRows, Present(s), Change(e, s, [sheets[s] EXCEPT !.rows = newRows])
      PROVE  \E d : HasFields(d) /\ d.name # "absent" /\ Change(e, s, d)
  <2>1. HasFields([sheets[s] EXCEPT !.rows = newRows])
        /\ [sheets[s] EXCEPT !.rows = newRows].name # "absent"
    BY <1>2, <1>4 DEF HasFields, Present
  <2> QED
    BY <1>4, <2>1
<1>5. ASSUME NEW cols, Present(s), Change(e, s, [sheets[s] EXCEPT !.cols = cols])
      PROVE  \E d : HasFields(d) /\ d.name # "absent" /\ Change(e, s, d)
  <2>1. HasFields([sheets[s] EXCEPT !.cols = cols])
        /\ [sheets[s] EXCEPT !.cols = cols].name # "absent"
    BY <1>2, <1>5 DEF HasFields, Present
  <2> QED
    BY <1>5, <2>1
<1>6. CASE CreateSheet(e, s)
  <2>1. HasFields(Named(e)) /\ Named(e).name # "absent"
    BY <1>2 DEF HasFields, Named
  <2> QED
    BY <1>6, <2>1 DEF CreateSheet
<1>7. CASE RenameSheet(e, s)
  <2>1. HasFields([sheets[s] EXCEPT !.name = e]) /\ [sheets[s] EXCEPT !.name = e].name # "absent"
    BY <1>2 DEF HasFields
  <2> QED
    BY <1>7, <2>1 DEF RenameSheet
<1>8. CASE AddRow(e, s)
  BY <1>4, <1>8 DEF AddRow
<1>9. CASE AddColumn(e, s)
  BY <1>5, <1>9 DEF AddColumn
<1>10. CASE Import(e, s)
  <2> DEFINE c == [sheets[s] EXCEPT !.cols = <<e>>, !.rows = <<<<e, e>>>>]
  <2>1. HasFields(c) /\ c.name # "absent"
    BY <1>2, <1>10 DEF HasFields, Import, Present
  <2>2. Change(e, s, c)
    BY <1>10 DEF Import
  <2> QED
    BY <2>1, <2>2
<1>11. ASSUME NEW keys, UpdateRows(e, s, keys) \/ DeleteRows(e, s, keys)
       PROVE  \E d : HasFields(d) /\ d.name # "absent" /\ Change(e, s, d)
  BY <1>4, <1>11 DEF UpdateRows, DeleteRows
<1>12. ASSUME NEW k, NEW n, RestoreRow(e, s, k, n)
       PROVE  \E d : HasFields(d) /\ d.name # "absent" /\ Change(e, s, d)
  BY <1>4, <1>12 DEF RestoreRow
<1>13. ASSUME NEW col, DeleteColumn(e, s, col)
       PROVE  \E d : HasFields(d) /\ d.name # "absent" /\ Change(e, s, d)
  BY <1>5, <1>13 DEF DeleteColumn
<1> QED
  BY <1>1, <1>6, <1>7, <1>8, <1>9, <1>10, <1>11, <1>12, <1>13

\* Every step of a write is one of the first write of a line: it goes on or it is over,
\* and what it stores is of its own sheet.
LEMMA PersistEffect ==
  ASSUME TableTypeOK, NEW w \in Writes, Persist(w)
  PROVE  /\ UNCHANGED <<sheets, on, waits, removalVars, crossed>>
         /\ step[w] \in Queued /\ on[w] \in Sheets
         /\ step[w] = "waiting" => waits[w] = None \/ step[waits[w]] \in Over
         /\ \E to : /\ step' = [step EXCEPT ![w] = to]
                    /\ \/ to \in Writing /\ UNCHANGED chain
                       \/ /\ to \in Over
                          /\ chain' = [chain EXCEPT ![on[w]] = IF @ = w THEN None ELSE @]
         /\ db' = [s \in Sheets |-> db'[s]] /\ \A s \in Sheets : HasFields(db'[s])
         /\ \A s \in Sheets : s # on[w] => db'[s] = db[s]
<1> USE DEF TableTypeOK, removalVars
<1>0. on[w] \in Sheets \/ step[w] = "unused"
  OBVIOUS
<1>1. ASSUME NEW how \in Over, Ended(w, how)
      PROVE  \E to : /\ step' = [step EXCEPT ![w] = to]
                     /\ \/ to \in Writing /\ UNCHANGED chain
                        \/ /\ to \in Over
                           /\ chain' = [chain EXCEPT ![on[w]] = IF @ = w THEN None ELSE @]
  BY <1>1 DEF Ended
<1>2. ASSUME NEW to \in Writing, NEW what, Advance(w, to, what)
      PROVE  \E t : /\ step' = [step EXCEPT ![w] = t]
                    /\ \/ t \in Writing /\ UNCHANGED chain
                       \/ /\ t \in Over
                          /\ chain' = [chain EXCEPT ![on[w]] = IF @ = w THEN None ELSE @]
  BY <1>2 DEF Advance
<1>3. Writing \subseteq Queued /\ "waiting" \in Queued /\ "waiting" \notin Writing
      /\ "unused" \notin Queued /\ {"done", "failed"} \subseteq Over
      /\ {"naming", "droppingColumns", "columns", "droppingRows", "rows"} \subseteq Writing
  BY DEF Writing, Queued, Over
<1>4. ASSUME UNCHANGED db
      PROVE  /\ db' = [s \in Sheets |-> db'[s]] /\ \A s \in Sheets : HasFields(db'[s])
             /\ \A s \in Sheets : s # on[w] => db'[s] = db[s]
  BY <1>4
<1>5. ASSUME NEW d, HasFields(d), db' = [db EXCEPT ![on[w]] = d], on[w] \in Sheets
      PROVE  /\ db' = [s \in Sheets |-> db'[s]] /\ \A s \in Sheets : HasFields(db'[s])
             /\ \A s \in Sheets : s # on[w] => db'[s] = db[s]
  BY <1>5
<1>6. ASSUME NEW x, on[w] \in Sheets
      PROVE  /\ HasFields([db[on[w]] EXCEPT !.name = x])
             /\ HasFields([db[on[w]] EXCEPT !.cols = x])
             /\ HasFields([db[on[w]] EXCEPT !.rows = x])
  BY <1>6 DEF HasFields
<1>7. CASE Begin(w)
  BY <1>0, <1>1, <1>2, <1>3, <1>4, <1>7 DEF Begin
<1>8. CASE StoreName(w)
  <2>1. on[w] \in Sheets /\ db' = [db EXCEPT ![on[w]] = [db[on[w]] EXCEPT !.name = todo[w][1]]]
    BY <1>0, <1>8 DEF StoreName
  <2>2. HasFields(db'[on[w]]) /\ \A s \in Sheets : s # on[w] => db'[s] = db[s]
    BY <1>6, <2>1
  <2>3. /\ db' = [s \in Sheets |-> db'[s]] /\ \A s \in Sheets : HasFields(db'[s])
        /\ \A s \in Sheets : s # on[w] => db'[s] = db[s]
    BY <2>1, <2>2
  <2>4. \E to : /\ step' = [step EXCEPT ![w] = to]
                /\ \/ to \in Writing /\ UNCHANGED chain
                   \/ /\ to \in Over
                      /\ chain' = [chain EXCEPT ![on[w]] = IF @ = w THEN None ELSE @]
    BY <1>2, <1>3, <1>8 DEF StoreName
  <2> HIDE DEF TableTypeOK
  <2> QED
    BY <1>3, <1>8, <2>1, <2>3, <2>4 DEF StoreName
<1>9. ASSUME NEW cols, ColumnsLeft(w, cols)
      PROVE  \E to : /\ step' = [step EXCEPT ![w] = to]
                     /\ \/ to \in Writing /\ UNCHANGED chain
                        \/ /\ to \in Over
                           /\ chain' = [chain EXCEPT ![on[w]] = IF @ = w THEN None ELSE @]
  BY <1>2, <1>3, <1>9 DEF ColumnsLeft
<1>10. ASSUME NEW newRows, RowsLeft(w, newRows)
       PROVE  \E to : /\ step' = [step EXCEPT ![w] = to]
                      /\ \/ to \in Writing /\ UNCHANGED chain
                         \/ /\ to \in Over
                            /\ chain' = [chain EXCEPT ![on[w]] = IF @ = w THEN None ELSE @]
  BY <1>1, <1>2, <1>3, <1>10 DEF RowsLeft
<1>11. CASE DropColumns(w)
  <2>1. on[w] \in Sheets /\ db' = [db EXCEPT ![on[w]] = [db[on[w]] EXCEPT !.cols = <<>>]]
    BY <1>0, <1>11 DEF DropColumns
  <2>2. \E to : /\ step' = [step EXCEPT ![w] = to]
                /\ \/ to \in Writing /\ UNCHANGED chain
                   \/ /\ to \in Over
                      /\ chain' = [chain EXCEPT ![on[w]] = IF @ = w THEN None ELSE @]
    BY <1>9, <1>11 DEF DropColumns
  <2>3. /\ db' = [s \in Sheets |-> db'[s]] /\ \A s \in Sheets : HasFields(db'[s])
        /\ \A s \in Sheets : s # on[w] => db'[s] = db[s]
    BY <1>5, <1>6, <2>1
  <2> HIDE DEF TableTypeOK
  <2> QED
    BY <1>3, <1>11, <2>1, <2>2, <2>3 DEF DropColumns
<1>12. CASE StoreColumn(w)
  <2>1. /\ on[w] \in Sheets
        /\ db' = [db EXCEPT ![on[w]] =
                    [db[on[w]] EXCEPT !.cols = Append(db[on[w]].cols, Head(todo[w]))]]
    BY <1>0, <1>12 DEF StoreColumn
  <2>2. HasFields(db'[on[w]]) /\ \A s \in Sheets : s # on[w] => db'[s] = db[s]
    BY <1>6, <2>1
  <2>3. /\ db' = [s \in Sheets |-> db'[s]] /\ \A s \in Sheets : HasFields(db'[s])
        /\ \A s \in Sheets : s # on[w] => db'[s] = db[s]
    BY <2>1, <2>2
  <2>4. \E to : /\ step' = [step EXCEPT ![w] = to]
                /\ \/ to \in Writing /\ UNCHANGED chain
                   \/ /\ to \in Over
                      /\ chain' = [chain EXCEPT ![on[w]] = IF @ = w THEN None ELSE @]
    BY <1>9, <1>12 DEF StoreColumn
  <2> HIDE DEF TableTypeOK
  <2> QED
    BY <1>3, <1>12, <2>1, <2>3, <2>4 DEF StoreColumn
<1>13. CASE DropRows(w)
  <2>1. on[w] \in Sheets /\ db' = [db EXCEPT ![on[w]] = [db[on[w]] EXCEPT !.rows = <<>>]]
    BY <1>0, <1>13 DEF DropRows
  <2>2. \E to : /\ step' = [step EXCEPT ![w] = to]
                /\ \/ to \in Writing /\ UNCHANGED chain
                   \/ /\ to \in Over
                      /\ chain' = [chain EXCEPT ![on[w]] = IF @ = w THEN None ELSE @]
    BY <1>10, <1>13 DEF DropRows
  <2>3. /\ db' = [s \in Sheets |-> db'[s]] /\ \A s \in Sheets : HasFields(db'[s])
        /\ \A s \in Sheets : s # on[w] => db'[s] = db[s]
    BY <1>5, <1>6, <2>1
  <2> HIDE DEF TableTypeOK
  <2> QED
    BY <1>3, <1>13, <2>1, <2>2, <2>3 DEF DropRows
<1>14. CASE StoreRow(w)
  <2>1. /\ on[w] \in Sheets
        /\ db' = [db EXCEPT ![on[w]] =
                    [db[on[w]] EXCEPT !.rows = Append(db[on[w]].rows, Head(todo[w]))]]
    BY <1>0, <1>14 DEF StoreRow
  <2>2. HasFields(db'[on[w]]) /\ \A s \in Sheets : s # on[w] => db'[s] = db[s]
    BY <1>6, <2>1
  <2>3. /\ db' = [s \in Sheets |-> db'[s]] /\ \A s \in Sheets : HasFields(db'[s])
        /\ \A s \in Sheets : s # on[w] => db'[s] = db[s]
    BY <2>1, <2>2
  <2>4. \E to : /\ step' = [step EXCEPT ![w] = to]
                /\ \/ to \in Writing /\ UNCHANGED chain
                   \/ /\ to \in Over
                      /\ chain' = [chain EXCEPT ![on[w]] = IF @ = w THEN None ELSE @]
    BY <1>10, <1>14 DEF StoreRow
  <2> HIDE DEF TableTypeOK
  <2> QED
    BY <1>3, <1>14, <2>1, <2>3, <2>4 DEF StoreRow
<1>15. CASE WriteFails(w)
  BY <1>0, <1>1, <1>3, <1>4, <1>15 DEF WriteFails
<1> QED
  BY <1>7, <1>8, <1>11, <1>12, <1>13, <1>14, <1>15 DEF Persist

-----------------------------------------------------------------------------
(* The four invariants, one after the other. *)

\* The fresh sheets of the model have their fields.
LEMMA NamedHasFields == \A n : HasFields(Named(n))
  BY DEF HasFields, Named

\* Every step keeps the variables of their types.
LEMMA TypeStep ==
  ASSUME TableTypeOK, [Next]_vars
  PROVE  TableTypeOK'
<1> USE DEF vars, writeVars, removalVars, serverVars
<1>0. /\ Deleting = {"waiting", "sheet", "columns", "rows", "forget", "seeding"}
      /\ Queued = {"waiting", "naming", "droppingColumns", "columns", "droppingRows", "rows"}
      /\ Over = {"done", "failed"} /\ Edits \subseteq Writes /\ Removals \subseteq Writes
      /\ Writing \subseteq Queued
  BY DEF Deleting, Queued, Writing, Over, Writes
<1>1. ASSUME NEW e \in Edits, Edit(e) PROVE TableTypeOK'
  <2>1. PICK s \in Sheets : \E c : HasFields(c) /\ c.name # "absent" /\ Change(e, s, c)
    BY <1>1, EditEffect
  <2>2. PICK c : HasFields(c) /\ Change(e, s, c)
    BY <2>1
  <2> QED
    BY <1>0, <2>2 DEF TableTypeOK, Change, Enqueue
<1>2. ASSUME NEW r \in Removals, NEW s \in Sheets, DeleteSheet(r, s) PROVE TableTypeOK'
  BY <1>0, <1>2 DEF TableTypeOK, DeleteSheet, Moved
<1>3. ASSUME NEW w \in Writes, Persist(w) PROVE TableTypeOK'
  <2>1. /\ UNCHANGED <<sheets, on, waits, removalVars>>
        /\ step[w] \in Queued /\ on[w] \in Sheets
        /\ db' = [s \in Sheets |-> db'[s]] /\ \A s \in Sheets : HasFields(db'[s])
    BY <1>3, PersistEffect
  <2>2. PICK to : /\ step' = [step EXCEPT ![w] = to]
                  /\ \/ to \in Writing /\ UNCHANGED chain
                     \/ /\ to \in Over
                        /\ chain' = [chain EXCEPT ![on[w]] = IF @ = w THEN None ELSE @]
    BY <1>3, PersistEffect
  <2>3. step' \in [Writes -> {"unused"} \cup Queued \cup Over]
        /\ \A v \in Writes : step'[v] # "unused" => step[v] # "unused"
    BY <1>0, <2>1, <2>2 DEF TableTypeOK
  <2>4. chain' \in [Sheets -> Writes \cup {None}]
    BY <2>1, <2>2 DEF TableTypeOK
  <2> QED
    BY <2>1, <2>3, <2>4 DEF TableTypeOK
<1>4. ASSUME NEW r \in Removals, Deletion(r) PROVE TableTypeOK'
  <2>0. removal[r] # "unused" => doomed[r] \in Sheets
    BY DEF TableTypeOK
  <2>1. CASE Unchain(r)
    BY <1>0, <2>1 DEF TableTypeOK, Unchain, Moved
  <2>2. CASE DeleteStored(r)
    <3>1. removal' \in [Removals -> {"unused", "failed", "removed", "lost"} \cup Deleting]
          /\ \A o \in Removals : removal'[o] # "unused" => removal[o] # "unused"
      BY <1>0, <2>2 DEF TableTypeOK, DeleteStored, Moved
    <3>2. doomed[r] \in Sheets
      BY <2>0, <2>2 DEF DeleteStored
    <3>3. \A x : /\ HasFields([db[doomed[r]] EXCEPT !.name = x])
                 /\ HasFields([db[doomed[r]] EXCEPT !.cols = x])
                 /\ HasFields([db[doomed[r]] EXCEPT !.rows = x])
      BY <3>2 DEF TableTypeOK, HasFields
    <3>4. \E d : HasFields(d) /\ db' = [db EXCEPT ![doomed[r]] = d]
      BY <2>2, <3>3 DEF DeleteStored
    <3>5. db' = [s \in Sheets |-> db'[s]] /\ \A s \in Sheets : HasFields(db'[s])
      BY <3>2, <3>4 DEF TableTypeOK
    <3> QED
      BY <2>2, <3>1, <3>5 DEF TableTypeOK, DeleteStored
  <2>3. CASE RemoveFails(r)
    BY <1>0, <2>3 DEF TableTypeOK, RemoveFails, Moved
  <2>4. CASE Forget(r)
    <3>1. /\ removal' \in [Removals -> {"unused", "failed", "removed", "lost"} \cup Deleting]
          /\ \A o \in Removals : removal'[o] # "unused" => removal[o] # "unused"
      BY <1>0, <2>4 DEF TableTypeOK, Forget, Moved
    <3>2. doomed[r] \in Sheets
      BY <2>0, <2>4 DEF Forget
    <3>3. sheets' = [s \in Sheets |-> sheets'[s]] /\ \A s \in Sheets : HasFields(sheets'[s])
      BY <2>4, <3>2, NamedHasFields, MainAssumption DEF TableTypeOK, Forget, Absent
    <3>4. /\ chain' \in [Sheets -> Writes \cup {None}]
          /\ on' \in [Writes -> Sheets \cup {None}]
          /\ waits' \in [Writes -> Writes \cup {None}]
          /\ step' \in [Writes -> {"unused"} \cup Queued \cup Over]
          /\ \A w \in Writes : step'[w] # "unused" => on'[w] \in Sheets
      <4>1. \/ UNCHANGED <<chain, on, waits, step>>
            \/ /\ on' = [on EXCEPT ![r] = Main] /\ waits' = [waits EXCEPT ![r] = chain[Main]]
               /\ step' = [step EXCEPT ![r] = "waiting"] /\ chain' = [chain EXCEPT ![Main] = r]
        BY <2>4 DEF Forget
      <4>2. r \in Writes /\ Main \in Sheets
        BY <1>0, MainAssumption
      <4>3. CASE UNCHANGED <<chain, on, waits, step>>
        BY <4>3 DEF TableTypeOK
      <4>4. CASE ~UNCHANGED <<chain, on, waits, step>>
        <5>1. chain[Main] \in Writes \cup {None} /\ "waiting" \in Queued
          BY <1>0, <4>2 DEF TableTypeOK
        <5>2. /\ on' = [on EXCEPT ![r] = Main] /\ waits' = [waits EXCEPT ![r] = chain[Main]]
              /\ step' = [step EXCEPT ![r] = "waiting"] /\ chain' = [chain EXCEPT ![Main] = r]
          BY <4>1, <4>4
        <5> QED
          BY <4>2, <5>1, <5>2 DEF TableTypeOK
      <4> QED
        BY <4>3, <4>4
    <3> QED
      BY <2>4, <3>1, <3>3, <3>4 DEF TableTypeOK, Forget
  <2>5. CASE Seeded(r)
    BY <1>0, <2>5 DEF TableTypeOK, Seeded, Moved
  <2> QED
    BY <1>4, <2>1, <2>2, <2>3, <2>4, <2>5 DEF Deletion
<1>5. CASE Flush \/ Flushed \/ Close
  BY <1>5 DEF TableTypeOK, Flush, Flushed, Close
<1>6. CASE Restart
  <2>1. db' = [s \in Sheets |-> db'[s]] /\ \A s \in Sheets : HasFields(db'[s])
    BY <1>6, NamedHasFields DEF TableTypeOK, Restart
  <2>2. sheets' = [s \in Sheets |-> sheets'[s]] /\ \A s \in Sheets : HasFields(sheets'[s])
    BY <1>6, <2>1, NamedHasFields DEF Restart, Stored, Absent
  <2>3. step' \in [Writes -> {"unused"} \cup Queued \cup Over]
        /\ \A w \in Writes : step'[w] # "unused" => step[w] # "unused"
    BY <1>0, <1>6 DEF TableTypeOK, Restart
  <2>4. removal' \in [Removals -> {"unused", "failed", "removed", "lost"} \cup Deleting]
        /\ \A o \in Removals : removal'[o] # "unused" => removal[o] # "unused"
    BY <1>6 DEF TableTypeOK, Restart
  <2>5. chain' \in [Sheets -> Writes \cup {None}]
    BY <1>6 DEF Restart
  <2> QED
    BY <1>6, <2>1, <2>2, <2>3, <2>4, <2>5 DEF TableTypeOK, Restart
<1>7. CASE UNCHANGED vars
  BY <1>7 DEF TableTypeOK
<1> QED
  BY <1>1, <1>2, <1>3, <1>4, <1>5, <1>6, <1>7 DEF Next

\* While nobody queues and nobody is over, the lines stay as they are.
LEMMA SameLines ==
  ASSUME InTurn, UNCHANGED <<on, waits, step>>, crossed \subseteq crossed',
         \A s \in Sheets \ crossed : chain'[s] = chain[s]
  PROVE  InTurn'
<1> SUFFICES ASSUME NEW s \in Sheets \ crossed'
             PROVE  \E n \in Nat : \E q \in [1..n -> Writes] : Lined(s, n, q)'
  BY DEF InTurn
<1>1. s \in Sheets \ crossed
  OBVIOUS
<1>2. PICK n \in Nat : \E q \in [1..n -> Writes] : Lined(s, n, q)
  BY <1>1 DEF InTurn
<1>3. PICK q \in [1..n -> Writes] : Lined(s, n, q)
  BY <1>2
<1>4. chain'[s] = chain[s]
  BY <1>1
<1>5. Lined(s, n, q)'
  BY <1>3, <1>4 DEF Lined
<1> QED
  BY <1>5

\* The writes of every sheet stay in line.
LEMMA TurnStep ==
  ASSUME TableInv, [Next]_vars
  PROVE  InTurn'
<1> USE DEF TableInv, vars, writeVars, removalVars, serverVars
<1>1. ASSUME NEW e \in Edits, Edit(e) PROVE InTurn'
  <2>1. PICK s \in Sheets : \E c : HasFields(c) /\ c.name # "absent" /\ Change(e, s, c)
    BY <1>1, EditEffect
  <2>2. e \in Writes /\ step[e] = "unused" /\ Enqueue(e, s) /\ crossed \subseteq crossed'
    BY <2>1 DEF Change, Writes
  <2> QED
    BY <2>2, EnqueueKeepsTurn DEF Enqueue
<1>2. ASSUME NEW r \in Removals, NEW s \in Sheets, DeleteSheet(r, s) PROVE InTurn'
  BY <1>2, SameLines DEF DeleteSheet
<1>3. ASSUME NEW w \in Writes, Persist(w) PROVE InTurn'
  <2>1. /\ UNCHANGED <<on, waits, crossed>>
        /\ step[w] \in Queued /\ on[w] \in Sheets
        /\ step[w] = "waiting" => waits[w] = None \/ step[waits[w]] \in Over
    BY <1>3, PersistEffect
  <2>2. PICK to : /\ step' = [step EXCEPT ![w] = to]
                  /\ \/ to \in Writing /\ UNCHANGED chain
                     \/ /\ to \in Over
                        /\ chain' = [chain EXCEPT ![on[w]] = IF @ = w THEN None ELSE @]
    BY <1>3, PersistEffect
  <2> QED
    BY <2>1, <2>2, FirstKeepsTurn
<1>4. ASSUME NEW r \in Removals, Deletion(r) PROVE InTurn'
  <2>1. CASE Unchain(r)
    <3>1. ASSUME doomed[r] \notin crossed PROVE chain[doomed[r]] = None
      <4>1. doomed[r] \in Sheets /\ awaits[r] \in Writes /\ chain[doomed[r]] \in {awaits[r], None}
            /\ step[awaits[r]] \in Over
        BY <2>1, <3>1 DEF TableTypeOK, DeletionsAlone, Unchain
      <4> QED
        BY <3>1, <4>1, ChainHoldsQueued DEF Over, Queued, Writing
    <3>2. \A s \in Sheets \ crossed : chain'[s] = chain[s]
      BY <2>1, <3>1 DEF TableTypeOK, Unchain
    <3> QED
      BY <2>1, <3>2, SameLines DEF Unchain
  <2>2. CASE DeleteStored(r) \/ RemoveFails(r) \/ Seeded(r)
    BY <2>2, SameLines DEF DeleteStored, RemoveFails, Seeded
  <2>3. CASE Forget(r)
    <3>1. CASE UNCHANGED <<chain, on, waits, step>>
      BY <2>3, <3>1, SameLines DEF Forget
    <3>2. CASE ~UNCHANGED <<chain, on, waits, step>>
      <4>1. /\ on' = [on EXCEPT ![r] = Main] /\ waits' = [waits EXCEPT ![r] = chain[Main]]
            /\ step' = [step EXCEPT ![r] = "waiting"] /\ chain' = [chain EXCEPT ![Main] = r]
        BY <2>3, <3>2 DEF Forget
      <4>2. step[r] = "unused" /\ r \in Writes /\ crossed' = crossed
        BY <2>3 DEF DeletionsAlone, Forget, Writes
      <4> QED
        BY <4>1, <4>2, EnqueueKeepsTurn, MainAssumption
    <3> QED
      BY <3>1, <3>2
  <2> QED
    BY <1>4, <2>1, <2>2, <2>3 DEF Deletion
<1>5. CASE Flush \/ Flushed \/ Close
  BY <1>5, SameLines DEF Flush, Flushed, Close
<1>6. CASE Restart
  <2> SUFFICES ASSUME NEW s \in Sheets \ crossed'
               PROVE  \E n \in Nat : \E q \in [1..n -> Writes] : Lined(s, n, q)'
    BY DEF InTurn
  <2> DEFINE q == [i \in 1..0 |-> None]
  <2>1. q \in [1..0 -> Writes] /\ \A i \in 1..0 : FALSE
    OBVIOUS
  <2>2. chain'[s] = None /\ \A w \in Writes : step'[w] \notin Queued
    BY <1>6 DEF Restart, Queued, Writing
  <2> HIDE DEF q
  <2>3. {w \in Writes : on'[w] = s /\ step'[w] \in Queued} = {q[i] : i \in 1..0}
    BY <2>1, <2>2
  <2>4. \A i \in 2..0 : FALSE
    OBVIOUS
  <2>5. Lined(s, 0, q)'
    BY <2>1, <2>2, <2>3, <2>4 DEF Lined
  <2> QED
    BY <2>1, <2>5
<1>7. CASE UNCHANGED vars
  BY <1>7, SameLines
<1> QED
  BY <1>1, <1>2, <1>3, <1>4, <1>5, <1>6, <1>7 DEF Next

\* A deletion has its sheet to itself.
LEMMA AloneStep ==
  ASSUME TableInv, [Next]_vars
  PROVE  DeletionsAlone'
<1> USE DEF TableInv, vars, writeVars, removalVars, serverVars
<1>0. /\ Deleting = {"waiting", "sheet", "columns", "rows", "forget", "seeding"}
      /\ Erasing = {"sheet", "columns", "rows", "forget"}
      /\ Removals \cap Edits = {} /\ Removals \subseteq Writes
  BY DistinctAssumption DEF Deleting, Erasing, Writes
<1>1. ASSUME NEW e \in Edits, Edit(e) PROVE DeletionsAlone'
  <2>1. PICK s \in Sheets : \E c : HasFields(c) /\ c.name # "absent" /\ Change(e, s, c)
    BY <1>1, EditEffect
  <2>2. PICK c : c.name # "absent" /\ Change(e, s, c)
    BY <2>1
  <2>3. /\ Doomed(s) => s \in crossed'
        /\ crossed \subseteq crossed' /\ UNCHANGED <<db, removal, doomed, awaits>>
    BY <2>2 DEF Change
  <2>4. \A r \in Removals : removal[r] \in Deleting /\ doomed[r] \notin crossed' =>
          doomed[r] \in Sheets /\ chain'[doomed[r]] = chain[doomed[r]]
          /\ (Present(doomed[r]) => Present(doomed[r])')
    BY <2>2, <2>3 DEF TableTypeOK, Change, Enqueue, Doomed, Present, Deleting
  <2>5. \A r \in Removals : step'[r] = step[r]
    BY <1>0, <2>2 DEF TableTypeOK, Change, Enqueue
  <2> QED
    BY <1>0, <2>3, <2>4, <2>5 DEF DeletionsAlone
<1>2. ASSUME NEW r \in Removals, NEW s \in Sheets, DeleteSheet(r, s) PROVE DeletionsAlone'
  <2>1. /\ Doomed(s) => s \in crossed'
        /\ crossed \subseteq crossed' /\ Present(s) /\ UNCHANGED <<sheets, chain, step, db>>
    BY <1>2 DEF DeleteSheet
  <2>2. /\ \A o \in Removals : o # r =>
             removal'[o] = removal[o] /\ doomed'[o] = doomed[o] /\ awaits'[o] = awaits[o]
        /\ removal'[r] = (IF chain[s] = None THEN "sheet" ELSE "waiting")
        /\ doomed'[r] = s /\ awaits'[r] = chain[s] /\ removal[r] = "unused"
    BY <1>2 DEF TableTypeOK, DeleteSheet, Moved
  <2>3. \A o \in Removals : removal[o] \in Deleting /\ doomed[o] \notin crossed' => doomed[o] # s
    BY <2>1 DEF Doomed
  <2>4. chain[s] = None \/ chain[s] \in Writes
    BY DEF TableTypeOK
  <2> QED
    BY <1>0, <2>1, <2>2, <2>3, <2>4 DEF DeletionsAlone, Present
<1>3. ASSUME NEW w \in Writes, Persist(w) PROVE DeletionsAlone'
  <2>1. /\ UNCHANGED <<sheets, on, waits, removal, doomed, awaits, crossed>>
        /\ step[w] \in Queued /\ on[w] \in Sheets
        /\ \A s \in Sheets : s # on[w] => db'[s] = db[s]
    BY <1>3, PersistEffect
  <2>2. PICK to : /\ step' = [step EXCEPT ![w] = to]
                  /\ \/ to \in Writing /\ UNCHANGED chain
                     \/ /\ to \in Over
                        /\ chain' = [chain EXCEPT ![on[w]] = IF @ = w THEN None ELSE @]
    BY <1>3, PersistEffect
  <2>3. \A s \in Sheets : chain'[s] = chain[s] \/ chain'[s] = None
    BY <2>1, <2>2 DEF TableTypeOK
  <2>4. \A r \in Removals : step[r] = "unused" => step'[r] = "unused"
    BY <1>0, <2>1, <2>2 DEF TableTypeOK, Queued, Writing
  <2>5. \A r \in Removals : removal[r] # "unused" => doomed[r] \in Sheets
    BY DEF TableTypeOK
  <2>6. \A r \in Removals : removal[r] \in Erasing /\ doomed[r] \notin crossed => doomed[r] # on[w]
    BY <2>1, <2>5, ChainHoldsQueued DEF DeletionsAlone, Erasing
  <2> QED
    BY <1>0, <2>1, <2>3, <2>4, <2>5, <2>6 DEF DeletionsAlone, Present
<1>4. ASSUME NEW r \in Removals, Deletion(r) PROVE DeletionsAlone'
  <2>0. doomed[r] \in Sheets /\ UNCHANGED <<doomed, awaits, crossed>>
        /\ \A o \in Removals : o # r => removal'[o] = removal[o]
    BY <1>4 DEF TableTypeOK, Deletion, Unchain, DeleteStored, RemoveFails, Forget, Seeded, Moved
  <2>1. CASE Unchain(r)
    <3>1. removal[r] = "waiting" /\ removal'[r] = "sheet" /\ UNCHANGED <<sheets, step, db>>
      BY <2>1 DEF TableTypeOK, Unchain, Moved
    <3>2. \A s \in Sheets : chain'[s] = chain[s] \/ chain'[s] = None
      BY <2>1 DEF TableTypeOK, Unchain
    <3>3. chain'[doomed[r]] = None
      BY <2>0, <2>1 DEF TableTypeOK, Unchain
    <3>4. \A o \in Removals : removal[o] # "unused" => doomed[o] \in Sheets
      BY DEF TableTypeOK
    <3> QED
      BY <1>0, <2>0, <3>1, <3>2, <3>3, <3>4 DEF DeletionsAlone, Present
  <2>2. CASE DeleteStored(r)
    <3>1. /\ UNCHANGED <<sheets, chain, step>>
          /\ removal[r] \in Erasing \ {"forget"} /\ removal'[r] \in Erasing \ {"sheet"}
      BY <1>0, <2>2 DEF TableTypeOK, DeleteStored, Moved
    <3>2. \A s \in Sheets : s # doomed[r] => db'[s] = db[s]
      BY <2>2 DEF TableTypeOK, DeleteStored
    <3>3. doomed[r] \notin crossed => db'[doomed[r]].name = "absent"
      <4>1. CASE removal[r] = "sheet"
        <5>1. db' = [db EXCEPT ![doomed[r]] = [db[doomed[r]] EXCEPT !.name = "absent"]]
          BY <2>2, <4>1 DEF DeleteStored
        <5> QED
          BY <2>0, <5>1 DEF TableTypeOK, HasFields
      <4>2. CASE removal[r] # "sheet" /\ doomed[r] \notin crossed
        <5>1. db[doomed[r]].name = "absent"
          BY <3>1, <4>2 DEF DeletionsAlone
        <5>2. \E x : db' = [db EXCEPT ![doomed[r]] = [db[doomed[r]] EXCEPT !.cols = x]]
                     \/ db' = [db EXCEPT ![doomed[r]] = [db[doomed[r]] EXCEPT !.rows = x]]
          BY <2>2, <4>2 DEF DeleteStored
        <5> QED
          BY <2>0, <5>1, <5>2 DEF TableTypeOK, HasFields
      <4> QED
        BY <4>1, <4>2
    <3>4. \A o \in Removals : removal[o] # "unused" => doomed[o] \in Sheets
      BY DEF TableTypeOK
    <3> QED
      BY <1>0, <2>0, <3>1, <3>2, <3>3, <3>4 DEF DeletionsAlone, Present
  <2>3. CASE RemoveFails(r)
    <3>1. removal[r] \in Erasing /\ removal'[r] = "failed" /\ UNCHANGED <<sheets, chain, step, db>>
      BY <1>0, <2>3 DEF TableTypeOK, RemoveFails, Moved
    <3> QED
      BY <1>0, <2>0, <3>1 DEF DeletionsAlone, Present
  <2>4. CASE Forget(r)
    <3>0. removal[r] = "forget" /\ removal'[r] \in {"removed", "seeding"} /\ UNCHANGED db
      BY <2>4 DEF TableTypeOK, Forget, Moved
    <3>1. \A o \in Removals \ {r} : removal[o] \in Deleting /\ doomed[o] \notin crossed =>
            doomed[o] # doomed[r] /\ doomed[o] \in Sheets
      BY <1>0, <3>0 DEF TableTypeOK, DeletionsAlone
    <3>2. CASE {q \in Sheets \ {doomed[r]} : Present(q)} # {}
      <4>1. /\ sheets' = [sheets EXCEPT ![doomed[r]] = Absent] /\ UNCHANGED <<chain, step>>
            /\ removal'[r] = "removed"
        BY <2>4, <3>2 DEF TableTypeOK, Forget, Moved
      <4>2. \A o \in Removals \ {r} : removal[o] \in Deleting /\ doomed[o] \notin crossed =>
              sheets'[doomed[o]] = sheets[doomed[o]]
        BY <3>1, <4>1 DEF TableTypeOK
      <4> QED
        BY <1>0, <2>0, <3>0, <4>1, <4>2 DEF DeletionsAlone, Present
    <3>3. CASE {q \in Sheets \ {doomed[r]} : Present(q)} = {}
      <4>1. /\ step' = [step EXCEPT ![r] = "waiting"] /\ chain' = [chain EXCEPT ![Main] = r]
            /\ removal'[r] = "seeding"
        BY <2>4, <3>3 DEF TableTypeOK, Forget, Moved
      <4>2. \A o \in Removals \ {r} :
              doomed[o] \notin crossed => removal[o] \notin Erasing \cup {"waiting"}
        BY <1>0, <3>1, <3>3 DEF DeletionsAlone
      <4>3. \A o \in Removals \ {r} : step'[o] = step[o]
        BY <1>0, <4>1 DEF TableTypeOK
      <4> QED
        BY <1>0, <2>0, <3>0, <4>1, <4>2, <4>3 DEF DeletionsAlone
    <3> QED
      BY <3>2, <3>3
  <2>5. CASE Seeded(r)
    <3>1. removal[r] = "seeding" /\ removal'[r] = "removed" /\ UNCHANGED <<sheets, chain, step, db>>
      BY <2>5 DEF TableTypeOK, Seeded, Moved
    <3> QED
      BY <1>0, <2>0, <3>1 DEF DeletionsAlone, Present
  <2> QED
    BY <1>4, <2>1, <2>2, <2>3, <2>4, <2>5 DEF Deletion
<1>5. CASE Flush \/ Flushed \/ Close
  <2>1. UNCHANGED <<sheets, chain, step, db, removal, doomed, awaits, crossed>>
    BY <1>5 DEF Flush, Flushed, Close
  <2> QED
    BY <2>1 DEF DeletionsAlone, Present
<1>6. CASE Restart
  <2>1. \A r \in Removals : removal'[r] \in {"unused", "removed", "lost"}
                            /\ (removal'[r] = "unused" => removal[r] = "unused")
    BY <1>6 DEF Restart
  <2>2. \A r \in Removals : step[r] = "unused" => step'[r] = "unused"
    BY <1>0, <1>6 DEF Restart
  <2> QED
    BY <1>0, <2>1, <2>2 DEF DeletionsAlone
<1>7. CASE UNCHANGED vars
  BY <1>7 DEF DeletionsAlone, Present
<1> QED
  BY <1>1, <1>2, <1>3, <1>4, <1>5, <1>6, <1>7 DEF Next

\* What is not shown is not stored again.
LEMMA GoneStep ==
  ASSUME TableInv, [Next]_vars
  PROVE  GoneIsGone'
<1> USE DEF TableInv, vars, writeVars, removalVars, serverVars
<1>1. ASSUME NEW e \in Edits, Edit(e) PROVE GoneIsGone'
  <2>1. PICK s \in Sheets : \E c : HasFields(c) /\ c.name # "absent" /\ Change(e, s, c)
    BY <1>1, EditEffect
  <2>2. PICK c : c.name # "absent" /\ Change(e, s, c)
    BY <2>1
  <2>3. \A t \in Sheets : Present(t) => Present(t)'
    BY <2>2 DEF TableTypeOK, Change, Present
  <2>4. Present(s)' /\ crossed \subseteq crossed' /\ UNCHANGED db
    BY <2>2 DEF TableTypeOK, Change, Present
  <2>5. \A w \in Writes : step'[w] \in Queued =>
          on'[w] = s \/ (on'[w] = on[w] /\ step[w] \in Queued /\ on[w] \in Sheets)
    BY <2>2 DEF TableTypeOK, Change, Enqueue, Queued, Writing, Writes
  <2> QED
    BY <2>3, <2>4, <2>5 DEF GoneIsGone
<1>2. ASSUME NEW r \in Removals, NEW s \in Sheets, DeleteSheet(r, s) PROVE GoneIsGone'
  BY <1>2 DEF DeleteSheet, GoneIsGone, Present
<1>3. ASSUME NEW w \in Writes, Persist(w) PROVE GoneIsGone'
  <2>1. /\ UNCHANGED <<sheets, on, crossed>> /\ step[w] \in Queued
        /\ \A s \in Sheets : s # on[w] => db'[s] = db[s]
    BY <1>3, PersistEffect
  <2>2. PICK to : step' = [step EXCEPT ![w] = to]
    BY <1>3, PersistEffect
  <2>3. \A v \in Writes : step'[v] \in Queued => step[v] \in Queued
    BY <2>1, <2>2 DEF TableTypeOK
  <2>4. Present(on[w]) \/ on[w] \in crossed
    BY <2>1 DEF GoneIsGone
  <2> QED
    BY <2>1, <2>3, <2>4 DEF GoneIsGone, Present
<1>4. ASSUME NEW r \in Removals, Deletion(r) PROVE GoneIsGone'
  <2>1. CASE Unchain(r) \/ RemoveFails(r) \/ Seeded(r)
    BY <2>1 DEF Unchain, RemoveFails, Seeded, GoneIsGone, Present
  <2>2. CASE DeleteStored(r)
    <3>1. UNCHANGED <<sheets, step, on, crossed>> /\ doomed[r] \in Sheets
          /\ \A s \in Sheets : s # doomed[r] => db'[s] = db[s]
      BY <2>2 DEF TableTypeOK, DeleteStored
    <3>2. Present(doomed[r]) \/ doomed[r] \in crossed
      BY <2>2 DEF DeletionsAlone, DeleteStored, Erasing
    <3> QED
      BY <3>1, <3>2 DEF GoneIsGone, Present
  <2>3. CASE Forget(r)
    <3>1. /\ doomed[r] \in Sheets
          /\ UNCHANGED <<db, crossed>>
          /\ doomed[r] \notin crossed => chain[doomed[r]] = None /\ db[doomed[r]].name = "absent"
      BY <2>3 DEF TableTypeOK, DeletionsAlone, Forget, Erasing
    <3>2. \A w \in Writes : step[w] \in Queued =>
            on[w] \in Sheets /\ (on[w] # doomed[r] \/ on[w] \in crossed)
      BY <3>1, ChainHoldsQueued DEF TableTypeOK, Queued, Writing
    <3>3. \A t \in Sheets : t # doomed[r] => (Present(t) => Present(t)')
      BY <2>3, DistinctAssumption, AbsentAssumption DEF TableTypeOK, Forget, Present, Named
    <3>4. CASE {q \in Sheets \ {doomed[r]} : Present(q)} # {}
      <4>1. sheets' = [sheets EXCEPT ![doomed[r]] = Absent] /\ UNCHANGED <<step, on>>
        BY <2>3, <3>4 DEF Forget
      <4> QED
        BY <3>1, <3>2, <3>3, <4>1 DEF TableTypeOK, GoneIsGone, Present
    <3>5. CASE {q \in Sheets \ {doomed[r]} : Present(q)} = {}
      <4>1. /\ sheets' = [sheets EXCEPT ![doomed[r]] = Absent, ![Main] = Named(None)]
            /\ on' = [on EXCEPT ![r] = Main] /\ step' = [step EXCEPT ![r] = "waiting"]
        BY <2>3, <3>5 DEF Forget
      <4>2. Present(Main)'
        BY <4>1, MainAssumption, AbsentAssumption DEF TableTypeOK, Present, Named
      <4>3. \A w \in Writes : step'[w] \in Queued =>
              on'[w] = Main \/ (on'[w] = on[w] /\ step[w] \in Queued)
        BY <4>1 DEF TableTypeOK, Writes
      <4>4. \A t \in Sheets : ~Present(t)' => t = doomed[r] \/ ~Present(t)
        BY <3>3
      <4> QED
        BY <3>1, <3>2, <3>3, <4>2, <4>3, <4>4 DEF GoneIsGone
    <3> QED
      BY <3>4, <3>5
  <2> QED
    BY <1>4, <2>1, <2>2, <2>3 DEF Deletion
<1>5. CASE Flush \/ Flushed \/ Close
  BY <1>5 DEF Flush, Flushed, Close, GoneIsGone, Present
<1>6. CASE Restart
  <2>1. \A w \in Writes : step'[w] \notin Queued
    BY <1>6 DEF Restart, Queued, Writing
  <2>2. \A s \in Sheets : sheets'[s] = Stored(s)'
    BY <1>6 DEF Restart
  <2> QED
    BY <2>1, <2>2 DEF GoneIsGone, Present, Stored
<1>7. CASE UNCHANGED vars
  BY <1>7 DEF GoneIsGone, Present
<1> QED
  BY <1>1, <1>2, <1>3, <1>4, <1>5, <1>6, <1>7 DEF Next

-----------------------------------------------------------------------------
\* A new server has no writes and no deletions.
LEMMA InitTable ==
  ASSUME Init
  PROVE  TableInv
<1> USE DEF Init
<1>1. TableTypeOK
  BY NamedHasFields DEF TableTypeOK, Absent
<1>2. InTurn
  <2> SUFFICES ASSUME NEW s \in Sheets \ crossed
               PROVE  \E n \in Nat : \E q \in [1..n -> Writes] : Lined(s, n, q)
    BY DEF InTurn
  <2> DEFINE q == [i \in 1..0 |-> None]
  <2>1. q \in [1..0 -> Writes] /\ \A i \in 1..0 : FALSE
    OBVIOUS
  <2>2. chain[s] = None /\ \A w \in Writes : step[w] \notin Queued
    BY DEF Queued, Writing
  <2> HIDE DEF q
  <2>3. {w \in Writes : on[w] = s /\ step[w] \in Queued} = {q[i] : i \in 1..0}
    BY <2>1, <2>2
  <2>4. \A i \in 2..0 : FALSE
    OBVIOUS
  <2>5. Lined(s, 0, q)
    BY <2>1, <2>2, <2>3, <2>4 DEF Lined
  <2> QED
    BY <2>1, <2>5
<1>3. DeletionsAlone
  BY DEF DeletionsAlone, Deleting, Erasing, Writes
<1>4. GoneIsGone
  BY DEF GoneIsGone, Queued, Writing, Present
<1> QED
  BY <1>1, <1>2, <1>3, <1>4 DEF TableInv

\* TableInv holds of every behaviour: what is done to a sheet while it is being
\* deleted disturbs no other sheet, and edits while the server stops disturb none.
THEOREM TableInvariant == Spec => []TableInv
<1>1. ASSUME TableInv, [Next]_vars PROVE TableInv'
  BY <1>1, TypeStep, TurnStep, AloneStep, GoneStep DEF TableInv
<1> QED
  BY <1>1, InitTable, PTL DEF Spec

\* "Per-sheet serial persist chain so concurrent fire-and-forget writes cannot
\* interleave", and a deleted sheet is not resurrected by a queued write
\* (table-store.ts): whatever fails, crashes or restarts in between, and whatever is
\* done to the sheets that are in crossed.
THEOREM WrittenInTurn == Spec => []SheetsAreWrittenInTurn
<1>1. ASSUME TableInv PROVE SheetsAreWrittenInTurn
  <2> USE <1>1 DEF TableInv
  <2>1. WritesAreSerial
    <3> SUFFICES ASSUME NEW v \in Writes, NEW w \in Writes,
                        step[v] \in Writing, step[w] \in Writing, on[v] = on[w], on[v] \notin crossed
                 PROVE  v = w
      BY DEF WritesAreSerial
    <3>1. on[w] \in Sheets /\ step[v] \in Queued /\ step[w] \in Queued
          /\ step[v] # "waiting" /\ step[w] # "waiting"
      BY DEF TableTypeOK, Queued, Writing
    <3>2. PICK n \in Nat : \E q \in [1..n -> Writes] : Lined(on[w], n, q)
      BY <3>1 DEF InTurn
    <3>3. PICK q \in [1..n -> Writes] : Lined(on[w], n, q)
      BY <3>2
    <3> QED
      BY <3>1, <3>3, FirstOfLine
  <2>2. \A s \in Sheets \ crossed : StaysGone(s)
    BY DEF StaysGone, GoneIsGone
  <2> QED
    BY <2>1, <2>2 DEF SheetsAreWrittenInTurn
<1> QED
  BY <1>1, TableInvariant, PTL

-----------------------------------------------------------------------------
(* What is stored of a sheet follows what is shown. *)

IsList(x) == \E n \in Nat : x = [i \in 1..n |-> x[i]]

\* A list is a sequence of its elements, and of any others.
LEMMA ListIsSeq ==
  ASSUME NEW x, IsList(x), NEW S, \A i \in DOMAIN x : x[i] \in S
  PROVE  x \in Seq(S)
<1>1. PICK n \in Nat : x = [i \in 1..n |-> x[i]]
  BY DEF IsList
<1>2. DOMAIN x = 1..n /\ \A i \in 1..n : x[i] \in S
  BY <1>1
<1>3. x \in [1..n -> S]
  BY <1>1, <1>2
<1> QED BY <1>3, SeqDef

LEMMA SeqIsList ==
  ASSUME NEW S, NEW x \in Seq(S)
  PROVE  IsList(x)
<1>1. x = [i \in 1..Len(x) |-> x[i]] /\ Len(x) \in Nat
  OBVIOUS
<1> QED BY <1>1 DEF IsList

\* Storing the head of what is left to store keeps what will be stored in the end.
LEMMA StoreOne ==
  ASSUME NEW a, IsList(a), NEW b, IsList(b), b # <<>>
  PROVE  /\ IsList(Append(a, Head(b))) /\ IsList(Tail(b))
         /\ Append(a, Head(b)) \o Tail(b) = a \o b
<1> DEFINE S == {a[i] : i \in DOMAIN a} \cup {b[i] : i \in DOMAIN b}
<1>1. /\ \A i \in DOMAIN a : a[i] \in S
      /\ \A i \in DOMAIN b : b[i] \in S
  OBVIOUS
<1> HIDE DEF S
<1>2. a \in Seq(S) /\ b \in Seq(S)
  BY <1>1, ListIsSeq
<1>3. Head(b) \in S /\ Tail(b) \in Seq(S) /\ Append(a, Head(b)) \in Seq(S)
  BY <1>2
<1>4. PICK h : h = Head(b)
  OBVIOUS
<1>5. PICK t : t = Tail(b)
  OBVIOUS
<1>6. h \in S /\ t \in Seq(S) /\ <<h>> \in Seq(S)
  BY <1>3, <1>4, <1>5
<1>7. <<h>> \o t = b
  BY <1>2, <1>4, <1>5, <1>6
<1>8. Append(a, h) = a \o <<h>>
  BY <1>2, <1>6, AppendIsConcat
<1>9. (a \o <<h>>) \o t = a \o (<<h>> \o t)
  BY <1>2, <1>6, ConcatAssociative
<1>10. Append(a, Head(b)) \o Tail(b) = a \o b
  BY <1>4, <1>5, <1>7, <1>8, <1>9, Zenon
<1> QED BY <1>3, <1>10, SeqIsList

\* Nothing is left to store, or nothing is stored yet.
LEMMA AllStored ==
  ASSUME NEW a, IsList(a)
  PROVE  a \o <<>> = a /\ <<>> \o a = a
<1> DEFINE S == {a[i] : i \in DOMAIN a}
<1>1. \A i \in DOMAIN a : a[i] \in S
  OBVIOUS
<1> HIDE DEF S
<1>2. a \in Seq(S)
  BY <1>1, ListIsSeq
<1> QED BY <1>2

\* The empty list, and the list of one element.
LEMMA ShortLists == IsList(<<>>) /\ \A v : IsList(<<v>>)
<1>1. IsList(<<>>)
  <2>1. <<>> \in Seq({})
    OBVIOUS
  <2> QED BY <2>1, SeqIsList
<1>2. ASSUME NEW v PROVE IsList(<<v>>)
  <2>1. <<v>> \in Seq({v})
    OBVIOUS
  <2> QED BY <2>1, SeqIsList
<1> QED BY <1>1, <1>2

\* The lists a change of a sheet can make.
LEMMA ListsOfChanges ==
  ASSUME NEW x, IsList(x)
  PROVE  /\ \A v : IsList(Append(x, v))
         /\ \A gone : IsList(Kept(x, gone))
         /\ \A v : \A n \in 0..Len(x) : IsList(SubSeq(x, 1, n) \o <<v>> \o SubSeq(x, n + 1, Len(x)))
<1>1. ASSUME NEW v PROVE IsList(Append(x, v))
  <2> DEFINE S == {x[i] : i \in DOMAIN x} \cup {v}
  <2>1. v \in S /\ \A i \in DOMAIN x : x[i] \in S
    OBVIOUS
  <2> HIDE DEF S
  <2>2. x \in Seq(S) /\ <<v>> \in Seq(S)
    BY <2>1, ListIsSeq
  <2>3. Append(x, v) \in Seq(S)
    BY <2>1, <2>2
  <2> QED BY <2>2, <2>3, SeqIsList
<1>2. ASSUME NEW gone PROVE IsList(Kept(x, gone))
  <2>1. PICK n \in Nat : x = [i \in 1..n |-> x[i]]
    BY DEF IsList
  <2>2. IsFiniteSet(DOMAIN x \ gone)
    <3>1. DOMAIN x = 1..n /\ IsFiniteSet(1..n)
      BY <2>1, FS_Interval
    <3> QED BY <3>1, FS_Subset
  <2>3. Cardinality(DOMAIN x \ gone) \in Nat
    BY <2>2, FS_CardinalityType
  <2> QED BY <2>3 DEF IsList, Kept
<1>3. ASSUME NEW n \in 0..Len(x), NEW v
      PROVE  IsList(SubSeq(x, 1, n) \o <<v>> \o SubSeq(x, n + 1, Len(x)))
  <2> DEFINE S == {x[i] : i \in DOMAIN x} \cup {v}
  <2>1. v \in S /\ \A i \in DOMAIN x : x[i] \in S
    OBVIOUS
  <2> HIDE DEF S
  <2>2. x \in Seq(S) /\ <<v>> \in Seq(S) /\ Len(x) \in Nat
    BY <2>1, ListIsSeq
  <2>3. SubSeq(x, 1, n) \in Seq(S) /\ SubSeq(x, n + 1, Len(x)) \in Seq(S)
    BY <2>2, SubSeqProperties
  <2>4. SubSeq(x, 1, n) \o <<v>> \o SubSeq(x, n + 1, Len(x)) \in Seq(S)
    BY <2>2, <2>3
  <2> QED BY <2>4, SeqIsList
<1> QED BY <1>1, <1>2, <1>3

\* No write of sheet s failed, nor is it partly deleted.
Intact(s) ==
  /\ \A w \in Writes : on[w] = s => step[w] # "failed"
  /\ \A r \in Removals : doomed[r] = s => removal[r] \notin {"columns", "rows", "forget", "failed"}

\* How much of its sheet the last write of the line has stored.
Told(w, s) ==
  /\ step[w] = "naming" => todo[w][1] = sheets[s].name
  /\ step[w] \in Writing \ {"naming"} => db[s].name = sheets[s].name
  /\ step[w] = "droppingColumns" => todo[w] = sheets[s].cols
  /\ step[w] = "columns" => db[s].cols \o todo[w] = sheets[s].cols
  /\ step[w] \in {"droppingRows", "rows"} => db[s].cols = sheets[s].cols
  /\ step[w] = "droppingRows" => todo[w] = sheets[s].rows
  /\ step[w] = "rows" => db[s].rows \o todo[w] = sheets[s].rows

\* A sheet is stored as it is shown, or the last of its line will have stored it so.
Follows(s) == IF chain[s] = None THEN sheets[s] = Stored(s) ELSE Told(chain[s], s)

LastTells == \A s \in Sheets \ crossed : Intact(s) => Follows(s)

\* What is written is a list, and read from the store, unless its sheet left the store
\* during the write; what is gone is Absent.
ListsAreCopied ==
  /\ \A s \in Sheets : /\ IsList(sheets[s].cols) /\ IsList(sheets[s].rows)
                       /\ IsList(db[s].cols) /\ IsList(db[s].rows)
  /\ todo = [w \in Writes |-> todo[w]] /\ \A w \in Writes : IsList(todo[w])
  /\ \A w \in Writes : step[w] \in {"columns", "rows"} => todo[w] # <<>>
  /\ held = [w \in Writes |-> held[w]]
  /\ \A w \in Writes : IsList(held[w].cols) /\ IsList(held[w].rows)
  /\ \A w \in Writes : held[w] # Absent => on[w] \in crossed /\ step[w] # "unused"

\* The write of the sheet that follows the last one deleted: its deletion waits for it.
Seeds(w) == w \in Removals /\ removal[w] = "seeding"

\* The shutdown waits for the last of every line, first itself, then by way of deletions.
AllAwaited ==
  /\ phase \in {"up", "flushing", "closing", "closed"}
  /\ phase = "flushing" =>
       \A s \in Sheets \ (crossed \cup late) : chain[s] \in flushing \cup {None} \/ Seeds(chain[s])
  /\ phase = "closing" => \A s \in Sheets \ (crossed \cup late) : chain[s] = None \/ Seeds(chain[s])
  /\ phase = "closed" => /\ \A s \in Sheets \ (crossed \cup late) : chain[s] = None
                         /\ \A r \in Removals : removal[r] \notin Deleting

FollowInv == TableInv /\ ListsAreCopied /\ LastTells /\ AllAwaited

\* A call that changes a sheet leaves lists in it.
LEMMA EditLists ==
  ASSUME TableTypeOK, ListsAreCopied, NEW e \in Edits, Edit(e)
  PROVE  \E s \in Sheets : \E c : /\ IsList(c.cols) /\ IsList(c.rows) /\ Change(e, s, c)
<1>1. PICK s \in Sheets :
      \/ CreateSheet(e, s) \/ RenameSheet(e, s) \/ AddRow(e, s) \/ AddColumn(e, s) \/ Import(e, s)
      \/ \E keys \in SUBSET Keys(s) : UpdateRows(e, s, keys) \/ DeleteRows(e, s, keys)
      \/ \E k \in Edits, n \in 0..Len(sheets[s].rows) : RestoreRow(e, s, k, n)
      \/ \E i \in DOMAIN sheets[s].cols : DeleteColumn(e, s, sheets[s].cols[i])
  BY DEF Edit
<1>2. HasFields(sheets[s]) /\ IsList(sheets[s].cols) /\ IsList(sheets[s].rows)
  BY DEF TableTypeOK, ListsAreCopied
<1>3. ASSUME NEW newRows, IsList(newRows), Change(e, s, [sheets[s] EXCEPT !.rows = newRows])
      PROVE  \E c : IsList(c.cols) /\ IsList(c.rows) /\ Change(e, s, c)
  <2>1. [sheets[s] EXCEPT !.rows = newRows].rows = newRows /\ [sheets[s] EXCEPT !.rows = newRows].cols = sheets[s].cols
    BY <1>2 DEF HasFields
  <2> QED BY <1>2, <1>3, <2>1
<1>4. ASSUME NEW cols, IsList(cols), Change(e, s, [sheets[s] EXCEPT !.cols = cols])
      PROVE  \E c : IsList(c.cols) /\ IsList(c.rows) /\ Change(e, s, c)
  <2>1. [sheets[s] EXCEPT !.cols = cols].rows = sheets[s].rows /\ [sheets[s] EXCEPT !.cols = cols].cols = cols
    BY <1>2 DEF HasFields
  <2> QED BY <1>2, <1>4, <2>1
<1>5. CASE CreateSheet(e, s)
  <2>1. IsList(Named(e).cols) /\ IsList(Named(e).rows)
    BY ShortLists DEF Named
  <2> QED BY <1>5, <2>1 DEF CreateSheet
<1>6. CASE RenameSheet(e, s)
  <2> DEFINE c == [sheets[s] EXCEPT !.name = e]
  <2>1. c.cols = sheets[s].cols /\ c.rows = sheets[s].rows
    BY <1>2 DEF HasFields
  <2>2. Change(e, s, c)
    BY <1>6 DEF RenameSheet
  <2> QED BY <1>2, <2>1, <2>2
<1>7. CASE AddRow(e, s)
  <2>1. IsList(Append(sheets[s].rows, <<e, e>>))
    BY <1>2, ListsOfChanges
  <2> QED BY <1>3, <1>7, <2>1 DEF AddRow
<1>8. CASE AddColumn(e, s)
  <2>1. IsList(Append(sheets[s].cols, e))
    BY <1>2, ListsOfChanges
  <2> QED BY <1>4, <1>8, <2>1 DEF AddColumn
<1>9. CASE Import(e, s)
  <2> DEFINE c == [sheets[s] EXCEPT !.cols = <<e>>, !.rows = <<<<e, e>>>>]
  <2>1. c.cols = <<e>> /\ c.rows = <<<<e, e>>>>
    BY <1>2 DEF HasFields
  <2>2. IsList(<<e>>) /\ IsList(<<<<e, e>>>>)
    BY ShortLists
  <2>3. Change(e, s, c)
    BY <1>9 DEF Import
  <2> HIDE DEF c
  <2> QED BY <2>1, <2>2, <2>3
<1>10. ASSUME NEW keys, UpdateRows(e, s, keys)
       PROVE  \E c : IsList(c.cols) /\ IsList(c.rows) /\ Change(e, s, c)
  <2> DEFINE r == sheets[s].rows
             newRows == [i \in DOMAIN r |-> IF r[i][1] \in keys THEN <<r[i][1], e>> ELSE r[i]]
  <2>1. IsList(newRows)
    <3>1. PICK n \in Nat : r = [i \in 1..n |-> r[i]]
      BY <1>2 DEF IsList
    <3>2. DOMAIN r = 1..n
      BY <3>1
    <3>3. newRows = [i \in 1..n |-> newRows[i]]
      BY <3>2
    <3> QED BY <3>3 DEF IsList
  <2>2. Change(e, s, [sheets[s] EXCEPT !.rows = newRows])
    BY <1>10 DEF UpdateRows
  <2> HIDE DEF newRows
  <2> QED BY <1>3, <2>1, <2>2
<1>11. ASSUME NEW keys, DeleteRows(e, s, keys)
       PROVE  \E c : IsList(c.cols) /\ IsList(c.rows) /\ Change(e, s, c)
  <2> DEFINE newRows == Kept(sheets[s].rows, {i \in DOMAIN sheets[s].rows : sheets[s].rows[i][1] \in keys})
  <2>1. IsList(newRows)
    BY <1>2, ListsOfChanges
  <2>2. Change(e, s, [sheets[s] EXCEPT !.rows = newRows])
    BY <1>11 DEF DeleteRows
  <2> HIDE DEF newRows
  <2> QED BY <1>3, <2>1, <2>2
<1>12. ASSUME NEW k, NEW n \in 0..Len(sheets[s].rows), RestoreRow(e, s, k, n)
       PROVE  \E c : IsList(c.cols) /\ IsList(c.rows) /\ Change(e, s, c)
  <2> DEFINE r == sheets[s].rows
             newRows == SubSeq(r, 1, n) \o <<<<k, k>>>> \o SubSeq(r, n + 1, Len(r))
  <2>1. IsList(newRows)
    BY <1>2, ListsOfChanges
  <2>2. Change(e, s, [sheets[s] EXCEPT !.rows = newRows])
    BY <1>12 DEF RestoreRow
  <2> HIDE DEF newRows
  <2> QED BY <1>3, <2>1, <2>2
<1>13. ASSUME NEW col, DeleteColumn(e, s, col)
       PROVE  \E c : IsList(c.cols) /\ IsList(c.rows) /\ Change(e, s, c)
  <2> DEFINE cols == Kept(sheets[s].cols, {i \in DOMAIN sheets[s].cols : sheets[s].cols[i] = col})
  <2>1. IsList(cols)
    BY <1>2, ListsOfChanges
  <2>2. Change(e, s, [sheets[s] EXCEPT !.cols = cols])
    BY <1>13 DEF DeleteColumn
  <2> HIDE DEF cols
  <2> QED BY <1>4, <2>1, <2>2
<1> QED BY <1>1, <1>5, <1>6, <1>7, <1>8, <1>9, <1>10, <1>11, <1>12, <1>13

\* A write only stores lists, one element after the other.
LEMMA PersistLists ==
  ASSUME TableTypeOK, ListsAreCopied, NEW w \in Writes, Persist(w)
  PROVE  ListsAreCopied'
<1> DEFINE TodoOK(td, st) ==
             /\ td = [v \in Writes |-> td[v]] /\ \A v \in Writes : IsList(td[v])
             /\ \A v \in Writes : st[v] \in {"columns", "rows"} => td[v] # <<>>
           DbOK(d) == \A s \in Sheets : IsList(d[s].cols) /\ IsList(d[s].rows)
<1>1. /\ todo = [v \in Writes |-> todo[v]] /\ \A v \in Writes : IsList(todo[v])
      /\ \A v \in Writes : step[v] \in {"columns", "rows"} => todo[v] # <<>>
      /\ step \in [Writes -> {"unused"} \cup Queued \cup Over]
  BY DEF ListsAreCopied, TableTypeOK
<1>2. on[w] \in Sheets /\ step[w] \in Queued /\ UNCHANGED <<sheets, on, held, crossed>>
  <2>1. on[w] \in Sheets /\ step[w] \in Queued /\ UNCHANGED <<sheets, on, crossed>>
    BY PersistEffect
  <2>2. held' = held
    <3>1. CASE Begin(w)
      BY <3>1 DEF Begin
    <3>2. CASE StoreName(w) \/ DropColumns(w) \/ StoreColumn(w)
      BY <3>2 DEF StoreName, DropColumns, StoreColumn
    <3>3. CASE DropRows(w) \/ StoreRow(w) \/ WriteFails(w)
      BY <3>3 DEF DropRows, StoreRow, WriteFails
    <3> QED BY <3>1, <3>2, <3>3 DEF Persist
  <2> QED BY <2>1, <2>2
<1>3. Object(w) \in {held[w], sheets[on[w]]}
  BY DEF Object
<1>4. /\ IsList(Object(w).cols) /\ IsList(Object(w).rows)
      /\ IsList(db[on[w]].cols) /\ IsList(db[on[w]].rows) /\ HasFields(db[on[w]])
  BY <1>2, <1>3 DEF ListsAreCopied, TableTypeOK
<1>6. ASSUME NEW to, NEW what, Advance(w, to, what), IsList(what),
             to \in {"columns", "rows"} => what # <<>>
      PROVE  TodoOK(todo', step')
  BY <1>1, <1>6 DEF Advance
<1>7. ASSUME NEW how \in Over, Ended(w, how) PROVE TodoOK(todo', step')
  BY <1>1, <1>7 DEF Ended, Over
<1>8. ASSUME NEW cols, IsList(cols), ColumnsLeft(w, cols) PROVE TodoOK(todo', step')
  <2>1. CASE cols = <<>>
    <3>1. Advance(w, "droppingRows", Object(w).rows)
      BY <1>8, <2>1 DEF ColumnsLeft
    <3>2. IsList(Object(w).rows)
      BY <1>4
    <3> QED BY <1>6, <3>1, <3>2
  <2>2. CASE cols # <<>>
    <3>1. Advance(w, "columns", cols)
      BY <1>8, <2>2 DEF ColumnsLeft
    <3> QED BY <1>6, <1>8, <2>2, <3>1
  <2> QED BY <2>1, <2>2
<1>9. ASSUME NEW newRows, IsList(newRows), RowsLeft(w, newRows) PROVE TodoOK(todo', step')
  BY <1>6, <1>7, <1>9 DEF RowsLeft, Over
<1>10. ASSUME NEW d, IsList(d.cols), IsList(d.rows), db' = [db EXCEPT ![on[w]] = d]
       PROVE  DbOK(db')
  BY <1>10 DEF ListsAreCopied, TableTypeOK
<1>11. ASSUME UNCHANGED db PROVE DbOK(db')
  BY <1>11 DEF ListsAreCopied
<1>12. ASSUME NEW x, IsList(x)
       PROVE  /\ db' = [db EXCEPT ![on[w]].cols = x] => DbOK(db')
              /\ db' = [db EXCEPT ![on[w]].rows = x] => DbOK(db')
  <2>1. /\ [db[on[w]] EXCEPT !.cols = x].cols = x /\ [db[on[w]] EXCEPT !.cols = x].rows = db[on[w]].rows
        /\ [db[on[w]] EXCEPT !.rows = x].rows = x /\ [db[on[w]] EXCEPT !.rows = x].cols = db[on[w]].cols
    BY <1>4 DEF HasFields
  <2>2. ASSUME db' = [db EXCEPT ![on[w]].cols = x] PROVE DbOK(db')
    <3>1. db' = [db EXCEPT ![on[w]] = [db[on[w]] EXCEPT !.cols = x]]
      BY <2>2
    <3> QED BY <1>4, <1>10, <1>12, <2>1, <3>1
  <2>3. ASSUME db' = [db EXCEPT ![on[w]].rows = x] PROVE DbOK(db')
    <3>1. db' = [db EXCEPT ![on[w]] = [db[on[w]] EXCEPT !.rows = x]]
      BY <2>3
    <3> QED BY <1>4, <1>10, <1>12, <2>1, <3>1
  <2> QED BY <2>2, <2>3
<1> HIDE DEF TodoOK, DbOK
<1>13. TodoOK(todo', step') /\ DbOK(db')
  <2>1. CASE Begin(w)
    <3>1. TodoOK(todo', step')
      BY ShortLists, <1>6, <1>7, <2>1 DEF Begin, Over
    <3> QED BY <1>11, <2>1, <3>1 DEF Begin
  <2>2. CASE StoreName(w)
    <3>1. TodoOK(todo', step')
      <4>1. Advance(w, "droppingColumns", Object(w).cols)
        BY <2>2 DEF StoreName
      <4>2. IsList(Object(w).cols)
        BY <1>4
      <4> QED BY <1>6, <4>1, <4>2
    <3>2. [db[on[w]] EXCEPT !.name = todo[w][1]].cols = db[on[w]].cols
          /\ [db[on[w]] EXCEPT !.name = todo[w][1]].rows = db[on[w]].rows
      BY <1>4 DEF HasFields
    <3>3. db' = [db EXCEPT ![on[w]] = [db[on[w]] EXCEPT !.name = todo[w][1]]]
      BY <2>2 DEF StoreName
    <3> QED BY <1>4, <1>10, <3>1, <3>2, <3>3
  <2>3. CASE DropColumns(w)
    <3>1. ColumnsLeft(w, todo[w]) /\ db' = [db EXCEPT ![on[w]].cols = <<>>]
      BY <2>3 DEF DropColumns
    <3>2. IsList(todo[w]) /\ IsList(<<>>)
      BY <1>1, ShortLists
    <3> QED BY <1>8, <1>12, <3>1, <3>2
  <2>4. CASE StoreColumn(w)
    <3>1. todo[w] # <<>> /\ IsList(todo[w])
      BY <1>1, <2>4 DEF StoreColumn
    <3>2. IsList(Append(db[on[w]].cols, Head(todo[w]))) /\ IsList(Tail(todo[w]))
      BY <1>4, <3>1, StoreOne
    <3>3. ColumnsLeft(w, Tail(todo[w]))
          /\ db' = [db EXCEPT ![on[w]].cols = Append(db[on[w]].cols, Head(todo[w]))]
      BY <2>4 DEF StoreColumn
    <3> QED BY <1>8, <1>12, <3>2, <3>3
  <2>5. CASE DropRows(w)
    <3>1. RowsLeft(w, todo[w]) /\ db' = [db EXCEPT ![on[w]].rows = <<>>]
      BY <2>5 DEF DropRows
    <3>2. IsList(todo[w]) /\ IsList(<<>>)
      BY <1>1, ShortLists
    <3> QED BY <1>9, <1>12, <3>1, <3>2
  <2>6. CASE StoreRow(w)
    <3>1. todo[w] # <<>> /\ IsList(todo[w])
      BY <1>1, <2>6 DEF StoreRow
    <3>2. IsList(Append(db[on[w]].rows, Head(todo[w]))) /\ IsList(Tail(todo[w]))
      BY <1>4, <3>1, StoreOne
    <3>3. RowsLeft(w, Tail(todo[w]))
          /\ db' = [db EXCEPT ![on[w]].rows = Append(db[on[w]].rows, Head(todo[w]))]
      BY <2>6 DEF StoreRow
    <3> QED BY <1>9, <1>12, <3>2, <3>3
  <2>7. CASE WriteFails(w)
    BY <1>7, <1>11, <2>7 DEF WriteFails, Over
  <2> QED BY <2>1, <2>2, <2>3, <2>4, <2>5, <2>6, <2>7 DEF Persist
<1>14. \A v \in Writes : step'[v] = "unused" => step[v] = "unused"
  <2>1. PICK to : step' = [step EXCEPT ![w] = to] /\ to \in Writing \cup Over
    BY PersistEffect
  <2>2. to # "unused"
    BY <2>1 DEF Writing, Over
  <2> QED BY <1>1, <2>1, <2>2
<1> QED BY <1>2, <1>13, <1>14 DEF TodoOK, DbOK, ListsAreCopied

\* Everything that is shown, stored and being stored is a list.
LEMMA ListsStep ==
  ASSUME TableInv, ListsAreCopied, [Next]_vars
  PROVE  ListsAreCopied'
<1> USE DEF TableInv, vars, writeVars, removalVars, serverVars
<1>0. \A n : IsList(Named(n).cols) /\ IsList(Named(n).rows) /\ IsList(<<>>)
  BY ShortLists DEF Named
<1>1. ASSUME NEW e \in Edits, Edit(e) PROVE ListsAreCopied'
  <2>1. PICK s \in Sheets : \E c : IsList(c.cols) /\ IsList(c.rows) /\ Change(e, s, c)
    BY <1>1, EditLists
  <2>2. PICK c : IsList(c.cols) /\ IsList(c.rows) /\ Change(e, s, c)
    BY <2>1
  <2>3. /\ sheets' = [sheets EXCEPT ![s] = c] /\ step' = [step EXCEPT ![e] = "waiting"]
        /\ on' = [on EXCEPT ![e] = s] /\ step[e] = "unused"
        /\ crossed \subseteq crossed' /\ UNCHANGED <<db, todo, held>>
    BY <2>2 DEF Change, Enqueue
  <2>4. \A w \in Writes : held[w] # Absent => w # e
    BY <2>3 DEF ListsAreCopied
  <2>5. \A w \in Writes : w # e => on'[w] = on[w] /\ step'[w] = step[w]
    BY <2>3 DEF TableTypeOK
  <2>6. \A w \in Writes : held'[w] # Absent => on'[w] \in crossed' /\ step'[w] # "unused"
    BY <2>3, <2>4, <2>5 DEF ListsAreCopied
  <2>7. \A w \in Writes : step'[w] = step[w] \/ step'[w] = "waiting"
    BY <2>3 DEF TableTypeOK
  <2> QED BY <2>2, <2>3, <2>6, <2>7 DEF ListsAreCopied, TableTypeOK
<1>2. ASSUME NEW r \in Removals, NEW s \in Sheets, DeleteSheet(r, s) PROVE ListsAreCopied'
  BY <1>2 DEF DeleteSheet, ListsAreCopied
<1>3. ASSUME NEW w \in Writes, Persist(w) PROVE ListsAreCopied'
  BY <1>3, PersistLists
<1>4. ASSUME NEW r \in Removals, Deletion(r) PROVE ListsAreCopied'
  <2>1. CASE Unchain(r) \/ RemoveFails(r) \/ Seeded(r)
    BY <2>1 DEF Unchain, RemoveFails, Seeded, ListsAreCopied
  <2>2. CASE DeleteStored(r)
    <3>1. UNCHANGED <<sheets, todo, step, held, on, crossed>> /\ doomed[r] \in Sheets
      BY <2>2 DEF TableTypeOK, DeleteStored
    <3>2. HasFields(db[doomed[r]]) /\ IsList(db[doomed[r]].cols) /\ IsList(db[doomed[r]].rows)
      BY <3>1 DEF TableTypeOK, ListsAreCopied
    <3>3. \E d : db' = [db EXCEPT ![doomed[r]] = d] /\ IsList(d.cols) /\ IsList(d.rows)
      <4>1. CASE removal[r] = "sheet"
        <5> DEFINE d == [db[doomed[r]] EXCEPT !.name = "absent"]
        <5>1. d.cols = db[doomed[r]].cols /\ d.rows = db[doomed[r]].rows
          BY <3>2 DEF HasFields
        <5>2. db' = [db EXCEPT ![doomed[r]] = d]
          BY <2>2, <4>1 DEF DeleteStored
        <5> QED BY <3>2, <5>1, <5>2
      <4>2. CASE removal[r] = "columns"
        <5> DEFINE d == [db[doomed[r]] EXCEPT !.cols = <<>>]
        <5>1. d.cols = <<>> /\ d.rows = db[doomed[r]].rows
          BY <3>2 DEF HasFields
        <5>2. db' = [db EXCEPT ![doomed[r]] = d]
          BY <2>2, <4>2 DEF DeleteStored
        <5> QED BY <1>0, <3>2, <5>1, <5>2
      <4>3. CASE removal[r] = "rows"
        <5> DEFINE d == [db[doomed[r]] EXCEPT !.rows = <<>>]
        <5>1. d.cols = db[doomed[r]].cols /\ d.rows = <<>>
          BY <3>2 DEF HasFields
        <5>2. db' = [db EXCEPT ![doomed[r]] = d]
          BY <2>2, <4>3 DEF DeleteStored
        <5> QED BY <1>0, <3>2, <5>1, <5>2
      <4> QED BY <2>2, <4>1, <4>2, <4>3 DEF DeleteStored
    <3> QED BY <3>1, <3>3 DEF TableTypeOK, ListsAreCopied
  <2>3. CASE Forget(r)
    <3>1. doomed[r] \in Sheets /\ removal[r] = "forget" /\ step[r] = "unused" /\ r \in Writes
          /\ (doomed[r] \notin crossed => chain[doomed[r]] = None)
      BY <2>3 DEF TableTypeOK, DeletionsAlone, Forget, Erasing, Writes
    <3>2. \A w \in Writes : step[w] \in Writing /\ on[w] = doomed[r] => on[w] \in crossed /\ w # r
      BY <3>1, ChainHoldsQueued DEF Queued, Writing
    <3>3. /\ held' = [w \in Writes |-> IF step[w] \in Writing /\ on[w] = doomed[r] /\ held[w] = Absent
                                        THEN sheets[doomed[r]] ELSE held[w]]
          /\ UNCHANGED <<db, todo, crossed>>
      BY <2>3 DEF Forget
    <3>7. \A w \in Writes : w # r => on'[w] = on[w] /\ step'[w] = step[w]
      BY <2>3 DEF Forget, TableTypeOK
    <3>8. \A w \in Writes : IsList(held'[w].cols) /\ IsList(held'[w].rows)
      BY <3>1, <3>3 DEF ListsAreCopied
    <3>9. held[r] = Absent /\ step[r] \notin Writing
      BY <3>1 DEF ListsAreCopied, Writing
    <3>10. ASSUME NEW w \in Writes, held'[w] # Absent
           PROVE  on'[w] \in crossed' /\ step'[w] # "unused"
      <4>1. CASE held[w] # Absent
        BY <3>3, <3>7, <3>9, <4>1 DEF ListsAreCopied
      <4>2. CASE held[w] = Absent
        <5>1. step[w] \in Writing /\ on[w] = doomed[r]
          BY <3>3, <3>10, <4>2
        <5> QED BY <3>2, <3>3, <3>7, <5>1 DEF Writing
      <4> QED BY <4>1, <4>2
    <3>4. \A s \in Sheets : sheets'[s] \in {sheets[s], Absent, Named(None)}
      BY <2>3 DEF Forget, TableTypeOK
    <3>5. \A s \in Sheets : IsList(sheets'[s].cols) /\ IsList(sheets'[s].rows)
      BY <1>0, <3>4 DEF ListsAreCopied, Absent
    <3>6. \A w \in Writes : step'[w] = step[w] \/ step'[w] = "waiting"
      BY <2>3 DEF Forget, TableTypeOK
    <3> QED BY <3>3, <3>5, <3>6, <3>8, <3>10 DEF ListsAreCopied
  <2> QED BY <1>4, <2>1, <2>2, <2>3 DEF Deletion
<1>5. CASE Flush \/ Flushed \/ Close
  BY <1>5 DEF Flush, Flushed, Close, ListsAreCopied
<1>6. CASE Restart
  <2>1. \A s \in Sheets : db'[s] \in {db[s], Named(None)}
    BY <1>6 DEF Restart, TableTypeOK
  <2>2. \A s \in Sheets : sheets'[s] \in {db'[s], Absent}
    BY <1>6 DEF Restart, Stored
  <2>3. \A s \in Sheets : IsList(db'[s].cols) /\ IsList(db'[s].rows)
    BY <1>0, <2>1 DEF ListsAreCopied
  <2>4. \A s \in Sheets : IsList(sheets'[s].cols) /\ IsList(sheets'[s].rows)
    BY <1>0, <2>2, <2>3 DEF Absent
  <2>5. /\ todo' = [w \in Writes |-> <<>>] /\ held' = [w \in Writes |-> Absent]
        /\ \A w \in Writes : step'[w] \in {"unused", "done"}
    BY <1>6 DEF Restart
  <2>6. IsList(Absent.cols) /\ IsList(Absent.rows)
    BY <1>0 DEF Absent
  <2> QED BY <1>0, <2>3, <2>4, <2>5, <2>6 DEF ListsAreCopied
<1>7. CASE UNCHANGED vars
  BY <1>7 DEF ListsAreCopied
<1> QED
  BY <1>1, <1>2, <1>3, <1>4, <1>5, <1>6, <1>7 DEF Next

\* A write that may go on and is not the last of its line has one behind it that waits.
LEMMA LastWaits ==
  ASSUME TableTypeOK, InTurn, NEW w \in Writes, step[w] \in Queued, chain[on[w]] # w, on[w] \notin crossed,
         step[w] = "waiting" => waits[w] = None \/ step[waits[w]] \in Over
  PROVE  chain[on[w]] \in Writes /\ step[chain[on[w]]] = "waiting"
<1>0. on[w] \in Sheets
  BY DEF TableTypeOK, Queued, Writing
<1>1. PICK n \in Nat : \E q \in [1..n -> Writes] : Lined(on[w], n, q)
  BY <1>0 DEF InTurn
<1>2. PICK q \in [1..n -> Writes] : Lined(on[w], n, q)
  BY <1>1
<1>3. n > 0 /\ q[1] = w
  BY <1>2, FirstOfLine
<1>4. chain[on[w]] = q[n] /\ n \in 1..n
  BY <1>2, <1>3 DEF Lined
<1>5. n \in 2..n
  BY <1>3, <1>4
<1> QED BY <1>2, <1>4, <1>5 DEF Lined

\* What the last write of a line stores is what its sheet shows.
LEMMA LastStores ==
  ASSUME TableInv, ListsAreCopied, NEW w \in Writes, Persist(w), NEW s \in Sheets \ crossed, on[w] = s,
         chain[s] = w, Told(w, s), step'[w] # "failed"
  PROVE  IF chain'[s] = None THEN sheets[s] = Stored(s)' ELSE chain'[s] = w /\ Told(w, s)'
<1>1. /\ step \in [Writes -> {"unused"} \cup Queued \cup Over] /\ chain \in [Sheets -> Writes \cup {None}]
      /\ db = [t \in Sheets |-> db[t]] /\ HasFields(db[s]) /\ HasFields(sheets[s])
      /\ todo = [v \in Writes |-> todo[v]] /\ IsList(todo[w])
      /\ IsList(db[s].cols) /\ IsList(db[s].rows)
      /\ step[w] \in {"columns", "rows"} => todo[w] # <<>>
  BY DEF TableInv, TableTypeOK, ListsAreCopied
<1>2. sheets' = sheets /\ step[w] \in Queued /\ w # None
  BY PersistEffect, NoneIsNoWrite DEF TableInv
<1>3. Present(s)
  BY <1>2 DEF TableInv, GoneIsGone
<1>4. Object(w) = sheets[s]
  BY DEF Object, ListsAreCopied
<1>5. ASSUME NEW to, NEW what, Advance(w, to, what)
      PROVE  step'[w] = to /\ todo'[w] = what /\ chain'[s] = w
  BY <1>1, <1>5 DEF Advance
<1>6. ASSUME NEW how, Ended(w, how)
      PROVE  step'[w] = how /\ chain'[s] = None
  BY <1>1, <1>6 DEF Ended
<1>7. ASSUME NEW d, db' = [db EXCEPT ![s] = d] PROVE db'[s] = d
  BY <1>1, <1>7
<1>8. ASSUME NEW x
      PROVE  /\ db' = [db EXCEPT ![s] = [db[s] EXCEPT !.name = x]] => db'[s].name = x
             /\ db' = [db EXCEPT ![s] = [db[s] EXCEPT !.cols = x]] =>
                  db'[s].name = db[s].name /\ db'[s].cols = x
             /\ db' = [db EXCEPT ![s] = [db[s] EXCEPT !.rows = x]] =>
                  /\ db'[s].name = db[s].name /\ db'[s].cols = db[s].cols
                  /\ db'[s].rows = x /\ HasFields(db'[s])
  <2>1. ASSUME db' = [db EXCEPT ![s] = [db[s] EXCEPT !.name = x]]
        PROVE  db'[s].name = x
    <3>1. PICK d : d = [db[s] EXCEPT !.name = x]
      OBVIOUS
    <3>2. db' = [db EXCEPT ![s] = d]
      BY <2>1, <3>1, Zenon
    <3>3. db'[s] = d
      BY <1>7, <3>2
    <3> QED BY <1>1, <3>1, <3>3 DEF HasFields
  <2>2. ASSUME db' = [db EXCEPT ![s] = [db[s] EXCEPT !.cols = x]]
        PROVE  db'[s].name = db[s].name /\ db'[s].cols = x
    <3>1. PICK d : d = [db[s] EXCEPT !.cols = x]
      OBVIOUS
    <3>2. db' = [db EXCEPT ![s] = d]
      BY <2>2, <3>1, Zenon
    <3>3. db'[s] = d
      BY <1>7, <3>2
    <3> QED BY <1>1, <3>1, <3>3 DEF HasFields
  <2>3. ASSUME db' = [db EXCEPT ![s] = [db[s] EXCEPT !.rows = x]]
        PROVE  /\ db'[s].name = db[s].name /\ db'[s].cols = db[s].cols
               /\ db'[s].rows = x /\ HasFields(db'[s])
    <3>1. PICK d : d = [db[s] EXCEPT !.rows = x]
      OBVIOUS
    <3>2. db' = [db EXCEPT ![s] = d]
      BY <2>3, <3>1, Zenon
    <3>3. db'[s] = d
      BY <1>7, <3>2
    <3> QED BY <1>1, <3>1, <3>3 DEF HasFields
  <2> QED BY <2>1, <2>2, <2>3
<1>9. ASSUME NEW c, HasFields(c), c.name = sheets[s].name, c.cols = sheets[s].cols, c.rows = sheets[s].rows
      PROVE  c = sheets[s]
  BY <1>1, <1>9 DEF HasFields
\* After its columns, the newRows.
<1>10. ASSUME NEW cols, IsList(cols), NEW stored, IsList(stored), ColumnsLeft(w, cols),
              db'[s].name = sheets[s].name, db'[s].cols = stored, stored \o cols = sheets[s].cols
       PROVE  chain'[s] = w /\ Told(w, s)'
  <2>1. CASE cols = <<>>
    <3>1. Advance(w, "droppingRows", sheets[s].rows)
      BY <1>4, <1>10, <2>1 DEF ColumnsLeft
    <3>2. step'[w] = "droppingRows" /\ todo'[w] = sheets[s].rows /\ chain'[s] = w
      BY <1>5, <3>1
    <3>3. stored = sheets[s].cols
      BY <1>10, <2>1, AllStored
    <3> QED BY <1>2, <1>10, <3>2, <3>3 DEF Told
  <2>2. CASE cols # <<>>
    <3>1. Advance(w, "columns", cols)
      BY <1>10, <2>2 DEF ColumnsLeft
    <3>2. step'[w] = "columns" /\ todo'[w] = cols /\ chain'[s] = w
      BY <1>5, <3>1
    <3> QED BY <1>2, <1>10, <3>2 DEF Told
  <2> QED BY <2>1, <2>2
<1>11. ASSUME NEW newRows, IsList(newRows), NEW stored, IsList(stored), RowsLeft(w, newRows), HasFields(db'[s]),
              db'[s].name = sheets[s].name, db'[s].cols = sheets[s].cols, db'[s].rows = stored,
              stored \o newRows = sheets[s].rows
       PROVE  IF chain'[s] = None THEN sheets[s] = Stored(s)' ELSE chain'[s] = w /\ Told(w, s)'
  <2>1. CASE newRows = <<>>
    <3>1. chain'[s] = None
      BY <1>6, <1>11, <2>1 DEF RowsLeft
    <3>2. stored = sheets[s].rows
      BY <1>11, <2>1, AllStored
    <3>3. db'[s] = sheets[s]
      BY <1>9, <1>11, <3>2
    <3> QED BY <1>3, <3>1, <3>3 DEF Present, Stored
  <2>2. CASE newRows # <<>>
    <3>1. Advance(w, "rows", newRows)
      BY <1>11, <2>2 DEF RowsLeft
    <3>2. step'[w] = "rows" /\ todo'[w] = newRows /\ chain'[s] = w
      BY <1>5, <3>1
    <3> QED BY <1>2, <1>11, <3>2 DEF Told
  <2> QED BY <2>1, <2>2
<1>12. CASE Begin(w)
  <2>1. Advance(w, "naming", <<sheets[s].name>>)
    BY <1>3, <1>12 DEF Begin
  <2>2. step'[w] = "naming" /\ todo'[w] = <<sheets[s].name>> /\ chain'[s] = w
    BY <1>5, <2>1
  <2> QED BY <1>2, <2>2, NoneIsNoWrite DEF Told, Writing
<1>13. CASE StoreName(w)
  <2>1. db' = [db EXCEPT ![s] = [db[s] EXCEPT !.name = todo[w][1]]]
        /\ Advance(w, "droppingColumns", sheets[s].cols) /\ todo[w][1] = sheets[s].name
    BY <1>4, <1>13 DEF StoreName, Told
  <2>2. db'[s].name = sheets[s].name
    BY <1>8, <2>1
  <2>3. step'[w] = "droppingColumns" /\ todo'[w] = sheets[s].cols /\ chain'[s] = w
    BY <1>5, <2>1
  <2> QED BY <1>2, <2>2, <2>3 DEF Told
<1>14. CASE DropColumns(w)
  <2>1. /\ db' = [db EXCEPT ![s] = [db[s] EXCEPT !.cols = <<>>]] /\ ColumnsLeft(w, todo[w])
        /\ db[s].name = sheets[s].name /\ todo[w] = sheets[s].cols
    BY <1>14 DEF DropColumns, Told, Writing
  <2>2. db'[s].name = sheets[s].name /\ db'[s].cols = <<>>
    BY <1>8, <2>1
  <2>3. <<>> \o todo[w] = sheets[s].cols
    BY <1>1, <2>1, AllStored
  <2>4. IsList(<<>>)
    BY ShortLists
  <2>5. chain'[s] = w /\ Told(w, s)'
    BY <1>1, <1>10, <2>1, <2>2, <2>3, <2>4
  <2> QED BY <1>2, <2>5
<1>15. CASE StoreColumn(w)
  <2> DEFINE more == Append(db[s].cols, Head(todo[w]))
  <2>1. /\ db' = [db EXCEPT ![s] = [db[s] EXCEPT !.cols = more]] /\ ColumnsLeft(w, Tail(todo[w]))
        /\ db[s].name = sheets[s].name /\ db[s].cols \o todo[w] = sheets[s].cols /\ todo[w] # <<>>
    BY <1>1, <1>15 DEF StoreColumn, Told, Writing
  <2>2. IsList(more) /\ IsList(Tail(todo[w])) /\ more \o Tail(todo[w]) = sheets[s].cols
    BY <1>1, <2>1, StoreOne
  <2> HIDE DEF more
  <2>3. db'[s].name = sheets[s].name /\ db'[s].cols = more
    BY <1>8, <2>1
  <2>4. chain'[s] = w /\ Told(w, s)'
    BY <1>10, <2>1, <2>2, <2>3
  <2> QED BY <1>2, <2>4
<1>16. CASE DropRows(w)
  <2>1. /\ db' = [db EXCEPT ![s] = [db[s] EXCEPT !.rows = <<>>]] /\ RowsLeft(w, todo[w])
        /\ db[s].name = sheets[s].name /\ db[s].cols = sheets[s].cols /\ todo[w] = sheets[s].rows
    BY <1>16 DEF DropRows, Told, Writing
  <2>2. /\ HasFields(db'[s]) /\ db'[s].name = sheets[s].name
        /\ db'[s].cols = sheets[s].cols /\ db'[s].rows = <<>>
    BY <1>8, <2>1
  <2>3. <<>> \o todo[w] = sheets[s].rows
    BY <1>1, <2>1, AllStored
  <2>4. IsList(<<>>)
    BY ShortLists
  <2> QED BY <1>1, <1>11, <2>1, <2>2, <2>3, <2>4
<1>17. CASE StoreRow(w)
  <2> DEFINE more == Append(db[s].rows, Head(todo[w]))
  <2>1. /\ db' = [db EXCEPT ![s] = [db[s] EXCEPT !.rows = more]] /\ RowsLeft(w, Tail(todo[w]))
        /\ db[s].name = sheets[s].name /\ db[s].cols = sheets[s].cols
        /\ db[s].rows \o todo[w] = sheets[s].rows /\ todo[w] # <<>>
    BY <1>1, <1>17 DEF StoreRow, Told, Writing
  <2>2. IsList(more) /\ IsList(Tail(todo[w])) /\ more \o Tail(todo[w]) = sheets[s].rows
    BY <1>1, <2>1, StoreOne
  <2> HIDE DEF more
  <2>3. /\ HasFields(db'[s]) /\ db'[s].name = sheets[s].name
        /\ db'[s].cols = sheets[s].cols /\ db'[s].rows = more
    BY <1>8, <2>1
  <2> QED BY <1>11, <2>1, <2>2, <2>3
<1>18. CASE WriteFails(w)
  BY <1>6, <1>18 DEF WriteFails
<1> QED
  BY <1>12, <1>13, <1>14, <1>15, <1>16, <1>17, <1>18 DEF Persist

\* A sheet is stored as it is shown, or its last write will have stored it so.
LEMMA TellsStep ==
  ASSUME TableInv, ListsAreCopied, LastTells, [Next]_vars
  PROVE  LastTells'
<1> USE DEF TableInv, vars, writeVars, removalVars, serverVars
<1>0. /\ Edits \subseteq Writes /\ Removals \subseteq Writes
      /\ step \in [Writes -> {"unused"} \cup Queued \cup Over]
      /\ removal \in [Removals -> {"unused", "failed", "removed", "lost"} \cup Deleting]
      /\ chain \in [Sheets -> Writes \cup {None}]
      /\ "failed" \notin Queued /\ "failed" \notin Deleting /\ "unused" \notin Queued
  BY DEF Writes, TableTypeOK, Queued, Writing, Deleting
\* A sheet nobody touches, and one whose last write is new.
<1>1. ASSUME NEW s \in Sheets \ crossed, Intact(s), sheets'[s] = sheets[s], db'[s] = db[s], chain'[s] = chain[s],
             chain[s] # None => step'[chain[s]] = step[chain[s]] /\ todo'[chain[s]] = todo[chain[s]]
      PROVE  Follows(s)'
  <2>1. PICK v : v = chain[s]
    OBVIOUS
  <2>2. Follows(s)
    BY <1>1 DEF LastTells
  <2>3. CASE v = None
    BY <1>1, <2>1, <2>2, <2>3 DEF Follows, Stored
  <2>4. CASE v # None
    <3>1. Told(v, s) /\ chain'[s] = v /\ step'[v] = step[v] /\ todo'[v] = todo[v]
      BY <1>1, <2>1, <2>2, <2>4 DEF Follows
    <3>2. Told(v, s)'
      BY <1>1, <3>1 DEF Told
    <3> QED BY <2>4, <3>1, <3>2 DEF Follows
  <2> QED BY <2>3, <2>4
<1>2. ASSUME NEW s \in Sheets, NEW v \in Writes, chain'[s] = v, step'[v] = "waiting"
      PROVE  Follows(s)'
  <2>1. Told(v, s)'
    BY <1>2 DEF Told, Writing
  <2> QED BY <1>2, <2>1, NoneIsNoWrite DEF Follows
<1>3. ASSUME \A s \in Sheets \ crossed' : Intact(s)' => Follows(s)'
      PROVE  LastTells'
  BY <1>3 DEF LastTells
<1>4. ASSUME NEW e \in Edits, Edit(e) PROVE LastTells'
  <2>1. PICK s \in Sheets : \E c : HasFields(c) /\ c.name # "absent" /\ Change(e, s, c)
    BY <1>4, EditEffect
  <2>2. PICK c : Change(e, s, c)
    BY <2>1
  <2>3. /\ sheets' = [sheets EXCEPT ![s] = c] /\ step[e] = "unused"
        /\ on' = [on EXCEPT ![e] = s] /\ step' = [step EXCEPT ![e] = "waiting"]
        /\ chain' = [chain EXCEPT ![s] = e] /\ UNCHANGED <<todo, db, removal, doomed>>
        /\ crossed \subseteq crossed'
    BY <2>2 DEF Change, Enqueue
  <2>4. chain'[s] = e /\ step'[e] = "waiting" /\ e \in Writes
    BY <1>0, <2>3
  <2>5. ASSUME NEW t \in Sheets, t # s, Intact(t)' PROVE Intact(t)
    <3>1. \A w \in Writes : w # e => on'[w] = on[w] /\ step'[w] = step[w]
      BY <2>3, <1>0 DEF TableTypeOK
    <3> QED BY <1>0, <2>3, <2>5, <3>1 DEF Intact
  <2>6. ASSUME NEW t \in Sheets \ crossed', t # s
        PROVE  /\ sheets'[t] = sheets[t] /\ chain'[t] = chain[t]
               /\ chain[t] # None => step'[chain[t]] = step[chain[t]]
    <3>1. sheets'[t] = sheets[t] /\ chain'[t] = chain[t]
      BY <2>3, <2>6, <1>0 DEF TableTypeOK
    <3>2. chain[t] # None => chain[t] # e /\ chain[t] \in Writes
      BY <1>0, <2>3, ChainHoldsQueued
    <3> QED BY <1>0, <2>3, <3>1, <3>2
  <2> QED BY <1>1, <1>2, <1>3, <2>3, <2>4, <2>5, <2>6
<1>5. ASSUME NEW r \in Removals, NEW s \in Sheets, DeleteSheet(r, s) PROVE LastTells'
  <2>1. UNCHANGED <<sheets, chain, on, step, todo, db>> /\ removal[r] = "unused" /\ crossed \subseteq crossed'
        /\ \A o \in Removals : o # r => removal'[o] = removal[o] /\ doomed'[o] = doomed[o]
    BY <1>5 DEF DeleteSheet, Moved, TableTypeOK
  <2>2. \A t \in Sheets : Intact(t)' => Intact(t)
    BY <2>1 DEF Intact
  <2> QED BY <1>1, <1>3, <2>1, <2>2
<1>6. ASSUME NEW w \in Writes, Persist(w) PROVE LastTells'
  <2>1. /\ UNCHANGED <<sheets, on, removal, doomed, crossed>> /\ step[w] \in Queued /\ on[w] \in Sheets
        /\ step[w] = "waiting" => waits[w] = None \/ step[waits[w]] \in Over
        /\ \A t \in Sheets : t # on[w] => db'[t] = db[t]
    BY <1>6, PersistEffect
  <2>2. PICK to : /\ step' = [step EXCEPT ![w] = to]
                  /\ \/ to \in Writing /\ UNCHANGED chain
                     \/ /\ to \in Over
                        /\ chain' = [chain EXCEPT ![on[w]] = IF @ = w THEN None ELSE @]
    BY <1>6, PersistEffect
  <2>3. \A v \in Writes : v # w => step'[v] = step[v] /\ todo'[v] = todo[v]
    <3>1. \A v \in Writes : v # w => step'[v] = step[v]
      BY <1>0, <2>2
    <3>2. todo = [v \in Writes |-> todo[v]]
      BY DEF ListsAreCopied
    <3>3. \/ UNCHANGED todo
          \/ \E what : todo' = [todo EXCEPT ![w] = what]
      BY <1>6 DEF Persist, Begin, StoreName, DropColumns, StoreColumn, DropRows, StoreRow, WriteFails,
                  ColumnsLeft, RowsLeft, Advance, Ended
    <3> QED BY <3>1, <3>2, <3>3
  <2>4. \A t \in Sheets : t # on[w] => chain'[t] = chain[t]
    BY <1>0, <2>2
  <2>5. ASSUME NEW t \in Sheets, Intact(t)' PROVE Intact(t) /\ (t = on[w] => step'[w] # "failed")
    <3>1. step[w] # "failed"
      BY <1>0, <2>1
    <3> QED BY <2>1, <2>3, <2>5, <3>1 DEF Intact
  <2>6. ASSUME NEW t \in Sheets \ crossed, t # on[w], Intact(t)'
        PROVE  Follows(t)'
    <3>1. chain[t] # None => chain[t] # w /\ chain[t] \in Writes
      BY <2>6, ChainHoldsQueued
    <3> QED BY <1>1, <2>1, <2>3, <2>4, <2>5, <2>6, <3>1
  <2>7. ASSUME NEW t \in Sheets \ crossed, t = on[w], Intact(t)'
        PROVE  Follows(t)'
    <3>1. CASE chain[t] = w
      <4>1. Told(w, t)
        BY <2>5, <2>7, <3>1, NoneIsNoWrite DEF LastTells, Follows
      <4>2. step'[w] # "failed"
        BY <2>5, <2>7
      <4>3. IF chain'[t] = None THEN sheets[t] = Stored(t)' ELSE chain'[t] = w /\ Told(w, t)'
        BY <1>6, <2>7, <3>1, <4>1, <4>2, LastStores
      <4>4. Follows(t)'
        BY <2>1, <4>3, NoneIsNoWrite DEF Follows
      <4> QED BY <4>4
    <3>2. CASE chain[t] # w
      <4>1. chain[t] \in Writes /\ step[chain[t]] = "waiting"
        BY <2>1, <2>7, <3>2, LastWaits
      <4>2. chain'[t] = chain[t]
        BY <1>0, <2>2, <2>7, <3>2
      <4>3. step'[chain[t]] = "waiting"
        BY <2>3, <3>2, <4>1
      <4> QED BY <1>2, <4>1, <4>2, <4>3
    <3> QED BY <3>1, <3>2
  <2> QED BY <1>3, <2>1, <2>6, <2>7
<1>7. ASSUME NEW r \in Removals, Deletion(r) PROVE LastTells'
  <2>0. doomed[r] \in Sheets /\ UNCHANGED <<doomed, crossed>>
        /\ \A o \in Removals : o # r => removal'[o] = removal[o]
    BY <1>7 DEF TableTypeOK, Deletion, Unchain, DeleteStored, RemoveFails, Forget, Seeded, Moved
  <2>1. CASE Unchain(r)
    <3>1. ASSUME doomed[r] \notin crossed PROVE chain[doomed[r]] = None
      <4>1. doomed[r] \in Sheets /\ awaits[r] \in Writes /\ chain[doomed[r]] \in {awaits[r], None}
            /\ step[awaits[r]] \in Over
        BY <2>1, <3>1 DEF TableTypeOK, DeletionsAlone, Unchain
      <4> QED
        BY <3>1, <4>1, ChainHoldsQueued DEF Over, Queued, Writing
    <3>3. \A t \in Sheets \ crossed : chain'[t] = chain[t]
      BY <2>1, <3>1 DEF TableTypeOK, Unchain
    <3>4. UNCHANGED <<sheets, on, step, todo, db>> /\ removal[r] = "waiting"
      BY <2>1 DEF Unchain
    <3>5. \A t \in Sheets : Intact(t)' => Intact(t)
      BY <2>0, <3>4 DEF Intact
    <3> QED BY <1>1, <1>3, <2>0, <3>3, <3>4, <3>5
  <2>2. CASE DeleteStored(r)
    <3>1. UNCHANGED <<sheets, chain, on, step, todo>>
          /\ removal'[r] \in {"columns", "rows", "forget"}
      BY <2>2 DEF TableTypeOK, DeleteStored, Moved
    <3>2. \A t \in Sheets : t # doomed[r] => db'[t] = db[t]
      BY <2>2 DEF TableTypeOK, DeleteStored
    <3>3. \A t \in Sheets : Intact(t)' => Intact(t) /\ t # doomed[r]
      BY <2>0, <3>1 DEF Intact
    <3> QED BY <1>1, <1>3, <2>0, <3>1, <3>2, <3>3
  <2>3. CASE RemoveFails(r)
    <3>1. UNCHANGED <<sheets, chain, on, step, todo, db>> /\ removal'[r] = "failed"
      BY <2>3 DEF TableTypeOK, RemoveFails, Moved
    <3>2. \A t \in Sheets : Intact(t)' => Intact(t)
      BY <2>0, <3>1 DEF Intact
    <3> QED BY <1>1, <1>3, <2>0, <3>1, <3>2
  <2>4. CASE Forget(r)
    <3>1. removal[r] = "forget" /\ UNCHANGED <<db, todo>> /\ step[r] = "unused" /\ removal'[r] # "failed"
          /\ (doomed[r] \notin crossed => chain[doomed[r]] = None /\ db[doomed[r]].name = "absent")
      BY <2>4 DEF TableTypeOK, DeletionsAlone, Forget, Erasing, Moved
    <3>2. \A w \in Writes : w # r => on[w] = on'[w] /\ step'[w] = step[w]
      BY <2>4 DEF TableTypeOK, Forget
    <3>3. \/ UNCHANGED <<chain, step>> /\ sheets' = [sheets EXCEPT ![doomed[r]] = Absent]
          \/ /\ chain' = [chain EXCEPT ![Main] = r] /\ step' = [step EXCEPT ![r] = "waiting"]
             /\ sheets' = [sheets EXCEPT ![doomed[r]] = Absent, ![Main] = Named(None)]
      BY <2>4 DEF Forget
    <3>4. ASSUME NEW t \in Sheets, t # doomed[r], Intact(t)' PROVE Intact(t)
      <4>1. step[r] # "failed"
        BY <3>1
      <4>2. \A w \in Writes : on[w] = t => step[w] # "failed"
        BY <3>2, <3>4, <4>1 DEF Intact
      <4>3. \A o \in Removals : doomed[o] = t => removal'[o] = removal[o]
        BY <2>0, <3>4
      <4> QED BY <2>0, <3>4, <4>2, <4>3 DEF Intact
    <3>5. ASSUME NEW t \in Sheets \ crossed, t # doomed[r], sheets'[t] = sheets[t], chain'[t] = chain[t], Intact(t)'
          PROVE  Follows(t)'
      <4>1. chain[t] # None => chain[t] # r /\ chain[t] \in Writes
        BY <1>0, <3>1, ChainHoldsQueued
      <4>2. chain[t] # None => step'[chain[t]] = step[chain[t]]
        BY <3>2, <4>1
      <4> QED BY <1>1, <3>1, <3>4, <3>5, <4>2
    <3>6. ASSUME NEW s \in Sheets \ crossed, s = doomed[r], sheets'[s] = Absent, chain'[s] = None
          PROVE  Follows(s)'
      <4>1. db'[s].name = "absent"
        BY <3>1, <3>6
      <4> QED BY <3>6, <4>1 DEF Follows, Stored
    <3>7. CASE UNCHANGED <<chain, step>> /\ sheets' = [sheets EXCEPT ![doomed[r]] = Absent]
      <4>1. sheets'[doomed[r]] = Absent /\ (doomed[r] \notin crossed => chain'[doomed[r]] = None)
        BY <2>0, <3>1, <3>7 DEF TableTypeOK
      <4>2. \A t \in Sheets : t # doomed[r] => sheets'[t] = sheets[t] /\ chain'[t] = chain[t]
        BY <3>7 DEF TableTypeOK
      <4>3. ASSUME NEW t \in Sheets \ crossed, Intact(t)' PROVE Follows(t)'
        BY <3>5, <3>6, <4>1, <4>2, <4>3
      <4> QED BY <1>3, <2>0, <4>3
    <3>8. CASE /\ chain' = [chain EXCEPT ![Main] = r] /\ step' = [step EXCEPT ![r] = "waiting"]
               /\ sheets' = [sheets EXCEPT ![doomed[r]] = Absent, ![Main] = Named(None)]
      <4>1. chain'[Main] = r /\ step'[r] = "waiting" /\ r \in Writes /\ Main \in Sheets
        BY <1>0, <3>8, MainAssumption
      <4>2. doomed[r] # Main =>
              sheets'[doomed[r]] = Absent /\ (doomed[r] \notin crossed => chain'[doomed[r]] = None)
        BY <1>0, <2>0, <3>1, <3>8 DEF TableTypeOK
      <4>3. \A t \in Sheets : t # doomed[r] /\ t # Main => sheets'[t] = sheets[t] /\ chain'[t] = chain[t]
        BY <1>0, <3>8 DEF TableTypeOK
      <4>4. Follows(Main)'
        BY <1>2, <4>1
      <4>5. ASSUME NEW t \in Sheets \ crossed, Intact(t)' PROVE Follows(t)'
        BY <3>5, <3>6, <4>2, <4>3, <4>4, <4>5
      <4> QED BY <1>3, <2>0, <4>5
    <3> QED BY <3>3, <3>7, <3>8
  <2>5. CASE Seeded(r)
    <3>1. UNCHANGED <<sheets, chain, on, step, todo, db>> /\ removal[r] = "seeding"
      BY <2>5 DEF Seeded
    <3>2. \A t \in Sheets : Intact(t)' => Intact(t)
      BY <2>0, <3>1 DEF Intact
    <3> QED BY <1>1, <1>3, <2>0, <3>1, <3>2
  <2> QED BY <1>7, <2>1, <2>2, <2>3, <2>4, <2>5 DEF Deletion
<1>8. CASE Flush \/ Flushed \/ Close
  <2>1. UNCHANGED <<sheets, chain, on, step, todo, db, removal, doomed, crossed>>
    BY <1>8 DEF Flush, Flushed, Close
  <2> QED BY <2>1 DEF LastTells, Follows, Told, Stored, Intact
<1>9. CASE Restart
  <2>1. \A s \in Sheets : chain'[s] = None /\ sheets'[s] = Stored(s)'
    BY <1>9 DEF Restart
  <2> QED BY <1>3, <2>1 DEF Follows
<1>10. CASE UNCHANGED vars
  BY <1>10 DEF LastTells, Follows, Told, Stored, Intact
<1> QED
  BY <1>4, <1>5, <1>6, <1>7, <1>8, <1>9, <1>10 DEF Next

\* The shutdown waits for the last write of every line.
LEMMA AwaitedStep ==
  ASSUME TableInv, AllAwaited, [Next]_vars
  PROVE  AllAwaited'
<1> USE DEF TableInv, vars, writeVars, removalVars, serverVars
<1>0. /\ Removals \subseteq Writes /\ removal \in [Removals -> {"unused", "failed", "removed", "lost"} \cup Deleting]
      /\ chain \in [Sheets -> Writes \cup {None}] /\ phase \in {"up", "flushing", "closing", "closed"}
      /\ step \in [Writes -> {"unused"} \cup Queued \cup Over]
  BY DEF Writes, TableTypeOK, AllAwaited
<1>1. ASSUME phase = "up", phase' = phase PROVE AllAwaited'
  BY <1>1 DEF AllAwaited
<1>2. ASSUME NEW e \in Edits, Edit(e) PROVE AllAwaited'
  <2>1. PICK s \in Sheets : \E c : HasFields(c) /\ c.name # "absent" /\ Change(e, s, c)
    BY <1>2, EditEffect
  <2>2. /\ phase \in {"up", "flushing", "closing"} /\ UNCHANGED <<phase, flushing, removal>>
        /\ phase # "up" => s \in late'
        /\ crossed \subseteq crossed' /\ late \subseteq late' /\ chain' = [chain EXCEPT ![s] = e]
    BY <2>1 DEF Change, Serving, Enqueue
  <2>3. CASE phase = "up"
    BY <1>1, <2>2, <2>3
  <2>4. CASE phase # "up"
    <3>1. \A t \in Sheets \ (crossed' \cup late') :
            t \in Sheets \ (crossed \cup late) /\ chain'[t] = chain[t]
      BY <1>0, <2>2, <2>4
    <3> QED BY <2>2, <2>4, <3>1 DEF AllAwaited, Seeds
  <2> QED BY <2>3, <2>4
<1>3. ASSUME NEW r \in Removals, NEW s \in Sheets, DeleteSheet(r, s) PROVE AllAwaited'
  BY <1>1, <1>3 DEF DeleteSheet
<1>4. ASSUME NEW w \in Writes, Persist(w) PROVE AllAwaited'
  <2>1. UNCHANGED <<removal, phase, flushing, crossed, late>> /\ on[w] \in Sheets
    <3>1. UNCHANGED <<removal, crossed>> /\ on[w] \in Sheets
      BY <1>4, PersistEffect
    <3>2. UNCHANGED <<phase, flushing, late>>
      BY <1>4 DEF Persist, Begin, StoreName, DropColumns, StoreColumn, DropRows, StoreRow, WriteFails
    <3> QED BY <3>1, <3>2
  <2>2. \A s \in Sheets : chain'[s] = chain[s] \/ chain'[s] = None
    <3>1. chain' = chain \/ chain' = [chain EXCEPT ![on[w]] = IF @ = w THEN None ELSE @]
      BY <1>4, PersistEffect
    <3> QED BY <1>0, <3>1
  <2> QED BY <2>1, <2>2 DEF AllAwaited, Seeds
<1>5. ASSUME NEW r \in Removals, Deletion(r) PROVE AllAwaited'
  <2>1. UNCHANGED <<phase, flushing, crossed, late>>
        /\ \A o \in Removals : o # r => removal'[o] = removal[o]
    BY <1>5 DEF TableTypeOK, Deletion, Unchain, DeleteStored, RemoveFails, Forget, Seeded, Moved
  <2>2. removal[r] \in Deleting
    BY <1>5 DEF Deletion, Unchain, DeleteStored, RemoveFails, Forget, Seeded, Deleting
  <2>3. CASE Unchain(r) \/ DeleteStored(r) \/ RemoveFails(r)
    <3>1. removal[r] # "seeding" /\ \A s \in Sheets : chain'[s] = chain[s] \/ chain'[s] = None
      BY <1>0, <2>3 DEF Unchain, DeleteStored, RemoveFails
    <3>2. \A w : Seeds(w) => Seeds(w)'
      BY <2>1, <3>1 DEF Seeds
    <3> QED BY <2>1, <2>2, <3>1, <3>2 DEF AllAwaited
  <2>4. CASE Forget(r)
    <3>1. removal[r] = "forget" /\ (UNCHANGED chain \/ (chain' = [chain EXCEPT ![Main] = r] /\ removal'[r] = "seeding"))
      BY <1>0, <2>4 DEF Forget, Moved
    <3>2. \A w : Seeds(w) => Seeds(w)'
      BY <2>1, <3>1 DEF Seeds
    <3>3. \A s \in Sheets : chain'[s] = chain[s] \/ Seeds(chain[s])'
      BY <1>0, <3>1 DEF Seeds
    <3> QED BY <2>1, <2>2, <3>2, <3>3 DEF AllAwaited
  <2>5. CASE Seeded(r)
    <3>1. step[r] \in Over /\ UNCHANGED chain
      BY <2>5 DEF Seeded
    <3>2. \A s \in Sheets \ crossed : chain[s] # r
      <4>1. r # None /\ step[r] \notin Queued
        BY <1>0, <3>1, NoneIsNoWrite DEF Over, Queued, Writing
      <4> QED BY <4>1, ChainHoldsQueued
    <3>3. \A w : Seeds(w) /\ w # r => Seeds(w)'
      BY <2>1 DEF Seeds
    <3> QED BY <2>1, <2>2, <3>1, <3>2, <3>3 DEF AllAwaited
  <2> QED BY <1>5, <2>3, <2>4, <2>5 DEF Deletion
<1>6. CASE Flush
  <2>1. phase' = "flushing" /\ UNCHANGED <<chain, crossed, late>> /\ \A s \in Sheets : chain[s] \in flushing' \cup {None}
    BY <1>6 DEF Flush
  <2> QED BY <2>1 DEF AllAwaited
<1>7. CASE Flushed
  <2>1. phase = "flushing" /\ phase' = "closing" /\ UNCHANGED <<chain, removal, crossed, late>>
        /\ \A w \in flushing : step[w] \in Over
    BY <1>7 DEF Flushed
  <2>2. \A s \in Sheets \ crossed : chain[s] # None => chain[s] \notin flushing
    BY <2>1, ChainHoldsQueued DEF Over, Queued, Writing
  <2>3. \A s \in Sheets \ (crossed \cup late) : chain[s] = None \/ Seeds(chain[s])
    BY <2>1, <2>2 DEF AllAwaited
  <2> QED BY <2>1, <2>3 DEF AllAwaited, Seeds
<1>8. CASE Close
  <2>1. phase = "closing" /\ phase' = "closed" /\ UNCHANGED <<chain, removal, crossed, late>>
        /\ \A r \in Removals : removal[r] \notin Deleting
    BY <1>8 DEF Close
  <2>2. \A s \in Sheets \ (crossed \cup late) : chain[s] = None
    BY <2>1 DEF AllAwaited, Seeds, Deleting
  <2> QED BY <2>1, <2>2 DEF AllAwaited
<1>9. CASE Restart
  BY <1>9 DEF Restart, AllAwaited
<1>10. CASE UNCHANGED vars
  BY <1>10 DEF AllAwaited, Seeds
<1> QED
  BY <1>2, <1>3, <1>4, <1>5, <1>6, <1>7, <1>8, <1>9, <1>10 DEF Next

\* "Wait for in-flight sheet persists (call before closing the DB)" (table-store.ts):
\* while the server runs and once it has stopped, the database holds of a sheet nobody
\* works on what was shown of it, unless the database refused one of its calls or the
\* sheet is in crossed; a sheet edited after the shutdown began to flush may lack that
\* edit when the server has stopped.
THEOREM MemoryIsFollowed == Spec => []StoreFollowsMemory
<1>1. ASSUME Init PROVE FollowInv
  <2>1. TableInv
    BY <1>1, InitTable
  <2>2. \A n : IsList(Named(n).cols) /\ IsList(Named(n).rows) /\ IsList(<<>>)
    BY ShortLists DEF Named
  <2>3. ListsAreCopied
    BY <1>1, <2>2 DEF Init, ListsAreCopied, Absent
  <2>4. LastTells
    BY <1>1 DEF Init, LastTells, Follows, Stored, Absent, Named
  <2>5. AllAwaited
    BY <1>1 DEF Init, AllAwaited
  <2> QED BY <2>1, <2>3, <2>4, <2>5 DEF FollowInv
<1>2. ASSUME FollowInv, [Next]_vars PROVE FollowInv'
  BY <1>2, TypeStep, TurnStep, AloneStep, GoneStep, ListsStep, TellsStep, AwaitedStep
     DEF FollowInv, TableInv
<1>3. ASSUME FollowInv PROVE StoreFollowsMemory
  <2> USE <1>3 DEF FollowInv, TableInv
  <2>1. Settled
    <3> SUFFICES ASSUME NEW s \in Sheets \ crossed, ~Torn(s), ~Doomed(s), \A w \in Writes : on[w] = s => step[w] \notin Queued
                 PROVE  sheets[s] = Stored(s)
      BY DEF Settled
    <3>1. chain[s] = None
      BY ChainHoldsQueued
    <3>2. Intact(s)
      BY DEF Intact, Torn, Doomed, Deleting
    <3> QED BY <3>1, <3>2 DEF LastTells, Follows
  <2>2. ShutdownKeepsAll
    <3> SUFFICES ASSUME phase = "closed", NEW s \in Sheets \ (crossed \cup late), ~Torn(s) PROVE sheets[s] = Stored(s)
      BY DEF ShutdownKeepsAll
    <3>1. chain[s] = None /\ \A r \in Removals : removal[r] \notin Deleting
      BY DEF AllAwaited
    <3>2. Intact(s)
      BY <3>1 DEF Intact, Torn, Deleting
    <3> QED BY <3>1, <3>2 DEF LastTells, Follows
  <2> QED BY <2>1, <2>2 DEF StoreFollowsMemory
<1> QED
  BY <1>1, <1>2, <1>3, PTL DEF Spec

-----------------------------------------------------------------------------
(* The table's grid. *)
(* What the variables of the grid are.                                     *)
GridRows == [RowKeys -> CellValues \cup {Gone}]
GridKeys == RowKeys \cup {AllRows, SheetList}
GridOps == {"load", "list", "create", "delete", "patch"} \cup RowOps
GridEvents == [sheet : Tabs, key : GridKeys, value : CellValues \cup {Gone}, no : Nat]
GridEdits == [key : RowKeys, before : CellValues, after : CellValues]
GridRequests ==
  [op : GridOps, sheet : Tabs \cup {Nowhere}, first : BOOLEAN, key : GridKeys,
   value : CellValues \cup {Gone}, before : GridRows, late : BOOLEAN,
   at : Int, got : GridRows, list : SUBSET Tabs]

ServerFits ==
  /\ tabs \subseteq made /\ made \subseteq Tabs
  /\ store \in [Tabs -> GridRows]
  /\ clock \in Nat
  /\ online \in BOOLEAN
  /\ feed \in Seq(GridEvents)
PageFits ==
  /\ active \in made \cup {Nowhere}
  /\ rows \in GridRows
  /\ heard \in Nat
  /\ loading \in BOOLEAN /\ editing \in BOOLEAN
  /\ undo \in Seq(GridEdits) /\ redo \in Seq(GridEdits)
AskedFits == asked \in Seq(GridRequests)
GridFits == ServerFits /\ PageFits /\ AskedFits

(* The sheets a request speaks of were made, and only loads and lists are  *)
(* marked first.                                                           *)
RequestKnown(r) ==
  /\ r.sheet \in made \cup {Nowhere} /\ r.list \subseteq made
  /\ r.op \in RowOps => ~r.first
RequestsKnown == \A i \in DOMAIN asked : RequestKnown(asked[i])

(* Events tell of changes in the order the changes were made in.           *)
FeedOrdered ==
  /\ ~online => feed = <<>>
  /\ \A i \in DOMAIN feed : feed[i].no <= clock
  /\ \A i, j \in DOMAIN feed : i < j => feed[i].no < feed[j].no

(* An answer with rows is no newer than the store, and as new only if its  *)
(* rows are those of the store.                                            *)
HasRows(r) == r.op \in {"load"} \cup RowOps /\ r.at >= 0
AnswerKnown(r) ==
  /\ r.at <= clock
  /\ (HasRows(r) /\ r.at = clock) => (r.sheet \in tabs /\ r.got = store[r.sheet])
AnswersKnown == \A i \in DOMAIN asked : AnswerKnown(asked[i])

(* The grid that waits for its first rows asked for them.                  *)
FirstAsked == \E i \in DOMAIN asked : asked[i].op = "load" /\ asked[i].first
LoadingIsWaited == loading => ("jumped" \in strange \/ FirstAsked)

(* The last event on its way for a row of the sheet shown has its value.   *)
EventFor(e, k) == e.sheet = active /\ e.key \in {k, AllRows}
LastFor(j, k) ==
  /\ feed[j].sheet = active /\ feed[j].key = k
  /\ \A l \in DOMAIN feed : l > j => ~EventFor(feed[l], k)
FeedIsTrue ==
  active \in tabs =>
    \A j \in DOMAIN feed, k \in RowKeys : LastFor(j, k) => feed[j].value = store[active][k]

(* A reply's row is that of the store or an event newer than the reply is  *)
(* on its way; this holds while an older event is still on its way.        *)
RowIsComing(r, k) ==
  \/ r.got[k] = store[active][k]
  \/ \E j \in DOMAIN feed : EventFor(feed[j], k) /\ feed[j].no > r.at
OlderComes(r) == \E j \in DOMAIN feed : feed[j].no <= r.at
ShowsRows(r) == HasRows(r) /\ r.sheet = active
RepliesAreTrue ==
  active \in tabs =>
    \A i \in DOMAIN asked, k \in RowKeys :
      (ShowsRows(asked[i]) /\ OlderComes(asked[i])) => RowIsComing(asked[i], k)

(* A load that comes later shows the row as it is.                         *)
Reload(r) == r.op = "load" /\ ~r.first /\ r.sheet = active
Tells(r, k, n) == Reload(r) /\ (r.at = Pending \/ (r.at > n /\ r.got[k] = store[active][k]))
LoadTells(k, n) == \E i \in DOMAIN asked : Tells(asked[i], k, n)

(* A reply whose row is stale comes after a newer event was heard, or is   *)
(* followed by a load.                                                     *)
Overtaken(r, k) ==
  \/ RowIsComing(r, k) \/ OlderComes(r) \/ ~online
  \/ heard > r.at \/ LoadTells(k, r.at)
RepliesAreOvertaken ==
  active \in tabs =>
    \A i \in DOMAIN asked, k \in RowKeys : ShowsRows(asked[i]) => Overtaken(asked[i], k)

(* The edits of a row nobody told of yet: one to the value of the store    *)
(* for each from it, but for the first, so that undoing them in any order  *)
(* ends with the value of the store.                                       *)
Unresolved(r, k) == r.op = "patch" /\ r.sheet = active /\ r.key = k /\ r.at < 0
EditsTo(k) ==
  {i \in DOMAIN asked : Unresolved(asked[i], k) /\ asked[i].value = store[active][k]}
EditsFrom(k) ==
  {i \in DOMAIN asked : Unresolved(asked[i], k) /\ asked[i].before[k] = store[active][k]}
Off(k) == IF rows[k] = store[active][k] THEN 0 ELSE 1
Balanced(k) == Cardinality(EditsTo(k)) + Off(k) <= Cardinality(EditsFrom(k))

(* A row that is not the store's will be: an event or a load comes, an     *)
(* edit is out whose failure is told, or the edits are balanced.           *)
EventComes(k) == \E j \in DOMAIN feed : EventFor(feed[j], k)
EditIsLate(k) == \E i \in DOMAIN asked : Unresolved(asked[i], k) /\ asked[i].late
RowFollows(k) == \/ ~online \/ EventComes(k) \/ LoadTells(k, -1) \/ EditIsLate(k) \/ Balanced(k)
RowsFollow == active \in tabs => \A k \in RowKeys : RowFollows(k)

(* A grid whose sheet is deleted will be told.                             *)
ListTells(r) ==
  /\ r.op = "list" /\ r.first /\ r.sheet = active
  /\ r.at < 0 \/ (r.list # {} /\ active \notin r.list)
OrphanIsTold ==
  \/ ~online
  \/ \E j \in DOMAIN feed : feed[j].key = SheetList
  \/ \E i \in DOMAIN asked : (Reload(asked[i]) /\ asked[i].at < 0) \/ ListTells(asked[i])
OrphansAreTold == (active \notin tabs /\ tabs # {}) => OrphanIsTold

GridIsSound ==
  /\ RequestsKnown /\ FeedOrdered /\ AnswersKnown /\ LoadingIsWaited /\ FeedIsTrue /\ RepliesAreTrue
GridFollows == RepliesAreOvertaken /\ RowsFollow /\ OrphansAreTold
GridInv == GridFits /\ GridIsSound /\ (strange = {} => GridFollows)

-----------------------------------------------------------------------------
LEMMA BlankFits == Blank \in GridRows
BY DEF Blank, GridRows

(* A new request is one, of a sheet there may be.                          *)
LEMMA AskingFits ==
  ASSUME NEW o \in GridOps, NEW s \in Tabs \cup {Nowhere}
  PROVE  /\ Asking(o, s) \in GridRequests
         /\ Asking(o, s).op = o /\ Asking(o, s).sheet = s /\ ~Asking(o, s).first
         /\ Asking(o, s).at = Pending /\ Asking(o, s).list = {} /\ ~Asking(o, s).late
BY BlankFits DEF Asking, GridRequests, GridKeys, Pending

LEMMA LoadFits ==
  ASSUME NEW s \in Tabs \cup {Nowhere}, NEW b \in BOOLEAN
  PROVE  /\ Load(s, b) \in GridRequests
         /\ Load(s, b).op = "load" /\ Load(s, b).sheet = s /\ Load(s, b).first = b
         /\ Load(s, b).at = Pending /\ Load(s, b).list = {}
<1>1. "load" \in GridOps
  BY DEF GridOps
<1> QED BY <1>1, AskingFits DEF Load, GridRequests

(* A record of requests with other rows, key and the like is a request.    *)
LEMMA ChangedFits ==
  ASSUME NEW r \in GridRequests
  PROVE  /\ \A b \in BOOLEAN : [r EXCEPT !.late = b] \in GridRequests
         /\ \A b \in BOOLEAN : [r EXCEPT !.first = b] \in GridRequests
         /\ [r EXCEPT !.at = Refused] \in GridRequests
         /\ \A k \in GridKeys, v \in CellValues \cup {Gone} :
              [r EXCEPT !.key = k, !.value = v] \in GridRequests
         /\ \A k \in GridKeys, v \in CellValues \cup {Gone}, b \in GridRows :
              [r EXCEPT !.key = k, !.value = v, !.before = b] \in GridRequests
<1>1. \A b \in BOOLEAN : [r EXCEPT !.late = b] \in GridRequests
  BY DEF GridRequests
<1>2. \A b \in BOOLEAN : [r EXCEPT !.first = b] \in GridRequests
  BY DEF GridRequests
<1>3. [r EXCEPT !.at = Refused] \in GridRequests
  BY DEF GridRequests, Refused
<1>4. \A k \in GridKeys, v \in CellValues \cup {Gone} :
        [r EXCEPT !.key = k, !.value = v] \in GridRequests
  BY DEF GridRequests
<1>5. \A k \in GridKeys, v \in CellValues \cup {Gone}, b \in GridRows :
        [r EXCEPT !.key = k, !.value = v, !.before = b] \in GridRequests
  BY DEF GridRequests
<1> QED BY <1>1, <1>2, <1>3, <1>4, <1>5

(* A request answered is a request still.                                  *)
LEMMA AnsweredFits ==
  ASSUME NEW r \in GridRequests, NEW s \in Tabs \cup {Nowhere}, NEW n \in Int,
         NEW g \in GridRows, NEW l \in SUBSET Tabs
  PROVE  /\ [r EXCEPT !.sheet = s, !.at = n, !.got = g, !.list = l] \in GridRequests
BY DEF GridRequests

(* Without its request i the queue is shorter, and keeps the others.       *)
LEMMA AnswersWithoutOne ==
  ASSUME NEW S, asked \in Seq(S), NEW i \in DOMAIN asked
  PROVE  /\ AnswersWithout(i) \in Seq(S)
         /\ Len(AnswersWithout(i)) = Len(asked) - 1
         /\ \A j \in DOMAIN AnswersWithout(i) :
              AnswersWithout(i)[j] = IF j < i THEN asked[j] ELSE asked[j + 1]
<1> DEFINE left == SubSeq(asked, 1, i - 1)
           right == SubSeq(asked, i + 1, Len(asked))
<1>1. i \in 1 .. Len(asked) /\ Len(asked) \in Nat
  OBVIOUS
<1>2. /\ left \in Seq(S) /\ Len(left) = i - 1
      /\ \A j \in 1 .. i - 1 : left[j] = asked[j]
  BY <1>1
<1>3. /\ right \in Seq(S) /\ Len(right) = Len(asked) - i
      /\ \A j \in 1 .. Len(asked) - i : right[j] = asked[i + j]
  BY <1>1
<1>4. AnswersWithout(i) = left \o right
  BY DEF AnswersWithout
<1> HIDE DEF left, right
<1>5. left \o right \in Seq(S) /\ Len(left \o right) = Len(asked) - 1
  BY <1>1, <1>2, <1>3
<1>6. ASSUME NEW j \in 1 .. Len(asked) - 1
      PROVE  (left \o right)[j] = IF j < i THEN asked[j] ELSE asked[j + 1]
  <2>1. CASE j < i
    <3>1. (left \o right)[j] = left[j]
      BY <2>1, <1>1, <1>2, <1>3
    <3> QED BY <3>1, <2>1, <1>1, <1>2
  <2>2. CASE ~(j < i)
    <3>1. j - (i - 1) \in 1 .. Len(asked) - i /\ i + (j - (i - 1)) = j + 1
      BY <2>2, <1>1
    <3>2. (left \o right)[j] = right[j - (i - 1)]
      BY <2>2, <1>1, <1>2, <1>3
    <3> QED BY <3>1, <3>2, <2>2, <1>3
  <2> QED BY <2>1, <2>2
<1>7. DOMAIN AnswersWithout(i) = 1 .. Len(asked) - 1
  BY <1>1, <1>4, <1>5
<1> QED BY <1>4, <1>5, <1>6, <1>7

(* Marking the edits late changes nothing else of the requests.            *)
LEMMA LateFits ==
  ASSUME NEW s \in Seq(GridRequests)
  PROVE  /\ Late(s) \in Seq(GridRequests)
         /\ DOMAIN Late(s) = DOMAIN s
         /\ \A j \in DOMAIN s : Late(s)[j] = [s[j] EXCEPT !.late = (s[j].op = "patch")]
<1>1. /\ DOMAIN Late(s) = DOMAIN s
      /\ \A j \in DOMAIN s : Late(s)[j] = [s[j] EXCEPT !.late = (s[j].op = "patch")]
  BY DEF Late
<1>2. \A j \in DOMAIN s : s[j] \in GridRequests
  BY ElementOfSeq
<1>3. ASSUME NEW j \in DOMAIN s
      PROVE  Late(s)[j] \in GridRequests
  <2>1. PICK o \in BOOLEAN : o = (s[j].op = "patch")
    OBVIOUS
  <2> QED BY <1>1, <1>2, <2>1, ChangedFits
<1>4. /\ DOMAIN s = 1 .. Len(s) /\ Len(s) \in Nat
      /\ Late(s) = [j \in DOMAIN s |-> [s[j] EXCEPT !.late = (s[j].op = "patch")]]
  BY DEF Late
<1>5. Late(s) \in [1 .. Len(s) -> GridRequests]
  <2> DEFINE F(j) == [s[j] EXCEPT !.late = (s[j].op = "patch")]
  <2>1. \A j \in 1 .. Len(s) : F(j) \in GridRequests
    BY <1>1, <1>3, <1>4
  <2>2. Late(s) = [j \in 1 .. Len(s) |-> F(j)]
    BY <1>4
  <2> HIDE DEF F
  <2> QED BY <2>1, <2>2
<1>6. Late(s) \in Seq(GridRequests)
  BY <1>4, <1>5
<1> QED BY <1>1, <1>6

(* Two requests are of the same thing; one may be answered.                *)
SameAsked(p, q) ==
  /\ p.op = q.op /\ p.first = q.first /\ p.key = q.key /\ p.value = q.value
  /\ p.before = q.before /\ p.late = q.late

(* What an answer from sheet s puts in request i.                          *)
AnsweredBy(i, s) ==
  /\ SameAsked(asked'[i], asked[i])
  /\ asked'[i].sheet = s /\ asked'[i].at = clock'
  /\ asked[i].op \in {"load"} \cup RowOps => asked'[i].got = store'[s]
  /\ asked'[i].list = IF asked[i].op \in {"list", "delete"} THEN tabs' ELSE asked[i].list

OthersKept(i) ==
  /\ DOMAIN asked' = DOMAIN asked
  /\ \A j \in DOMAIN asked : j # i => asked'[j] = asked[j]

LEMMA AnswerPutsOne ==
  ASSUME AskedFits, NEW i \in DOMAIN asked, NEW s \in Tabs \cup {Nowhere}, Answer(i, s),
         ServerFits', asked[i].op \in {"load"} \cup RowOps => s \in Tabs
  PROVE  AskedFits' /\ OthersKept(i) /\ AnsweredBy(i, s)
<1> DEFINE r == asked[i]
           g == IF r.op \in {"load"} \cup RowOps THEN store'[s] ELSE r.got
           l == IF r.op \in {"list", "delete"} THEN tabs' ELSE r.list
           a == [r EXCEPT !.sheet = s, !.at = clock', !.got = g, !.list = l]
<1>1. r \in GridRequests
  BY ElementOfSeq DEF AskedFits
<1>2. clock' \in Int /\ tabs' \subseteq Tabs /\ store' \in [Tabs -> GridRows]
  BY DEF ServerFits
<1>3. g \in GridRows /\ l \in SUBSET Tabs
  BY <1>1, <1>2 DEF GridRequests
<1>4. asked' = [asked EXCEPT ![i] = a]
  BY <1>1 DEF Answer, GridRequests
<1>5. SameAsked(a, r) /\ a.sheet = s /\ a.at = clock' /\ a.got = g /\ a.list = l
  BY <1>1 DEF SameAsked, GridRequests
<1>6. a \in GridRequests
  BY <1>1, <1>2, <1>3, AnsweredFits
<1>7. r.op \in {"load"} \cup RowOps => g = store'[s]
  OBVIOUS
<1>8. l = IF r.op \in {"list", "delete"} THEN tabs' ELSE r.list
  OBVIOUS
<1> HIDE DEF a, g, l
<1>9. AskedFits' /\ DOMAIN asked' = DOMAIN asked /\ asked'[i] = a
      /\ \A j \in DOMAIN asked : j # i => asked'[j] = asked[j]
  BY <1>4, <1>6 DEF AskedFits
<1> QED BY <1>5, <1>7, <1>8, <1>9 DEF OthersKept, AnsweredBy

LEMMA RefusePutsOne ==
  ASSUME AskedFits, NEW i \in DOMAIN asked, Refuse(i)
  PROVE  /\ AskedFits' /\ OthersKept(i)
         /\ SameAsked(asked'[i], asked[i])
         /\ asked'[i].sheet = asked[i].sheet /\ asked'[i].at = Refused
         /\ asked'[i].list = asked[i].list
<1> DEFINE r == asked[i]
           a == [r EXCEPT !.at = Refused]
<1>1. r \in GridRequests
  BY ElementOfSeq DEF AskedFits
<1>2. a \in GridRequests
  BY <1>1, ChangedFits
<1>3. SameAsked(a, r) /\ a.sheet = r.sheet /\ a.at = Refused /\ a.list = r.list
  BY <1>1 DEF SameAsked, GridRequests
<1>4. asked' = [asked EXCEPT ![i] = a]
  BY <1>1 DEF Refuse, GridRequests
<1> HIDE DEF a
<1> QED BY <1>2, <1>3, <1>4 DEF AskedFits, OthersKept

(* A change of the store is told on an open stream.                        *)
Told1(s, k, v) ==
  /\ clock' = clock + 1
  /\ feed' = IF online THEN Append(feed, [sheet |-> s, key |-> k, value |-> v, no |-> clock + 1])
             ELSE feed

LEMMA WritingFits ==
  ASSUME ServerFits, NEW s, NEW k \in GridKeys, NEW v \in CellValues \cup {Gone},
         WriteCells(s, k, v), UNCHANGED online
  PROVE  /\ ServerFits' /\ s \in tabs /\ Told1(s, k, v)
         /\ tabs' = tabs /\ made' = made
         /\ \A x \in Tabs : x # s => store'[x] = store[x]
         /\ \A x \in RowKeys : k \notin {x, AllRows} => store'[s][x] = store[s][x]
         /\ \A x \in RowKeys : k \in {x, AllRows} => store'[s][x] = v
<1>1. s \in tabs /\ s \in Tabs /\ tabs' = tabs /\ made' = made
  BY DEF WriteCells, ServerFits
<1>2. Told1(s, k, v) /\ clock' \in Nat
  BY DEF WriteCells, Emit, Told1, ServerFits
<1>3. feed' \in Seq(GridEvents)
  <2>1. [sheet |-> s, key |-> k, value |-> v, no |-> clock + 1] \in GridEvents
    BY <1>1 DEF GridEvents, ServerFits
  <2> QED BY <1>2, <2>1 DEF Told1, ServerFits
<1> DEFINE w == IF k = AllRows THEN [x \in RowKeys |-> v] ELSE [store[s] EXCEPT ![k] = v]
<1>4. store[s] \in GridRows /\ store \in [Tabs -> GridRows]
  BY <1>1 DEF ServerFits
<1>5. w \in GridRows
  BY <1>4 DEF GridRows
<1>6. store' = [store EXCEPT ![s] = w]
  BY <1>1, <1>4 DEF WriteCells
<1>7. \A x \in RowKeys : k \notin {x, AllRows} => w[x] = store[s][x]
  BY <1>4 DEF GridRows
<1>8. \A x \in RowKeys : k \in {x, AllRows} => w[x] = v
  BY <1>4 DEF GridRows
<1> HIDE DEF w
<1>9. store' \in [Tabs -> GridRows] /\ store'[s] = w /\ \A x \in Tabs : x # s => store'[x] = store[x]
  BY <1>1, <1>4, <1>5, <1>6
<1>10. ServerFits'
  BY <1>1, <1>2, <1>3, <1>9 DEF ServerFits
<1> QED BY <1>1, <1>2, <1>7, <1>8, <1>9, <1>10

LEMMA ListingFits ==
  ASSUME ServerFits, NEW s \in Tabs, List(s), UNCHANGED online
  PROVE  /\ ServerFits' /\ Told1(s, SheetList, Gone)
         /\ store' = store /\ made' = made \cup {s}
         /\ \/ s \in tabs /\ tabs' = tabs \ {s}
            \/ s \notin made /\ tabs' = tabs \cup {s}
<1>1. /\ store' = store /\ made' = made \cup {s} /\ tabs' \subseteq made'
      /\ \/ s \in tabs /\ tabs' = tabs \ {s}
         \/ s \notin made /\ tabs' = tabs \cup {s}
  BY DEF List, ServerFits
<1>2. Told1(s, SheetList, Gone) /\ clock' \in Nat
  BY DEF List, Emit, Told1, ServerFits
<1>3. feed' \in Seq(GridEvents)
  <2>1. [sheet |-> s, key |-> SheetList, value |-> Gone, no |-> clock + 1] \in GridEvents
    BY DEF GridEvents, GridKeys, ServerFits
  <2> QED BY <1>2, <2>1 DEF Told1, ServerFits
<1> QED BY <1>1, <1>2, <1>3 DEF ServerFits

-----------------------------------------------------------------------------
(* A request stays the same but for the mark of an edit that is late.      *)
SameRequest(p, q) ==
  /\ p.op = q.op /\ p.sheet = q.sheet /\ p.first = q.first /\ p.key = q.key
  /\ p.value = q.value /\ p.before = q.before /\ p.at = q.at /\ p.got = q.got
  /\ p.list = q.list
  /\ (q.op = "patch" /\ q.late) => p.late

(* The queue has only requests it had, and new ones not answered yet.      *)
NoneAnswered ==
  \A j \in DOMAIN asked' :
    \/ \E m \in DOMAIN asked : SameRequest(asked'[j], asked[m])
    \/ asked'[j].at < 0 /\ RequestKnown(asked'[j])

(* The queue is that of before without request i.                          *)
Before(i, j) == IF j < i THEN j ELSE j + 1
After(i, m) == IF m < i THEN m ELSE m - 1
ShorterBy(i) ==
  /\ \A j \in DOMAIN asked' :
       /\ Before(i, j) \in DOMAIN asked /\ Before(i, j) # i
       /\ SameRequest(asked'[j], asked[Before(i, j)])
  /\ \A m \in DOMAIN asked :
       m # i => /\ After(i, m) \in DOMAIN asked' /\ Before(i, After(i, m)) = m
                /\ SameRequest(asked'[After(i, m)], asked[m])
AllLate == \A j \in DOMAIN asked : asked[j].op = "patch" => asked[j].late

LEMMA AskedIsRequest ==
  ASSUME AskedFits, NEW i \in DOMAIN asked
  PROVE  /\ asked[i] \in GridRequests /\ asked[i].at \in Int
         /\ asked[i].sheet \in Tabs \cup {Nowhere}
         /\ asked[i].got \in GridRows /\ asked[i].list \subseteq Tabs
<1>1. asked[i] \in GridRequests
  BY ElementOfSeq DEF AskedFits
<1> QED BY <1>1 DEF GridRequests

LEMMA IndexMaps ==
  ASSUME NEW n \in Nat, NEW i \in 1 .. n
  PROVE  /\ \A j \in 1 .. n - 1 : Before(i, j) \in 1 .. n /\ Before(i, j) # i
         /\ \A m \in 1 .. n : m # i => After(i, m) \in 1 .. n - 1 /\ Before(i, After(i, m)) = m
BY DEF Before, After

LEMMA RemovedOne ==
  ASSUME AskedFits, NEW i \in DOMAIN asked, asked' = AnswersWithout(i)
  PROVE  AskedFits' /\ ShorterBy(i)
<1>1. /\ asked' \in Seq(GridRequests) /\ Len(asked') = Len(asked) - 1
      /\ \A j \in DOMAIN asked' : asked'[j] = IF j < i THEN asked[j] ELSE asked[j + 1]
  BY AnswersWithoutOne DEF AskedFits
<1>2. Len(asked) \in Nat /\ i \in 1 .. Len(asked) /\ DOMAIN asked = 1 .. Len(asked)
  BY DEF AskedFits
<1>3. DOMAIN asked' = 1 .. Len(asked) - 1
  BY <1>1, <1>2
<1>4. \A j \in DOMAIN asked' : asked'[j] = asked[Before(i, j)]
  BY <1>1 DEF Before
<1>5. /\ \A j \in DOMAIN asked' : Before(i, j) \in DOMAIN asked /\ Before(i, j) # i
      /\ \A m \in DOMAIN asked :
           m # i => After(i, m) \in DOMAIN asked' /\ Before(i, After(i, m)) = m
  BY <1>2, <1>3, IndexMaps
<1>6. \A m \in DOMAIN asked : m # i => asked'[After(i, m)] = asked[m]
  BY <1>4, <1>5
<1>7. \A p : SameRequest(p, p)
  BY DEF SameRequest
<1> QED BY <1>1, <1>4, <1>5, <1>6, <1>7 DEF AskedFits, ShorterBy

LEMMA RemovedAndLate ==
  ASSUME AskedFits, NEW i \in DOMAIN asked, asked' = Late(AnswersWithout(i))
  PROVE  AskedFits' /\ ShorterBy(i) /\ AllLate'
<1> DEFINE s == AnswersWithout(i)
<1>1. /\ s \in Seq(GridRequests) /\ Len(s) = Len(asked) - 1
      /\ \A j \in DOMAIN s : s[j] = IF j < i THEN asked[j] ELSE asked[j + 1]
  BY AnswersWithoutOne DEF AskedFits
<1> HIDE DEF s
<1>2. Len(asked) \in Nat /\ i \in 1 .. Len(asked) /\ DOMAIN asked = 1 .. Len(asked)
  BY DEF AskedFits
<1>3. DOMAIN s = 1 .. Len(asked) - 1
  BY <1>1, <1>2
<1>4. \A j \in DOMAIN s : s[j] = asked[Before(i, j)]
  BY <1>1 DEF Before
<1>5. /\ \A j \in DOMAIN s : Before(i, j) \in DOMAIN asked /\ Before(i, j) # i
      /\ \A m \in DOMAIN asked :
           m # i => After(i, m) \in DOMAIN s /\ Before(i, After(i, m)) = m
  BY <1>2, <1>3, IndexMaps
<1>6. \A m \in DOMAIN asked : m # i => s[After(i, m)] = asked[m]
  BY <1>4, <1>5
<1>7. asked' = Late(s)
  BY DEF s
<1>8. /\ asked' \in Seq(GridRequests) /\ DOMAIN asked' = DOMAIN s
      /\ \A j \in DOMAIN s : asked'[j] = [s[j] EXCEPT !.late = (s[j].op = "patch")]
  BY <1>1, <1>7, LateFits
<1>9. ASSUME NEW j \in DOMAIN s
      PROVE  SameRequest(asked'[j], s[j]) /\ (asked'[j].op = "patch" => asked'[j].late)
  <2>1. s[j] \in GridRequests
    BY <1>1, ElementOfSeq
  <2>2. PICK o \in BOOLEAN : o = (s[j].op = "patch")
    OBVIOUS
  <2>3. asked'[j] = [s[j] EXCEPT !.late = o]
    BY <1>8, <2>2
  <2> QED BY <2>1, <2>2, <2>3 DEF SameRequest, GridRequests
<1>10. AllLate'
  BY <1>8, <1>9 DEF AllLate
<1>11. ShorterBy(i)
  BY <1>4, <1>5, <1>6, <1>8, <1>9 DEF ShorterBy
<1> QED BY <1>8, <1>10, <1>11 DEF AskedFits

LEMMA AppendedOne ==
  ASSUME AskedFits, NEW q \in GridRequests, asked' = Append(asked, q)
  PROVE  /\ AskedFits'
         /\ DOMAIN asked' = 1 .. Len(asked) + 1 /\ DOMAIN asked = 1 .. Len(asked)
         /\ Len(asked) \in Nat
         /\ asked'[Len(asked) + 1] = q
         /\ \A m \in DOMAIN asked : m \in DOMAIN asked' /\ asked'[m] = asked[m]
BY DEF AskedFits

LEMMA NoneAnsweredWhen ==
  ASSUME AskedFits
  PROVE  /\ \A i \in DOMAIN asked : ShorterBy(i) => NoneAnswered
         /\ \A q \in GridRequests :
              (asked' = Append(asked, q) /\ q.at = Pending /\ RequestKnown(q)) => NoneAnswered
         /\ asked' = asked => NoneAnswered
<1>1. \A p : SameRequest(p, p)
  BY DEF SameRequest
<1>2. ASSUME NEW q \in GridRequests, asked' = Append(asked, q), q.at = Pending, RequestKnown(q)
      PROVE  NoneAnswered
  <2>1. /\ DOMAIN asked' = 1 .. Len(asked) + 1 /\ DOMAIN asked = 1 .. Len(asked)
        /\ Len(asked) \in Nat
        /\ asked'[Len(asked) + 1] = q
        /\ \A m \in DOMAIN asked : m \in DOMAIN asked' /\ asked'[m] = asked[m]
    BY <1>2, AppendedOne
  <2>2. \A j \in DOMAIN asked' : j \in DOMAIN asked \/ asked'[j] = q
    BY <2>1
  <2> QED BY <1>1, <1>2, <2>1, <2>2 DEF NoneAnswered, Pending
<1>3. \A i \in DOMAIN asked : ShorterBy(i) => NoneAnswered
  BY DEF ShorterBy, NoneAnswered
<1>4. asked' = asked => NoneAnswered
  BY <1>1 DEF NoneAnswered
<1> QED BY <1>2, <1>3, <1>4

-----------------------------------------------------------------------------
(* Nothing of the server changes and no request is answered: what was      *)
(* sound stays so.                                                         *)
LEMMA RequestsStayKnown ==
  ASSUME GridFits, GridIsSound, AskedFits', NoneAnswered, UNCHANGED <<tabs, made, store, clock>>
  PROVE  RequestsKnown' /\ AnswersKnown'
<1>1. RequestsKnown'
  BY DEF GridIsSound, RequestsKnown, RequestKnown, NoneAnswered, SameRequest
<1>2. clock \in Nat
  BY DEF GridFits, ServerFits
<1>3. \A j \in DOMAIN asked' : asked'[j].at \in Int
  <2>1. \A j \in DOMAIN asked' : asked'[j] \in GridRequests
    BY ElementOfSeq DEF AskedFits
  <2> QED BY <2>1 DEF GridRequests
<1>4. AnswersKnown'
  <2> SUFFICES ASSUME NEW j \in DOMAIN asked' PROVE AnswerKnown(asked[j])'
    BY DEF AnswersKnown
  <2>1. CASE asked'[j].at < 0
    BY <1>2, <1>3, <2>1 DEF AnswerKnown, HasRows
  <2>2. CASE \E m \in DOMAIN asked : SameRequest(asked'[j], asked[m])
    BY <2>2 DEF AnswerKnown, HasRows, SameRequest, GridIsSound, AnswersKnown
  <2> QED BY <2>1, <2>2 DEF NoneAnswered
<1> QED BY <1>1, <1>4

LEMMA SoundKept ==
  ASSUME GridFits, GridIsSound, AskedFits', NoneAnswered,
         UNCHANGED <<tabs, made, store, clock, feed, online, active>>
  PROVE  RequestsKnown' /\ FeedOrdered' /\ AnswersKnown' /\ FeedIsTrue' /\ RepliesAreTrue'
<1>1. FeedOrdered' /\ FeedIsTrue'
  BY DEF GridIsSound, FeedOrdered, FeedIsTrue, LastFor, EventFor
<1>2. RequestsKnown' /\ AnswersKnown'
  BY RequestsStayKnown
<1>3. RepliesAreTrue'
  <2> SUFFICES ASSUME active \in tabs, NEW j \in DOMAIN asked', NEW k \in RowKeys,
                      ShowsRows(asked[j])', OlderComes(asked[j])'
               PROVE  RowIsComing(asked[j], k)'
    BY DEF RepliesAreTrue
  <2>1. asked'[j].at >= 0
    BY DEF ShowsRows, HasRows
  <2>2. asked'[j].at \in Int
    <3>1. asked'[j] \in GridRequests
      BY ElementOfSeq DEF AskedFits
    <3> QED BY <3>1 DEF GridRequests
  <2>3. PICK m \in DOMAIN asked : SameRequest(asked'[j], asked[m])
    BY <2>1, <2>2 DEF NoneAnswered
  <2>4. ShowsRows(asked[m]) /\ OlderComes(asked[m])
    BY <2>3 DEF SameRequest, ShowsRows, HasRows, OlderComes
  <2>5. RowIsComing(asked[m], k)
    BY <2>4 DEF GridIsSound, RepliesAreTrue
  <2> QED BY <2>3, <2>5 DEF SameRequest, RowIsComing, EventFor
<1> QED BY <1>1, <1>2, <1>3

(* A grid without a stream: nothing is on its way, and all is forgiven.    *)
LEMMA SoundWithoutStream ==
  ASSUME GridFits, GridIsSound, AskedFits', NoneAnswered,
         UNCHANGED <<tabs, made, store, clock>>, feed' = <<>>
  PROVE  RequestsKnown' /\ FeedOrdered' /\ AnswersKnown' /\ FeedIsTrue' /\ RepliesAreTrue'
<1>1. DOMAIN feed' = {}
  OBVIOUS
<1>2. FeedOrdered' /\ FeedIsTrue' /\ RepliesAreTrue'
  BY <1>1 DEF FeedOrdered, FeedIsTrue, RepliesAreTrue, OlderComes
<1> QED BY <1>2, RequestsStayKnown

LEMMA OfflineFollows ==
  ASSUME ~online'
  PROVE  GridFollows'
BY DEF GridFollows, RepliesAreOvertaken, Overtaken, RowsFollow, RowFollows, OrphansAreTold,
       OrphanIsTold

(* A load that was asked to wait for stays among the requests.             *)
LEMMA FirstStaysAsked ==
  ASSUME NEW i \in DOMAIN asked, FirstAsked, ShorterBy(i),
         ~(asked[i].op = "load" /\ asked[i].first)
  PROVE  FirstAsked'
BY DEF FirstAsked, ShorterBy, SameRequest

-----------------------------------------------------------------------------
(* What a request leaves alone: the server, the stream and the rows.       *)
Asks == UNCHANGED <<tabs, made, store, clock, feed, online, heard, active, rows, strange>>

(* A row follows the store as long as what it waits for is still there.    *)
LEMMA FollowsStay ==
  ASSUME NEW k, RowFollows(k), UNCHANGED <<store, feed, online, active>>,
         LoadTells(k, -1) => LoadTells(k, -1)',
         EditIsLate(k) => EditIsLate(k)',
         Balanced(k) => Balanced(k)'
  PROVE  RowFollows(k)'
BY DEF RowFollows, EventComes, EventFor

LEMMA AskingKeepsFollowing ==
  ASSUME GridFits, GridFollows, NEW q \in GridRequests, asked' = Append(asked, q),
         q.at = Pending, q.op # "patch", Asks
  PROVE  GridFollows'
<1>1. /\ DOMAIN asked' = 1 .. Len(asked) + 1 /\ DOMAIN asked = 1 .. Len(asked)
      /\ Len(asked) \in Nat
      /\ asked'[Len(asked) + 1] = q
      /\ \A m \in DOMAIN asked : m \in DOMAIN asked' /\ asked'[m] = asked[m]
  BY AppendedOne DEF GridFits
<1>2. \A j \in DOMAIN asked' : j \in DOMAIN asked \/ asked'[j] = q
  BY <1>1
<1>3. UNCHANGED <<tabs, made, store, clock, feed, online, heard, active, rows, strange>>
  BY DEF Asks
<1>4. ASSUME NEW k, NEW n PROVE LoadTells(k, n) => LoadTells(k, n)'
  BY <1>1, <1>3 DEF LoadTells, Tells, Reload
<1>5. RepliesAreOvertaken'
  <2> SUFFICES ASSUME active \in tabs, NEW j \in DOMAIN asked', NEW k \in RowKeys,
                      ShowsRows(asked[j])'
               PROVE  Overtaken(asked[j], k)'
    BY <1>3 DEF RepliesAreOvertaken
  <2>1. j \in DOMAIN asked /\ asked'[j] = asked[j]
    BY <1>1, <1>2 DEF ShowsRows, HasRows, Pending
  <2>2. Overtaken(asked[j], k)
    BY <1>3, <2>1 DEF GridFollows, RepliesAreOvertaken, ShowsRows, HasRows
  <2>3. LoadTells(k, asked[j].at) => LoadTells(k, asked[j].at)'
    BY <1>1, <1>3, <2>1 DEF LoadTells, Tells, Reload
  <2> QED BY <1>3, <2>1, <2>2, <2>3 DEF Overtaken, RowIsComing, OlderComes, EventFor
<1>6. RowsFollow'
  <2> SUFFICES ASSUME active \in tabs, NEW k \in RowKeys PROVE RowFollows(k)'
    BY <1>3 DEF RowsFollow
  <2>1. RowFollows(k)
    BY DEF GridFollows, RowsFollow
  <2>2. EditIsLate(k) => EditIsLate(k)'
    BY <1>1, <1>3 DEF EditIsLate, Unresolved
  <2>3. EditsTo(k)' = EditsTo(k) /\ EditsFrom(k)' = EditsFrom(k)
    BY <1>1, <1>2, <1>3 DEF EditsTo, EditsFrom, Unresolved
  <2>4. Balanced(k) => Balanced(k)'
    BY <1>3, <2>3 DEF Balanced, Off
  <2> QED BY <1>3, <1>4, <2>1, <2>2, <2>4, FollowsStay
<1>7. OrphansAreTold'
  BY <1>1, <1>3 DEF GridFollows, OrphansAreTold, OrphanIsTold, Reload, ListTells
<1> QED BY <1>5, <1>6, <1>7 DEF GridFollows

(* A request asked for, other than an edit, keeps the invariant.           *)
LEMMA AskingKeepsGrid ==
  ASSUME GridInv, NEW q \in GridRequests, asked' = Append(asked, q),
         q.at = Pending, q.op # "patch", RequestKnown(q), Asks,
         editing' \in BOOLEAN, undo' \in Seq(GridEdits), redo' \in Seq(GridEdits),
         \/ loading' = loading
         \/ loading' \in BOOLEAN /\ q.op = "load" /\ q.first
  PROVE  GridInv'
<1>1. UNCHANGED <<tabs, made, store, clock, feed, online, heard, active, rows, strange>>
  BY DEF Asks
<1>2. /\ AskedFits' /\ asked'[Len(asked) + 1] = q /\ Len(asked) + 1 \in DOMAIN asked'
      /\ \A m \in DOMAIN asked : m \in DOMAIN asked' /\ asked'[m] = asked[m]
  BY AppendedOne DEF GridInv, GridFits
<1>3. GridFits'
  BY <1>1, <1>2 DEF GridInv, GridFits, ServerFits, PageFits
<1>4. NoneAnswered
  BY NoneAnsweredWhen DEF GridInv, GridFits
<1>5. RequestsKnown' /\ FeedOrdered' /\ AnswersKnown' /\ FeedIsTrue' /\ RepliesAreTrue'
  BY <1>1, <1>2, <1>4, SoundKept DEF GridInv
<1>6. LoadingIsWaited'
  BY <1>1, <1>2 DEF GridInv, GridIsSound, LoadingIsWaited, FirstAsked
<1>7. (strange = {})' => GridFollows'
  BY <1>1, AskingKeepsFollowing DEF GridInv
<1> QED BY <1>3, <1>5, <1>6, <1>7 DEF GridInv, GridIsSound

LEMMA PressKeepsGrid ==
  ASSUME GridInv, NEW o \in RowOps, NEW k \in GridKeys, NEW v \in CellValues \cup {Gone},
         Press(o, k, v)
  PROVE  GridInv'
<1> DEFINE q == [Asking(o, active) EXCEPT !.key = k, !.value = v]
<1>1. active \in made \cup {Nowhere} /\ made \subseteq Tabs
  BY DEF GridInv, GridFits, PageFits, ServerFits
<1>2. o \in GridOps
  BY DEF GridOps
<1>3. Asking(o, active) \in GridRequests
  BY <1>1, <1>2, AskingFits
<1>4. q \in GridRequests
  BY <1>3, ChangedFits
<1>5. q.at = Pending /\ q.op # "patch" /\ RequestKnown(q)
  BY <1>1, <1>2, AskingFits DEF RowOps, RequestKnown, GridRequests
<1>6. asked' = Append(asked, q) /\ Asks
  BY DEF Press, Acting, Asks, page, server
<1>7. UNCHANGED <<loading, editing, undo, redo>>
  BY DEF Press, page
<1>8. editing' \in BOOLEAN /\ undo' \in Seq(GridEdits) /\ redo' \in Seq(GridEdits)
  BY <1>7 DEF GridInv, GridFits, PageFits
<1> HIDE DEF q
<1> QED BY <1>4, <1>5, <1>6, <1>7, <1>8, AskingKeepsGrid

LEMMA ToolbarKeepsGrid ==
  ASSUME GridInv, handleAddRow \/ handleDeleteRows \/ handleDeleteColumn \/ handleImportFile
  PROVE  GridInv'
<1>1. {"add", "drop", "column", "import"} \subseteq RowOps /\ RowKeys \cup {AllRows} \subseteq GridKeys
  BY DEF RowOps, GridKeys
<1>2. CASE handleAddRow
  BY <1>1, <1>2, PressKeepsGrid DEF handleAddRow
<1>3. CASE handleDeleteRows
  BY <1>1, <1>3, PressKeepsGrid DEF handleDeleteRows
<1>4. CASE handleDeleteColumn
  BY <1>1, <1>4, PressKeepsGrid DEF handleDeleteColumn
<1>5. CASE handleImportFile
  BY <1>1, <1>5, PressKeepsGrid DEF handleImportFile
<1> QED BY <1>2, <1>3, <1>4, <1>5

LEMMA SheetRequestKeepsGrid ==
  ASSUME GridInv, confirmDeleteSheet \/ submitAddSheet
  PROVE  GridInv'
<1>1. /\ Asks /\ UNCHANGED <<loading, editing, undo, redo>>
  BY DEF confirmDeleteSheet, submitAddSheet, Acting, Asks, page, server
<1>2. editing' \in BOOLEAN /\ undo' \in Seq(GridEdits) /\ redo' \in Seq(GridEdits)
  BY <1>1 DEF GridInv, GridFits, PageFits
<1>3. tabs \subseteq made /\ made \subseteq Tabs
  BY DEF GridInv, GridFits, ServerFits
<1>4. {"delete", "create"} \subseteq GridOps
  BY DEF GridOps
<1>5. CASE confirmDeleteSheet
  <2>1. PICK s \in tabs :
          asked' = Append(asked, [Asking("delete", s) EXCEPT !.first = (s = active)])
    BY <1>5 DEF confirmDeleteSheet
  <2>2. PICK b \in BOOLEAN : b = (s = active)
    OBVIOUS
  <2> DEFINE q == [Asking("delete", s) EXCEPT !.first = b]
  <2>3. s \in Tabs \cup {Nowhere} /\ Asking("delete", s) \in GridRequests
    BY <1>3, <1>4, AskingFits
  <2>4. q \in GridRequests
    BY <2>3, ChangedFits
  <2>5. q.at = Pending /\ q.op = "delete" /\ q.sheet = s /\ q.list = {}
    BY <1>4, <2>3, AskingFits DEF GridRequests
  <2>6. q.op # "patch" /\ RequestKnown(q)
    BY <1>3, <2>5 DEF RequestKnown, RowOps
  <2>7. asked' = Append(asked, q)
    BY <2>1, <2>2
  <2> HIDE DEF q
  <2> QED BY <1>1, <1>2, <2>4, <2>5, <2>6, <2>7, AskingKeepsGrid
<1>6. CASE submitAddSheet
  <2> DEFINE q == Asking("create", Nowhere)
  <2>1. /\ q \in GridRequests /\ q.at = Pending /\ q.op = "create" /\ q.sheet = Nowhere
        /\ q.list = {}
    BY <1>4, AskingFits
  <2>2. q.op # "patch" /\ RequestKnown(q)
    BY <2>1 DEF RequestKnown, RowOps
  <2>3. asked' = Append(asked, q)
    BY <1>6 DEF submitAddSheet, createThreadSheet
  <2> HIDE DEF q
  <2> QED BY <1>1, <1>2, <2>1, <2>2, <2>3, AskingKeepsGrid
<1> QED BY <1>5, <1>6

LEMMA RetryKeepsGrid ==
  ASSUME GridInv, Retry
  PROVE  GridInv'
<1>1. active \in Tabs \cup {Nowhere} /\ active \in made \cup {Nowhere}
  BY DEF GridInv, GridFits, PageFits, ServerFits
<1> DEFINE q == Load(active, TRUE)
<1>2. /\ q \in GridRequests /\ q.op = "load" /\ q.sheet = active /\ q.first
      /\ q.at = Pending /\ q.list = {}
  BY <1>1, LoadFits
<1>3. q.op # "patch" /\ RequestKnown(q)
  BY <1>1, <1>2 DEF RequestKnown, RowOps
<1>4. asked' = Append(asked, q) /\ Asks /\ loading' \in BOOLEAN /\ UNCHANGED <<editing, undo, redo>>
  BY DEF Retry, Acting, Asks, server
<1>5. editing' \in BOOLEAN /\ undo' \in Seq(GridEdits) /\ redo' \in Seq(GridEdits)
  BY <1>4 DEF GridInv, GridFits, PageFits
<1> HIDE DEF q
<1> QED BY <1>2, <1>3, <1>4, <1>5, AskingKeepsGrid

(* Nothing but the marks of the user's own edits changes.                  *)
LEMMA QuietKeepsGrid ==
  ASSUME GridInv, UNCHANGED <<tabs, made, store, clock, feed, online, heard, active, rows, loading,
                              asked, strange>>,
         editing' \in BOOLEAN, undo' \in Seq(GridEdits), redo' \in Seq(GridEdits)
  PROVE  GridInv'
<1>1. GridFits'
  BY DEF GridInv, GridFits, ServerFits, PageFits, AskedFits
<1>2. GridIsSound'
  BY DEF GridInv, GridIsSound, RequestsKnown, RequestKnown, FeedOrdered, AnswersKnown, AnswerKnown,
         LoadingIsWaited, FirstAsked, FeedIsTrue, LastFor, RepliesAreTrue, RowIsComing,
         OlderComes, ShowsRows, EventFor
<1>3. RepliesAreOvertaken => RepliesAreOvertaken'
  BY DEF RepliesAreOvertaken, Overtaken, RowIsComing, OlderComes, ShowsRows, HasRows, EventFor,
         LoadTells, Tells, Reload
<1>4. ASSUME NEW k PROVE RowFollows(k) => RowFollows(k)'
  <2>1. LoadTells(k, -1) => LoadTells(k, -1)'
    BY DEF LoadTells, Tells, Reload
  <2>2. EditIsLate(k) => EditIsLate(k)'
    BY DEF EditIsLate, Unresolved
  <2>3. EditsTo(k)' = EditsTo(k) /\ EditsFrom(k)' = EditsFrom(k)
    BY DEF EditsTo, EditsFrom, Unresolved
  <2>4. Balanced(k) => Balanced(k)'
    BY <2>3 DEF Balanced, Off
  <2> QED BY <2>1, <2>2, <2>4, FollowsStay
<1>5. RowsFollow => RowsFollow'
  BY <1>4 DEF RowsFollow
<1>6. OrphansAreTold => OrphansAreTold'
  BY DEF OrphansAreTold, OrphanIsTold, ListTells, Reload
<1> QED BY <1>1, <1>2, <1>3, <1>5, <1>6 DEF GridInv, GridFollows

(* A load just asked for tells of everything.                              *)
LEMMA ReloadTellsAll ==
  ASSUME NEW n \in DOMAIN asked', asked'[n].op = "load", ~asked'[n].first,
         asked'[n].sheet = active', asked'[n].at = Pending
  PROVE  GridFollows'
<1>1. \A k, m : LoadTells(k, m)'
  BY DEF LoadTells, Tells, Reload
<1>2. RepliesAreOvertaken'
  BY DEF RepliesAreOvertaken, Overtaken, LoadTells, Tells, Reload
<1>3. RowsFollow'
  BY <1>1 DEF RowsFollow, RowFollows
<1>4. OrphansAreTold'
  BY DEF OrphansAreTold, OrphanIsTold, Reload, Pending
<1> QED BY <1>2, <1>3, <1>4 DEF GridFollows

(* The stream opens: the load it asks for tells of all that was missed.    *)
LEMMA OpenKeepsGrid ==
  ASSUME GridInv, Open
  PROVE  GridInv'
<1> DEFINE q == Load(active, FALSE)
<1>1. active \in Tabs \cup {Nowhere} /\ active \in made \cup {Nowhere}
  BY DEF GridInv, GridFits, PageFits, ServerFits
<1>2. /\ q \in GridRequests /\ q.op = "load" /\ q.sheet = active /\ ~q.first
      /\ q.at = Pending /\ q.list = {}
  BY <1>1, LoadFits
<1>3. /\ asked' = Append(asked, q) /\ online' = TRUE /\ ~online
      /\ UNCHANGED <<tabs, made, store, clock, feed, heard, active, rows, loading, editing, undo,
                     redo, strange>>
  BY DEF Open, onopen, server, page
<1> HIDE DEF q
<1>4. /\ AskedFits' /\ asked'[Len(asked) + 1] = q /\ Len(asked) + 1 \in DOMAIN asked'
      /\ \A m \in DOMAIN asked : m \in DOMAIN asked' /\ asked'[m] = asked[m]
  BY <1>2, <1>3, AppendedOne DEF GridInv, GridFits
<1>5. GridFits'
  BY <1>3, <1>4 DEF GridInv, GridFits, ServerFits, PageFits
<1>6. RequestKnown(q)
  BY <1>1, <1>2 DEF RequestKnown, RowOps
<1>7. NoneAnswered
  BY <1>2, <1>3, <1>6, NoneAnsweredWhen DEF GridInv, GridFits
<1>8. feed' = <<>>
  BY <1>3 DEF GridInv, GridIsSound, FeedOrdered
<1>9. RequestsKnown' /\ FeedOrdered' /\ AnswersKnown' /\ FeedIsTrue' /\ RepliesAreTrue'
  BY <1>3, <1>4, <1>7, <1>8, SoundWithoutStream DEF GridInv
<1>10. LoadingIsWaited'
  BY <1>3, <1>4 DEF GridInv, GridIsSound, LoadingIsWaited, FirstAsked
<1>11. GridFollows'
  <2>1. PICK n \in DOMAIN asked' : n = Len(asked) + 1
    BY <1>4
  <2>2. asked'[n] = q /\ active' = active
    BY <1>3, <1>4, <2>1
  <2> QED BY <1>2, <2>2, ReloadTellsAll
<1> QED BY <1>5, <1>9, <1>10, <1>11 DEF GridInv, GridIsSound

LEMMA BreakKeepsGrid ==
  ASSUME GridInv, Break
  PROVE  GridInv'
<1>1. /\ online' = FALSE /\ feed' = <<>>
      /\ UNCHANGED <<tabs, made, store, clock, heard, active, rows, loading, editing, undo, redo,
                     asked, strange>>
  BY DEF Break, server, page
<1>2. GridFits'
  <2> <<>> \in Seq(GridEvents)
    OBVIOUS
  <2>1. online' \in BOOLEAN /\ feed' \in Seq(GridEvents)
    BY <1>1, Zenon
  <2>2. ServerFits'
    BY <1>1, <2>1 DEF GridInv, GridFits, ServerFits
  <2>3. PageFits' /\ AskedFits'
    BY <1>1 DEF GridInv, GridFits, PageFits, AskedFits
  <2> QED BY <2>2, <2>3 DEF GridFits
<1>3. NoneAnswered
  BY <1>1, NoneAnsweredWhen DEF GridInv, GridFits
<1>4. RequestsKnown' /\ FeedOrdered' /\ AnswersKnown' /\ FeedIsTrue' /\ RepliesAreTrue'
  BY <1>1, <1>2, <1>3, SoundWithoutStream DEF GridInv, GridFits
<1>5. LoadingIsWaited'
  BY <1>1 DEF GridInv, GridIsSound, LoadingIsWaited, FirstAsked
<1> QED BY <1>1, <1>2, <1>4, <1>5, OfflineFollows DEF GridInv, GridIsSound

-----------------------------------------------------------------------------
(* A list of requests is made of requests there were.                      *)
WasAsked(w) == w \in Seq(GridRequests) /\ \A j \in DOMAIN w : \E m \in DOMAIN asked : w[j] = asked[m]

LEMMA WithoutWasAsked ==
  ASSUME AskedFits, NEW i \in DOMAIN asked
  PROVE  WasAsked(AnswersWithout(i))
<1> DEFINE s == AnswersWithout(i)
<1>1. /\ s \in Seq(GridRequests) /\ Len(s) = Len(asked) - 1
      /\ \A j \in DOMAIN s : s[j] = IF j < i THEN asked[j] ELSE asked[j + 1]
  BY AnswersWithoutOne DEF AskedFits
<1> HIDE DEF s
<1>2. Len(asked) \in Nat /\ i \in 1 .. Len(asked) /\ DOMAIN asked = 1 .. Len(asked)
  BY DEF AskedFits
<1>3. DOMAIN s = 1 .. Len(asked) - 1
  BY <1>1, <1>2
<1>4. \A j \in DOMAIN s : \E m \in DOMAIN asked : s[j] = asked[m]
  <2> SUFFICES ASSUME NEW j \in DOMAIN s PROVE \E m \in DOMAIN asked : s[j] = asked[m]
    OBVIOUS
  <2>1. s[j] = asked[IF j < i THEN j ELSE j + 1] /\ (IF j < i THEN j ELSE j + 1) \in DOMAIN asked
    BY <1>1, <1>2, <1>3
  <2> QED BY <2>1
<1>5. WasAsked(s)
  BY <1>1, <1>4 DEF WasAsked
<1> QED BY <1>5 DEF s

(* Another sheet is shown: the stream is closed and its first rows are     *)
(* asked for.                                                              *)
LEMMA ShowingOtherKeepsGrid ==
  ASSUME GridInv, NEW s \in made \cup {Nowhere}, s # active, NEW w, WasAsked(w), ShowSheet(s, w),
         rows' \in GridRows, UNCHANGED server
  PROVE  GridInv'
<1> DEFINE q == Load(s, TRUE)
<1>1. /\ active' = s /\ loading' = TRUE /\ undo' = <<>> /\ redo' = <<>> /\ heard' = 0
      /\ asked' = Append(w, q) /\ feed' = <<>> /\ online' = FALSE
      /\ UNCHANGED <<tabs, made, store, clock, editing>>
  BY DEF ShowSheet, server
<1>2. s \in Tabs \cup {Nowhere}
  BY DEF GridInv, GridFits, ServerFits
<1>3. /\ q \in GridRequests /\ q.op = "load" /\ q.sheet = s /\ q.first = TRUE
      /\ q.at = Pending /\ q.list = {}
  BY <1>2, LoadFits
<1> HIDE DEF q
<1>4. w \in Seq(GridRequests) /\ \A j \in DOMAIN w : \E m \in DOMAIN asked : w[j] = asked[m]
  BY DEF WasAsked
<1>5. /\ DOMAIN asked' = 1 .. Len(w) + 1 /\ DOMAIN w = 1 .. Len(w) /\ Len(w) \in Nat
      /\ asked'[Len(w) + 1] = q /\ asked' \in Seq(GridRequests)
      /\ \A m \in DOMAIN w : asked'[m] = w[m]
  BY <1>1, <1>3, <1>4
<1>6. \A j \in DOMAIN asked' : asked'[j] = q \/ j \in DOMAIN w
  BY <1>5
<1>7. RequestKnown(q)
  BY <1>3 DEF RequestKnown, RowOps
<1>8. \A p : SameRequest(p, p)
  BY DEF SameRequest
<1>9. NoneAnswered
  BY <1>3, <1>4, <1>5, <1>6, <1>7, <1>8 DEF NoneAnswered, Pending
<1>10. AskedFits'
  BY <1>5 DEF AskedFits
<1>11. ServerFits'
  <2> <<>> \in Seq(GridEvents)
    OBVIOUS
  <2>1. online' \in BOOLEAN /\ feed' \in Seq(GridEvents)
    BY <1>1, Zenon
  <2> QED BY <1>1, <2>1 DEF GridInv, GridFits, ServerFits
<1>12. PageFits'
  <2> <<>> \in Seq(GridEdits)
    OBVIOUS
  <2>1. undo' \in Seq(GridEdits) /\ redo' \in Seq(GridEdits) /\ loading' \in BOOLEAN
    BY <1>1, Zenon
  <2> QED BY <1>1, <2>1 DEF GridInv, GridFits, PageFits
<1>13. RequestsKnown' /\ FeedOrdered' /\ AnswersKnown' /\ FeedIsTrue' /\ RepliesAreTrue'
  BY <1>1, <1>9, <1>10, SoundWithoutStream DEF GridInv
<1>14. LoadingIsWaited'
  <2>1. PICK n \in DOMAIN asked' : n = Len(w) + 1
    BY <1>5
  <2> QED BY <1>3, <1>5, <2>1 DEF LoadingIsWaited, FirstAsked
<1> QED BY <1>1, <1>10, <1>11, <1>12, <1>13, <1>14, OfflineFollows DEF GridInv, GridFits, GridIsSound

(* The sheet shown already is shown again: the grid waits for no rows.     *)
LEMMA ShowingSameKeepsGrid ==
  ASSUME GridInv, NEW i \in DOMAIN asked, ShowSheet(active, AnswersWithout(i)),
         rows' \in GridRows, UNCHANGED server
  PROVE  GridInv'
<1>1. /\ active' = active /\ loading' = TRUE /\ undo' = <<>> /\ redo' = <<>>
      /\ asked' = AnswersWithout(i) /\ strange' = strange \cup {"jumped"}
      /\ UNCHANGED <<tabs, made, store, clock, feed, online, heard, editing>>
  BY DEF ShowSheet, server
<1>2. AskedFits' /\ ShorterBy(i)
  BY <1>1, RemovedOne DEF GridInv, GridFits
<1>3. NoneAnswered
  BY <1>2, NoneAnsweredWhen DEF GridInv, GridFits
<1>4. RequestsKnown' /\ FeedOrdered' /\ AnswersKnown' /\ FeedIsTrue' /\ RepliesAreTrue'
  BY <1>1, <1>2, <1>3, SoundKept DEF GridInv
<1>5. LoadingIsWaited' /\ ~(strange = {})'
  BY <1>1 DEF LoadingIsWaited
<1>6. PageFits'
  <2> <<>> \in Seq(GridEdits)
    OBVIOUS
  <2>1. undo' \in Seq(GridEdits) /\ redo' \in Seq(GridEdits) /\ loading' \in BOOLEAN
    BY <1>1, Zenon
  <2> QED BY <1>1, <2>1 DEF GridInv, GridFits, PageFits
<1>7. ServerFits'
  BY <1>1 DEF GridInv, GridFits, ServerFits
<1> QED BY <1>2, <1>4, <1>5, <1>6, <1>7 DEF GridInv, GridFits, GridIsSound

LEMMA SwitchKeepsGrid ==
  ASSUME GridInv, switchSheet
  PROVE  GridInv'
<1>1. PICK s \in tabs \ {active} : ShowSheet(s, asked)
  BY DEF switchSheet
<1>2. s \in made \cup {Nowhere} /\ s # active
  BY DEF GridInv, GridFits, ServerFits
<1>3. rows' \in GridRows /\ UNCHANGED server
  BY BlankFits DEF switchSheet, Acting
<1>4. WasAsked(asked)
  BY DEF WasAsked, GridInv, GridFits, AskedFits
<1> QED BY <1>1, <1>2, <1>3, <1>4, ShowingOtherKeepsGrid

-----------------------------------------------------------------------------
(* The server: a change is told at the end of the feed of an open stream.  *)
EventOf(s, k, v) == [sheet |-> s, key |-> k, value |-> v, no |-> clock + 1]

LEMMA FeedGrows ==
  ASSUME ServerFits, FeedOrdered, NEW s, NEW k, NEW v, Told1(s, k, v)
  PROVE  /\ \A j \in DOMAIN feed : j \in DOMAIN feed' /\ feed'[j] = feed[j]
         /\ \A j \in DOMAIN feed' : \/ j \in DOMAIN feed
                                    \/ online /\ feed'[j] = EventOf(s, k, v)
         /\ online => \E j \in DOMAIN feed' :
                        feed'[j] = EventOf(s, k, v) /\ \A l \in DOMAIN feed : l < j
         /\ DOMAIN feed \subseteq Int /\ DOMAIN feed' \subseteq Int
         /\ \A j \in DOMAIN feed : feed[j].no \in Int /\ feed[j].no <= clock
<1>1. feed \in Seq(GridEvents) /\ clock \in Nat
  BY DEF ServerFits
<1>2. \A j \in DOMAIN feed : feed[j] \in GridEvents
  BY <1>1, ElementOfSeq
<1>3. \A j \in DOMAIN feed : feed[j].no \in Int /\ feed[j].no <= clock
  BY <1>2 DEF GridEvents, FeedOrdered
<1>4. CASE online
  <2>1. feed' = Append(feed, EventOf(s, k, v))
    BY <1>4 DEF Told1, EventOf
  <2> DEFINE e == EventOf(s, k, v)
  <2> HIDE DEF e
  <2>2. feed' = Append(feed, e)
    BY <2>1 DEF e
  <2>3. /\ DOMAIN feed = 1 .. Len(feed) /\ DOMAIN feed' = 1 .. Len(feed) + 1 /\ Len(feed) \in Nat
        /\ feed'[Len(feed) + 1] = e /\ \A j \in 1 .. Len(feed) : feed'[j] = feed[j]
    BY <1>1, <2>2
  <2>4. \A j \in DOMAIN feed' : j \in DOMAIN feed \/ feed'[j] = e
    BY <2>3
  <2>5. PICK n \in DOMAIN feed' : n = Len(feed) + 1
    BY <2>3
  <2>6. feed'[n] = e /\ \A l \in DOMAIN feed : l < n
    BY <2>3, <2>5
  <2> QED BY <1>3, <1>4, <2>3, <2>4, <2>6 DEF e
<1>5. CASE ~online
  BY <1>1, <1>3, <1>5 DEF Told1
<1> QED BY <1>4, <1>5

LEMMA EventIs ==
  ASSUME NEW s, NEW k, NEW v
  PROVE  /\ EventOf(s, k, v).sheet = s /\ EventOf(s, k, v).key = k
         /\ EventOf(s, k, v).value = v /\ EventOf(s, k, v).no = clock + 1
BY DEF EventOf

LEMMA TellingKeepsOrder ==
  ASSUME ServerFits, FeedOrdered, NEW s, NEW k, NEW v, Told1(s, k, v), UNCHANGED online
  PROVE  FeedOrdered'
<1>1. /\ \A j \in DOMAIN feed : j \in DOMAIN feed' /\ feed'[j] = feed[j]
      /\ \A j \in DOMAIN feed' : \/ j \in DOMAIN feed
                                 \/ online /\ feed'[j] = EventOf(s, k, v)
      /\ DOMAIN feed \subseteq Int /\ DOMAIN feed' \subseteq Int
      /\ \A j \in DOMAIN feed : feed[j].no \in Int /\ feed[j].no <= clock
  BY FeedGrows
<1>2. clock \in Nat /\ clock' = clock + 1 /\ EventOf(s, k, v).no = clock + 1
  BY EventIs DEF ServerFits, Told1
<1>3. ~online => feed' = <<>>
  BY DEF Told1, FeedOrdered
<1>4. \A i \in DOMAIN feed' : feed'[i].no <= clock'
  BY <1>1, <1>2
<1>5. ASSUME NEW i \in DOMAIN feed', NEW j \in DOMAIN feed', i < j
      PROVE  feed'[i].no < feed'[j].no
  <2>1. CASE i \in DOMAIN feed /\ j \in DOMAIN feed
    BY <1>1, <1>5, <2>1 DEF FeedOrdered
  <2>2. CASE i \in DOMAIN feed /\ j \notin DOMAIN feed
    BY <1>1, <1>2, <2>2
  <2>3. CASE i \notin DOMAIN feed
    <3>1. feed \in Seq(GridEvents) /\ feed' = Append(feed, EventOf(s, k, v))
      BY <1>1, <2>3 DEF ServerFits, Told1, EventOf
    <3>2. DOMAIN feed = 1 .. Len(feed) /\ DOMAIN feed' = 1 .. Len(feed) + 1 /\ Len(feed) \in Nat
      <4> DEFINE e == EventOf(s, k, v)
      <4> HIDE DEF e
      <4>1. feed' = Append(feed, e)
        BY <3>1 DEF e
      <4> QED BY <3>1, <4>1
    <3> QED BY <1>5, <2>3, <3>2
  <2> QED BY <2>1, <2>2, <2>3
<1> QED BY <1>3, <1>4, <1>5 DEF FeedOrdered

(* A change of the store is written for request j, which is answered.      *)
WrittenFor(j, s, k) ==
  /\ asked[j].at = Pending /\ asked[j].op \in RowOps \cup {"patch"} /\ AnsweredBy(j, s)
  /\ asked[j].op = "patch" => (asked[j].sheet = s /\ asked[j].key = k)
StoreWrites(s, k, v) ==
  /\ WriteCells(s, k, v) /\ UNCHANGED <<online, page>>
  /\ DOMAIN asked' = DOMAIN asked
  /\ \A j \in DOMAIN asked : asked'[j] = asked[j] \/ WrittenFor(j, s, k)

(* What a write does to the rows of a sheet the grid shows.                *)
LEMMA WriteIsTold ==
  ASSUME GridFits, FeedOrdered, NEW s, NEW k \in GridKeys, NEW v \in CellValues \cup {Gone},
         WriteCells(s, k, v), UNCHANGED <<online, active>>, active \in tabs, NEW x \in RowKeys,
         online
  PROVE  \/ store'[active][x] = store[active][x] /\ ~(s = active /\ k \in {x, AllRows})
         \/ /\ s = active /\ k \in {x, AllRows}
            /\ \E j \in DOMAIN feed' : EventFor(feed[j], x)' /\ feed'[j].no = clock + 1
<1>1. /\ s \in tabs /\ Told1(s, k, v)
      /\ \A y \in Tabs : y # s => store'[y] = store[y]
      /\ \A y \in RowKeys : k \notin {y, AllRows} => store'[s][y] = store[s][y]
  BY WritingFits DEF GridFits
<1>2. active \in Tabs
  BY DEF GridFits, ServerFits
<1>3. CASE s = active /\ k \in {x, AllRows}
  <2>1. PICK j \in DOMAIN feed' : feed'[j] = EventOf(s, k, v)
    BY <1>1, FeedGrows DEF GridFits
  <2> QED BY <1>3, <2>1, EventIs DEF EventFor
<1>4. CASE ~(s = active /\ k \in {x, AllRows})
  BY <1>1, <1>2, <1>4
<1> QED BY <1>3, <1>4

LEMMA WritingKeepsSound ==
  ASSUME GridFits, GridIsSound, NEW s, NEW k \in GridKeys, NEW v \in CellValues \cup {Gone},
         StoreWrites(s, k, v), AskedFits'
  PROVE  GridIsSound'
<1>1. /\ ServerFits' /\ s \in tabs /\ Told1(s, k, v) /\ tabs' = tabs /\ made' = made
      /\ \A x \in Tabs : x # s => store'[x] = store[x]
      /\ \A x \in RowKeys : k \notin {x, AllRows} => store'[s][x] = store[s][x]
      /\ \A x \in RowKeys : k \in {x, AllRows} => store'[s][x] = v
  BY WritingFits DEF StoreWrites, GridFits
<1>2. /\ DOMAIN asked' = DOMAIN asked
      /\ \A j \in DOMAIN asked : asked'[j] = asked[j] \/ WrittenFor(j, s, k)
      /\ online' = online /\ active' = active /\ loading' = loading /\ strange' = strange
  BY DEF StoreWrites, page
<1>3. clock \in Nat /\ clock' = clock + 1 /\ tabs \subseteq made /\ made \subseteq Tabs
  BY <1>1 DEF GridFits, ServerFits, Told1
<1>4. \A j \in DOMAIN asked : asked[j].at \in Int /\ asked[j].at <= clock
  BY AskedIsRequest DEF GridFits, GridIsSound, AnswersKnown, AnswerKnown
<1>5. FeedOrdered'
  BY <1>1, <1>2, TellingKeepsOrder DEF GridFits, GridIsSound
<1>6. RequestsKnown'
  BY <1>1, <1>2, <1>3 DEF GridIsSound, RequestsKnown, RequestKnown, WrittenFor, AnsweredBy,
                          SameAsked, RowOps
<1>7. AnswersKnown'
  <2> SUFFICES ASSUME NEW j \in DOMAIN asked PROVE AnswerKnown(asked[j])'
    BY <1>2 DEF AnswersKnown
  <2>1. CASE asked'[j] = asked[j]
    BY <1>3, <1>4, <2>1 DEF AnswerKnown
  <2>2. CASE WrittenFor(j, s, k)
    BY <1>1, <1>3, <2>2 DEF AnswerKnown, HasRows, WrittenFor, AnsweredBy, SameAsked, RowOps
  <2> QED BY <1>2, <2>1, <2>2
<1>8. LoadingIsWaited'
  BY <1>2 DEF GridIsSound, LoadingIsWaited, FirstAsked, WrittenFor, AnsweredBy, SameAsked
<1>9. FeedIsTrue'
  <2> SUFFICES ASSUME active \in tabs, NEW j \in DOMAIN feed', NEW x \in RowKeys, LastFor(j, x)'
               PROVE  feed'[j].value = store'[active][x]
    BY <1>1, <1>2 DEF FeedIsTrue
  <2>1. /\ \A l \in DOMAIN feed : l \in DOMAIN feed' /\ feed'[l] = feed[l]
        /\ \/ j \in DOMAIN feed
           \/ online /\ feed'[j] = EventOf(s, k, v)
    BY <1>1, FeedGrows DEF GridFits, GridIsSound
  <2>2. CASE j \notin DOMAIN feed
    BY <1>1, <1>2, <2>1, <2>2, EventIs DEF LastFor
  <2>3. CASE j \in DOMAIN feed
    <3>1. LastFor(j, x)
      BY <1>2, <2>1, <2>3 DEF LastFor, EventFor
    <3>2. feed[j].value = store[active][x]
      BY <2>3, <3>1 DEF GridIsSound, FeedIsTrue
    <3>3. online
      BY <2>3 DEF GridIsSound, FeedOrdered
    <3>4. PICK l \in DOMAIN feed' : feed'[l] = EventOf(s, k, v) /\ j < l
      BY <1>1, <2>3, <3>3, FeedGrows DEF GridFits, GridIsSound
    <3>5. ~EventFor(feed[l], x)'
      BY <3>4, <1>1, FeedGrows DEF LastFor, GridFits, GridIsSound
    <3>6. ~(s = active /\ k \in {x, AllRows})
      BY <1>2, <3>4, <3>5, EventIs DEF EventFor
    <3>7. active \in Tabs
      BY <1>3
    <3>8. store'[active][x] = store[active][x]
      BY <1>1, <3>6, <3>7
    <3> QED BY <2>1, <2>3, <3>2, <3>8
  <2> QED BY <2>2, <2>3
<1>10. RepliesAreTrue'
  <2> SUFFICES ASSUME active \in tabs, NEW j \in DOMAIN asked, NEW x \in RowKeys,
                      ShowsRows(asked[j])', OlderComes(asked[j])'
               PROVE  RowIsComing(asked[j], x)'
    BY <1>1, <1>2 DEF RepliesAreTrue
  <2>1. CASE WrittenFor(j, s, k)
    BY <1>2, <2>1 DEF ShowsRows, HasRows, WrittenFor, AnsweredBy, SameAsked, RowIsComing, RowOps
  <2>2. CASE asked'[j] = asked[j]
    <3>1. /\ \A l \in DOMAIN feed : l \in DOMAIN feed' /\ feed'[l] = feed[l]
          /\ \A l \in DOMAIN feed' : \/ l \in DOMAIN feed
                                     \/ online /\ feed'[l] = EventOf(s, k, v)
      BY <1>1, FeedGrows DEF GridFits, GridIsSound
    <3>2. PICK l \in DOMAIN feed' : feed'[l].no <= asked[j].at
      BY <2>2 DEF OlderComes
    <3>3. l \in DOMAIN feed /\ feed[l].no <= asked[j].at
      BY <1>3, <1>4, <3>1, <3>2, EventIs
    <3>4. ShowsRows(asked[j]) /\ OlderComes(asked[j])
      BY <1>2, <2>2, <3>3 DEF ShowsRows, HasRows, OlderComes
    <3>5. RowIsComing(asked[j], x)
      BY <3>4 DEF GridIsSound, RepliesAreTrue
    <3>6. online
      BY <3>3 DEF GridIsSound, FeedOrdered
    <3>7. CASE \E m \in DOMAIN feed : EventFor(feed[m], x) /\ feed[m].no > asked[j].at
      BY <1>2, <2>2, <3>1, <3>7 DEF RowIsComing, EventFor
    <3>8. CASE asked[j].got[x] = store[active][x]
      <4>1. \/ store'[active][x] = store[active][x]
            \/ \E m \in DOMAIN feed' : EventFor(feed[m], x)' /\ feed'[m].no = clock + 1
        BY <1>2, <3>6, WriteIsTold DEF StoreWrites, GridIsSound
      <4>2. clock + 1 > asked[j].at
        BY <1>3, <1>4
      <4> QED BY <1>2, <2>2, <3>8, <4>1, <4>2 DEF RowIsComing
    <3> QED BY <3>5, <3>7, <3>8 DEF RowIsComing
  <2> QED BY <1>2, <2>1, <2>2
<1> QED BY <1>5, <1>6, <1>7, <1>8, <1>9, <1>10 DEF GridIsSound

LEMMA WritingKeepsFollowing ==
  ASSUME GridFits, GridIsSound, GridFollows, NEW s, NEW k \in GridKeys,
         NEW v \in CellValues \cup {Gone}, StoreWrites(s, k, v), AskedFits'
  PROVE  GridFollows'
<1>1. /\ s \in tabs /\ Told1(s, k, v) /\ tabs' = tabs
  BY WritingFits DEF StoreWrites, GridFits
<1>2. /\ DOMAIN asked' = DOMAIN asked
      /\ \A j \in DOMAIN asked : asked'[j] = asked[j] \/ WrittenFor(j, s, k)
      /\ online' = online /\ active' = active /\ rows' = rows /\ heard' = heard
  BY DEF StoreWrites, page
<1>3. CASE ~online
  BY <1>2, <1>3, OfflineFollows
<1>4. CASE online
  <2>1. /\ \A l \in DOMAIN feed : l \in DOMAIN feed' /\ feed'[l] = feed[l]
        /\ \A j \in DOMAIN feed : feed[j].no \in Int /\ feed[j].no <= clock
    BY <1>1, FeedGrows DEF GridFits, GridIsSound
  <2>2. clock \in Nat /\ \A j \in DOMAIN asked : asked[j].at \in Int /\ asked[j].at <= clock
    BY AskedIsRequest DEF GridFits, ServerFits, GridIsSound, AnswersKnown, AnswerKnown
  <2>3. ASSUME active \in tabs, NEW x \in RowKeys
        PROVE  \/ store'[active][x] = store[active][x] /\ ~(s = active /\ k \in {x, AllRows})
               \/ \E j \in DOMAIN feed' : EventFor(feed[j], x)' /\ feed'[j].no = clock + 1
    BY <1>2, <1>4, <2>3, WriteIsTold DEF StoreWrites, GridIsSound
  <2>4. ASSUME NEW j \in DOMAIN asked, asked[j].op \notin RowOps \cup {"patch"}
        PROVE  asked'[j] = asked[j]
    BY <1>2, <2>4 DEF WrittenFor
  <2>5. ASSUME NEW x, NEW n, LoadTells(x, n), store'[active][x] = store[active][x]
        PROVE  LoadTells(x, n)'
    <3>1. PICK j \in DOMAIN asked : Tells(asked[j], x, n)
      BY <2>5 DEF LoadTells
    <3>2. asked[j].op = "load" /\ "load" \notin RowOps \cup {"patch"}
      BY <3>1 DEF Tells, Reload, RowOps
    <3>3. asked'[j] = asked[j]
      BY <2>4, <3>2
    <3> QED BY <1>2, <2>5, <3>1, <3>3 DEF LoadTells, Tells, Reload
  <2>6. RepliesAreOvertaken'
    <3> SUFFICES ASSUME active \in tabs, NEW j \in DOMAIN asked, NEW x \in RowKeys,
                        ShowsRows(asked[j])'
                 PROVE  Overtaken(asked[j], x)'
      BY <1>1, <1>2 DEF RepliesAreOvertaken
    <3>1. CASE WrittenFor(j, s, k)
      BY <1>2, <3>1 DEF ShowsRows, HasRows, WrittenFor, AnsweredBy, SameAsked, RowIsComing,
                        RowOps, Overtaken
    <3>2. CASE asked'[j] = asked[j]
      <4>1. Overtaken(asked[j], x)
        BY <1>2, <3>2 DEF GridFollows, RepliesAreOvertaken, ShowsRows, HasRows
      <4>2. CASE \E m \in DOMAIN feed' : EventFor(feed[m], x)' /\ feed'[m].no = clock + 1
        BY <2>2, <3>2, <4>2 DEF Overtaken, RowIsComing
      <4>3. CASE store'[active][x] = store[active][x]
        <5>1. LoadTells(x, asked[j].at) => LoadTells(x, asked[j].at)'
          <6>1. PICK n : n = asked[j].at
            OBVIOUS
          <6>2. LoadTells(x, n) => LoadTells(x, n)'
            BY <2>5, <4>3
          <6> QED BY <3>2, <6>1, <6>2 DEF LoadTells, Tells, Reload
        <5>2. OlderComes(asked[j]) => OlderComes(asked[j])'
          BY <2>1, <3>2 DEF OlderComes
        <5>3. RowIsComing(asked[j], x) => RowIsComing(asked[j], x)'
          BY <1>2, <2>1, <3>2, <4>3 DEF RowIsComing, EventFor
        <5> QED BY <1>2, <3>2, <4>1, <5>1, <5>2, <5>3 DEF Overtaken
      <4> QED BY <2>3, <4>2, <4>3
    <3> QED BY <1>2, <3>1, <3>2
  <2>7. RowsFollow'
    <3> SUFFICES ASSUME active \in tabs, NEW x \in RowKeys PROVE RowFollows(x)'
      BY <1>1, <1>2 DEF RowsFollow
    <3>1. RowFollows(x)
      BY DEF GridFollows, RowsFollow
    <3>2. CASE \E m \in DOMAIN feed' : EventFor(feed[m], x)' /\ feed'[m].no = clock + 1
      BY <3>2 DEF RowFollows, EventComes
    <3>3. CASE store'[active][x] = store[active][x] /\ ~(s = active /\ k \in {x, AllRows})
      <4>1. \A j \in DOMAIN asked : Unresolved(asked[j], x) => asked'[j] = asked[j]
        BY <1>2, <3>3 DEF Unresolved, WrittenFor
      <4>2. \A j \in DOMAIN asked : Unresolved(asked[j], x)' => asked'[j] = asked[j]
        <5>1. \A j \in DOMAIN asked : WrittenFor(j, s, k) => asked'[j].at = clock + 1
          BY <1>1 DEF WrittenFor, AnsweredBy, Told1
        <5> QED BY <1>2, <2>2, <5>1 DEF Unresolved
      <4>3. EditsTo(x)' = EditsTo(x)
        BY <1>2, <3>3, <4>1, <4>2 DEF EditsTo, Unresolved
      <4>4. EditsFrom(x)' = EditsFrom(x)
        BY <1>2, <3>3, <4>1, <4>2 DEF EditsFrom, Unresolved
      <4>5. Balanced(x) => Balanced(x)'
        BY <1>2, <3>3, <4>3, <4>4 DEF Balanced, Off
      <4>6. EditIsLate(x) => EditIsLate(x)'
        BY <1>2, <4>1 DEF EditIsLate, Unresolved
      <4>7. EventComes(x) => EventComes(x)'
        BY <1>2, <2>1 DEF EventComes, EventFor
      <4>8. LoadTells(x, -1) => LoadTells(x, -1)'
        BY <2>5, <3>3
      <4> QED BY <1>2, <3>1, <4>5, <4>6, <4>7, <4>8 DEF RowFollows
    <3> QED BY <2>3, <3>2, <3>3
  <2>8. OrphansAreTold'
    <3> SUFFICES ASSUME active \notin tabs, tabs # {} PROVE OrphanIsTold'
      BY <1>1, <1>2 DEF OrphansAreTold
    <3>1. \A j \in DOMAIN asked : Reload(asked[j]) \/ ListTells(asked[j]) => asked'[j] = asked[j]
      BY <2>4 DEF Reload, ListTells, RowOps
    <3> QED BY <1>2, <2>1, <3>1 DEF GridFollows, OrphansAreTold, OrphanIsTold, Reload, ListTells
  <2> QED BY <2>6, <2>7, <2>8 DEF GridFollows
<1> QED BY <1>3, <1>4

LEMMA PageStaysFit ==
  ASSUME GridFits, UNCHANGED page, made \subseteq made'
  PROVE  PageFits'
BY DEF GridFits, PageFits, page

LEMMA WritingKeepsGrid ==
  ASSUME GridInv, NEW s, NEW k \in GridKeys, NEW v \in CellValues \cup {Gone},
         StoreWrites(s, k, v), AskedFits'
  PROVE  GridInv'
<1>1. ServerFits' /\ made' = made
  BY WritingFits DEF StoreWrites, GridInv, GridFits
<1>2. PageFits'
  BY <1>1, PageStaysFit DEF GridInv, StoreWrites
<1>3. GridIsSound'
  BY WritingKeepsSound DEF GridInv
<1>4. strange' = strange
  BY DEF StoreWrites, page
<1>5. (strange = {})' => GridFollows'
  BY <1>4, WritingKeepsFollowing DEF GridInv
<1> QED BY <1>1, <1>2, <1>3, <1>5 DEF GridInv, GridFits

(* A sheet is created or deleted, for a request or for another user.       *)
ListedFor(j, s) ==
  asked[j].at = Pending /\ asked[j].op \in {"create", "delete"} /\ AnsweredBy(j, s)
Lists(s) ==
  /\ List(s) /\ UNCHANGED <<online, page>>
  /\ DOMAIN asked' = DOMAIN asked
  /\ \A j \in DOMAIN asked : asked'[j] = asked[j] \/ ListedFor(j, s)

(* The sheet shown is not made anew, so a list of sheets tells nothing of  *)
(* its rows.                                                               *)
LEMMA ListingIsTold ==
  ASSUME GridFits, GridIsSound, NEW s \in Tabs, Lists(s)
  PROVE  /\ active' = active /\ store' = store /\ (active \in tabs' => active \in tabs)
         /\ \A l \in DOMAIN feed : l \in DOMAIN feed' /\ feed'[l] = feed[l]
         /\ \A l \in DOMAIN feed' : l \in DOMAIN feed \/ feed'[l].key = SheetList
         /\ \A l \in DOMAIN feed' : l \in DOMAIN feed \/ feed'[l].no = clock + 1
         /\ online => \E l \in DOMAIN feed' : feed'[l].key = SheetList
         /\ \A l \in DOMAIN feed', x \in RowKeys : EventFor(feed[l], x)' => l \in DOMAIN feed
<1>1. /\ Told1(s, SheetList, Gone) /\ store' = store
      /\ \/ s \in tabs /\ tabs' = tabs \ {s}
         \/ s \notin made /\ tabs' = tabs \cup {s}
  BY ListingFits DEF Lists, GridFits
<1>2. active' = active
  BY DEF Lists, page
<1>3. active \in tabs' => active \in tabs
  BY <1>1, GridAssumption DEF GridFits, PageFits
<1>4. /\ \A l \in DOMAIN feed : l \in DOMAIN feed' /\ feed'[l] = feed[l]
      /\ \A l \in DOMAIN feed' : l \in DOMAIN feed \/ feed'[l] = EventOf(s, SheetList, Gone)
      /\ online => \E l \in DOMAIN feed' : feed'[l] = EventOf(s, SheetList, Gone)
  BY <1>1, FeedGrows DEF GridFits, GridIsSound
<1>5. EventOf(s, SheetList, Gone).key = SheetList /\ EventOf(s, SheetList, Gone).no = clock + 1
  BY EventIs
<1>6. SheetList # AllRows /\ SheetList \notin RowKeys
  BY GridAssumption DEF SheetList, AllRows
<1>7. \A l \in DOMAIN feed' : l \in DOMAIN feed \/ feed'[l].key = SheetList
  BY <1>4, <1>5
<1>8. \A l \in DOMAIN feed', x \in RowKeys : EventFor(feed[l], x)' => l \in DOMAIN feed
  BY <1>6, <1>7 DEF EventFor
<1> QED BY <1>1, <1>2, <1>3, <1>4, <1>5, <1>7, <1>8

LEMMA ListingKeepsSound ==
  ASSUME GridFits, GridIsSound, NEW s \in Tabs, Lists(s), AskedFits'
  PROVE  GridIsSound'
<1>1. /\ ServerFits' /\ Told1(s, SheetList, Gone) /\ made' = made \cup {s}
  BY ListingFits DEF Lists, GridFits
<1>2. /\ active' = active /\ store' = store /\ (active \in tabs' => active \in tabs)
      /\ \A l \in DOMAIN feed : l \in DOMAIN feed' /\ feed'[l] = feed[l]
      /\ \A l \in DOMAIN feed' : l \in DOMAIN feed \/ feed'[l].no = clock + 1
      /\ \A l \in DOMAIN feed', x \in RowKeys : EventFor(feed[l], x)' => l \in DOMAIN feed
  BY ListingIsTold
<1>3. /\ DOMAIN asked' = DOMAIN asked
      /\ \A j \in DOMAIN asked : asked'[j] = asked[j] \/ ListedFor(j, s)
      /\ online' = online /\ loading' = loading /\ strange' = strange
  BY DEF Lists, page
<1>4. clock \in Nat /\ clock' = clock + 1 /\ tabs' \subseteq made'
  BY <1>1 DEF GridFits, ServerFits, Told1
<1>5. \A j \in DOMAIN asked : asked[j].at \in Int /\ asked[j].at <= clock
  BY AskedIsRequest DEF GridFits, GridIsSound, AnswersKnown, AnswerKnown
<1>6. FeedOrdered'
  BY <1>1, <1>3, TellingKeepsOrder DEF GridFits, GridIsSound
<1>7. RequestsKnown'
  BY <1>1, <1>3, <1>4 DEF GridIsSound, RequestsKnown, RequestKnown, ListedFor, AnsweredBy,
                          SameAsked, RowOps
<1>8. \A j \in DOMAIN asked : ListedFor(j, s) => ~HasRows(asked'[j]) /\ asked'[j].at = clock + 1
  BY <1>4 DEF ListedFor, AnsweredBy, SameAsked, HasRows, RowOps
<1>9. AnswersKnown'
  <2> SUFFICES ASSUME NEW j \in DOMAIN asked PROVE AnswerKnown(asked[j])'
    BY <1>3 DEF AnswersKnown
  <2>1. CASE asked'[j] = asked[j]
    BY <1>4, <1>5, <2>1 DEF AnswerKnown
  <2>2. CASE ListedFor(j, s)
    BY <1>4, <1>8, <2>2 DEF AnswerKnown, HasRows
  <2> QED BY <1>3, <2>1, <2>2
<1>10. LoadingIsWaited'
  BY <1>3 DEF GridIsSound, LoadingIsWaited, FirstAsked, ListedFor, AnsweredBy, SameAsked
<1>11. FeedIsTrue'
  <2> SUFFICES ASSUME active \in tabs, NEW j \in DOMAIN feed', NEW x \in RowKeys, LastFor(j, x)'
               PROVE  feed'[j].value = store[active][x]
    BY <1>2 DEF FeedIsTrue
  <2>1. j \in DOMAIN feed
    BY <1>2 DEF LastFor, EventFor
  <2>2. LastFor(j, x)
    BY <1>2, <2>1 DEF LastFor, EventFor
  <2> QED BY <1>2, <2>1, <2>2 DEF GridIsSound, FeedIsTrue
<1>12. RepliesAreTrue'
  <2> SUFFICES ASSUME active \in tabs, NEW j \in DOMAIN asked, NEW x \in RowKeys,
                      ShowsRows(asked[j])', OlderComes(asked[j])'
               PROVE  RowIsComing(asked[j], x)'
    BY <1>2, <1>3 DEF RepliesAreTrue
  <2>1. asked'[j] = asked[j]
    BY <1>3, <1>8 DEF ShowsRows, HasRows
  <2>2. ShowsRows(asked[j]) /\ OlderComes(asked[j])
    BY <1>2, <1>4, <1>5, <2>1 DEF ShowsRows, HasRows, OlderComes
  <2>3. RowIsComing(asked[j], x)
    BY <2>2 DEF GridIsSound, RepliesAreTrue
  <2> QED BY <1>2, <2>1, <2>3 DEF RowIsComing, EventFor
<1> QED BY <1>6, <1>7, <1>9, <1>10, <1>11, <1>12 DEF GridIsSound

LEMMA ListingKeepsFollowing ==
  ASSUME GridFits, GridIsSound, GridFollows, NEW s \in Tabs, Lists(s), AskedFits'
  PROVE  GridFollows'
<1>1. /\ active' = active /\ store' = store /\ (active \in tabs' => active \in tabs)
      /\ \A l \in DOMAIN feed : l \in DOMAIN feed' /\ feed'[l] = feed[l]
      /\ online => \E l \in DOMAIN feed' : feed'[l].key = SheetList
  BY ListingIsTold
<1>2. /\ DOMAIN asked' = DOMAIN asked
      /\ \A j \in DOMAIN asked : asked'[j] = asked[j] \/ ListedFor(j, s)
      /\ online' = online /\ rows' = rows /\ heard' = heard
  BY DEF Lists, page
<1>3. \A j \in DOMAIN asked : ListedFor(j, s) => /\ ~HasRows(asked'[j])
                                                 /\ asked'[j].op \in {"create", "delete"}
                                                 /\ asked[j].op \in {"create", "delete"}
  BY DEF ListedFor, AnsweredBy, SameAsked, HasRows, RowOps
<1>4. ASSUME NEW x, NEW n, LoadTells(x, n) PROVE LoadTells(x, n)'
  BY <1>1, <1>2, <1>3, <1>4 DEF LoadTells, Tells, Reload
<1>5. RepliesAreOvertaken'
  <2> SUFFICES ASSUME active \in tabs, NEW j \in DOMAIN asked, NEW x \in RowKeys,
                      ShowsRows(asked[j])'
               PROVE  Overtaken(asked[j], x)'
    BY <1>1, <1>2 DEF RepliesAreOvertaken
  <2>1. asked'[j] = asked[j]
    BY <1>2, <1>3 DEF ShowsRows
  <2>2. Overtaken(asked[j], x)
    BY <1>1, <2>1 DEF GridFollows, RepliesAreOvertaken, ShowsRows, HasRows
  <2>3. PICK n : n = asked[j].at
    OBVIOUS
  <2>4. LoadTells(x, n) => LoadTells(x, n)'
    BY <1>4
  <2>5. LoadTells(x, asked[j].at) => LoadTells(x, asked[j].at)'
    BY <2>1, <2>3, <2>4 DEF LoadTells, Tells, Reload
  <2>6. OlderComes(asked[j]) => OlderComes(asked[j])'
    BY <1>1, <2>1 DEF OlderComes
  <2>7. RowIsComing(asked[j], x) => RowIsComing(asked[j], x)'
    BY <1>1, <2>1 DEF RowIsComing, EventFor
  <2> QED BY <1>2, <2>1, <2>2, <2>5, <2>6, <2>7 DEF Overtaken
<1>6. RowsFollow'
  <2> SUFFICES ASSUME active \in tabs, NEW x \in RowKeys PROVE RowFollows(x)'
    BY <1>1 DEF RowsFollow
  <2>1. RowFollows(x)
    BY DEF GridFollows, RowsFollow
  <2>2. \A j \in DOMAIN asked : Unresolved(asked[j], x) => asked'[j] = asked[j]
    BY <1>2, <1>3 DEF Unresolved
  <2>3. \A j \in DOMAIN asked : Unresolved(asked[j], x)' => asked'[j] = asked[j]
    BY <1>2, <1>3 DEF Unresolved
  <2>4. EditsTo(x)' = EditsTo(x)
    BY <1>1, <1>2, <2>2, <2>3 DEF EditsTo, Unresolved
  <2>5. EditsFrom(x)' = EditsFrom(x)
    BY <1>1, <1>2, <2>2, <2>3 DEF EditsFrom, Unresolved
  <2>6. Balanced(x) => Balanced(x)'
    BY <1>1, <1>2, <2>4, <2>5 DEF Balanced, Off
  <2>7. EditIsLate(x) => EditIsLate(x)'
    BY <1>1, <1>2, <2>2 DEF EditIsLate, Unresolved
  <2>8. EventComes(x) => EventComes(x)'
    BY <1>1 DEF EventComes, EventFor
  <2>9. LoadTells(x, -1) => LoadTells(x, -1)'
    BY <1>4
  <2> QED BY <1>2, <2>1, <2>6, <2>7, <2>8, <2>9 DEF RowFollows
<1>7. OrphansAreTold'
  BY <1>1, <1>2 DEF OrphansAreTold, OrphanIsTold
<1> QED BY <1>5, <1>6, <1>7 DEF GridFollows

LEMMA ListingKeepsGrid ==
  ASSUME GridInv, NEW s \in Tabs, Lists(s), AskedFits'
  PROVE  GridInv'
<1>1. ServerFits' /\ made \subseteq made'
  BY ListingFits DEF Lists, GridInv, GridFits
<1>2. PageFits'
  BY <1>1, PageStaysFit DEF GridInv, Lists
<1>3. GridIsSound'
  BY ListingKeepsSound DEF GridInv
<1>4. strange' = strange
  BY DEF Lists, page
<1>5. (strange = {})' => GridFollows'
  BY <1>4, ListingKeepsFollowing DEF GridInv
<1> QED BY <1>1, <1>2, <1>3, <1>5 DEF GridInv, GridFits

-----------------------------------------------------------------------------
(* The server reads for a request, or refuses it: nothing else changes.    *)
Serves(i) ==
  /\ asked[i].at = Pending
  /\ UNCHANGED <<tabs, made, store, clock, feed, online, heard, active, rows, loading, error, last,
                 editing, undo, redo, strange>>
  /\ OthersKept(i) /\ SameAsked(asked'[i], asked[i]) /\ asked'[i].sheet = asked[i].sheet
Reads(i) ==
  /\ Serves(i) /\ asked'[i].at = clock
  /\ \/ asked[i].op = "list" /\ asked'[i].list = tabs
     \/ /\ asked[i].op = "load" /\ asked[i].sheet \in tabs /\ asked'[i].list = asked[i].list
        /\ asked'[i].got = store[asked[i].sheet]
Refuses(i) ==
  /\ Serves(i) /\ asked'[i].at = Refused /\ asked'[i].list = asked[i].list
  /\ asked[i].op # "list" /\ (asked[i].op = "load" => asked[i].sheet \notin tabs)

LEMMA ServingKeepsSound ==
  ASSUME GridFits, GridIsSound, NEW i \in DOMAIN asked, Reads(i) \/ Refuses(i), AskedFits'
  PROVE  GridIsSound'
<1>1. /\ UNCHANGED <<tabs, made, store, clock, feed, online, active, loading, strange>>
      /\ DOMAIN asked' = DOMAIN asked /\ \A j \in DOMAIN asked : j # i => asked'[j] = asked[j]
      /\ SameAsked(asked'[i], asked[i]) /\ asked'[i].sheet = asked[i].sheet
  BY DEF Reads, Refuses, Serves, OthersKept
<1>2. clock \in Nat /\ tabs \subseteq made
  BY DEF GridFits, ServerFits
<1>3. FeedOrdered' /\ FeedIsTrue'
  BY <1>1 DEF GridIsSound, FeedOrdered, FeedIsTrue, LastFor, EventFor
<1>4. LoadingIsWaited'
  BY <1>1 DEF GridIsSound, LoadingIsWaited, FirstAsked, SameAsked
<1>5. RequestKnown(asked[i])'
  BY <1>1, <1>2 DEF GridIsSound, RequestsKnown, RequestKnown, SameAsked, Reads, Refuses
<1>6. RequestsKnown'
  BY <1>1, <1>5 DEF GridIsSound, RequestsKnown, RequestKnown
<1>7. AnswerKnown(asked[i])'
  <2>1. CASE Reads(i)
    BY <1>1, <1>2, <2>1 DEF Reads, AnswerKnown, HasRows, SameAsked, RowOps
  <2>2. CASE Refuses(i)
    BY <1>1, <1>2, <2>2 DEF Refuses, AnswerKnown, HasRows, Refused
  <2> QED BY <2>1, <2>2
<1>8. AnswersKnown'
  BY <1>1, <1>7 DEF GridIsSound, AnswersKnown, AnswerKnown, HasRows
<1>9. RepliesAreTrue'
  <2> SUFFICES ASSUME active \in tabs, NEW j \in DOMAIN asked, NEW x \in RowKeys,
                      ShowsRows(asked[j])', OlderComes(asked[j])'
               PROVE  RowIsComing(asked[j], x)'
    BY <1>1 DEF RepliesAreTrue
  <2>1. CASE j # i
    <3>1. asked'[j] = asked[j]
      BY <1>1, <2>1
    <3>2. RowIsComing(asked[j], x)
      BY <1>1, <3>1 DEF GridIsSound, RepliesAreTrue, ShowsRows, HasRows, OlderComes
    <3> QED BY <1>1, <3>1, <3>2 DEF RowIsComing, EventFor
  <2>2. CASE j = i
    BY <1>1, <2>2 DEF ShowsRows, HasRows, Reads, Refuses, Refused, RowIsComing, SameAsked, RowOps
  <2> QED BY <2>1, <2>2
<1> QED BY <1>3, <1>4, <1>6, <1>8, <1>9 DEF GridIsSound

LEMMA ServingKeepsFollowing ==
  ASSUME GridFits, GridIsSound, GridFollows, NEW i \in DOMAIN asked, Reads(i) \/ Refuses(i),
         AskedFits'
  PROVE  GridFollows'
<1>1. /\ UNCHANGED <<tabs, made, store, clock, feed, online, heard, active, rows>>
      /\ DOMAIN asked' = DOMAIN asked /\ \A j \in DOMAIN asked : j # i => asked'[j] = asked[j]
      /\ SameAsked(asked'[i], asked[i]) /\ asked'[i].sheet = asked[i].sheet
      /\ asked[i].at = Pending
  BY DEF Reads, Refuses, Serves, OthersKept
<1>2. clock \in Nat /\ \A j \in DOMAIN asked : asked[j].at \in Int /\ asked[j].at <= clock
  BY AskedIsRequest DEF GridFits, ServerFits, GridIsSound, AnswersKnown, AnswerKnown
<1>3. ASSUME active \in tabs, NEW x, NEW n \in Int, n < clock, LoadTells(x, n)
      PROVE  LoadTells(x, n)'
    <3>1. PICK j \in DOMAIN asked : Tells(asked[j], x, n)
      BY <1>3 DEF LoadTells
    <3>2. CASE j # i
      BY <1>1, <3>1, <3>2 DEF LoadTells, Tells, Reload
    <3>3. CASE j = i
      <4>1. asked[i].op = "load" /\ ~asked[i].first /\ asked[i].sheet = active
        BY <3>1, <3>3 DEF Tells, Reload
      <4>2. Reads(i) /\ asked'[i].at = clock /\ asked'[i].got = store[active]
        BY <1>3, <4>1 DEF Reads, Refuses
      <4>3. Tells(asked[i], x, n)'
        BY <1>1, <1>3, <4>1, <4>2 DEF Tells, Reload, SameAsked
      <4> QED BY <1>1, <4>3 DEF LoadTells
    <3> QED BY <3>2, <3>3
<1>4. RepliesAreOvertaken'
  <2> SUFFICES ASSUME active \in tabs, NEW j \in DOMAIN asked, NEW x \in RowKeys,
                      ShowsRows(asked[j])'
               PROVE  Overtaken(asked[j], x)'
    BY <1>1 DEF RepliesAreOvertaken
  <2>1. CASE j = i
    BY <1>1, <2>1 DEF ShowsRows, HasRows, Reads, Refuses, Refused, RowIsComing, SameAsked, RowOps,
                      Overtaken
  <2>2. CASE j # i
    <3>1. asked'[j] = asked[j]
      BY <1>1, <2>2
    <3>2. Overtaken(asked[j], x)
      BY <1>1, <3>1 DEF GridFollows, RepliesAreOvertaken, ShowsRows, HasRows
    <3>3. CASE asked[j].at = clock
      <4>1. asked[j].got = store[active]
        BY <1>1, <3>1, <3>3 DEF GridIsSound, AnswersKnown, AnswerKnown, ShowsRows, HasRows
      <4> QED BY <1>1, <3>1, <4>1 DEF Overtaken, RowIsComing
    <3>4. CASE asked[j].at < clock
      <4>1. PICK n \in Int : n = asked[j].at
        BY <1>2
      <4>2. LoadTells(x, n) => LoadTells(x, n)'
        BY <1>3, <3>4, <4>1
      <4>3. LoadTells(x, asked[j].at) => LoadTells(x, asked[j].at)'
        BY <3>1, <4>1, <4>2 DEF LoadTells, Tells, Reload
      <4> QED BY <1>1, <3>1, <3>2, <4>3 DEF Overtaken, RowIsComing, OlderComes, EventFor
    <3> QED BY <1>2, <3>3, <3>4
  <2> QED BY <2>1, <2>2
<1>5. RowsFollow'
  <2> SUFFICES ASSUME active \in tabs, NEW x \in RowKeys PROVE RowFollows(x)'
    BY <1>1 DEF RowsFollow
  <2>1. RowFollows(x)
    BY DEF GridFollows, RowsFollow
  <2>2. \A j \in DOMAIN asked : Unresolved(asked[j], x) <=> Unresolved(asked[j], x)'
    <3>1. asked[i].op = "patch" => asked'[i].at < 0
      BY DEF Reads, Refuses, Refused
    <3>2. \A j \in DOMAIN asked : j # i => (Unresolved(asked[j], x) <=> Unresolved(asked[j], x)')
      BY <1>1 DEF Unresolved
    <3>3. Unresolved(asked[i], x) <=> Unresolved(asked[i], x)'
      BY <1>1, <3>1 DEF Unresolved, SameAsked, Pending
    <3> QED BY <3>2, <3>3
  <2>3. \A j \in DOMAIN asked : asked'[j].value = asked[j].value /\ asked'[j].before = asked[j].before
                                /\ asked'[j].late = asked[j].late
    BY <1>1 DEF SameAsked
  <2>4. EditsTo(x)' = EditsTo(x)
    BY <1>1, <2>2, <2>3 DEF EditsTo
  <2>5. EditsFrom(x)' = EditsFrom(x)
    BY <1>1, <2>2, <2>3 DEF EditsFrom
  <2>6. Balanced(x) => Balanced(x)'
    BY <1>1, <2>4, <2>5 DEF Balanced, Off
  <2>7. EditIsLate(x) => EditIsLate(x)'
    BY <1>1, <2>2, <2>3 DEF EditIsLate
  <2>8. LoadTells(x, -1) => LoadTells(x, -1)'
    BY <1>2, <1>3
  <2> QED BY <1>1, <2>1, <2>6, <2>7, <2>8, FollowsStay
<1>6. OrphansAreTold'
  <2> SUFFICES ASSUME active \notin tabs, tabs # {} PROVE OrphanIsTold'
    BY <1>1 DEF OrphansAreTold
  <2>1. CASE \E j \in DOMAIN asked : (Reload(asked[j]) /\ asked[j].at < 0) \/ ListTells(asked[j])
    <3>1. PICK j \in DOMAIN asked : (Reload(asked[j]) /\ asked[j].at < 0) \/ ListTells(asked[j])
      BY <2>1
    <3>2. CASE j # i
      BY <1>1, <3>1, <3>2 DEF OrphanIsTold, Reload, ListTells
    <3>3. CASE j = i /\ Reload(asked[j])
      BY <1>1, <3>3 DEF OrphanIsTold, Reload, Reads, Refuses, Refused, SameAsked
    <3>4. CASE j = i /\ ListTells(asked[j])
      <4>1. asked[i].op = "list" /\ asked[i].first /\ asked[i].sheet = active
        BY <3>4 DEF ListTells
      <4>2. asked'[i].list = tabs
        BY <4>1 DEF Reads, Refuses
      <4>3. ListTells(asked[i])'
        BY <1>1, <4>1, <4>2 DEF ListTells, SameAsked
      <4> QED BY <1>1, <4>3 DEF OrphanIsTold
    <3> QED BY <3>1, <3>2, <3>3, <3>4
  <2>2. CASE ~online \/ \E j \in DOMAIN feed : feed[j].key = SheetList
    BY <1>1, <2>2 DEF OrphanIsTold
  <2> QED BY <2>1, <2>2 DEF GridFollows, OrphansAreTold, OrphanIsTold
<1> QED BY <1>4, <1>5, <1>6 DEF GridFollows

LEMMA ServingKeepsGrid ==
  ASSUME GridInv, NEW i \in DOMAIN asked, Reads(i) \/ Refuses(i), AskedFits'
  PROVE  GridInv'
<1>1. UNCHANGED <<tabs, made, store, clock, feed, online, heard, active, rows, loading, error, last,
                  editing, undo, redo, strange>>
  BY DEF Reads, Refuses, Serves
<1>2. GridFits'
  BY <1>1 DEF GridInv, GridFits, ServerFits, PageFits
<1>3. GridIsSound'
  BY ServingKeepsSound DEF GridInv
<1>4. (strange = {})' => GridFollows'
  BY <1>1, ServingKeepsFollowing DEF GridInv
<1> QED BY <1>2, <1>3, <1>4 DEF GridInv

LEMMA OthersKeepGrid ==
  ASSUME GridInv, OthersWrite \/ OthersList
  PROVE  GridInv'
<1>1. AskedFits' /\ asked' = asked /\ UNCHANGED <<online, page>>
  BY DEF OthersWrite, OthersList, GridInv, GridFits, AskedFits
<1>2. CASE OthersWrite
  <2>1. PICK s \in tabs, k \in GridKeys, v \in CellValues \cup {Gone} : WriteCells(s, k, v)
    BY <1>2 DEF OthersWrite, updateTableRows, addTableRow, deleteTableRows, importTableSheet,
                deleteTableColumn, GridKeys
  <2>2. StoreWrites(s, k, v)
    BY <1>1, <2>1 DEF StoreWrites
  <2> QED BY <1>1, <2>2, WritingKeepsGrid
<1>3. CASE OthersList
  <2>1. PICK s \in Tabs : List(s)
    BY <1>3 DEF OthersList
  <2>2. Lists(s)
    BY <1>1, <2>1 DEF Lists
  <2> QED BY <1>1, <2>2, ListingKeepsGrid
<1> QED BY <1>2, <1>3

LEMMA AnsweredWriteKeepsGrid ==
  ASSUME GridInv, NEW i \in DOMAIN asked, asked[i].at = Pending,
         asked[i].op \in RowOps \cup {"patch"},
         NEW k \in GridKeys, NEW v \in CellValues \cup {Gone},
         asked[i].op = "patch" => k = asked[i].key,
         WriteCells(asked[i].sheet, k, v), Answer(i, asked[i].sheet), UNCHANGED <<online, page>>
  PROVE  GridInv'
<1>1. PICK s : s = asked[i].sheet
  OBVIOUS
<1>2. WriteCells(s, k, v) /\ Answer(i, s)
  BY <1>1
<1>3. ServerFits' /\ s \in tabs
  BY <1>2, WritingFits DEF GridInv, GridFits
<1>4. s \in Tabs
  BY <1>3 DEF GridInv, GridFits, ServerFits
<1>5. AskedFits' /\ OthersKept(i) /\ AnsweredBy(i, s)
  BY <1>2, <1>3, <1>4, AnswerPutsOne DEF GridInv, GridFits
<1>6. WrittenFor(i, s, k)
  BY <1>1, <1>5 DEF WrittenFor
<1>7. StoreWrites(s, k, v)
  BY <1>2, <1>5, <1>6 DEF StoreWrites, OthersKept
<1> QED BY <1>5, <1>7, WritingKeepsGrid

LEMMA AnsweredListKeepsGrid ==
  ASSUME GridInv, NEW i \in DOMAIN asked, asked[i].at = Pending,
         asked[i].op \in {"create", "delete"}, NEW s \in Tabs,
         List(s), Answer(i, s), UNCHANGED <<online, page>>
  PROVE  GridInv'
<1>1. ServerFits'
  BY ListingFits DEF GridInv, GridFits
<1>2. AskedFits' /\ OthersKept(i) /\ AnsweredBy(i, s)
  BY <1>1, AnswerPutsOne DEF GridInv, GridFits, RowOps
<1>3. ListedFor(i, s)
  BY <1>2 DEF ListedFor
<1>4. Lists(s)
  BY <1>2, <1>3 DEF Lists, OthersKept
<1> QED BY <1>2, <1>4, ListingKeepsGrid

LEMMA RefusedKeepsGrid ==
  ASSUME GridInv, NEW i \in DOMAIN asked, asked[i].at = Pending, Refuse(i),
         asked[i].op # "list", asked[i].op = "load" => asked[i].sheet \notin tabs,
         UNCHANGED <<online, page>>
  PROVE  GridInv'
<1>1. /\ AskedFits' /\ OthersKept(i) /\ SameAsked(asked'[i], asked[i])
      /\ asked'[i].sheet = asked[i].sheet /\ asked'[i].at = Refused
      /\ asked'[i].list = asked[i].list
  BY RefusePutsOne DEF GridInv, GridFits
<1>2. UNCHANGED <<tabs, made, store, clock, feed, online, heard, active, rows, loading, error, last,
                  editing, undo, redo, strange>>
  BY DEF Refuse, page, server
<1>3. Refuses(i)
  BY <1>1, <1>2 DEF Refuses, Serves
<1> QED BY <1>1, <1>3, ServingKeepsGrid

LEMMA ReadKeepsGrid ==
  ASSUME GridInv, NEW i \in DOMAIN asked, asked[i].at = Pending,
         \/ asked[i].op = "list"
         \/ asked[i].op = "load" /\ asked[i].sheet \in tabs,
         UNCHANGED <<server, feed, online, page>>, Answer(i, asked[i].sheet)
  PROVE  GridInv'
<1>1. PICK s : s = asked[i].sheet
  OBVIOUS
<1>2. Answer(i, s) /\ s \in Tabs \cup {Nowhere}
  BY <1>1, AskedIsRequest DEF GridInv, GridFits
<1>3. UNCHANGED <<tabs, made, store, clock, feed, online, heard, active, rows, loading, error, last,
                  editing, undo, redo, strange>>
  BY DEF page, server
<1>4. ServerFits'
  BY <1>3 DEF GridInv, GridFits, ServerFits
<1>5. asked[i].op \in {"load"} \cup RowOps => s \in Tabs
  BY <1>1 DEF RowOps, GridInv, GridFits, ServerFits
<1>6. AskedFits' /\ OthersKept(i) /\ AnsweredBy(i, s)
  BY <1>2, <1>4, <1>5, AnswerPutsOne DEF GridInv, GridFits
<1>7. Reads(i)
  BY <1>1, <1>3, <1>6 DEF Reads, Serves, AnsweredBy
<1> QED BY <1>6, <1>7, ServingKeepsGrid

LEMMA ServeKeepsGrid ==
  ASSUME GridInv, Serve
  PROVE  GridInv'
<1>1. PICK i \in DOMAIN asked :
        /\ asked[i].at = Pending
        /\ \/ /\ asked[i].op = "list" \/ (asked[i].op = "load" /\ asked[i].sheet \in tabs)
              /\ UNCHANGED <<server, feed>> /\ Answer(i, asked[i].sheet)
           \/ /\ asked[i].op \notin {"list", "create"} /\ asked[i].sheet \notin tabs /\ Refuse(i)
           \/ asked[i].op = "create" /\ \E s \in Tabs \ made : List(s) /\ Answer(i, s)
           \/ /\ asked[i].op = "delete" /\ asked[i].sheet \in tabs
              /\ List(asked[i].sheet) /\ Answer(i, asked[i].sheet)
           \/ /\ asked[i].op = "add" /\ addTableRow(asked[i].sheet, asked[i].key, asked[i].value)
              /\ Answer(i, asked[i].sheet)
           \/ /\ asked[i].op = "drop" /\ deleteTableRows(asked[i].sheet, asked[i].key)
              /\ Answer(i, asked[i].sheet)
           \/ /\ asked[i].op = "import" /\ importTableSheet(asked[i].sheet, asked[i].value)
              /\ Answer(i, asked[i].sheet)
           \/ /\ asked[i].op = "column" /\ deleteTableColumn(asked[i].sheet, asked[i].value)
              /\ Answer(i, asked[i].sheet)
           \/ /\ asked[i].op = "patch"
              /\ updateTableRows(asked[i].sheet, asked[i].key, asked[i].value)
              /\ Answer(i, asked[i].sheet)
           \/ /\ asked[i].op = "patch" /\ asked[i].sheet \in tabs
              /\ store[asked[i].sheet][asked[i].key] = Gone /\ Refuse(i)
  BY DEF Serve
<1>2. UNCHANGED <<online, page>>
  BY DEF Serve
<1>3. asked[i] \in GridRequests
  BY AskedIsRequest DEF GridInv, GridFits
<1>4. /\ asked[i].key \in GridKeys /\ asked[i].value \in CellValues \cup {Gone}
      /\ AllRows \in GridKeys /\ Gone \in CellValues \cup {Gone}
  BY <1>3 DEF GridRequests, GridKeys
<1>5. CASE /\ asked[i].op = "list" \/ (asked[i].op = "load" /\ asked[i].sheet \in tabs)
           /\ UNCHANGED <<server, feed>> /\ Answer(i, asked[i].sheet)
  BY <1>1, <1>2, <1>5, ReadKeepsGrid
<1>6. CASE /\ asked[i].op \notin {"list", "create"} /\ asked[i].sheet \notin tabs /\ Refuse(i)
  BY <1>1, <1>2, <1>6, RefusedKeepsGrid
<1>7. CASE asked[i].op = "create" /\ \E s \in Tabs \ made : List(s) /\ Answer(i, s)
  BY <1>1, <1>2, <1>7, AnsweredListKeepsGrid
<1>8. CASE /\ asked[i].op = "delete" /\ asked[i].sheet \in tabs
           /\ List(asked[i].sheet) /\ Answer(i, asked[i].sheet)
  <2>1. PICK s \in Tabs : s = asked[i].sheet
    BY <1>8 DEF GridInv, GridFits, ServerFits
  <2>2. List(s) /\ Answer(i, s)
    BY <1>8, <2>1
  <2> QED BY <1>1, <1>2, <1>8, <2>2, AnsweredListKeepsGrid
<1>9. CASE /\ asked[i].op \in RowOps /\ Answer(i, asked[i].sheet)
           /\ \E k \in GridKeys, v \in CellValues \cup {Gone} : WriteCells(asked[i].sheet, k, v)
  <2>1. asked[i].op # "patch"
    BY <1>9 DEF RowOps
  <2> QED BY <1>1, <1>2, <1>9, <2>1, AnsweredWriteKeepsGrid
<1>10. CASE /\ asked[i].op = "patch" /\ Answer(i, asked[i].sheet)
            /\ updateTableRows(asked[i].sheet, asked[i].key, asked[i].value)
  <2>1. WriteCells(asked[i].sheet, asked[i].key, asked[i].value)
    BY <1>10 DEF updateTableRows
  <2> QED BY <1>1, <1>2, <1>4, <1>10, <2>1, AnsweredWriteKeepsGrid
<1>11. CASE /\ asked[i].op = "patch" /\ asked[i].sheet \in tabs
            /\ store[asked[i].sheet][asked[i].key] = Gone /\ Refuse(i)
  BY <1>1, <1>2, <1>11, RefusedKeepsGrid
<1>12. {"add", "drop", "import", "column"} \subseteq RowOps
  BY DEF RowOps
<1>13. CASE /\ asked[i].op = "add" /\ addTableRow(asked[i].sheet, asked[i].key, asked[i].value)
            /\ Answer(i, asked[i].sheet)
  BY <1>4, <1>9, <1>12, <1>13 DEF addTableRow
<1>14. CASE /\ asked[i].op = "drop" /\ deleteTableRows(asked[i].sheet, asked[i].key)
            /\ Answer(i, asked[i].sheet)
  BY <1>4, <1>9, <1>12, <1>14 DEF deleteTableRows
<1>15. CASE /\ asked[i].op = "import" /\ importTableSheet(asked[i].sheet, asked[i].value)
            /\ Answer(i, asked[i].sheet)
  BY <1>4, <1>9, <1>12, <1>15 DEF importTableSheet
<1>16. CASE /\ asked[i].op = "column" /\ deleteTableColumn(asked[i].sheet, asked[i].value)
            /\ Answer(i, asked[i].sheet)
  BY <1>4, <1>9, <1>12, <1>16 DEF deleteTableColumn
<1> QED BY <1>1, <1>5, <1>6, <1>7, <1>8, <1>10, <1>11, <1>13, <1>14, <1>15, <1>16

-----------------------------------------------------------------------------
(* The grid hears the first event on its way.                              *)
(* No request is gone or answered; new ones are not edits.                 *)
Grows ==
  /\ \A m \in DOMAIN asked : m \in DOMAIN asked' /\ SameRequest(asked'[m], asked[m])
  /\ \A j \in DOMAIN asked' :
       \/ j \in DOMAIN asked
       \/ asked'[j].at < 0 /\ asked'[j].op # "patch" /\ RequestKnown(asked'[j])

LEMMA GrowsWhen ==
  ASSUME AskedFits
  PROVE  /\ \A q \in GridRequests :
              (asked' = Append(asked, q) /\ q.at = Pending /\ q.op # "patch" /\ RequestKnown(q))
                => Grows /\ AskedFits' /\ \E j \in DOMAIN asked' : asked'[j] = q
         /\ asked' = Late(asked) => Grows /\ AskedFits' /\ AllLate'
         /\ asked' = asked => Grows /\ AskedFits'
<1>1. \A p : SameRequest(p, p)
  BY DEF SameRequest
<1>2. ASSUME NEW q \in GridRequests, asked' = Append(asked, q), q.at = Pending, q.op # "patch",
             RequestKnown(q)
      PROVE  Grows /\ AskedFits' /\ \E j \in DOMAIN asked' : asked'[j] = q
  <2>1. /\ AskedFits' /\ DOMAIN asked' = 1 .. Len(asked) + 1 /\ DOMAIN asked = 1 .. Len(asked)
        /\ Len(asked) \in Nat
        /\ asked'[Len(asked) + 1] = q
        /\ \A m \in DOMAIN asked : m \in DOMAIN asked' /\ asked'[m] = asked[m]
    BY <1>2, AppendedOne
  <2>2. \A j \in DOMAIN asked' : j \in DOMAIN asked \/ asked'[j] = q
    BY <2>1
  <2>3. \E j \in DOMAIN asked' : asked'[j] = q
    BY <2>1
  <2> QED BY <1>1, <1>2, <2>1, <2>2, <2>3 DEF Grows, Pending
<1>3. ASSUME asked' = Late(asked)
      PROVE  Grows /\ AskedFits' /\ AllLate'
  <2>1. /\ asked' \in Seq(GridRequests) /\ DOMAIN asked' = DOMAIN asked
        /\ \A j \in DOMAIN asked :
             asked'[j] = [asked[j] EXCEPT !.late = (asked[j].op = "patch")]
    BY <1>3, LateFits DEF AskedFits
  <2>2. ASSUME NEW j \in DOMAIN asked
        PROVE  SameRequest(asked'[j], asked[j]) /\ (asked'[j].op = "patch" => asked'[j].late)
    <3>1. asked[j] \in GridRequests
      BY AskedIsRequest
    <3>2. PICK o \in BOOLEAN : o = (asked[j].op = "patch")
      OBVIOUS
    <3>3. asked'[j] = [asked[j] EXCEPT !.late = o]
      BY <2>1, <3>2
    <3> QED BY <3>1, <3>2, <3>3 DEF SameRequest, GridRequests
  <2> QED BY <2>1, <2>2 DEF Grows, AskedFits, AllLate
<1>4. asked' = asked => Grows /\ AskedFits'
  BY <1>1 DEF Grows, AskedFits
<1> QED BY <1>2, <1>3, <1>4

LEMMA GrowsAnswersNone ==
  ASSUME Grows
  PROVE  NoneAnswered
BY DEF Grows, NoneAnswered

(* The events but the first are still on their way.                        *)
LEMMA FeedHeard ==
  ASSUME feed \in Seq(GridEvents), feed # <<>>, feed' = Tail(feed)
  PROVE  /\ feed' \in Seq(GridEvents) /\ 1 \in DOMAIN feed /\ Head(feed) = feed[1]
         /\ DOMAIN feed \subseteq Int /\ \A j \in DOMAIN feed : j >= 1 /\ feed[j].no \in Int
         /\ \A j \in DOMAIN feed' : j \in Int /\ j + 1 \in DOMAIN feed /\ feed'[j] = feed[j + 1]
         /\ \A l \in DOMAIN feed : l # 1 => l - 1 \in DOMAIN feed' /\ feed'[l - 1] = feed[l]
<1>1. /\ DOMAIN feed = 1 .. Len(feed) /\ Len(feed) \in Nat /\ Len(feed) >= 1
      /\ feed' \in Seq(GridEvents) /\ Len(feed') = Len(feed) - 1
      /\ Head(feed) = feed[1]
  OBVIOUS
<1>2. DOMAIN feed' = 1 .. Len(feed) - 1
  BY <1>1
<1>3. \A j \in DOMAIN feed' : feed'[j] = feed[j + 1]
  BY <1>1, <1>2
<1>4. \A j \in DOMAIN feed : feed[j] \in GridEvents
  BY ElementOfSeq
<1>5. \A j \in DOMAIN feed : feed[j].no \in Int
  BY <1>4 DEF GridEvents
<1>6. \A l \in DOMAIN feed : l # 1 => l - 1 \in DOMAIN feed' /\ (l - 1) + 1 = l
  BY <1>1, <1>2
<1> QED BY <1>1, <1>2, <1>3, <1>5, <1>6

LEMMA HearingKeepsSound ==
  ASSUME GridFits, GridIsSound, feed # <<>>, feed' = Tail(feed), AskedFits', Grows,
         UNCHANGED <<tabs, made, store, clock, online, active, loading, strange>>
  PROVE  GridIsSound'
<1>1. /\ 1 \in DOMAIN feed
      /\ DOMAIN feed \subseteq Int /\ \A j \in DOMAIN feed : j >= 1 /\ feed[j].no \in Int
      /\ \A j \in DOMAIN feed' : j \in Int /\ j + 1 \in DOMAIN feed /\ feed'[j] = feed[j + 1]
      /\ \A l \in DOMAIN feed : l # 1 => l - 1 \in DOMAIN feed' /\ feed'[l - 1] = feed[l]
  BY FeedHeard DEF GridFits, ServerFits
<1>2. RequestsKnown' /\ AnswersKnown'
  BY GrowsAnswersNone, RequestsStayKnown
<1>3. online
  BY DEF GridIsSound, FeedOrdered
<1>4. FeedOrdered'
  <2>1. \A i \in DOMAIN feed' : feed'[i].no <= clock
    BY <1>1 DEF GridIsSound, FeedOrdered
  <2>2. ASSUME NEW i \in DOMAIN feed', NEW j \in DOMAIN feed', i < j
        PROVE  feed'[i].no < feed'[j].no
    <3>1. i + 1 < j + 1 /\ i + 1 \in DOMAIN feed /\ j + 1 \in DOMAIN feed
      BY <1>1, <2>2
    <3> QED BY <1>1, <3>1 DEF GridIsSound, FeedOrdered
  <2> QED BY <1>3, <2>1, <2>2 DEF FeedOrdered
<1>5. LoadingIsWaited'
  BY DEF GridIsSound, LoadingIsWaited, FirstAsked, Grows, SameRequest
<1>6. FeedIsTrue'
  <2> SUFFICES ASSUME active \in tabs, NEW j \in DOMAIN feed', NEW x \in RowKeys, LastFor(j, x)'
               PROVE  feed'[j].value = store[active][x]
    BY DEF FeedIsTrue
  <2>1. j + 1 \in DOMAIN feed /\ feed'[j] = feed[j + 1]
    BY <1>1
  <2>2. ASSUME NEW l \in DOMAIN feed, l > j + 1
        PROVE  ~EventFor(feed[l], x)
    <3>1. l - 1 \in DOMAIN feed' /\ l - 1 > j /\ feed'[l - 1] = feed[l]
      BY <1>1, <2>1, <2>2
    <3>2. PICK m \in DOMAIN feed' : m > j /\ feed'[m] = feed[l]
      BY <3>1
    <3> QED BY <3>2 DEF LastFor, EventFor
  <2>3. PICK m \in DOMAIN feed : m = j + 1
    BY <2>1
  <2>4. LastFor(m, x)
    BY <2>1, <2>2, <2>3 DEF LastFor
  <2> QED BY <2>1, <2>3, <2>4 DEF GridIsSound, FeedIsTrue
<1>7. RepliesAreTrue'
  <2> SUFFICES ASSUME active \in tabs, NEW j \in DOMAIN asked', NEW x \in RowKeys,
                      ShowsRows(asked[j])', OlderComes(asked[j])'
               PROVE  RowIsComing(asked[j], x)'
    BY DEF RepliesAreTrue
  <2>1. asked'[j].at \in Int /\ asked'[j].at >= 0
    <3>1. asked'[j] \in GridRequests
      BY ElementOfSeq DEF AskedFits
    <3> QED BY <3>1 DEF GridRequests, ShowsRows, HasRows
  <2>2. j \in DOMAIN asked /\ SameRequest(asked'[j], asked[j])
    BY <2>1 DEF Grows
  <2>3. PICK l \in DOMAIN feed' : feed'[l].no <= asked'[j].at
    BY DEF OlderComes
  <2>4. l + 1 \in DOMAIN feed /\ feed[l + 1].no <= asked[j].at /\ l + 1 > 1
    BY <1>1, <2>2, <2>3 DEF SameRequest
  <2>5. feed[1].no < feed[l + 1].no
    BY <1>1, <2>4 DEF GridIsSound, FeedOrdered
  <2>6. feed[1].no <= asked[j].at
    BY <1>1, <2>1, <2>2, <2>4, <2>5 DEF SameRequest
  <2>7. ShowsRows(asked[j]) /\ OlderComes(asked[j])
    BY <2>2, <2>4 DEF ShowsRows, HasRows, SameRequest, OlderComes
  <2>8. RowIsComing(asked[j], x)
    BY <2>2, <2>7 DEF GridIsSound, RepliesAreTrue
  <2>9. CASE asked[j].got[x] = store[active][x]
    BY <2>2, <2>9 DEF RowIsComing, SameRequest
  <2>10. CASE \E m \in DOMAIN feed : EventFor(feed[m], x) /\ feed[m].no > asked[j].at
    <3>1. PICK m \in DOMAIN feed : EventFor(feed[m], x) /\ feed[m].no > asked[j].at
      BY <2>10
    <3>2. m # 1
      BY <1>1, <2>1, <2>2, <2>6, <3>1 DEF SameRequest
    <3> QED BY <1>1, <2>2, <3>1, <3>2 DEF RowIsComing, SameRequest, EventFor
  <2> QED BY <2>8, <2>9, <2>10 DEF RowIsComing
<1> QED BY <1>2, <1>4, <1>5, <1>6, <1>7 DEF GridIsSound

(* Edits are counted among the requests, of which there are finitely many. *)
LEMMA EditsAreFinite ==
  ASSUME AskedFits, NEW k
  PROVE  /\ IsFiniteSet(EditsTo(k)) /\ Cardinality(EditsTo(k)) \in Nat
         /\ IsFiniteSet(EditsFrom(k)) /\ Cardinality(EditsFrom(k)) \in Nat
<1>1. IsFiniteSet(DOMAIN asked)
  BY FS_Interval DEF AskedFits
<1>2. EditsTo(k) \in SUBSET DOMAIN asked /\ EditsFrom(k) \in SUBSET DOMAIN asked
  BY DEF EditsTo, EditsFrom
<1>3. IsFiniteSet(EditsTo(k)) /\ IsFiniteSet(EditsFrom(k))
  BY <1>1, <1>2, FS_Subset
<1> QED BY <1>3, FS_CardinalityType

LEMMA BalancedWithoutEdits ==
  ASSUME NEW k, \A j \in DOMAIN asked : ~Unresolved(asked[j], k)
  PROVE  Balanced(k) <=> rows[k] = store[active][k]
<1>1. EditsTo(k) = {} /\ EditsFrom(k) = {}
  BY DEF EditsTo, EditsFrom
<1>2. Cardinality(EditsTo(k)) = 0 /\ Cardinality(EditsFrom(k)) = 0
  BY <1>1, FS_EmptySet
<1> QED BY <1>2 DEF Balanced, Off

(* A row that is right while all its edits are late follows the store.     *)
LEMMA RightAndLateFollows ==
  ASSUME NEW k, AllLate, rows[k] = store[active][k]
  PROVE  RowFollows(k)
<1>1. CASE \A j \in DOMAIN asked : ~Unresolved(asked[j], k)
  BY <1>1, BalancedWithoutEdits DEF RowFollows
<1>2. CASE \E j \in DOMAIN asked : Unresolved(asked[j], k)
  BY <1>2 DEF RowFollows, EditIsLate, AllLate, Unresolved
<1> QED BY <1>1, <1>2

(* What hearing the first event does.                                      *)
HeadTells(x) == feed[1].sheet = active /\ feed[1].key = x
Hears ==
  /\ feed # <<>> /\ feed' = Tail(feed) /\ Grows
  /\ UNCHANGED <<tabs, made, store, clock, online, active>>
  /\ feed[1].key = SheetList => \E j \in DOMAIN asked' : ListTells(asked[j])'
  /\ HeadTells(AllRows) => \E j \in DOMAIN asked' : Reload(asked[j])' /\ asked'[j].at = Pending
  /\ \A x \in RowKeys :
       HeadTells(x) => rows'[x] = feed[1].value /\ heard' = feed[1].no /\ AllLate'
  /\ \A x \in RowKeys : ~HeadTells(x) => rows'[x] = rows[x]
  /\ (\A x \in RowKeys : ~HeadTells(x)) => heard' = heard

LEMMA HearingKeepsFollowing ==
  ASSUME GridFits, GridIsSound, GridFollows, AskedFits', Hears
  PROVE  GridFollows'
<1>1. /\ 1 \in DOMAIN feed
      /\ DOMAIN feed \subseteq Int /\ \A j \in DOMAIN feed : j >= 1 /\ feed[j].no \in Int
      /\ \A j \in DOMAIN feed' : j \in Int /\ j + 1 \in DOMAIN feed /\ feed'[j] = feed[j + 1]
      /\ \A l \in DOMAIN feed : l # 1 => l - 1 \in DOMAIN feed' /\ feed'[l - 1] = feed[l]
  BY FeedHeard DEF GridFits, ServerFits, Hears
<1>2. /\ \A m \in DOMAIN asked : m \in DOMAIN asked' /\ SameRequest(asked'[m], asked[m])
      /\ \A j \in DOMAIN asked' :
           j \in DOMAIN asked \/ (asked'[j].at < 0 /\ asked'[j].op # "patch")
      /\ UNCHANGED <<tabs, made, store, clock, online, active>>
  BY DEF Hears, Grows
<1>3. ASSUME NEW x, NEW n, LoadTells(x, n) PROVE LoadTells(x, n)'
  BY <1>2, <1>3 DEF LoadTells, Tells, Reload, SameRequest
<1>4. ASSUME HeadTells(AllRows), NEW x, NEW n PROVE LoadTells(x, n)'
  BY <1>4 DEF LoadTells, Tells, Hears
<1>5. RepliesAreOvertaken'
  <2> SUFFICES ASSUME active \in tabs, NEW j \in DOMAIN asked', NEW x \in RowKeys,
                      ShowsRows(asked[j])'
               PROVE  Overtaken(asked[j], x)'
    BY <1>2 DEF RepliesAreOvertaken
  <2>1. asked'[j].at \in Int /\ asked'[j].at >= 0
    <3>1. asked'[j] \in GridRequests
      BY ElementOfSeq DEF AskedFits
    <3> QED BY <3>1 DEF GridRequests, ShowsRows, HasRows
  <2>2. j \in DOMAIN asked /\ SameRequest(asked'[j], asked[j])
    BY <1>2, <2>1
  <2>3. PICK n \in Int : n = asked[j].at /\ n = asked'[j].at
    BY <2>1, <2>2 DEF SameRequest
  <2>4. ShowsRows(asked[j])
    BY <1>2, <2>2 DEF ShowsRows, HasRows, SameRequest
  <2>5. Overtaken(asked[j], x)
    BY <2>2, <2>4 DEF GridFollows, RepliesAreOvertaken
  <2>6. CASE asked[j].got[x] = store[active][x]
    BY <1>2, <2>2, <2>6 DEF Overtaken, RowIsComing, SameRequest
  <2>7. CASE \E m \in DOMAIN feed : m # 1 /\ EventFor(feed[m], x) /\ feed[m].no > n
    <3>1. PICK m \in DOMAIN feed : m # 1 /\ EventFor(feed[m], x) /\ feed[m].no > n
      BY <2>7
    <3>2. m - 1 \in DOMAIN feed' /\ feed'[m - 1] = feed[m]
      BY <1>1, <3>1
    <3> QED BY <1>2, <2>3, <3>1, <3>2 DEF Overtaken, RowIsComing, EventFor
  <2>8. CASE LoadTells(x, n) \/ HeadTells(AllRows)
    <3>1. LoadTells(x, n)'
      BY <1>3, <1>4, <2>8
    <3>2. LoadTells(x, asked[j].at)'
      BY <2>3, <3>1 DEF LoadTells, Tells, Reload
    <3> QED BY <3>2 DEF Overtaken
  <2>9. CASE OlderComes(asked[j])
    <3>1. RowIsComing(asked[j], x)
      BY <2>2, <2>4, <2>9 DEF GridIsSound, RepliesAreTrue
    <3>2. PICK l \in DOMAIN feed : feed[l].no <= n
      BY <2>3, <2>9 DEF OlderComes
    <3>3. feed[1].no <= n
      <4>1. CASE l = 1
        BY <3>2, <4>1
      <4>2. CASE l # 1
        <5>1. 1 < l
          BY <1>1, <4>2
        <5>2. feed[1].no < feed[l].no
          BY <1>1, <5>1 DEF GridIsSound, FeedOrdered
        <5> QED BY <1>1, <3>2, <5>2
      <4> QED BY <4>1, <4>2
    <3>4. \A m \in DOMAIN feed : feed[m].no > n => m # 1
      BY <1>1, <3>3
    <3> QED BY <2>3, <2>6, <2>7, <3>1, <3>4 DEF RowIsComing
  <2>10. CASE ~OlderComes(asked[j])
    <3>1. feed[1].no > n
      BY <1>1, <2>3, <2>10 DEF OlderComes
    <3>2. CASE \E y \in RowKeys : HeadTells(y)
      <4>1. heard' = feed[1].no
        BY <3>2 DEF Hears
      <4> QED BY <2>3, <3>1, <4>1 DEF Overtaken
    <3>3. CASE ~HeadTells(AllRows) /\ \A y \in RowKeys : ~HeadTells(y)
      <4>1. heard' = heard
        BY <3>3 DEF Hears
      <4>2. ~EventFor(feed[1], x)
        BY <3>3 DEF EventFor, HeadTells
      <4>3. CASE ~online \/ heard > asked[j].at
        BY <1>2, <2>3, <4>1, <4>3 DEF Overtaken
      <4>4. CASE RowIsComing(asked[j], x)
        BY <2>3, <2>6, <2>7, <4>2, <4>4 DEF RowIsComing
      <4>5. CASE LoadTells(x, asked[j].at)
        <5>1. LoadTells(x, n)
          BY <2>3, <4>5 DEF LoadTells, Tells, Reload
        <5> QED BY <2>8, <5>1
      <4> QED BY <2>5, <2>10, <4>3, <4>4, <4>5 DEF Overtaken
    <3> QED BY <2>8, <3>2, <3>3
  <2> QED BY <2>9, <2>10
<1>6. RowsFollow'
  <2> SUFFICES ASSUME active \in tabs, NEW x \in RowKeys PROVE RowFollows(x)'
    BY <1>2 DEF RowsFollow
  <2>1. RowFollows(x)
    BY DEF GridFollows, RowsFollow
  <2>2. CASE \E l \in DOMAIN feed : l # 1 /\ EventFor(feed[l], x)
    <3>1. PICK l \in DOMAIN feed : l # 1 /\ EventFor(feed[l], x)
      BY <2>2
    <3>2. l - 1 \in DOMAIN feed' /\ feed'[l - 1] = feed[l]
      BY <1>1, <3>1
    <3> QED BY <1>2, <3>1, <3>2 DEF RowFollows, EventComes, EventFor
  <2>3. CASE HeadTells(AllRows)
    BY <1>4, <2>3 DEF RowFollows
  <2>4. CASE HeadTells(x) /\ ~\E l \in DOMAIN feed : l # 1 /\ EventFor(feed[l], x)
    <3>1. LastFor(1, x)
      BY <1>1, <2>4 DEF LastFor, HeadTells
    <3>2. feed[1].value = store[active][x]
      BY <1>1, <3>1 DEF GridIsSound, FeedIsTrue
    <3>3. AllLate' /\ rows'[x] = store'[active'][x]
      BY <1>2, <2>4, <3>2 DEF Hears
    <3>4. CASE \A j \in DOMAIN asked' : ~Unresolved(asked[j], x)'
      <4>1. EditsTo(x)' = {} /\ EditsFrom(x)' = {}
        BY <3>4 DEF EditsTo, EditsFrom
      <4>2. Balanced(x)'
        BY <3>3, <4>1, FS_EmptySet DEF Balanced, Off
      <4> QED BY <4>2 DEF RowFollows
    <3>5. CASE \E j \in DOMAIN asked' : Unresolved(asked[j], x)'
      BY <3>3, <3>5 DEF RowFollows, EditIsLate, AllLate, Unresolved
    <3> QED BY <3>4, <3>5
  <2>5. CASE /\ ~HeadTells(AllRows) /\ ~HeadTells(x)
             /\ ~\E l \in DOMAIN feed : l # 1 /\ EventFor(feed[l], x)
    <3>1. rows'[x] = rows[x]
      BY <2>5 DEF Hears
    <3>2. ~EventComes(x)
      BY <2>5 DEF EventComes, EventFor, HeadTells
    <3>3. \A j \in DOMAIN asked : Unresolved(asked[j], x) <=> Unresolved(asked[j], x)'
      BY <1>2 DEF Unresolved, SameRequest
    <3>4. \A j \in DOMAIN asked' : Unresolved(asked[j], x)' => j \in DOMAIN asked
      BY <1>2 DEF Unresolved
    <3>5. EditsTo(x)' = EditsTo(x)
      BY <1>2, <3>3, <3>4 DEF EditsTo, SameRequest
    <3>6. EditsFrom(x)' = EditsFrom(x)
      BY <1>2, <3>3, <3>4 DEF EditsFrom, SameRequest
    <3>7. Balanced(x) => Balanced(x)'
      BY <1>2, <3>1, <3>5, <3>6 DEF Balanced, Off
    <3>8. EditIsLate(x) => EditIsLate(x)'
      BY <1>2, <3>3 DEF EditIsLate, SameRequest, Unresolved
    <3>9. LoadTells(x, -1) => LoadTells(x, -1)'
      BY <1>3
    <3> QED BY <1>2, <2>1, <3>2, <3>7, <3>8, <3>9 DEF RowFollows
  <2> QED BY <2>2, <2>3, <2>4, <2>5
<1>7. OrphansAreTold'
  <2> SUFFICES ASSUME active \notin tabs, tabs # {} PROVE OrphanIsTold'
    BY <1>2 DEF OrphansAreTold
  <2>1. OrphanIsTold
    BY DEF GridFollows, OrphansAreTold
  <2>2. CASE feed[1].key = SheetList
    BY <2>2 DEF Hears, OrphanIsTold
  <2>3. CASE \E l \in DOMAIN feed : l # 1 /\ feed[l].key = SheetList
    BY <1>1, <2>3 DEF OrphanIsTold
  <2>4. CASE \E j \in DOMAIN asked : (Reload(asked[j]) /\ asked[j].at < 0) \/ ListTells(asked[j])
    BY <1>2, <2>4 DEF OrphanIsTold, Reload, ListTells, SameRequest
  <2> QED BY <1>2, <2>1, <2>2, <2>3, <2>4 DEF OrphanIsTold
<1> QED BY <1>5, <1>6, <1>7 DEF GridFollows

LEMMA HearKeepsGrid ==
  ASSUME GridInv, Hear
  PROVE  GridInv'
<1>1. /\ feed # <<>> /\ feed' = Tail(feed)
      /\ UNCHANGED <<tabs, made, store, clock, online, active, loading, editing, undo, redo, strange>>
  BY DEF Hear, server
<1>2. /\ feed' \in Seq(GridEvents) /\ 1 \in DOMAIN feed /\ Head(feed) = feed[1]
  BY <1>1, FeedHeard DEF GridInv, GridFits, ServerFits
<1>3. feed[1] \in GridEvents
  BY <1>2, ElementOfSeq DEF GridInv, GridFits, ServerFits
<1>4. AllRows \notin RowKeys /\ SheetList \notin RowKeys /\ AllRows # SheetList
  BY GridAssumption DEF AllRows, SheetList
<1>5. active \in Tabs \cup {Nowhere} /\ active \in made \cup {Nowhere}
  BY DEF GridInv, GridFits, PageFits, ServerFits
<1>6. AskedFits
  BY DEF GridInv, GridFits
<1>7. Hears /\ AskedFits' /\ rows' \in GridRows /\ heard' \in Nat
  <2>1. CASE /\ feed[1].key = SheetList
             /\ asked' = Append(asked, [Asking("list", active) EXCEPT !.first = TRUE])
             /\ UNCHANGED <<rows, heard>>
    <3> DEFINE q == [Asking("list", active) EXCEPT !.first = TRUE]
    <3>1. "list" \in GridOps
      BY DEF GridOps
    <3>2. Asking("list", active) \in GridRequests
      BY <1>5, <3>1, AskingFits
    <3>3. q \in GridRequests
      BY <3>2, ChangedFits
    <3>4. /\ q.op = "list" /\ q.first = TRUE /\ q.sheet = active /\ q.at = Pending /\ q.list = {}
      BY <1>5, <3>1, <3>2, AskingFits DEF GridRequests
    <3>5. asked' = Append(asked, q)
      BY <2>1
    <3> HIDE DEF q
    <3>6. RequestKnown(q)
      BY <1>5, <3>4 DEF RequestKnown, RowOps
    <3>7. Grows /\ AskedFits' /\ \E j \in DOMAIN asked' : asked'[j] = q
      BY <1>6, <3>3, <3>4, <3>5, <3>6, GrowsWhen
    <3>8. \E j \in DOMAIN asked' : ListTells(asked[j])'
      BY <1>1, <3>4, <3>7 DEF ListTells, Pending
    <3>9. ~HeadTells(AllRows) /\ \A x \in RowKeys : ~HeadTells(x)
      BY <1>4, <2>1 DEF HeadTells
    <3>10. rows' \in GridRows /\ heard' \in Nat
      BY <2>1 DEF GridInv, GridFits, PageFits
    <3> QED BY <1>1, <2>1, <3>7, <3>8, <3>9, <3>10 DEF Hears
  <2>2. CASE feed[1].key # SheetList /\ feed[1].sheet # active /\ UNCHANGED <<rows, heard, asked>>
    <3>1. Grows /\ AskedFits'
      BY <1>6, <2>2, GrowsWhen
    <3>2. ~HeadTells(AllRows) /\ \A x \in RowKeys : ~HeadTells(x)
      BY <2>2 DEF HeadTells
    <3>3. rows' \in GridRows /\ heard' \in Nat
      BY <2>2 DEF GridInv, GridFits, PageFits
    <3> QED BY <1>1, <2>2, <3>1, <3>2, <3>3 DEF Hears
  <2>3. CASE /\ feed[1].key = AllRows /\ feed[1].sheet = active
             /\ asked' = Append(asked, Load(active, FALSE)) /\ UNCHANGED <<rows, heard>>
    <3> DEFINE q == Load(active, FALSE)
    <3>1. /\ q \in GridRequests /\ q.op = "load" /\ q.sheet = active /\ ~q.first
          /\ q.at = Pending /\ q.list = {}
      BY <1>5, LoadFits
    <3>2. asked' = Append(asked, q)
      BY <2>3
    <3> HIDE DEF q
    <3>3. RequestKnown(q)
      BY <1>5, <3>1 DEF RequestKnown, RowOps
    <3>4. Grows /\ AskedFits' /\ \E j \in DOMAIN asked' : asked'[j] = q
      BY <1>6, <3>1, <3>2, <3>3, GrowsWhen
    <3>5. \E j \in DOMAIN asked' : Reload(asked[j])' /\ asked'[j].at = Pending
      BY <1>1, <3>1, <3>4 DEF Reload
    <3>6. feed[1].key # SheetList /\ \A x \in RowKeys : ~HeadTells(x)
      BY <1>4, <2>3 DEF HeadTells
    <3>7. rows' \in GridRows /\ heard' \in Nat
      BY <2>3 DEF GridInv, GridFits, PageFits
    <3> QED BY <1>1, <2>3, <3>4, <3>5, <3>6, <3>7 DEF Hears
  <2>4. CASE /\ feed[1].key \in RowKeys /\ feed[1].sheet = active
             /\ rows' = [rows EXCEPT ![feed[1].key] = feed[1].value]
             /\ heard' = feed[1].no /\ asked' = Late(asked)
    <3>1. Grows /\ AskedFits' /\ AllLate'
      BY <1>6, <2>4, GrowsWhen
    <3>2. rows \in GridRows
      BY DEF GridInv, GridFits, PageFits
    <3>3. rows' \in GridRows /\ heard' \in Nat
      BY <1>3, <2>4, <3>2 DEF GridRows, GridEvents
    <3>4. \A x \in RowKeys : HeadTells(x) => rows'[x] = feed[1].value
      BY <2>4, <3>2 DEF HeadTells, GridRows
    <3>5. \A x \in RowKeys : ~HeadTells(x) => rows'[x] = rows[x]
      BY <2>4, <3>2 DEF HeadTells, GridRows
    <3>6. ~HeadTells(AllRows) /\ feed[1].key # SheetList /\ HeadTells(feed[1].key)
      BY <1>4, <2>4 DEF HeadTells
    <3> QED BY <1>1, <2>4, <3>1, <3>3, <3>4, <3>5, <3>6 DEF Hears
  <2> QED BY <1>2, <2>1, <2>2, <2>3, <2>4 DEF Hear
<1>8. GridFits'
  BY <1>1, <1>2, <1>7 DEF GridInv, GridFits, ServerFits, PageFits
<1>9. GridIsSound'
  BY <1>1, <1>7, HearingKeepsSound DEF GridInv, Hears
<1>10. (strange = {})' => GridFollows'
  BY <1>1, <1>7, HearingKeepsFollowing DEF GridInv
<1> QED BY <1>8, <1>9, <1>10 DEF GridInv

-----------------------------------------------------------------------------
(* The user edits a cell: shown at once, then sent.                        *)
LEMMA PuttingKeepsFollowing ==
  ASSUME GridFits, GridFollows, NEW k \in RowKeys, NEW v \in CellValues,
         NEW q \in GridRequests, q.op = "patch", q.sheet = active, q.key = k, q.value = v,
         q.before = rows, q.at = Pending,
         rows' = [rows EXCEPT ![k] = v], asked' = Append(asked, q),
         UNCHANGED <<tabs, store, feed, online, heard, active>>
  PROVE  GridFollows'
<1>1. /\ DOMAIN asked' = 1 .. Len(asked) + 1 /\ DOMAIN asked = 1 .. Len(asked)
      /\ Len(asked) \in Nat /\ AskedFits'
      /\ asked'[Len(asked) + 1] = q
      /\ \A m \in DOMAIN asked : m \in DOMAIN asked' /\ asked'[m] = asked[m]
  BY AppendedOne DEF GridFits
<1>2. PICK n : n = Len(asked) + 1
  OBVIOUS
<1>3. /\ n \notin DOMAIN asked /\ n \in DOMAIN asked' /\ asked'[n] = q
      /\ \A j \in DOMAIN asked' : j \in DOMAIN asked \/ j = n
  BY <1>1, <1>2
<1>4. ASSUME NEW x, NEW m PROVE LoadTells(x, m) => LoadTells(x, m)'
  BY <1>1 DEF LoadTells, Tells, Reload
<1>5. RepliesAreOvertaken'
  <2> SUFFICES ASSUME active \in tabs, NEW j \in DOMAIN asked', NEW x \in RowKeys,
                      ShowsRows(asked[j])'
               PROVE  Overtaken(asked[j], x)'
    BY DEF RepliesAreOvertaken
  <2>1. j \in DOMAIN asked /\ asked'[j] = asked[j]
    BY <1>1, <1>3 DEF ShowsRows, HasRows, Pending
  <2>2. Overtaken(asked[j], x)
    BY <2>1 DEF GridFollows, RepliesAreOvertaken, ShowsRows, HasRows
  <2>3. LoadTells(x, asked[j].at) => LoadTells(x, asked[j].at)'
    BY <1>1, <2>1 DEF LoadTells, Tells, Reload
  <2> QED BY <2>1, <2>2, <2>3 DEF Overtaken, RowIsComing, OlderComes, EventFor
<1>6. RowsFollow'
  <2> SUFFICES ASSUME active \in tabs, NEW x \in RowKeys PROVE RowFollows(x)'
    BY DEF RowsFollow
  <2>1. RowFollows(x)
    BY DEF GridFollows, RowsFollow
  <2>2. EditIsLate(x) => EditIsLate(x)'
    BY <1>1 DEF EditIsLate, Unresolved
  <2>3. rows \in GridRows
    BY DEF GridFits, PageFits
  <2>4. CASE x # k
    <3>1. EditsTo(x)' = EditsTo(x) /\ EditsFrom(x)' = EditsFrom(x)
      BY <1>1, <1>3, <2>4 DEF EditsTo, EditsFrom, Unresolved
    <3>2. rows'[x] = rows[x]
      BY <2>3, <2>4 DEF GridRows
    <3>3. Balanced(x) => Balanced(x)'
      BY <3>1, <3>2 DEF Balanced, Off
    <3> QED BY <1>4, <2>1, <2>2, <3>3, FollowsStay
  <2>5. CASE x = k
    <3>1. rows'[x] = v
      BY <2>3, <2>5 DEF GridRows
    <3>2. EditsTo(x)' = IF v = store[active][x] THEN EditsTo(x) \cup {n} ELSE EditsTo(x)
      BY <1>1, <1>3, <2>5 DEF EditsTo, Unresolved, Pending
    <3>3. EditsFrom(x)' = IF rows[x] = store[active][x] THEN EditsFrom(x) \cup {n} ELSE EditsFrom(x)
      BY <1>1, <1>3, <2>5 DEF EditsFrom, Unresolved, Pending
    <3>4. /\ IsFiniteSet(EditsTo(x)) /\ Cardinality(EditsTo(x)) \in Nat
          /\ IsFiniteSet(EditsFrom(x)) /\ Cardinality(EditsFrom(x)) \in Nat
          /\ n \notin EditsTo(x) /\ n \notin EditsFrom(x)
      <4>1. AskedFits
        BY DEF GridFits
      <4> QED BY <1>3, <4>1, EditsAreFinite DEF EditsTo, EditsFrom
    <3>5. Cardinality(EditsTo(x)') = Cardinality(EditsTo(x)) + 1 - Off(x)'
      <4>1. CASE v = store[active][x]
        <5>1. EditsTo(x)' = EditsTo(x) \cup {n} /\ Off(x)' = 0
          BY <3>1, <3>2, <4>1 DEF Off
        <5>2. Cardinality(EditsTo(x) \cup {n}) = Cardinality(EditsTo(x)) + 1
          BY <3>4, FS_AddElement
        <5> QED BY <3>4, <5>1, <5>2
      <4>2. CASE v # store[active][x]
        BY <3>1, <3>2, <3>4, <4>2 DEF Off
      <4> QED BY <4>1, <4>2
    <3>6. Cardinality(EditsFrom(x)') = Cardinality(EditsFrom(x)) + 1 - Off(x)
      <4>1. CASE rows[x] = store[active][x]
        <5>1. EditsFrom(x)' = EditsFrom(x) \cup {n} /\ Off(x) = 0
          BY <3>3, <4>1 DEF Off
        <5>2. Cardinality(EditsFrom(x) \cup {n}) = Cardinality(EditsFrom(x)) + 1
          BY <3>4, FS_AddElement
        <5> QED BY <3>4, <5>1, <5>2
      <4>2. CASE rows[x] # store[active][x]
        BY <3>3, <3>4, <4>2 DEF Off
      <4> QED BY <4>1, <4>2
    <3>7. Off(x) \in Int /\ Off(x)' \in Int
      BY DEF Off
    <3>8. Balanced(x) => Balanced(x)'
      BY <3>4, <3>5, <3>6, <3>7 DEF Balanced
    <3> QED BY <1>4, <2>1, <2>2, <3>8, FollowsStay
  <2> QED BY <2>4, <2>5
<1>7. OrphansAreTold'
  BY <1>1 DEF GridFollows, OrphansAreTold, OrphanIsTold, Reload, ListTells
<1> QED BY <1>5, <1>6, <1>7 DEF GridFollows

LEMMA PutKeepsGrid ==
  ASSUME GridInv, NEW k \in RowKeys, NEW v \in CellValues, Put(k, v), UNCHANGED server,
         undo' \in Seq(GridEdits), redo' \in Seq(GridEdits)
  PROVE  GridInv'
<1>1. /\ UNCHANGED <<tabs, made, store, clock, feed, online, heard, active, loading, strange>>
      /\ editing' \in BOOLEAN
  BY DEF Put, server
<1>2. CASE rows[k] = Gone
  <2>1. rows' = rows /\ asked' = asked
    BY <1>2 DEF Put
  <2> QED BY <1>1, <2>1, QuietKeepsGrid
<1>3. CASE rows[k] # Gone
  <2> DEFINE q == [Asking("patch", active) EXCEPT !.key = k, !.value = v, !.before = rows]
  <2>1. active \in Tabs \cup {Nowhere} /\ active \in made \cup {Nowhere} /\ rows \in GridRows
    BY DEF GridInv, GridFits, PageFits, ServerFits
  <2>2. "patch" \in GridOps /\ k \in GridKeys /\ v \in CellValues \cup {Gone}
    BY DEF GridOps, GridKeys
  <2>3. Asking("patch", active) \in GridRequests
    BY <2>1, <2>2, AskingFits
  <2>4. q \in GridRequests
    BY <2>1, <2>2, <2>3, ChangedFits
  <2>5. /\ q.op = "patch" /\ q.sheet = active /\ q.key = k /\ q.value = v
        /\ q.before = rows /\ q.at = Pending /\ q.list = {}
    BY <2>1, <2>2, <2>3, AskingFits DEF GridRequests
  <2>6. asked' = Append(asked, q) /\ rows' = [rows EXCEPT ![k] = v]
    BY <1>3 DEF Put
  <2> HIDE DEF q
  <2>7. RequestKnown(q)
    BY <2>1, <2>5 DEF RequestKnown, RowOps
  <2>8. /\ AskedFits' /\ asked'[Len(asked) + 1] = q
        /\ \A m \in DOMAIN asked : m \in DOMAIN asked' /\ asked'[m] = asked[m]
    BY <2>4, <2>6, AppendedOne DEF GridInv, GridFits
  <2>9. NoneAnswered
    BY <2>4, <2>5, <2>6, <2>7, NoneAnsweredWhen DEF GridInv, GridFits
  <2>10. rows' \in GridRows
    BY <2>1, <2>6 DEF GridRows
  <2>11. GridFits'
    BY <1>1, <2>8, <2>10 DEF GridInv, GridFits, ServerFits, PageFits
  <2>12. RequestsKnown' /\ FeedOrdered' /\ AnswersKnown' /\ FeedIsTrue' /\ RepliesAreTrue'
    BY <1>1, <2>8, <2>9, SoundKept DEF GridInv
  <2>13. LoadingIsWaited'
    BY <1>1, <2>8 DEF GridInv, GridIsSound, LoadingIsWaited, FirstAsked
  <2>14. (strange = {})' => GridFollows'
    BY <1>1, <2>4, <2>5, <2>6, PuttingKeepsFollowing DEF GridInv
  <2> QED BY <2>11, <2>12, <2>13, <2>14 DEF GridInv, GridIsSound
<1> QED BY <1>2, <1>3

LEMMA HistoryFits ==
  ASSUME NEW s \in Seq(GridEdits), NEW b \in GridEdits
  PROVE  /\ Append(s, b) \in Seq(GridEdits) /\ Newest(Append(s, b)) \in Seq(GridEdits)
         /\ s # <<>> => /\ s[Len(s)] \in GridEdits
                        /\ SubSeq(s, 1, Len(s) - 1) \in Seq(GridEdits)
<1>1. Append(s, b) \in Seq(GridEdits) /\ Append(s, b) # <<>>
  <2>1. Append(s, b) \in Seq(GridEdits) /\ Len(Append(s, b)) = Len(s) + 1 /\ Len(s) \in Nat
    OBVIOUS
  <2>2. Len(Append(s, b)) # 0
    BY <2>1
  <2> QED BY <2>1, <2>2
<1>2. \A z \in Seq(GridEdits) : z # <<>> => Tail(z) \in Seq(GridEdits)
  OBVIOUS
<1>3. Newest(Append(s, b)) \in Seq(GridEdits)
  BY <1>1, <1>2 DEF Newest
<1>4. ASSUME s # <<>>
      PROVE  s[Len(s)] \in GridEdits /\ SubSeq(s, 1, Len(s) - 1) \in Seq(GridEdits)
  <2>1. Len(s) \in DOMAIN s /\ Len(s) - 1 \in Nat
    BY <1>4
  <2>2. s[Len(s)] \in GridEdits
    BY <2>1, ElementOfSeq
  <2>3. SubSeq(s, 1, Len(s) - 1) \in Seq(GridEdits)
    BY <2>1
  <2> QED BY <2>2, <2>3
<1> QED BY <1>1, <1>3, <1>4

LEMMA EditingKeepsGrid ==
  ASSUME GridInv, onRowsChange \/ handleUndo \/ handleRedo
  PROVE  GridInv'
<1>1. undo \in Seq(GridEdits) /\ redo \in Seq(GridEdits) /\ rows \in GridRows
  BY DEF GridInv, GridFits, PageFits
<1>2. UNCHANGED server
  BY DEF onRowsChange, handleUndo, handleRedo, Acting
<1>3. CASE onRowsChange
  <2>1. PICK k \in RowKeys, v \in CellValues :
          /\ rows[k] \notin {Gone, v} /\ Put(k, v)
          /\ undo' = Newest(Append(undo, collectEdits(k, v))) /\ redo' = <<>>
    BY <1>3 DEF onRowsChange
  <2>2. collectEdits(k, v) \in GridEdits
    <3>1. rows[k] \in CellValues
      BY <1>1, <2>1 DEF GridRows
    <3> QED BY <3>1 DEF collectEdits, GridEdits
  <2>3. undo' \in Seq(GridEdits)
    BY <1>1, <2>1, <2>2, HistoryFits
  <2> <<>> \in Seq(GridEdits)
    OBVIOUS
  <2>4. redo' \in Seq(GridEdits)
    BY <2>1, Zenon
  <2> QED BY <1>2, <2>1, <2>3, <2>4, PutKeepsGrid
<1>4. CASE handleUndo
  <2>1. PICK b : b = undo[Len(undo)]
    OBVIOUS
  <2>2. /\ undo # <<>> /\ Put(b.key, b.before) /\ redo' = Append(redo, b)
        /\ undo' = SubSeq(undo, 1, Len(undo) - 1)
    BY <1>4, <2>1 DEF handleUndo
  <2>3. b \in GridEdits /\ undo' \in Seq(GridEdits)
    BY <1>1, <2>1, <2>2, HistoryFits
  <2>4. b.key \in RowKeys /\ b.before \in CellValues /\ redo' \in Seq(GridEdits)
    BY <1>1, <2>2, <2>3, HistoryFits DEF GridEdits
  <2> QED BY <1>2, <2>2, <2>3, <2>4, PutKeepsGrid
<1>5. CASE handleRedo
  <2>1. PICK b : b = redo[Len(redo)]
    OBVIOUS
  <2>2. /\ redo # <<>> /\ Put(b.key, b.after) /\ undo' = Newest(Append(undo, b))
        /\ redo' = SubSeq(redo, 1, Len(redo) - 1)
    BY <1>5, <2>1 DEF handleRedo
  <2>3. b \in GridEdits /\ redo' \in Seq(GridEdits)
    BY <1>1, <2>1, <2>2, HistoryFits
  <2>4. b.key \in RowKeys /\ b.after \in CellValues /\ undo' \in Seq(GridEdits)
    BY <1>1, <2>2, <2>3, HistoryFits DEF GridEdits
  <2> QED BY <1>2, <2>2, <2>3, <2>4, PutKeepsGrid
<1> QED BY <1>3, <1>4, <1>5

-----------------------------------------------------------------------------
(* A request is answered, refused or lost, and gone.                       *)
LEMMA CountsWithoutOne ==
  ASSUME AskedFits, NEW i \in DOMAIN asked, AskedFits', ShorterBy(i), NEW T \in SUBSET DOMAIN asked
  PROVE  Cardinality({j \in DOMAIN asked' : Before(i, j) \in T}) = Cardinality(T \ {i})
<1> DEFINE U == {j \in DOMAIN asked' : Before(i, j) \in T}
           f == [j \in U |-> Before(i, j)]
<1>1. DOMAIN asked \subseteq Int /\ DOMAIN asked' \subseteq Int
  BY DEF AskedFits
<1>2. \A j \in U : Before(i, j) \in T \ {i}
  BY DEF ShorterBy
<1>3. f \in [U -> T \ {i}]
  BY <1>2
<1>4. ASSUME NEW a \in U, NEW b \in U, f[a] = f[b]
      PROVE  a = b
  <2>1. a \in Int /\ b \in Int /\ i \in Int /\ Before(i, a) = Before(i, b)
    BY <1>1, <1>4
  <2> QED BY <2>1 DEF Before
<1>5. ASSUME NEW m \in T \ {i}
      PROVE  \E j \in U : f[j] = m
  <2>1. m \in DOMAIN asked /\ m # i
    OBVIOUS
  <2>2. After(i, m) \in DOMAIN asked' /\ Before(i, After(i, m)) = m
    BY <2>1 DEF ShorterBy
  <2>3. PICK j : j = After(i, m)
    OBVIOUS
  <2>4. j \in U /\ f[j] = m
    BY <2>2, <2>3
  <2> QED BY <2>4
<1>6. f \in Bijection(U, T \ {i})
  BY <1>3, <1>4, <1>5 DEF Bijection, Injection, Surjection, IsInjective
<1>7. IsFiniteSet(U)
  <2>1. IsFiniteSet(DOMAIN asked')
    BY FS_Interval DEF AskedFits
  <2> QED BY <2>1, FS_Subset
<1>8. ExistsBijection(U, T \ {i})
  BY <1>6 DEF ExistsBijection
<1> HIDE DEF U, f
<1>9. Cardinality(T \ {i}) = Cardinality(U)
  BY <1>7, <1>8, FS_Bijection
<1> QED BY <1>9 DEF U

LEMMA EditsWithoutOne ==
  ASSUME AskedFits, NEW i \in DOMAIN asked, AskedFits', ShorterBy(i), UNCHANGED <<store, active>>,
         NEW x
  PROVE  /\ Cardinality(EditsTo(x)') = Cardinality(EditsTo(x) \ {i})
         /\ Cardinality(EditsFrom(x)') = Cardinality(EditsFrom(x) \ {i})
<1>1. \A j \in DOMAIN asked' :
        Before(i, j) \in DOMAIN asked /\ SameRequest(asked'[j], asked[Before(i, j)])
  BY DEF ShorterBy
<1>2. EditsTo(x)' = {j \in DOMAIN asked' : Before(i, j) \in EditsTo(x)}
  BY <1>1 DEF EditsTo, Unresolved, SameRequest
<1>3. EditsFrom(x)' = {j \in DOMAIN asked' : Before(i, j) \in EditsFrom(x)}
  BY <1>1 DEF EditsFrom, Unresolved, SameRequest
<1>4. EditsTo(x) \in SUBSET DOMAIN asked /\ EditsFrom(x) \in SUBSET DOMAIN asked
  BY DEF EditsTo, EditsFrom
<1>5. Cardinality({j \in DOMAIN asked' : Before(i, j) \in EditsTo(x)}) = Cardinality(EditsTo(x) \ {i})
  BY <1>4, CountsWithoutOne
<1>6. Cardinality({j \in DOMAIN asked' : Before(i, j) \in EditsFrom(x)})
        = Cardinality(EditsFrom(x) \ {i})
  BY <1>4, CountsWithoutOne
<1> QED BY <1>2, <1>3, <1>5, <1>6

(* What is still waited for when request i is gone.                        *)
LEMMA GoneKeepsOthers ==
  ASSUME NEW i \in DOMAIN asked, ShorterBy(i), UNCHANGED <<store, active>>
  PROVE  /\ \A x, n, m : (m \in DOMAIN asked /\ m # i /\ Tells(asked[m], x, n)) => LoadTells(x, n)'
         /\ \A x : EditIsLate(x) => \/ EditIsLate(x)'
                                    \/ Unresolved(asked[i], x) /\ asked[i].late
<1>1. \A m \in DOMAIN asked : m # i => /\ After(i, m) \in DOMAIN asked'
                                       /\ SameRequest(asked'[After(i, m)], asked[m])
  BY DEF ShorterBy
<1>2. ASSUME NEW x, NEW n, NEW m \in DOMAIN asked, m # i, Tells(asked[m], x, n)
      PROVE  LoadTells(x, n)'
  <2>1. PICK j \in DOMAIN asked' : SameRequest(asked'[j], asked[m])
    BY <1>1, <1>2
  <2> QED BY <1>2, <2>1 DEF LoadTells, Tells, Reload, SameRequest
<1>3. ASSUME NEW x, NEW m \in DOMAIN asked, m # i, Unresolved(asked[m], x), asked[m].late
      PROVE  EditIsLate(x)'
  <2>1. PICK j \in DOMAIN asked' : SameRequest(asked'[j], asked[m])
    BY <1>1, <1>3
  <2> QED BY <1>3, <2>1 DEF EditIsLate, Unresolved, SameRequest
<1> QED BY <1>2, <1>3 DEF EditIsLate

(* The replies that remain are overtaken as before, if the reply that is   *)
(* gone was none they waited for or leaves a newer change heard.           *)
LEMMA GoneKeepsOvertaken ==
  ASSUME GridFits, GridFollows, NEW i \in DOMAIN asked, AskedFits', ShorterBy(i),
         UNCHANGED <<tabs, store, feed, online, active>>,
         heard' >= heard, heard' \in Int,
         Reload(asked[i]) => asked[i].at <= heard' /\ asked[i].at # Pending
  PROVE  RepliesAreOvertaken'
<1> SUFFICES ASSUME active \in tabs, NEW j \in DOMAIN asked', NEW x \in RowKeys,
                    ShowsRows(asked[j])'
             PROVE  Overtaken(asked[j], x)'
  BY DEF RepliesAreOvertaken
<1>1. PICK m \in DOMAIN asked : m # i /\ SameRequest(asked'[j], asked[m])
  BY DEF ShorterBy
<1>2. PICK n : n = asked[m].at
  OBVIOUS
<1>3. n \in Int /\ asked'[j].at = n /\ heard \in Int /\ asked[i].at \in Int
  BY <1>1, <1>2, AskedIsRequest DEF SameRequest, GridFits, PageFits
<1>4. Overtaken(asked[m], x)
  BY <1>1 DEF GridFollows, RepliesAreOvertaken, ShowsRows, HasRows, SameRequest
<1>5. CASE LoadTells(x, asked[m].at)
  <2>1. PICK l \in DOMAIN asked : Tells(asked[l], x, n)
    BY <1>2, <1>5 DEF LoadTells
  <2>2. CASE l # i
    <3>1. LoadTells(x, n)'
      BY <2>1, <2>2, GoneKeepsOthers
    <3>2. LoadTells(x, asked[j].at)'
      BY <1>3, <3>1 DEF LoadTells, Tells, Reload
    <3> QED BY <3>2 DEF Overtaken
  <2>3. CASE l = i
    <3>1. asked[i].at > n /\ asked[i].at <= heard'
      BY <2>1, <2>3 DEF Tells
    <3>2. heard' > n
      BY <1>3, <3>1
    <3> QED BY <1>3, <3>2 DEF Overtaken
  <2> QED BY <2>2, <2>3
<1>6. CASE heard > asked[m].at
  <2>1. heard' > n
    BY <1>2, <1>3, <1>6
  <2> QED BY <1>3, <2>1 DEF Overtaken
<1>7. CASE RowIsComing(asked[m], x) \/ OlderComes(asked[m]) \/ ~online
  BY <1>1, <1>7 DEF Overtaken, RowIsComing, OlderComes, SameRequest, EventFor
<1> QED BY <1>4, <1>5, <1>6, <1>7 DEF Overtaken

LEMMA GoneKeepsOrphansTold ==
  ASSUME GridFollows, NEW i \in DOMAIN asked, ShorterBy(i),
         UNCHANGED <<tabs, feed, online, active>>,
         ~(Reload(asked[i]) /\ asked[i].at < 0), ~ListTells(asked[i])
  PROVE  OrphansAreTold'
<1> SUFFICES ASSUME active \notin tabs, tabs # {} PROVE OrphanIsTold'
  BY DEF OrphansAreTold
<1>1. CASE \E m \in DOMAIN asked : (Reload(asked[m]) /\ asked[m].at < 0) \/ ListTells(asked[m])
  <2>1. PICK m \in DOMAIN asked : (Reload(asked[m]) /\ asked[m].at < 0) \/ ListTells(asked[m])
    BY <1>1
  <2>2. PICK j \in DOMAIN asked' : SameRequest(asked'[j], asked[m])
    BY <2>1 DEF ShorterBy
  <2> QED BY <2>1, <2>2 DEF OrphanIsTold, Reload, ListTells, SameRequest
<1> QED BY <1>1 DEF GridFollows, OrphansAreTold, OrphanIsTold

(* A request nobody waits for is gone: nothing else changes.               *)
LEMMA GoneKeepsFollowing ==
  ASSUME GridFits, GridFollows, NEW i \in DOMAIN asked, AskedFits', ShorterBy(i),
         UNCHANGED <<tabs, store, feed, online, heard, active, rows>>,
         ~Reload(asked[i]), ~ListTells(asked[i]), \A x : ~Unresolved(asked[i], x)
  PROVE  GridFollows'
<1>1. RepliesAreOvertaken'
  BY GoneKeepsOvertaken DEF GridFits, PageFits
<1>2. OrphansAreTold'
  BY GoneKeepsOrphansTold
<1>3. RowsFollow'
  <2> SUFFICES ASSUME active \in tabs, NEW x \in RowKeys PROVE RowFollows(x)'
    BY DEF RowsFollow
  <2>1. RowFollows(x)
    BY DEF GridFollows, RowsFollow
  <2>2. LoadTells(x, -1) => LoadTells(x, -1)'
    BY GoneKeepsOthers DEF LoadTells, Tells
  <2>3. EditIsLate(x) => EditIsLate(x)'
    BY GoneKeepsOthers
  <2>4. EditsTo(x) \ {i} = EditsTo(x) /\ EditsFrom(x) \ {i} = EditsFrom(x)
    BY DEF EditsTo, EditsFrom
  <2>5. /\ Cardinality(EditsTo(x)') = Cardinality(EditsTo(x))
        /\ Cardinality(EditsFrom(x)') = Cardinality(EditsFrom(x))
    BY <2>4, EditsWithoutOne DEF GridFits
  <2>6. Balanced(x) => Balanced(x)'
    BY <2>5 DEF Balanced, Off
  <2> QED BY <2>1, <2>2, <2>3, <2>6, FollowsStay
<1> QED BY <1>1, <1>2, <1>3 DEF GridFollows

(* An edit is rolled back that shows what it put there, and that nothing   *)
(* was told about: the edits that remain are as balanced as before.        *)
LEMMA RollBackKeepsFollowing ==
  ASSUME GridFits, GridFollows, NEW i \in DOMAIN asked, AskedFits', ShorterBy(i),
         UNCHANGED <<tabs, store, feed, online, heard, active>>,
         asked[i].op = "patch", asked[i].sheet = active, ~asked[i].late, asked[i].at < 0,
         rows = [asked[i].before EXCEPT ![asked[i].key] = asked[i].value],
         rows' = asked[i].before
  PROVE  GridFollows'
<1>1. RepliesAreOvertaken'
  BY GoneKeepsOvertaken DEF GridFits, PageFits, Reload
<1>2. OrphansAreTold'
  BY GoneKeepsOrphansTold DEF Reload, ListTells
<1>3. RowsFollow'
  <2> SUFFICES ASSUME active \in tabs, NEW x \in RowKeys PROVE RowFollows(x)'
    BY DEF RowsFollow
  <2>1. RowFollows(x)
    BY DEF GridFollows, RowsFollow
  <2>2. LoadTells(x, -1) => LoadTells(x, -1)'
    <3>1. ASSUME NEW m \in DOMAIN asked, Tells(asked[m], x, -1) PROVE m # i
      BY <3>1 DEF Tells, Reload
    <3> QED BY <3>1, GoneKeepsOthers DEF LoadTells
  <2>3. EditIsLate(x) => EditIsLate(x)'
    BY GoneKeepsOthers
  <2>4. /\ Cardinality(EditsTo(x)') = Cardinality(EditsTo(x) \ {i})
        /\ Cardinality(EditsFrom(x)') = Cardinality(EditsFrom(x) \ {i})
    BY EditsWithoutOne DEF GridFits
  <2>5. asked[i].before \in GridRows
    <3>1. asked[i] \in GridRequests
      BY AskedIsRequest DEF GridFits
    <3> QED BY <3>1 DEF GridRequests
  <2>6. /\ IsFiniteSet(EditsTo(x)) /\ Cardinality(EditsTo(x)) \in Nat
        /\ IsFiniteSet(EditsFrom(x)) /\ Cardinality(EditsFrom(x)) \in Nat
    BY EditsAreFinite DEF GridFits
  <2>7. Balanced(x) => Balanced(x)'
    <3>1. CASE asked[i].key # x
      <4>1. EditsTo(x) \ {i} = EditsTo(x) /\ EditsFrom(x) \ {i} = EditsFrom(x)
        BY <3>1 DEF EditsTo, EditsFrom, Unresolved
      <4>2. rows'[x] = rows[x]
        BY <2>5, <3>1 DEF GridRows
      <4> QED BY <2>4, <4>1, <4>2 DEF Balanced, Off
    <3>2. CASE asked[i].key = x
      <4>1. Unresolved(asked[i], x)
        BY <3>2 DEF Unresolved
      <4>2. rows[x] = asked[i].value
        BY <2>5, <3>2 DEF GridRows
      <4>3. i \in EditsTo(x) <=> Off(x) = 0
        BY <4>1, <4>2 DEF EditsTo, Off
      <4>4. i \in EditsFrom(x) <=> Off(x)' = 0
        BY <4>1 DEF EditsFrom, Off
      <4>5. Off(x) \in {0, 1} /\ Off(x)' \in {0, 1}
        BY DEF Off
      <4>6. Cardinality(EditsTo(x) \ {i})
              = IF i \in EditsTo(x) THEN Cardinality(EditsTo(x)) - 1 ELSE Cardinality(EditsTo(x))
        BY <2>6, FS_RemoveElement
      <4>7. Cardinality(EditsFrom(x) \ {i})
              = IF i \in EditsFrom(x) THEN Cardinality(EditsFrom(x)) - 1
                ELSE Cardinality(EditsFrom(x))
        BY <2>6, FS_RemoveElement
      <4>8. Cardinality(EditsTo(x)') = Cardinality(EditsTo(x)) - 1 + Off(x)
        BY <2>4, <2>6, <4>3, <4>5, <4>6
      <4>9. Cardinality(EditsFrom(x)') = Cardinality(EditsFrom(x)) - 1 + Off(x)'
        BY <2>4, <2>6, <4>4, <4>5, <4>7
      <4> QED BY <2>6, <4>5, <4>8, <4>9 DEF Balanced
    <3> QED BY <3>1, <3>2
  <2> QED BY <2>1, <2>2, <2>3, <2>7, FollowsStay
<1> QED BY <1>1, <1>2, <1>3 DEF GridFollows

(* The rows of a reply replace those shown, and what was followed before   *)
(* is followed still: all edits on their way are late now.                 *)
LEMMA TakingKeepsFollowing ==
  ASSUME GridFits, GridIsSound, GridFollows, NEW i \in DOMAIN asked, HasRows(asked[i]),
         AskedFits', ShorterBy(i), AllLate',
         UNCHANGED <<tabs, store, feed, online, active>>,
         rows' = asked[i].got, heard' = Later(asked[i].at),
         asked[i].sheet # active => rows = asked[i].got,
         asked[i].at < heard => rows = asked[i].got
  PROVE  GridFollows'
<1>1. PICK n \in Int : n = asked[i].at /\ n >= 0
  BY AskedIsRequest DEF HasRows, GridFits
<1>2. heard \in Nat /\ heard' \in Int /\ heard' >= heard /\ n <= heard'
  BY <1>1 DEF Later, GridFits, PageFits
<1>3. RepliesAreOvertaken'
  BY <1>1, <1>2, GoneKeepsOvertaken DEF Pending
<1>4. OrphansAreTold'
  BY <1>1, GoneKeepsOrphansTold DEF HasRows, ListTells, RowOps
<1>5. RowsFollow'
  <2> SUFFICES ASSUME active \in tabs, NEW x \in RowKeys PROVE RowFollows(x)'
    BY DEF RowsFollow
  <2>1. RowFollows(x)
    BY DEF GridFollows, RowsFollow
  <2>2. rows'[x] = store[active][x] => RowFollows(x)'
    <3> SUFFICES ASSUME rows'[x] = store[active][x] PROVE RowFollows(x)'
      OBVIOUS
    <3>1. CASE \A j \in DOMAIN asked' : ~Unresolved(asked[j], x)'
      <4>1. EditsTo(x)' = {} /\ EditsFrom(x)' = {}
        BY <3>1 DEF EditsTo, EditsFrom
      <4>2. Balanced(x)'
        BY <4>1, FS_EmptySet DEF Balanced, Off
      <4> QED BY <4>2 DEF RowFollows
    <3>2. CASE \E j \in DOMAIN asked' : Unresolved(asked[j], x)'
      BY <3>2 DEF RowFollows, EditIsLate, AllLate, Unresolved
    <3> QED BY <3>1, <3>2
  <2>3. EventComes(x) \/ ~online => RowFollows(x)'
    BY DEF RowFollows, EventComes, EventFor
  <2>4. RowIsComing(asked[i], x) => RowFollows(x)'
    BY <2>2, <2>3 DEF RowIsComing, EventComes
  <2>5. ASSUME rows = asked[i].got
        PROVE  RowFollows(x)'
    <3>1. CASE EditIsLate(x)
      <4>1. ~Unresolved(asked[i], x)
        BY <1>1 DEF Unresolved
      <4> QED BY <3>1, <4>1, GoneKeepsOthers DEF RowFollows
    <3>2. CASE LoadTells(x, -1)
      <4>1. PICK m \in DOMAIN asked : Tells(asked[m], x, -1)
        BY <3>2 DEF LoadTells
      <4>2. CASE m = i
        BY <1>1, <2>2, <4>1, <4>2 DEF Tells, Pending
      <4>3. CASE m # i
        BY <4>1, <4>3, GoneKeepsOthers DEF RowFollows
      <4> QED BY <4>2, <4>3
    <3>3. CASE Balanced(x)
      <4>1. CASE \A j \in DOMAIN asked : ~Unresolved(asked[j], x)
        BY <2>2, <2>5, <3>3, <4>1, BalancedWithoutEdits
      <4>2. CASE \E j \in DOMAIN asked : Unresolved(asked[j], x)
        <5>1. PICK m \in DOMAIN asked : Unresolved(asked[m], x)
          BY <4>2
        <5>2. m # i
          BY <1>1, <5>1 DEF Unresolved
        <5>3. PICK j \in DOMAIN asked' : SameRequest(asked'[j], asked[m])
          BY <5>2 DEF ShorterBy
        <5> QED BY <5>1, <5>3 DEF RowFollows, EditIsLate, AllLate, Unresolved, SameRequest
      <4> QED BY <4>1, <4>2
    <3> QED BY <2>1, <2>3, <3>1, <3>2, <3>3 DEF RowFollows
  <2>6. CASE asked[i].sheet = active /\ ~(n < heard)
    <3>1. ShowsRows(asked[i])
      BY <2>6 DEF ShowsRows
    <3>2. Overtaken(asked[i], x)
      BY <3>1 DEF GridFollows, RepliesAreOvertaken
    <3>3. CASE OlderComes(asked[i])
      <4>1. RowIsComing(asked[i], x)
        BY <3>1, <3>3 DEF GridIsSound, RepliesAreTrue
      <4> QED BY <2>4, <4>1
    <3>4. CASE LoadTells(x, asked[i].at)
      <4>1. PICK m \in DOMAIN asked : Tells(asked[m], x, n)
        BY <1>1, <3>4 DEF LoadTells
      <4>2. m # i
        BY <1>1, <4>1 DEF Tells, Pending
      <4>3. asked[m].at \in Int
        BY AskedIsRequest DEF GridFits
      <4>4. Tells(asked[m], x, -1)
        BY <1>1, <4>1, <4>3 DEF Tells
      <4> QED BY <4>2, <4>4, GoneKeepsOthers DEF RowFollows
    <3>5. ~(heard > asked[i].at)
      BY <1>1, <1>2, <2>6
    <3> QED BY <2>3, <2>4, <3>2, <3>3, <3>4, <3>5 DEF Overtaken
  <2> QED BY <1>1, <2>5, <2>6
<1> QED BY <1>3, <1>4, <1>5 DEF GridFollows

(* A reply that is still true cures a grid that went wrong.                *)
LEMMA CuringFollows ==
  ASSUME GridFits, GridIsSound, NEW i \in DOMAIN asked, HasRows(asked[i]), Cures(asked[i]),
         AskedFits', ShorterBy(i),
         UNCHANGED <<tabs, store, feed, online, active>>,
         rows' = asked[i].got, heard' = Later(asked[i].at)
  PROVE  GridFollows'
<1>1. PICK n \in Int : n = asked[i].at
  BY AskedIsRequest DEF GridFits
<1>2. clock \in Nat /\ heard \in Nat
  BY DEF GridFits, ServerFits, PageFits
<1>3. n = clock /\ active \in tabs /\ asked[i].got = store[active]
  BY <1>1, <1>2 DEF Cures, GridIsSound, AnswersKnown, AnswerKnown
<1>4. heard' = clock
  BY <1>1, <1>2, <1>3 DEF Later, Cures
<1>5. \A j \in DOMAIN asked' : \E m \in DOMAIN asked : SameRequest(asked'[j], asked[m])
  BY DEF ShorterBy
<1>6. RepliesAreOvertaken'
  <2> SUFFICES ASSUME NEW j \in DOMAIN asked', NEW x \in RowKeys, ShowsRows(asked[j])'
               PROVE  Overtaken(asked[j], x)'
    BY DEF RepliesAreOvertaken
  <2>1. PICK m \in DOMAIN asked : SameRequest(asked'[j], asked[m])
    BY <1>5
  <2>2. asked[m].at \in Int /\ asked[m].at <= clock
    BY AskedIsRequest DEF GridFits, GridIsSound, AnswersKnown, AnswerKnown
  <2>3. CASE asked[m].at < clock
    BY <1>4, <2>1, <2>3 DEF Overtaken, SameRequest
  <2>4. CASE asked[m].at = clock
    BY <2>1, <2>4 DEF Overtaken, RowIsComing, SameRequest, ShowsRows, HasRows, GridIsSound, AnswersKnown,
                      AnswerKnown
  <2> QED BY <1>2, <2>2, <2>3, <2>4
<1>7. RowsFollow'
  <2> SUFFICES ASSUME NEW x \in RowKeys PROVE RowFollows(x)'
    BY DEF RowsFollow
  <2>1. \A j \in DOMAIN asked' : ~Unresolved(asked[j], x)'
    BY <1>5 DEF Cures, Unresolved, SameRequest
  <2>2. EditsTo(x)' = {} /\ EditsFrom(x)' = {}
    BY <2>1 DEF EditsTo, EditsFrom
  <2>3. Balanced(x)'
    BY <1>3, <2>2, FS_EmptySet DEF Balanced, Off
  <2> QED BY <2>3 DEF RowFollows
<1>8. OrphansAreTold'
  BY <1>3 DEF OrphansAreTold
<1> QED BY <1>6, <1>7, <1>8 DEF GridFollows

LEMMA GoneKeepsSound ==
  ASSUME GridInv, NEW i \in DOMAIN asked, AskedFits', ShorterBy(i),
         UNCHANGED <<tabs, made, store, clock, feed, online, active>>,
         loading' => loading /\ ~(asked[i].op = "load" /\ asked[i].first),
         "jumped" \in strange => "jumped" \in strange'
  PROVE  GridIsSound'
<1>1. NoneAnswered
  BY NoneAnsweredWhen DEF GridInv, GridFits
<1>2. RequestsKnown' /\ FeedOrdered' /\ AnswersKnown' /\ FeedIsTrue' /\ RepliesAreTrue'
  BY <1>1, SoundKept DEF GridInv
<1>3. LoadingIsWaited'
  BY FirstStaysAsked DEF GridInv, GridIsSound, LoadingIsWaited
<1> QED BY <1>2, <1>3 DEF GridIsSound

LEMMA QuietGoneKeepsGrid ==
  ASSUME GridInv, NEW i \in DOMAIN asked, asked' = AnswersWithout(i),
         UNCHANGED <<server, feed, online, page>>,
         asked[i].op # "load", ~ListTells(asked[i]), \A x : ~Unresolved(asked[i], x)
  PROVE  GridInv'
<1>1. AskedFits' /\ ShorterBy(i)
  BY RemovedOne DEF GridInv, GridFits
<1>2. UNCHANGED <<tabs, made, store, clock, feed, online, heard, active, rows, loading, error, last,
                  editing, undo, redo, strange>>
  BY DEF server, page
<1>3. GridFits'
  BY <1>1, <1>2 DEF GridInv, GridFits, ServerFits, PageFits
<1>4. GridIsSound'
  BY <1>1, <1>2, GoneKeepsSound
<1>5. ~Reload(asked[i])
  BY DEF Reload
<1>6. (strange = {})' => GridFollows'
  BY <1>1, <1>2, <1>5, GoneKeepsFollowing DEF GridInv
<1> QED BY <1>3, <1>4, <1>6 DEF GridInv

LEMMA FailingKeepsGrid ==
  ASSUME GridInv, NEW i \in DOMAIN asked, Failed(asked[i]), asked' = AnswersWithout(i),
         UNCHANGED <<server, feed, online>>
  PROVE  GridInv'
<1>1. AskedFits' /\ ShorterBy(i)
  BY RemovedOne DEF GridInv, GridFits
<1>2. UNCHANGED <<tabs, made, store, clock, feed, online>>
  BY DEF server
<1>3. ServerFits'
  BY <1>2 DEF GridInv, GridFits, ServerFits
<1>4. asked[i] \in GridRequests /\ asked[i].before \in GridRows /\ asked[i].first \in BOOLEAN
      /\ asked[i].at \in Int
  <2>1. asked[i] \in GridRequests
    BY AskedIsRequest DEF GridInv, GridFits
  <2> QED BY <2>1 DEF GridRequests
<1>5. CASE asked[i].op = "patch" /\ RollBack(asked[i])
  <2>1. /\ rows' = asked[i].before
        /\ UNCHANGED <<heard, active, loading, editing, undo, redo>>
        /\ strange \subseteq strange'
    BY <1>5 DEF RollBack
  <2>2. PageFits'
    BY <1>2, <1>4, <2>1 DEF GridInv, GridFits, PageFits
  <2>3. GridIsSound'
    BY <1>1, <1>2, <1>5, <2>1, GoneKeepsSound
  <2>4. ASSUME strange' = {}
        PROVE  GridFollows'
    <3>1. /\ strange = {} /\ ~("crossed" \in strange') /\ ~("undone" \in strange')
          /\ ~("unanswered" \in strange')
      BY <2>1, <2>4
    <3>2. asked[i].sheet = active
      BY <1>5, <3>1 DEF RollBack
    <3>3. ~asked[i].late /\ rows = [asked[i].before EXCEPT ![asked[i].key] = asked[i].value]
      BY <1>5, <3>1 DEF RollBack
    <3>4. ~(asked[i].at >= 0)
      BY <1>5, <3>1 DEF RollBack
    <3>5. asked[i].at < 0
      BY <1>4, <3>4
    <3> QED BY <1>1, <1>2, <1>5, <2>1, <3>1, <3>2, <3>3, <3>5, RollBackKeepsFollowing DEF GridInv
  <2> QED BY <1>1, <1>3, <2>2, <2>3, <2>4 DEF GridInv, GridFits
<1>6. CASE /\ asked[i].op = "load" /\ loading' = (loading /\ ~asked[i].first)
           /\ strange' = (IF asked[i].first THEN strange ELSE strange \cup {"missed"})
           /\ UNCHANGED <<heard, active, rows, last, editing, undo, redo>>
  <2>1. loading' \in BOOLEAN
    BY <1>6
  <2>2. PageFits'
    BY <1>2, <1>6, <2>1 DEF GridInv, GridFits, PageFits
  <2>3. GridIsSound'
    BY <1>1, <1>2, <1>6, GoneKeepsSound
  <2>4. ASSUME strange' = {}
        PROVE  GridFollows'
    <3>1. strange = {} /\ asked[i].first
      BY <1>6, <2>4
    <3>2. ~Reload(asked[i]) /\ ~ListTells(asked[i]) /\ \A x : ~Unresolved(asked[i], x)
      BY <1>6, <3>1 DEF Reload, ListTells, Unresolved
    <3> QED BY <1>1, <1>2, <1>6, <3>1, <3>2, GoneKeepsFollowing DEF GridInv
  <2> QED BY <1>1, <1>3, <2>2, <2>3, <2>4 DEF GridInv, GridFits
<1>7. CASE /\ asked[i].op = "list" /\ strange' = strange \cup {"missed"}
           /\ UNCHANGED <<heard, active, rows, loading, error, last, editing, undo, redo>>
  <2>1. PageFits'
    BY <1>2, <1>7 DEF GridInv, GridFits, PageFits
  <2>2. GridIsSound'
    BY <1>1, <1>2, <1>7, GoneKeepsSound
  <2>3. strange' # {}
    BY <1>7
  <2> QED BY <1>1, <1>3, <2>1, <2>2, <2>3 DEF GridInv, GridFits
<1>8. CASE asked[i].op \in RowOps \cup {"create", "delete"} /\ UNCHANGED page
  <2>1. asked[i].op # "load" /\ ~ListTells(asked[i]) /\ \A x : ~Unresolved(asked[i], x)
    BY <1>8 DEF RowOps, ListTells, Unresolved
  <2> QED BY <1>8, <2>1, QuietGoneKeepsGrid
<1> QED BY <1>5, <1>6, <1>7, <1>8 DEF Failed

LEMMA TakeKeepsGrid ==
  ASSUME GridInv, NEW i \in DOMAIN asked, HasRows(asked[i]), Take(asked[i]),
         asked' = Late(AnswersWithout(i)),
         UNCHANGED <<server, feed, online, active, undo, redo>>,
         editing' \in BOOLEAN, loading' \in BOOLEAN,
         loading' => loading /\ ~asked[i].first
  PROVE  GridInv'
<1>1. AskedFits' /\ ShorterBy(i) /\ AllLate'
  BY RemovedAndLate DEF GridInv, GridFits
<1>2. UNCHANGED <<tabs, made, store, clock, feed, online>>
  BY DEF server
<1>3. ServerFits'
  BY <1>2 DEF GridInv, GridFits, ServerFits
<1>4. rows' = asked[i].got /\ heard' = Later(asked[i].at)
  BY DEF Take
<1>5. asked[i].got \in GridRows /\ asked[i].at \in Int
  BY AskedIsRequest DEF GridInv, GridFits
<1>6. heard' \in Nat
  BY <1>4, <1>5 DEF Later, HasRows, GridInv, GridFits, PageFits
<1>7. PageFits'
  BY <1>2, <1>4, <1>5, <1>6 DEF GridInv, GridFits, PageFits
<1>8. "jumped" \in strange => "jumped" \in strange' \/ asked[i].first
  BY DEF Take
<1>9. GridIsSound'
  <2>1. CASE ~asked[i].first
    BY <1>1, <1>2, <1>8, <2>1, GoneKeepsSound
  <2>2. CASE asked[i].first
    <3>1. ~loading'
      BY <2>2
    <3>2. NoneAnswered
      BY <1>1, NoneAnsweredWhen DEF GridInv, GridFits
    <3>3. RequestsKnown' /\ FeedOrdered' /\ AnswersKnown' /\ FeedIsTrue' /\ RepliesAreTrue'
      BY <1>1, <1>2, <3>2, SoundKept DEF GridInv
    <3> QED BY <3>1, <3>3 DEF GridIsSound, LoadingIsWaited
  <2> QED BY <2>1, <2>2
<1>10. ASSUME strange' = {}
       PROVE  GridFollows'
  <2>1. CASE Cures(asked[i])
    BY <1>1, <1>2, <1>4, <2>1, CuringFollows DEF GridInv
  <2>2. CASE ~Cures(asked[i])
    <3>1. strange = {}
      BY <1>10, <2>2 DEF Take
    <3>2. "crossed" \notin strange' /\ "older" \notin strange'
      BY <1>10
    <3>3. asked[i].sheet # active => rows = asked[i].got
      BY <3>2 DEF Take
    <3>4. asked[i].at < heard => rows = asked[i].got
      BY <3>2 DEF Take
    <3> QED BY <1>1, <1>2, <1>4, <3>1, <3>3, <3>4, TakingKeepsFollowing DEF GridInv
  <2> QED BY <2>1, <2>2
<1> QED BY <1>1, <1>3, <1>7, <1>9, <1>10 DEF GridInv, GridFits

(* A load's answer is held back, or its rows replace those shown.          *)
LEMMA LoadedKeepsGrid ==
  ASSUME GridInv, NEW i \in DOMAIN asked, asked[i].op = "load", asked[i].at >= 0,
         applyPayload(asked[i]), asked' = Late(AnswersWithout(i)),
         UNCHANGED <<server, feed, online>>
  PROVE  GridInv'
<1>1. asked[i].first \in BOOLEAN /\ loading \in BOOLEAN /\ editing \in BOOLEAN
  <2>1. asked[i] \in GridRequests
    BY AskedIsRequest DEF GridInv, GridFits
  <2> QED BY <2>1 DEF GridRequests, GridInv, GridFits, PageFits
<1>2. /\ loading' = (loading /\ ~asked[i].first)
      /\ UNCHANGED <<active, editing, undo, redo>>
  BY DEF applyPayload
<1>3. /\ loading' \in BOOLEAN /\ editing' \in BOOLEAN
      /\ loading' => loading /\ ~asked[i].first
  BY <1>1, <1>2
<1>4. HasRows(asked[i])
  BY DEF HasRows
<1>5. CASE Take(asked[i])
  BY <1>2, <1>3, <1>4, <1>5, TakeKeepsGrid
<1>6. CASE /\ strange' = strange \cup {IF editing THEN "held" ELSE "same"}
           /\ heard' = Later(asked[i].at) /\ UNCHANGED <<rows, last>>
  <2>1. AskedFits' /\ ShorterBy(i)
    BY RemovedAndLate DEF GridInv, GridFits
  <2>2. UNCHANGED <<tabs, made, store, clock, feed, online>>
    BY DEF server
  <2>3. asked[i].at \in Int
    BY AskedIsRequest DEF GridInv, GridFits
  <2>4. heard' \in Nat
    BY <1>6, <2>3 DEF Later, GridInv, GridFits, PageFits
  <2>5. ServerFits'
    BY <2>2 DEF GridInv, GridFits, ServerFits
  <2>6. PageFits'
    BY <1>2, <1>3, <1>6, <2>2, <2>4 DEF GridInv, GridFits, PageFits
  <2>7. GridIsSound'
    BY <1>2, <1>3, <1>6, <2>1, <2>2, GoneKeepsSound
  <2>8. strange' # {}
    BY <1>6
  <2> QED BY <2>1, <2>5, <2>6, <2>7, <2>8 DEF GridInv, GridFits
<1> QED BY <1>5, <1>6 DEF applyPayload

(* An answer that shows another sheet, or the sheet shown already.         *)
LEMMA ShowingKeepsGrid ==
  ASSUME GridInv, NEW i \in DOMAIN asked, NEW s \in made \cup {Nowhere},
         ShowSheet(s, AnswersWithout(i)), rows' \in GridRows, UNCHANGED server
  PROVE  GridInv'
<1>1. CASE s = active
  BY <1>1, ShowingSameKeepsGrid
<1>2. CASE s # active
  <2>1. PICK w : w = AnswersWithout(i)
    OBVIOUS
  <2>2. WasAsked(w) /\ ShowSheet(s, w)
    BY <2>1, WithoutWasAsked DEF GridInv, GridFits
  <2> QED BY <1>2, <2>2, ShowingOtherKeepsGrid
<1> QED BY <1>1, <1>2

LEMMA SucceededKeepsGrid ==
  ASSUME GridInv, NEW i \in DOMAIN asked, asked[i].at >= 0, Succeeded(i), UNCHANGED server
  PROVE  GridInv'
<1>1. asked[i].at \in Int
  BY AskedIsRequest DEF GridInv, GridFits
<1>2. \A x : ~Unresolved(asked[i], x)
  BY <1>1 DEF Unresolved
<1>3. RequestKnown(asked[i])
  BY DEF GridInv, GridIsSound, RequestsKnown
<1>4. rows \in GridRows
  BY DEF GridInv, GridFits, PageFits
<1>5. CASE /\ asked[i].op = "load" /\ applyPayload(asked[i])
           /\ asked' = Late(AnswersWithout(i)) /\ UNCHANGED <<feed, online>>
  BY <1>5, LoadedKeepsGrid
<1>6. CASE asked[i].op = "patch" /\ asked' = AnswersWithout(i) /\ UNCHANGED <<page, feed, online>>
  <2>1. asked[i].op # "load" /\ ~ListTells(asked[i])
    BY <1>6 DEF ListTells
  <2> QED BY <1>2, <1>6, <2>1, QuietGoneKeepsGrid
<1>7. CASE /\ asked[i].op \in RowOps /\ Take(asked[i]) /\ editing' = TRUE
           /\ asked' = Late(AnswersWithout(i))
           /\ UNCHANGED <<active, loading, error, undo, redo, feed, online>>
  <2>1. HasRows(asked[i]) /\ ~asked[i].first
    BY <1>3, <1>7 DEF HasRows, RequestKnown
  <2>2. loading' \in BOOLEAN /\ editing' \in BOOLEAN /\ (loading' => loading /\ ~asked[i].first)
    BY <1>7, <2>1 DEF GridInv, GridFits, PageFits
  <2> QED BY <1>7, <2>1, <2>2, TakeKeepsGrid
<1>8. CASE asked[i].op = "create" /\ ShowSheet(asked[i].sheet, AnswersWithout(i)) /\ rows' = Blank
  <2>1. PICK s \in made \cup {Nowhere} : s = asked[i].sheet
    BY <1>3 DEF RequestKnown
  <2> QED BY <1>8, <2>1, BlankFits, ShowingKeepsGrid
<1>9. CASE /\ \E s \in (IF asked[i].list = {} THEN {Nowhere} ELSE asked[i].list) :
                ShowSheet(s, AnswersWithout(i))
           /\ UNCHANGED <<rows, error>>
  <2>1. PICK s \in made \cup {Nowhere} : ShowSheet(s, AnswersWithout(i))
    BY <1>3, <1>9 DEF RequestKnown
  <2> QED BY <1>4, <1>9, <2>1, ShowingKeepsGrid
<1>10. CASE /\ asked[i].op \in {"list", "delete"}
            /\ \/ ~asked[i].first \/ asked[i].sheet \in asked[i].list
               \/ (asked[i].list = {} /\ asked[i].op = "list")
            /\ asked' = AnswersWithout(i) /\ UNCHANGED <<page, feed, online>>
  <2>1. asked[i].op # "load"
    BY <1>10
  <2>2. ~(asked[i].at < 0)
    BY <1>1
  <2>3. ~ListTells(asked[i])
    BY <1>10, <2>2 DEF ListTells
  <2> QED BY <1>2, <1>10, <2>1, <2>3, QuietGoneKeepsGrid
<1> QED BY <1>5, <1>6, <1>7, <1>8, <1>9, <1>10 DEF Succeeded

LEMMA ArriveKeepsGrid ==
  ASSUME GridInv, ArriveAtGrid
  PROVE  GridInv'
<1>1. UNCHANGED server
  BY DEF ArriveAtGrid
<1>2. PICK i \in DOMAIN asked :
        \/ asked[i].at >= 0 /\ Succeeded(i)
        \/ /\ asked[i].at = Refused /\ Failed(asked[i])
           /\ asked' = AnswersWithout(i) /\ UNCHANGED <<feed, online>>
  BY DEF ArriveAtGrid
<1>3. CASE asked[i].at >= 0 /\ Succeeded(i)
  BY <1>1, <1>3, SucceededKeepsGrid
<1>4. CASE Failed(asked[i]) /\ asked' = AnswersWithout(i) /\ UNCHANGED <<feed, online>>
  BY <1>1, <1>4, FailingKeepsGrid
<1> QED BY <1>2, <1>3, <1>4

LEMMA LoseKeepsGrid ==
  ASSUME GridInv, Lose
  PROVE  GridInv'
<1>1. PICK i \in DOMAIN asked : Failed(asked[i]) /\ asked' = AnswersWithout(i)
  BY DEF Lose
<1>2. UNCHANGED <<server, feed, online>>
  BY DEF Lose
<1> QED BY <1>1, <1>2, FailingKeepsGrid

-----------------------------------------------------------------------------
LEMMA GridStarts ==
  ASSUME GridInit
  PROVE  GridInv
<1> DEFINE q == Load(active, TRUE)
<1>1. /\ tabs \subseteq Tabs /\ made = tabs /\ active \in tabs
      /\ store \in [Tabs -> [RowKeys -> CellValues \cup {Gone}]]
      /\ clock = 0 /\ feed = <<>> /\ online = FALSE /\ heard = 0
      /\ rows = Blank /\ loading = TRUE /\ editing = FALSE /\ undo = <<>> /\ redo = <<>>
      /\ asked = <<q>> /\ strange = {}
  BY DEF GridInit
<1>2. /\ q \in GridRequests /\ q.op = "load" /\ q.sheet = active /\ q.first
      /\ q.at = Pending /\ q.list = {}
  BY <1>1, LoadFits
<1> HIDE DEF q
<1>3. /\ asked \in Seq(GridRequests) /\ DOMAIN asked = {1} /\ asked[1] = q
  BY <1>1, <1>2
<1>4. \A j \in DOMAIN asked : asked[j] = q
  BY <1>3
<1>5. <<>> \in Seq(GridEvents) /\ <<>> \in Seq(GridEdits) /\ DOMAIN feed = {}
  BY <1>1
<1>6. ServerFits
  BY <1>1, <1>5 DEF ServerFits, GridRows
<1>7. PageFits
  BY <1>1, <1>5, BlankFits DEF PageFits
<1>8. GridFits
  BY <1>3, <1>6, <1>7 DEF GridFits, AskedFits
<1>9. RequestsKnown
  BY <1>1, <1>2, <1>4 DEF RequestsKnown, RequestKnown, RowOps
<1>10. FeedOrdered /\ FeedIsTrue
  BY <1>1, <1>5 DEF FeedOrdered, FeedIsTrue
<1>11. ~HasRows(q) /\ q.at <= clock
  BY <1>1, <1>2 DEF HasRows, Pending
<1>12. AnswersKnown
  BY <1>4, <1>11 DEF AnswersKnown, AnswerKnown
<1>13. LoadingIsWaited
  BY <1>2, <1>3 DEF LoadingIsWaited, FirstAsked
<1>14. RepliesAreTrue /\ RepliesAreOvertaken
  BY <1>4, <1>11 DEF RepliesAreTrue, RepliesAreOvertaken, ShowsRows
<1>15. RowsFollow /\ OrphansAreTold
  BY <1>1 DEF RowsFollow, RowFollows, OrphansAreTold, OrphanIsTold
<1> QED BY <1>8, <1>9, <1>10, <1>12, <1>13, <1>14, <1>15 DEF GridInv, GridIsSound, GridFollows

LEMMA StepKeepsGrid ==
  ASSUME GridInv, [GridNext]_gridVars
  PROVE  GridInv'
<1>1. CASE EditingEnds
  <2>1. /\ UNCHANGED <<tabs, made, store, clock, feed, online, heard, active, rows, loading,
                       asked, strange>>
        /\ UNCHANGED <<undo, redo>> /\ editing' = FALSE
    BY <1>1 DEF EditingEnds, server
  <2>2. editing' \in BOOLEAN /\ undo' \in Seq(GridEdits) /\ redo' \in Seq(GridEdits)
    BY <2>1 DEF GridInv, GridFits, PageFits
  <2> QED BY <2>1, <2>2, QuietKeepsGrid
<1>2. CASE UNCHANGED gridVars
  <2>1. UNCHANGED <<tabs, made, store, clock, feed, online, heard, active, rows, loading,
                    asked, strange, editing, undo, redo>>
    BY <1>2 DEF gridVars
  <2>2. editing' \in BOOLEAN /\ undo' \in Seq(GridEdits) /\ redo' \in Seq(GridEdits)
    BY <2>1 DEF GridInv, GridFits, PageFits
  <2> QED BY <2>1, <2>2, QuietKeepsGrid
<1>3. CASE OthersWrite \/ OthersList
  BY <1>3, OthersKeepGrid
<1>4. CASE Serve
  BY <1>4, ServeKeepsGrid
<1>5. CASE ArriveAtGrid
  BY <1>5, ArriveKeepsGrid
<1>6. CASE Lose
  BY <1>6, LoseKeepsGrid
<1>7. CASE Hear
  BY <1>7, HearKeepsGrid
<1>8. CASE Open
  BY <1>8, OpenKeepsGrid
<1>9. CASE Break
  BY <1>9, BreakKeepsGrid
<1>10. CASE onRowsChange \/ handleUndo \/ handleRedo
  BY <1>10, EditingKeepsGrid
<1>11. CASE handleAddRow \/ handleDeleteRows \/ handleDeleteColumn \/ handleImportFile
  BY <1>11, ToolbarKeepsGrid
<1>12. CASE switchSheet
  BY <1>12, SwitchKeepsGrid
<1>13. CASE confirmDeleteSheet \/ submitAddSheet
  BY <1>13, SheetRequestKeepsGrid
<1>14. CASE Retry
  BY <1>14, RetryKeepsGrid
<1> QED BY <1>1, <1>2, <1>3, <1>4, <1>5, <1>6, <1>7, <1>8, <1>9, <1>10, <1>11, <1>12, <1>13, <1>14
        DEF GridNext

(* With nothing on its way no row can be about to change, so each is that  *)
(* of the store already.                                                   *)
LEMMA SoundGridSettles ==
  ASSUME GridInv
  PROVE  SettledGridShowsStore
<1> SUFFICES ASSUME online, feed = <<>>, asked = <<>>, ~error, strange = {}
             PROVE  /\ ~loading
                    /\ active \in tabs => rows = store[active]
                    /\ tabs # {} => active \in tabs
  BY DEF SettledGridShowsStore
<1>1. DOMAIN feed = {} /\ DOMAIN asked = {}
  OBVIOUS
<1>2. GridFollows
  BY DEF GridInv
<1>3. ~loading
  BY <1>1 DEF GridInv, GridIsSound, LoadingIsWaited, FirstAsked
<1>4. tabs # {} => active \in tabs
  BY <1>1, <1>2 DEF GridFollows, OrphansAreTold, OrphanIsTold
<1>5. ASSUME active \in tabs
      PROVE  rows = store[active]
  <2>1. rows \in GridRows /\ store[active] \in GridRows
    BY <1>5 DEF GridInv, GridFits, ServerFits, PageFits
  <2>2. ASSUME NEW x \in RowKeys
        PROVE  rows[x] = store[active][x]
    <3>1. RowFollows(x)
      BY <1>2, <1>5 DEF GridFollows, RowsFollow
    <3>2. Balanced(x)
      BY <1>1, <3>1 DEF RowFollows, EventComes, LoadTells, EditIsLate
    <3>3. EditsTo(x) = {} /\ EditsFrom(x) = {}
      BY <1>1 DEF EditsTo, EditsFrom
    <3>4. Off(x) <= 0
      BY <3>2, <3>3, FS_EmptySet DEF Balanced, Off
    <3> QED BY <3>4 DEF Off
  <2> QED BY <2>1, <2>2 DEF GridRows
<1> QED BY <1>3, <1>4, <1>5

(* Whatever the sheets, rows and values, the requests in flight, the order *)
(* answers and events come in, and the requests, answers and streams lost, *)
(* a grid that met none of its known oddities and has nothing on its way   *)
(* shows a sheet of the thread, waits for nothing, and its rows are those  *)
(* of the server (applyPayload, es.onmessage, commitRows).                 *)
THEOREM GridsSettle == GridSpec => []SettledGridShowsStore
<1>1. GridInit => GridInv
  BY GridStarts
<1>2. GridInv /\ [GridNext]_gridVars => GridInv'
  BY StepKeepsGrid
<1>3. GridInv => SettledGridShowsStore
  BY SoundGridSettles
<1> QED BY <1>1, <1>2, <1>3, PTL DEF GridSpec
====
