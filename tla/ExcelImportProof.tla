-------------------------- MODULE ExcelImportProof --------------------------
(***************************************************************************)
(* Proofs about concurrent imports, for every set of importers, every set  *)
(* of workbooks and every size of a batch.                                 *)
(*                                                                         *)
(* The properties speak of what the table holds.  The invariant behind     *)
(* them says where every row comes from: a transaction holds the first     *)
(* row[p] rows of its importer (Mine), the table those of the importers    *)
(* that have committed (Committed), and of the importers with integer ids  *)
(* at most one has rows and is not done: its ids follow those of the table *)
(* (OneHolder).                                                            *)
(***************************************************************************)
EXTENDS ExcelImport, TLAPS

Entry(p, k) == [id |-> IdOf(p, k), of |-> p, row |-> k]
Mine(p) == {Entry(p, k) : k \in 1..row[p]}
Committed == {p \in Importers : stage[p] = "done" /\ outcome[p] # "err" /\ p \notin lost}

Types ==
  /\ int \in [Importers -> BOOLEAN]
  /\ stage \in [Importers -> {"open", "ids", "batch", "insert", "end", "done"}]
  /\ outcome \in [Importers -> {"none", "nil", "err", "panic"}]
  /\ count \in [Importers -> Nat] /\ base \in [Importers -> Nat]
  /\ lo \in [Importers -> Nat] /\ row \in [Importers -> Nat]

Named == \A p \in Importers : book[p] \in Books /\ name[p] \in NoName..Len(book[p])

\* Where an importer is, and how many of its rows are inserted then.
Flow(p) ==
  /\ row[p] <= count[p]
  /\ stage[p] = "open" => count[p] = 0
  /\ stage[p] \in {"open", "ids"} => row[p] = 0 /\ lo[p] = 0
  /\ stage[p] = "batch" => row[p] = lo[p] \/ (row[p] = count[p] /\ count[p] <= lo[p])
  /\ stage[p] = "insert" => lo[p] < count[p] /\ lo[p] <= row[p] /\ row[p] <= BatchEnd(p)
  /\ stage[p] \in {"end", "done"} <=> outcome[p] # "none"
  /\ outcome[p] = "nil" => row[p] = count[p]
  /\ outcome[p] = "panic" => count[p] = 0

Transactions ==
  /\ pend = [p \in Importers |-> IF stage[p] = "done" THEN {} ELSE Mine(p)]
  /\ lost \subseteq {p \in Importers : stage[p] = "done"}

Contents == table = UNION {Mine(p) : p \in Committed}

\* The integer ids of the table are 1..MaxId, each of one row, and of the
\* importers that still hold rows with such ids there is one.
Dense ==
  /\ MaxId \in Nat /\ Ints = 1..MaxId
  /\ \A r, s \in table : r.id = s.id => r = s

OneHolder ==
  /\ \A p \in Importers : base[p] <= MaxId
  /\ \A p \in Importers : int[p] /\ stage[p] # "done" /\ row[p] > 0 =>
       /\ base[p] = MaxId
       /\ \A q \in Importers \ {p} : int[q] /\ stage[q] # "done" => row[q] = 0

ImportInv ==
  /\ Types /\ Named
  /\ \A p \in Importers : Flow(p)
  /\ Transactions /\ Contents
  /\ Dense /\ OneHolder

-----------------------------------------------------------------------------
\* The largest of the first N positive integers.
LEMMA TopIs ==
  ASSUME NEW S, NEW N \in Nat, S = 1..N
  PROVE  (CHOOSE m \in S \cup {0} : \A k \in S : k <= m) = N
<1>1. N \in S \cup {0} /\ \A k \in S : k <= N
  OBVIOUS
<1>2. \A m \in S \cup {0} : (\A k \in S : k <= m) => m = N
  OBVIOUS
<1>. QED BY <1>1, <1>2

\* The rows of an importer that does nothing stay what they are.
LEMMA MineSame ==
  ASSUME NEW p, row'[p] = row[p], base'[p] = base[p], int'[p] = int[p]
  PROVE  Mine(p)' = Mine(p)
<1>1. \A k : IdOf(p, k)' = IdOf(p, k)
  BY DEF IdOf
<1>. QED BY <1>1 DEF Mine, Entry

\* Nothing was inserted before the first batch.
LEMMA MineEmpty ==
  ASSUME NEW p, row[p] = 0
  PROVE  Mine(p) = {}
BY DEF Mine

\* A step of importer p that inserts and commits nothing.
Quiet(p) ==
  /\ UNCHANGED <<call, row, pend, table, lost>>
  /\ stage[p] # "done" /\ stage'[p] # "done"
  /\ base'[p] <= MaxId /\ (base'[p] = base[p] \/ row[p] = 0)
  /\ \A q \in Importers \ {p} :
       /\ stage'[q] = stage[q] /\ outcome'[q] = outcome[q] /\ count'[q] = count[q]
       /\ base'[q] = base[q] /\ lo'[q] = lo[q]

\* It leaves the transactions, the table and its ids as they are.
LEMMA QuietStep ==
  ASSUME ImportInv, Types', NEW p \in Importers, Quiet(p), Flow(p)'
  PROVE  ImportInv'
<1>i. int' = int /\ row' = row /\ pend' = pend /\ table' = table /\ lost' = lost
  BY DEF Quiet, call
<1>0. \A q \in Importers : Mine(q)' = Mine(q)
  <2>1. ASSUME NEW q \in Importers, base'[q] = base[q] PROVE Mine(q)' = Mine(q)
    BY <1>i, <2>1, MineSame
  <2>2. ASSUME row[p] = 0 PROVE Mine(p)' = Mine(p)
    BY <1>i, <2>2 DEF Mine
  <2>. QED BY <2>1, <2>2 DEF Quiet
<1>1. \A q \in Importers : stage'[q] = "done" <=> stage[q] = "done"
  BY DEF Quiet
<1>2. Committed' = Committed
  <2>1. \A q \in Importers : stage[q] = "done" => outcome'[q] = outcome[q]
    BY DEF Quiet
  <2>. QED BY <1>i, <1>1, <2>1 DEF Committed
<1>3. Named'
  BY DEF ImportInv, Named, Quiet, call
<1>4. \A q \in Importers : Flow(q)'
  <2>1. ASSUME NEW q \in Importers \ {p} PROVE Flow(q)'
    <3>1. BatchEnd(q)' = BatchEnd(q)
      BY DEF Quiet, BatchEnd
    <3>2. Flow(q)
      BY DEF ImportInv
    <3>. QED BY <1>i, <3>1, <3>2 DEF Flow, Quiet
  <2>. QED BY <2>1
<1>5. Transactions'
  <2>1. Transactions
    BY DEF ImportInv
  <2>2. lost' \subseteq {q \in Importers : stage'[q] = "done"}
    BY <1>i, <1>1, <2>1 DEF Transactions
  <2>3. pend' = [q \in Importers |-> IF stage'[q] = "done" THEN {} ELSE Mine(q)']
    BY <1>i, <1>0, <1>1, <2>1 DEF Transactions
  <2>. QED BY <2>2, <2>3 DEF Transactions
<1>6. Contents'
  <2>1. Contents
    BY DEF ImportInv
  <2>2. Committed \subseteq Importers
    BY DEF Committed
  <2>3. UNION {Mine(q)' : q \in Committed'} = UNION {Mine(q) : q \in Committed}
    BY <1>0, <1>2, <2>2
  <2>. QED BY <1>i, <2>1, <2>3 DEF Contents
<1>7. Ints' = Ints /\ MaxId' = MaxId
  BY <1>i DEF Ints, MaxId
<1>8. Dense'
  BY <1>i, <1>7 DEF ImportInv, Dense
<1>9. OneHolder'
  <2>1. OneHolder
    BY DEF ImportInv
  <2>2. \A q \in Importers : base'[q] <= MaxId
    BY <2>1 DEF OneHolder, Quiet
  <2>3. ASSUME NEW q \in Importers, int[q], stage'[q] # "done", row[q] > 0
        PROVE  /\ base'[q] = MaxId
               /\ \A s \in Importers \ {q} : int[s] /\ stage'[s] # "done" => row[s] = 0
    <3>1. stage[q] # "done"
      BY <1>1, <2>3
    <3>2. base'[q] = base[q]
      BY <2>3 DEF Quiet
    <3>. QED BY <1>1, <2>1, <2>3, <3>1, <3>2 DEF OneHolder
  <2>. QED BY <1>i, <1>7, <2>2, <2>3 DEF OneHolder
<1>. QED BY <1>3, <1>4, <1>5, <1>6, <1>8, <1>9 DEF ImportInv

\* Every step preserves the types.
LEMMA TypesStep == ImportInv /\ [ImportNext]_importVars => Types'
<1> SUFFICES ASSUME ImportInv, [ImportNext]_importVars PROVE Types'
  OBVIOUS
<1>t. Types
  BY DEF ImportInv
<1>1. CASE UNCHANGED importVars
  BY <1>1, <1>t DEF importVars, call, Types
<1>2. ASSUME NEW p \in Importers, Progress(p) \/ InsertFails(p) PROVE Types'
  <2>1. CASE OpenFails(p)
    BY <2>1, <1>t DEF OpenFails, Ends, call, Types
  <2>2. CASE ReadSheet(p)
    <3>1. CASE /\ \E read \in 1..book[p][Sheet(p)] : count' = [count EXCEPT ![p] = read - 1]
               /\ Sheet(p) <= Len(book[p])
               /\ stage' = [stage EXCEPT ![p] = "ids"] /\ UNCHANGED outcome
      <4>1. book[p] \in Seq(Nat) /\ name[p] \in 0..Len(book[p])
        BY BooksAssumption DEF ImportInv, Named, NoName
      <4>2. Sheet(p) \in 1..Len(book[p])
        BY <3>1, <4>1 DEF Sheet, NoName
      <4>3. book[p][Sheet(p)] \in Nat
        BY <4>1, <4>2
      <4>4. count' \in [Importers -> Nat]
        BY <1>t, <3>1, <4>3 DEF Types
      <4>. QED BY <1>t, <2>2, <3>1, <4>4 DEF ReadSheet, call, Types
    <3>2. CASE Ends(p, "panic") /\ UNCHANGED count
      BY <3>2, <2>2, <1>t DEF ReadSheet, Ends, call, Types
    <3>. QED BY <2>2, <3>1, <3>2 DEF ReadSheet
  <2>3. CASE GenData(p)
    <3>1. MaxId \in Nat
      BY DEF ImportInv, Dense
    <3>2. base' \in [Importers -> Nat]
      BY <1>t, <2>3, <3>1 DEF GenData, Types
    <3>. QED BY <2>3, <3>2, <1>t DEF GenData, call, Types
  <2>4. CASE NextBatch(p)
    BY <2>4, <1>t DEF NextBatch, Ends, call, Types
  <2>5. CASE Insert(p)
    BY <2>5, <1>t DEF Insert, Ends, call, Types
  <2>6. CASE InsertFails(p)
    BY <2>6, <1>t DEF InsertFails, Ends, call, Types
  <2>7. CASE BatchDone(p)
    BY <2>7, <1>t, BatchAssumption DEF BatchDone, call, Types
  <2>8. CASE Deferred(p)
    BY <2>8, <1>t DEF Deferred, call, Types
  <2>. QED BY <1>2, <2>1, <2>2, <2>3, <2>4, <2>5, <2>6, <2>7, <2>8 DEF Progress
<1>. QED BY <1>1, <1>2 DEF ImportNext

\* The steps that neither insert nor commit are quiet.
LEMMA QuietSteps ==
  ASSUME ImportInv, Types', NEW p \in Importers,
         OpenFails(p) \/ ReadSheet(p) \/ GenData(p) \/ NextBatch(p)
           \/ InsertFails(p) \/ BatchDone(p) \/ (Insert(p) /\ UNCHANGED row)
  PROVE  Quiet(p) /\ Flow(p)'
<1>t. Types
  BY DEF ImportInv
<1>f. Flow(p)
  BY DEF ImportInv
<1>b. base[p] <= MaxId /\ MaxId \in Nat
  BY DEF ImportInv, OneHolder, Dense
<1>1. CASE OpenFails(p)
  <2>1. Quiet(p)
    BY <1>t, <1>b, <1>1 DEF OpenFails, Ends, Quiet, Types
  <2>2. Flow(p)'
    BY <1>t, <1>f, <1>1 DEF OpenFails, Ends, Flow, Types
  <2>. QED BY <2>1, <2>2
<1>2. CASE ReadSheet(p)
  <2>1. Quiet(p)
    BY <1>t, <1>b, <1>2 DEF ReadSheet, Ends, Quiet, Types
  <2>2. count'[p] \in Nat
    BY DEF Types
  <2>3. Flow(p)'
    <3>1. CASE stage'[p] = "ids"
      BY <1>t, <1>f, <1>2, <2>2, <3>1 DEF ReadSheet, Ends, Flow, Types
    <3>2. CASE stage'[p] # "ids"
      BY <1>t, <1>f, <1>2, <2>2, <3>2 DEF ReadSheet, Ends, Flow, Types
    <3>. QED BY <3>1, <3>2
  <2>. QED BY <2>1, <2>3
<1>3. CASE GenData(p)
  <2>1. row[p] = 0 /\ lo[p] = 0
    BY <1>3, <1>f DEF GenData, Flow
  <2>2. base'[p] \in {MaxId, 0}
    BY <1>t, <1>3 DEF GenData, Types
  <2>3. Quiet(p)
    BY <1>t, <1>b, <1>3, <2>1, <2>2 DEF GenData, Quiet, Types
  <2>4. Flow(p)'
    BY <1>t, <1>f, <1>3, <2>1 DEF GenData, Flow, Types
  <2>. QED BY <2>3, <2>4
<1>4. CASE NextBatch(p)
  <2>1. Quiet(p)
    BY <1>t, <1>b, <1>4 DEF NextBatch, Ends, Quiet, Types
  <2>2. lo[p] < count[p] => row[p] <= BatchEnd(p) /\ lo[p] <= row[p]
    BY <1>t, <1>f, <1>4, BatchAssumption DEF NextBatch, Flow, BatchEnd, Types
  <2>3. BatchEnd(p)' = BatchEnd(p)
    BY <1>4 DEF NextBatch, BatchEnd
  <2>4. Flow(p)'
    BY <1>t, <1>f, <1>4, <2>2, <2>3 DEF NextBatch, Ends, Flow, Types
  <2>. QED BY <2>1, <2>4
<1>5. CASE InsertFails(p)
  <2>1. Quiet(p)
    BY <1>t, <1>b, <1>5 DEF InsertFails, Ends, Quiet, Types
  <2>2. Flow(p)'
    BY <1>t, <1>f, <1>5 DEF InsertFails, Ends, Flow, Types
  <2>. QED BY <2>1, <2>2
<1>6. CASE BatchDone(p)
  <2>1. Quiet(p)
    BY <1>t, <1>b, <1>6 DEF BatchDone, Quiet, Types
  <2>2. row[p] = BatchEnd(p)
    BY <1>t, <1>f, <1>6, BatchAssumption DEF BatchDone, Flow, BatchEnd, Types
  <2>3. row[p] = lo[p] + Batch \/ (row[p] = count[p] /\ count[p] <= lo[p] + Batch)
    BY <1>t, <2>2, BatchAssumption DEF BatchEnd, Types
  <2>4. Flow(p)'
    BY <1>t, <1>f, <1>6, <2>3, BatchAssumption DEF BatchDone, Flow, Types
  <2>. QED BY <2>1, <2>4
<1>7. CASE Insert(p) /\ UNCHANGED row
  <2>1. /\ stage[p] = "insert" /\ Ends(p, "err")
        /\ UNCHANGED <<call, count, base, lo, row, pend, table, lost>>
    BY <1>t, <1>7 DEF Insert, Types
  <2>2. Quiet(p)
    BY <1>t, <1>b, <2>1 DEF Ends, Quiet, Types
  <2>3. Flow(p)'
    BY <1>t, <1>f, <2>1 DEF Ends, Flow, Types
  <2>. QED BY <2>2, <2>3
<1>. QED BY <1>1, <1>2, <1>3, <1>4, <1>5, <1>6, <1>7

\* The ids of the rows in the table are pairs.
LEMMA IdShape ==
  ASSUME ImportInv
  PROVE  \A r \in table : /\ \E x, y : r.id = <<x, y>>
                           /\ \E q \in Committed : \E k \in 1..row[q] : r = Entry(q, k)
<1>1. \A r \in table : \E q \in Committed : \E k \in 1..row[q] : r = Entry(q, k)
  BY DEF ImportInv, Contents, Mine
<1>2. \A q, k : \E x, y : Entry(q, k).id = <<x, y>>
  <2>1. TAKE q, k
  <2>2. Entry(q, k).id = IdOf(q, k)
    BY DEF Entry
  <2>3. CASE int[q]
    BY <2>2, <2>3 DEF IdOf
  <2>4. CASE ~int[q]
    BY <2>2, <2>4 DEF IdOf
  <2>. QED BY <2>3, <2>4
<1>. QED BY <1>1, <1>2

\* An integer id up to MaxId is in the table.
LEMMA IdTaken ==
  ASSUME ImportInv, NEW k \in 1..MaxId
  PROVE  \E r \in table : r.id = <<"int", k>>
<1>1. k \in Ints
  BY DEF ImportInv, Dense
<1>2. PICK r \in table : r.id[1] = "int" /\ r.id[2] = k
  BY <1>1 DEF Ints
<1>3. PICK x, y : r.id = <<x, y>>
  BY IdShape
<1>. QED BY <1>2, <1>3

\* An importer that inserts a row with an integer id is the only holder.
LEMMA InsertHolds ==
  ASSUME ImportInv, NEW p \in Importers, int[p], stage[p] = "insert",
         \A r \in table : r.id # IdOf(p, row[p] + 1),
         \A q \in Importers \ {p} : \A r \in pend[q] : r.id # IdOf(p, row[p] + 1)
  PROVE  /\ base[p] = MaxId
         /\ \A q \in Importers \ {p} : int[q] /\ stage[q] # "done" => row[q] = 0
<1>t. row \in [Importers -> Nat] /\ base \in [Importers -> Nat]
  BY DEF ImportInv, Types
<1>h. OneHolder /\ MaxId \in Nat
  BY DEF ImportInv, Dense
<1>1. CASE row[p] > 0
  BY <1>1, <1>h DEF OneHolder
<1>2. CASE row[p] = 0
  <2>1. IdOf(p, row[p] + 1) = <<"int", base[p] + 1>>
    BY <1>t, <1>2 DEF IdOf
  <2>2. base[p] = MaxId
    <3>1. ASSUME base[p] # MaxId PROVE FALSE
      <4>1. base[p] + 1 \in 1..MaxId
        BY <1>t, <1>h, <3>1 DEF OneHolder
      <4>. QED BY <2>1, <4>1, IdTaken
    <3>. QED BY <3>1
  <2>3. ASSUME NEW q \in Importers \ {p}, int[q], stage[q] # "done", row[q] # 0 PROVE FALSE
    <3>1. base[q] = MaxId
      BY <1>t, <1>h, <2>3 DEF OneHolder
    <3>2. Entry(q, 1) \in pend[q]
      <4>1. 1 \in 1..row[q]
        BY <1>t, <2>3
      <4>. QED BY <2>3, <4>1 DEF ImportInv, Transactions, Mine
    <3>3. Entry(q, 1).id = <<"int", base[q] + 1>>
      BY <2>3 DEF Entry, IdOf
    <3>. QED BY <2>1, <2>2, <3>1, <3>2, <3>3
  <2>. QED BY <2>2, <2>3
<1>. QED BY <1>1, <1>2, <1>t

\* Inserting a row.
LEMMA InsertStep ==
  ASSUME ImportInv, Types', NEW p \in Importers, Insert(p), row' # row
  PROVE  ImportInv'
<1> DEFINE new == Entry(p, row[p] + 1)
<1>t. Types
  BY DEF ImportInv
<1>1. /\ stage[p] = "insert" /\ row[p] < BatchEnd(p)
      /\ pend' = [pend EXCEPT ![p] = @ \cup {new}]
      /\ row' = [row EXCEPT ![p] = @ + 1]
      /\ UNCHANGED <<stage, outcome, book, name, int, count, base, lo, table, lost>>
  BY DEF Insert, Entry, call
<1>2. /\ \A r \in table : r.id # IdOf(p, row[p] + 1)
      /\ \A q \in Importers \ {p} : \A r \in pend[q] : r.id # IdOf(p, row[p] + 1)
  BY DEF Insert
<1>3. \A q \in Importers \ {p} : row'[q] = row[q] /\ Mine(q)' = Mine(q)
  <2>1. TAKE q \in Importers \ {p}
  <2>2. row'[q] = row[q] /\ base'[q] = base[q] /\ int'[q] = int[q]
    BY <1>t, <1>1 DEF Types
  <2>. QED BY <2>2, MineSame
<1>4. row'[p] = row[p] + 1 /\ row[p] \in Nat
  BY <1>t, <1>1 DEF Types
<1>5. Mine(p)' = Mine(p) \cup {new}
  <2>1. \A k : Entry(p, k)' = Entry(p, k)
    BY <1>1 DEF Entry, IdOf
  <2>2. 1..row'[p] = (1..row[p]) \cup {row[p] + 1}
    BY <1>4
  <2>3. Mine(p)' = {Entry(p, k) : k \in 1..row'[p]}
    BY <2>1 DEF Mine
  <2>. QED BY <2>2, <2>3 DEF Mine
<1>6. Committed' = Committed /\ p \notin Committed
  BY <1>1 DEF Committed
<1>7. Named'
  BY <1>1 DEF ImportInv, Named
<1>8. \A q \in Importers : Flow(q)'
  <2>1. \A q \in Importers : BatchEnd(q)' = BatchEnd(q)
    BY <1>1 DEF BatchEnd
  <2>2. ASSUME NEW q \in Importers \ {p} PROVE Flow(q)'
    <3>1. Flow(q)
      BY DEF ImportInv
    <3>. QED BY <1>1, <1>3, <2>1, <3>1 DEF Flow
  <2>3. Flow(p)'
    <3>1. Flow(p)
      BY DEF ImportInv
    <3>2. BatchEnd(p) <= count[p] /\ BatchEnd(p) \in Nat
      BY <1>t, BatchAssumption DEF BatchEnd, Types
    <3>3. lo[p] \in Nat /\ count[p] \in Nat
      BY <1>t DEF Types
    <3>4. row'[p] <= BatchEnd(p) /\ row'[p] <= count[p] /\ lo[p] <= row'[p]
      BY <1>1, <1>4, <3>1, <3>2, <3>3 DEF Flow
    <3>5. outcome[p] # "nil" /\ (outcome[p] = "panic" => count[p] = 0)
      BY <1>1, <3>1 DEF Flow
    <3>. QED BY <1>1, <2>1, <3>1, <3>4, <3>5 DEF Flow
  <2>. QED BY <2>2, <2>3
<1>9. Transactions'
  <2>1. Transactions
    BY DEF ImportInv
  <2>2. pend' = [q \in Importers |-> IF stage'[q] = "done" THEN {} ELSE Mine(q)']
    <3>1. \A q \in Importers : pend'[q] = IF stage'[q] = "done" THEN {} ELSE Mine(q)'
      <4>1. pend'[p] = Mine(p)'
        BY <1>1, <1>5, <2>1 DEF Transactions
      <4>2. \A q \in Importers \ {p} : pend'[q] = pend[q]
        BY <1>1, <2>1 DEF Transactions
      <4>. QED BY <1>1, <1>3, <2>1, <4>1, <4>2 DEF Transactions
    <3>2. pend' = [q \in Importers |-> pend'[q]]
      BY <1>1, <2>1 DEF Transactions
    <3>. QED BY <3>1, <3>2
  <2>. QED BY <1>1, <2>1, <2>2 DEF Transactions
<1>10. Contents'
  <2>1. Contents
    BY DEF ImportInv
  <2>2. Committed \subseteq Importers \ {p}
    BY <1>6 DEF Committed
  <2>3. UNION {Mine(q)' : q \in Committed'} = UNION {Mine(q) : q \in Committed}
    BY <1>3, <1>6, <2>2
  <2>. QED BY <1>1, <2>1, <2>3 DEF Contents
<1>11. Ints' = Ints /\ MaxId' = MaxId
  BY <1>1 DEF Ints, MaxId
<1>12. Dense'
  BY <1>1, <1>11 DEF ImportInv, Dense
<1>13. OneHolder'
  <2>1. OneHolder
    BY DEF ImportInv
  <2>2. ASSUME NEW q \in Importers, int[q], stage[q] # "done", row'[q] > 0
        PROVE  /\ base[q] = MaxId
               /\ \A s \in Importers \ {q} : int[s] /\ stage[s] # "done" => row'[s] = 0
    <3>1. CASE q = p
      BY <1>1, <1>2, <1>3, <2>2, <3>1, InsertHolds
    <3>2. CASE q # p
      <4>1. row[q] > 0
        BY <1>3, <2>2, <3>2
      <4>2. base[q] = MaxId /\ \A s \in Importers \ {q} : int[s] /\ stage[s] # "done" => row[s] = 0
        BY <2>1, <2>2, <4>1 DEF OneHolder
      <4>3. ~int[p]
        <5>1. ASSUME int[p] PROVE FALSE
          <6>1. row[q] = 0
            BY <1>1, <1>2, <2>2, <3>2, <5>1, InsertHolds
          <6>. QED BY <4>1, <6>1
        <5>. QED BY <5>1
      <4>. QED BY <1>3, <4>2, <4>3
    <3>. QED BY <3>1, <3>2
  <2>. QED BY <1>1, <1>11, <2>1, <2>2 DEF OneHolder
<1>. QED BY <1>7, <1>8, <1>9, <1>10, <1>12, <1>13 DEF ImportInv

\* Rows with the same id of an importer are the same, and those of an importer
\* without integer ids have the id of no other.
LEMMA IdsDiffer ==
  ASSUME ImportInv, NEW p \in Importers
  PROVE  /\ \A r, s \in Mine(p) : r.id = s.id => r = s
         /\ ~int[p] => \A r \in Mine(p) : /\ r.id[1] # "int"
                                         /\ \A s \in table : s.id = r.id => s.of = p
<1>t. row \in [Importers -> Nat] /\ base \in [Importers -> Nat]
  BY DEF ImportInv, Types
<1>1. \A q, k : Entry(q, k).id = IF int[q] THEN <<"int", base[q] + k>> ELSE <<q, k>>
  BY DEF Entry, IdOf
<1>2. ASSUME NEW k \in 1..row[p], NEW l \in 1..row[p], Entry(p, k).id = Entry(p, l).id
      PROVE  k = l
  <2>1. CASE int[p]
    <3>1. <<"int", base[p] + k>> = <<"int", base[p] + l>>
      BY <1>1, <1>2, <2>1, Zenon
    <3>2. base[p] + k = base[p] + l
      BY <3>1
    <3>. QED BY <1>t, <3>2
  <2>2. CASE ~int[p]
    <3>1. <<p, k>> = <<p, l>>
      BY <1>1, <1>2, <2>2, Zenon
    <3>. QED BY <3>1
  <2>. QED BY <2>1, <2>2
<1>3. \A r, s \in Mine(p) : r.id = s.id => r = s
  BY <1>2 DEF Mine
<1>4. ASSUME ~int[p], NEW k \in 1..row[p]
      PROVE  /\ Entry(p, k).id[1] # "int"
             /\ \A s \in table : s.id = Entry(p, k).id => s.of = p
  <2>1. Entry(p, k).id = <<p, k>>
    BY <1>1, <1>4
  <2>2. p # "int"
    BY ImportersAssumption
  <2>3. ASSUME NEW s \in table, s.id = Entry(p, k).id PROVE s.of = p
    <3>1. PICK q \in Committed : \E l \in 1..row[q] : s = Entry(q, l)
      BY IdShape
    <3>2. PICK l \in 1..row[q] : s = Entry(q, l)
      BY <3>1
    <3>3. s.id = IF int[q] THEN <<"int", base[q] + l>> ELSE <<q, l>>
      BY <1>1, <3>2
    <3>4. s.of = q
      BY <3>2 DEF Entry
    <3>5. s.id[1] = p
      BY <2>1, <2>3
    <3>6. q = p
      BY <2>2, <3>3, <3>5
    <3>. QED BY <3>4, <3>6
  <2>. QED BY <2>1, <2>2, <2>3
<1>. QED BY <1>3, <1>4 DEF Mine

\* The ids of a holder that commits follow those of the table.
LEMMA CommitHolder ==
  ASSUME ImportInv, NEW p \in Importers, int[p], row[p] > 0, stage[p] = "end",
         table' = table \cup Mine(p)
  PROVE  /\ MaxId' = MaxId + row[p] /\ Ints' = 1..(MaxId + row[p])
         /\ \A r \in table : \A s \in Mine(p) : r.id # s.id
<1>t. row \in [Importers -> Nat] /\ base \in [Importers -> Nat]
  BY DEF ImportInv, Types
<1>1. MaxId \in Nat /\ Ints = 1..MaxId /\ base[p] = MaxId
  BY DEF ImportInv, Dense, OneHolder
<1>2. \A k \in 1..row[p] : Entry(p, k).id = <<"int", MaxId + k>>
  BY <1>1 DEF Entry, IdOf
<1>3. {r.id[2] : r \in {s \in Mine(p) : s.id[1] = "int"}} = {MaxId + k : k \in 1..row[p]}
  BY <1>2 DEF Mine
<1>4. {MaxId + k : k \in 1..row[p]} = (MaxId + 1)..(MaxId + row[p])
  <2>1. \A x \in (MaxId + 1)..(MaxId + row[p]) : x - MaxId \in 1..row[p] /\ x = MaxId + (x - MaxId)
    BY <1>t, <1>1
  <2>2. \A k \in 1..row[p] : MaxId + k \in (MaxId + 1)..(MaxId + row[p])
    BY <1>t, <1>1
  <2>. QED BY <2>1, <2>2
<1>5. Ints' = Ints \cup {r.id[2] : r \in {s \in Mine(p) : s.id[1] = "int"}}
  BY DEF Ints
<1>6. Ints' = 1..(MaxId + row[p])
  <2>1. (1..MaxId) \cup ((MaxId + 1)..(MaxId + row[p])) = 1..(MaxId + row[p])
    BY <1>t, <1>1
  <2>. QED BY <1>1, <1>3, <1>4, <1>5, <2>1
<1>7. MaxId' = MaxId + row[p]
  <2>1. MaxId + row[p] \in Nat
    BY <1>t, <1>1
  <2>. QED BY <1>6, <2>1, TopIs DEF MaxId
<1>8. ASSUME NEW r \in table, NEW s \in Mine(p), r.id = s.id PROVE FALSE
  <2>1. PICK k \in 1..row[p] : s = Entry(p, k)
    BY DEF Mine
  <2>2. r.id[1] = "int" /\ r.id[2] = MaxId + k
    BY <1>2, <1>8, <2>1
  <2>3. MaxId + k \in Ints
    BY <2>2 DEF Ints
  <2>. QED BY <1>t, <1>1, <2>3
<1>. QED BY <1>6, <1>7, <1>8

\* The deferred end commits or rolls back.
LEMMA DeferredStep ==
  ASSUME ImportInv, Types', NEW p \in Importers, Deferred(p)
  PROVE  ImportInv'
<1>t. Types
  BY DEF ImportInv
<1>1. /\ stage[p] = "end" /\ stage' = [stage EXCEPT ![p] = "done"]
      /\ pend' = [pend EXCEPT ![p] = {}]
      /\ UNCHANGED <<book, name, int, count, base, lo, row, outcome>>
  BY DEF Deferred, call
<1>2. pend[p] = Mine(p) /\ p \notin lost /\ p \notin Committed
  BY <1>1 DEF ImportInv, Transactions, Committed
<1>3. \A q : Mine(q)' = Mine(q)
  BY <1>1, MineSame
<1>4. stage'[p] = "done" /\ \A q \in Importers \ {p} : stage'[q] = stage[q]
  BY <1>t, <1>1 DEF Types
<1>5. \/ table' = table /\ Committed' = Committed /\ lost' \subseteq lost \cup {p}
      \/ table' = table \cup Mine(p) /\ Committed' = Committed \cup {p} /\ lost' = lost
  <2>1. CASE outcome[p] = "err" /\ UNCHANGED <<table, lost>>
    BY <1>1, <1>2, <1>4, <2>1 DEF Committed
  <2>2. CASE outcome[p] # "err" /\ lost' = lost \cup {p} /\ UNCHANGED table
    BY <1>1, <1>2, <1>4, <2>2 DEF Committed
  <2>3. CASE outcome[p] # "err" /\ table' = table \cup pend[p] /\ UNCHANGED lost
    BY <1>1, <1>2, <1>4, <2>3 DEF Committed
  <2>. QED BY <2>1, <2>2, <2>3 DEF Deferred
<1>6. Named'
  BY <1>1 DEF ImportInv, Named
<1>7. \A q \in Importers : Flow(q)'
  <2>1. TAKE q \in Importers
  <2>2. Flow(q) /\ BatchEnd(q)' = BatchEnd(q)
    BY <1>1 DEF ImportInv, BatchEnd
  <2>. QED BY <1>1, <1>4, <2>2 DEF Flow
<1>8. Transactions'
  <2>1. Transactions
    BY DEF ImportInv
  <2>2. pend' = [q \in Importers |-> IF stage'[q] = "done" THEN {} ELSE Mine(q)']
    BY <1>1, <1>3, <1>4, <2>1 DEF Transactions
  <2>3. lost' \subseteq {q \in Importers : stage'[q] = "done"}
    BY <1>4, <1>5, <2>1 DEF Transactions
  <2>. QED BY <2>2, <2>3 DEF Transactions
<1>9. Contents'
  <2>1. table = UNION {Mine(q) : q \in Committed}
    BY DEF ImportInv, Contents
  <2>2. table' = UNION {Mine(q) : q \in Committed'}
    BY <1>5, <2>1
  <2>. QED BY <1>3, <2>2 DEF Contents
<1>10. Dense' /\ OneHolder'
  <2>d. Dense /\ OneHolder /\ row[p] \in Nat
    BY <1>t DEF ImportInv, Types
  <2>1. CASE table' = table \cup Mine(p) /\ int[p] /\ row[p] > 0
    <3>1. /\ MaxId' = MaxId + row[p] /\ Ints' = 1..(MaxId + row[p])
          /\ \A r \in table : \A s \in Mine(p) : r.id # s.id
      BY <1>1, <2>1, CommitHolder
    <3>2. Dense'
      <4>1. MaxId' \in Nat
        BY <2>d, <3>1 DEF Dense
      <4>2. \A r, s \in table' : r.id = s.id => r = s
        BY <2>1, <2>d, <3>1, IdsDiffer DEF Dense
      <4>. QED BY <3>1, <4>1, <4>2 DEF Dense
    <3>3. OneHolder'
      <4>1. \A q \in Importers : base[q] <= MaxId + row[p]
        <5>1. TAKE q \in Importers
        <5>2. base[q] \in Nat /\ base[q] <= MaxId /\ MaxId \in Nat
          BY <1>t, <2>d DEF Types, OneHolder, Dense
        <5>. QED BY <2>d, <5>2
      <4>2. \A q \in Importers \ {p} : int[q] /\ stage[q] # "done" => row[q] = 0
        BY <1>1, <2>1, <2>d DEF OneHolder
      <4>3. \A q \in Importers : int[q] /\ stage'[q] # "done" => ~(row[q] > 0)
        BY <1>4, <4>2
      <4>. QED BY <1>1, <3>1, <4>1, <4>3 DEF OneHolder
    <3>. QED BY <3>2, <3>3
  <2>2. CASE table' = table \/ (table' = table \cup Mine(p) /\ ~(int[p] /\ row[p] > 0))
    <3>1. Ints' = Ints
      <4>1. CASE table' = table
        BY <4>1 DEF Ints
      <4>2. CASE table' = table \cup Mine(p) /\ row[p] = 0
        BY <4>1, <4>2, MineEmpty DEF Ints
      <4>3. CASE table' = table \cup Mine(p) /\ ~int[p]
        BY <4>3, IdsDiffer DEF Ints
      <4>. QED BY <2>2, <2>d, <4>1, <4>2, <4>3
    <3>2. MaxId' = MaxId
      BY <3>1 DEF MaxId
    <3>3. \A r, s \in table' : r.id = s.id => r = s
      <4>1. CASE table' = table
        BY <2>d, <4>1 DEF Dense
      <4>2. CASE table' = table \cup Mine(p) /\ row[p] = 0
        BY <2>d, <4>2, MineEmpty DEF Dense
      <4>3. CASE table' = table \cup Mine(p) /\ ~int[p]
        <5>1. \A r \in table : r.of \in Committed
          BY IdShape DEF Entry
        <5>2. \A r \in table : \A s \in Mine(p) : r.id # s.id
          BY <1>2, <4>3, <5>1, IdsDiffer
        <5>. QED BY <2>d, <4>3, <5>2, IdsDiffer DEF Dense
      <4>. QED BY <2>2, <2>d, <4>1, <4>2, <4>3
    <3>4. Dense'
      BY <2>d, <3>1, <3>2, <3>3 DEF Dense
    <3>5. OneHolder'
      <4>1. \A q \in Importers : stage'[q] # "done" => stage[q] # "done"
        BY <1>4
      <4>. QED BY <1>1, <2>d, <3>2, <4>1 DEF OneHolder
    <3>. QED BY <3>4, <3>5
  <2>. QED BY <1>5, <2>1, <2>2
<1>. QED BY <1>6, <1>7, <1>8, <1>9, <1>10 DEF ImportInv

-----------------------------------------------------------------------------
\* The invariant holds of every reachable state.
THEOREM ImportCorrect == ImportSpec => []ImportInv
<1>1. ImportInit => ImportInv
  <2>1. SUFFICES ASSUME ImportInit PROVE ImportInv
    OBVIOUS
  <2>2. Types /\ Named
    BY <2>1 DEF ImportInit, Types, Named
  <2>3. \A p \in Importers : Flow(p)
    <3>1. TAKE p \in Importers
    <3>2. stage[p] = "open" /\ outcome[p] = "none" /\ row[p] = 0 /\ lo[p] = 0 /\ count[p] = 0
      BY <2>1 DEF ImportInit
    <3>. QED BY <3>2 DEF Flow
  <2>4. \A p \in Importers : Mine(p) = {}
    BY <2>1, MineEmpty DEF ImportInit
  <2>5. Transactions
    BY <2>1, <2>4 DEF ImportInit, Transactions
  <2>6. Contents
    <3>1. Committed = {}
      BY <2>1 DEF ImportInit, Committed
    <3>. QED BY <2>1, <3>1 DEF ImportInit, Contents
  <2>7. Ints = 1..0
    BY <2>1 DEF ImportInit, Ints
  <2>8. MaxId = 0
    BY <2>7, TopIs DEF MaxId
  <2>9. Dense /\ OneHolder
    BY <2>1, <2>7, <2>8 DEF ImportInit, Dense, OneHolder
  <2>. QED BY <2>2, <2>3, <2>5, <2>6, <2>9 DEF ImportInv
<1>2. ImportInv /\ [ImportNext]_importVars => ImportInv'
  <2>1. SUFFICES ASSUME ImportInv, [ImportNext]_importVars PROVE ImportInv'
    OBVIOUS
  <2>2. Types'
    BY <2>1, TypesStep
  <2>3. CASE UNCHANGED importVars
    <3>1. UNCHANGED <<book, name, int, stage, count, base, lo, row, pend, outcome, table, lost>>
      BY <2>3 DEF importVars, call
    <3>2. Named' /\ \A p \in Importers : Flow(p)'
      BY <2>1, <3>1 DEF ImportInv, Named, Flow, BatchEnd
    <3>3. Committed' = Committed /\ \A p : Mine(p)' = Mine(p)
      BY <3>1, MineSame DEF Committed
    <3>4. Transactions' /\ Contents'
      BY <2>1, <3>1, <3>3 DEF ImportInv, Transactions, Contents
    <3>5. Ints' = Ints /\ MaxId' = MaxId
      BY <3>1 DEF Ints, MaxId
    <3>6. Dense' /\ OneHolder'
      BY <2>1, <3>1, <3>5 DEF ImportInv, Dense, OneHolder
    <3>. QED BY <2>2, <3>2, <3>4, <3>6 DEF ImportInv
  <2>4. ASSUME NEW p \in Importers, Progress(p) \/ InsertFails(p) PROVE ImportInv'
    <3>1. CASE Insert(p) /\ row' # row
      BY <2>1, <2>2, <3>1, InsertStep
    <3>2. CASE Deferred(p)
      BY <2>1, <2>2, <3>2, DeferredStep
    <3>3. CASE ~(Insert(p) /\ row' # row) /\ ~Deferred(p)
      <4>1. \/ OpenFails(p) \/ ReadSheet(p) \/ GenData(p) \/ NextBatch(p)
            \/ InsertFails(p) \/ BatchDone(p) \/ (Insert(p) /\ UNCHANGED row)
        BY <2>4, <3>3 DEF Progress
      <4>. QED BY <2>1, <2>2, <4>1, QuietSteps, QuietStep
    <3>. QED BY <3>1, <3>2, <3>3
  <2>. QED BY <2>1, <2>3, <2>4 DEF ImportNext
<1>. QED BY <1>1, <1>2, PTL DEF ImportSpec

\* What the table holds of an importer.
LEMMA SavedIs ==
  ASSUME ImportInv, NEW p \in Importers
  PROVE  Saved(p) = IF p \in Committed THEN 1..row[p] ELSE {}
<1>1. \A r \in table : \E q \in Committed : \E k \in 1..row[q] :
         r.of = q /\ r.row = k
  BY IdShape DEF Entry
<1>2. \A q \in Committed : \A k \in 1..row[q] :
         Entry(q, k) \in table /\ Entry(q, k).of = q /\ Entry(q, k).row = k
  BY DEF ImportInv, Contents, Mine, Entry
<1>3. CASE p \in Committed
  BY <1>1, <1>2, <1>3 DEF Saved
<1>4. CASE p \notin Committed
  BY <1>1, <1>4 DEF Saved
<1>. QED BY <1>3, <1>4

\* Type correctness of the import.
THEOREM TypeCorrect == ImportSpec => []ImportTypeOK
<1>1. ImportInv => ImportTypeOK
  <2>1. SUFFICES ASSUME ImportInv PROVE ImportTypeOK
    OBVIOUS
  <2>2. \A p \in Importers : row[p] <= count[p]
    BY <2>1 DEF ImportInv, Flow
  <2>3. \A p \in Importers : \A r \in pend[p] : r.of = p /\ r.row \in 1..row[p]
    BY <2>1 DEF ImportInv, Transactions, Mine, Entry
  <2>4. \A r \in table : r.of \in Importers /\ r.row \in 1..count[r.of]
    <3>1. ASSUME NEW r \in table PROVE r.of \in Importers /\ r.row \in 1..count[r.of]
      <4>1. PICK q \in Committed : \E k \in 1..row[q] : r = Entry(q, k)
        BY <2>1, IdShape
      <4>2. PICK k \in 1..row[q] : r.of = q /\ r.row = k
        BY <4>1 DEF Entry
      <4>3. q \in Importers /\ row[q] \in Nat /\ count[q] \in Nat /\ row[q] <= count[q]
        BY <2>1, <2>2 DEF Committed, ImportInv, Types
      <4>. QED BY <4>2, <4>3
    <3>. QED BY <3>1
  <2>. QED BY <2>1, <2>2, <2>3, <2>4 DEF ImportInv, Types, Named, Transactions, ImportTypeOK
<1>. QED BY <1>1, ImportCorrect, PTL

\* The rows of an import are in the table all or not at all.
THEOREM AllOrNothingCorrect == ImportSpec => []AllOrNothing
<1>1. ImportInv => AllOrNothing
  <2>1. SUFFICES ASSUME ImportInv, NEW p \in Importers PROVE Saved(p) \in {{}, 1..count[p]}
    BY DEF AllOrNothing
  <2>2. p \in Committed => row[p] = count[p]
    <3>1. Flow(p) /\ Types
      BY <2>1 DEF ImportInv
    <3>. QED BY <3>1 DEF Flow, Types, Committed
  <2>. QED BY <2>1, <2>2, SavedIs
<1>. QED BY <1>1, ImportCorrect, PTL

\* What an import reports is what happened, except for a Commit that fails.
THEOREM ReportedCorrect == ImportSpec => []Reported
<1>1. ImportInv => Reported
  <2>1. SUFFICES ASSUME ImportInv, NEW p \in Importers, stage[p] = "done"
                 PROVE  /\ outcome[p] = "nil" /\ p \notin lost => Saved(p) = 1..count[p]
                        /\ outcome[p] = "err" => Saved(p) = {}
    BY DEF Reported
  <2>2. outcome[p] = "nil" => row[p] = count[p]
    BY <2>1 DEF ImportInv, Flow
  <2>. QED BY <2>1, <2>2, SavedIs DEF Committed
<1>. QED BY <1>1, ImportCorrect, PTL

\* The integer ids of the table have neither gaps nor duplicates.
THEOREM DenseIdsCorrect == ImportSpec => []DenseIds
<1>1. ImportInv => DenseIds
  BY DEF ImportInv, Dense, DenseIds
<1>. QED BY <1>1, ImportCorrect, PTL

-----------------------------------------------------------------------------
\* A commit adds the rows that follow the largest id of the table now.
LEMMA CommitRows ==
  ASSUME ImportInv, NEW p \in Importers, stage[p] = "end", row[p] = count[p]
  PROVE  pend[p] = {Atomic!NewRow(p, k) : k \in 1..count[p]}
<1>1. pend[p] = {Entry(p, k) : k \in 1..row[p]}
  BY DEF ImportInv, Transactions, Mine
<1>2. MaxId = Atomic!Largest
  BY DEF MaxId, Ints, Atomic!Largest, Atomic!Numbers
<1>3. CASE row[p] = 0
  BY <1>1, <1>3
<1>4. CASE row[p] > 0
  <2>1. int[p] => base[p] = Atomic!Largest
    BY <1>2, <1>4 DEF ImportInv, OneHolder
  <2>2. \A k : Entry(p, k) = Atomic!NewRow(p, k)
    BY <2>1 DEF Entry, IdOf, Atomic!NewRow
  <2>. QED BY <1>1, <2>2
<1>. QED BY <1>3, <1>4 DEF ImportInv, Types

\* Before it is done, an import has told nothing, and a step that leaves stage at
\* another place than "done" tells nothing.
LEMMA ToldSame ==
  ASSUME ImportInv, NEW p \in Importers, stage[p] # "done", stage'[p] # "done",
         \A q \in Importers \ {p} : stage'[q] = stage[q] /\ outcome'[q] = outcome[q],
         lost' = lost
  PROVE  Told' = Told
BY DEF Told

\* A step of importer p up to its end is a reading, or nothing.
LEMMA QuietReads ==
  ASSUME ImportInv, Types', NEW p \in Importers, stage[p] # "end",
         Progress(p) \/ InsertFails(p)
  PROVE  Atomic!Read(p) \/ UNCHANGED Atomic!atomicVars
<1>t. Types
  BY DEF ImportInv
<1>1. /\ stage[p] # "done" /\ stage'[p] # "done"
      /\ \A q \in Importers \ {p} : stage'[q] = stage[q] /\ outcome'[q] = outcome[q]
      /\ UNCHANGED <<int, table, lost>>
      /\ count' = [count EXCEPT ![p] = count'[p]]
  BY <1>t DEF Progress, OpenFails, ReadSheet, GenData, NextBatch, Insert, InsertFails,
              BatchDone, Deferred, Ends, call, Types
<1>2. Told' = Told /\ Told[p] = "none"
  BY <1>1, ToldSame DEF Told
<1>3. count'[p] \in Nat
  BY DEF Types
<1>. QED BY <1>1, <1>2, <1>3 DEF Atomic!Read

\* The end of an import is atomic.
LEMMA EndIsAtomic ==
  ASSUME ImportInv, NEW p \in Importers, Deferred(p)
  PROVE  Atomic!Save(p) \/ Atomic!Fail(p)
<1>t. Types /\ Flow(p) /\ Transactions
  BY DEF ImportInv
<1>1. /\ stage[p] = "end" /\ stage' = [stage EXCEPT ![p] = "done"]
      /\ UNCHANGED <<int, count, outcome>> /\ p \notin lost
  BY <1>t DEF Deferred, call, Transactions
<1>2. outcome[p] \in {"nil", "err", "panic"}
  BY <1>t, <1>1 DEF Flow, Types
<1>3. lost' \subseteq lost \cup {p} /\ lost \subseteq lost'
  BY DEF Deferred
<1>4. DEFINE r == IF outcome[p] = "nil" /\ p \in lost' THEN "lost" ELSE outcome[p]
<1>5. Told[p] = "none" /\ Told' = [Told EXCEPT ![p] = r]
  <2>1. stage'[p] = "done" /\ \A q \in Importers \ {p} : stage'[q] = stage[q]
    BY <1>t, <1>1 DEF Types
  <2>2. Told' = [q \in Importers |-> IF q = p THEN r ELSE Told[q]]
    BY <1>1, <1>3, <2>1 DEF Told
  <2>. QED BY <1>1, <2>2 DEF Told
<1>6. CASE outcome[p] = "err" /\ UNCHANGED <<table, lost>>
  BY <1>1, <1>5, <1>6 DEF Atomic!Fail, Atomic!Tells
<1>7. CASE outcome[p] # "err" /\ lost' = lost \cup {p} /\ UNCHANGED table
  BY <1>1, <1>2, <1>5, <1>7 DEF Atomic!Fail, Atomic!Tells
<1>8. CASE outcome[p] # "err" /\ table' = table \cup pend[p] /\ UNCHANGED lost
  <2>1. CASE outcome[p] = "nil"
    <3>1. row[p] = count[p]
      BY <1>t, <2>1 DEF Flow
    <3>2. table' = table \cup {Atomic!NewRow(p, k) : k \in 1..count[p]}
      BY <1>1, <1>8, <3>1, CommitRows
    <3>3. r = "nil"
      BY <1>1, <1>8, <2>1
    <3>. QED BY <1>1, <1>5, <3>2, <3>3 DEF Atomic!Save, Atomic!Tells
  <2>2. CASE outcome[p] = "panic"
    <3>1. row[p] = 0
      BY <1>t, <2>2 DEF Flow, Types
    <3>2. pend[p] = {}
      BY <1>t, <1>1, <3>1, MineEmpty DEF Transactions
    <3>. QED BY <1>1, <1>5, <1>8, <2>2, <3>2 DEF Atomic!Fail, Atomic!Tells
  <2>. QED BY <1>2, <1>8, <2>1, <2>2
<1>. QED BY <1>6, <1>7, <1>8 DEF Deferred

\* Concurrent imports implement imports that are atomic, and whose integer ids
\* go on from those in the table when they commit (SaveDb, GenDataInt).
THEOREM ImportRefinesAtomic == ImportSpec => ImplementsAtomic
<1>1. ImportInit => Atomic!AtomicInit
  BY DEF ImportInit, Told, Atomic!AtomicInit
<1>2. ImportInv /\ [ImportNext]_importVars => [Atomic!AtomicNext]_(Atomic!atomicVars)
  <2> SUFFICES ASSUME ImportInv, [ImportNext]_importVars
               PROVE  [Atomic!AtomicNext]_(Atomic!atomicVars)
    OBVIOUS
  <2>1. CASE UNCHANGED importVars
    <3>1. UNCHANGED <<int, count, table>> /\ Told' = Told
      BY <2>1 DEF importVars, call, Told
    <3>. QED BY <3>1 DEF Atomic!atomicVars
  <2>2. ASSUME NEW p \in Importers, Progress(p) \/ InsertFails(p)
        PROVE  [Atomic!AtomicNext]_(Atomic!atomicVars)
    <3>1. CASE stage[p] = "end"
      <4>1. Deferred(p)
        BY <2>2, <3>1 DEF Progress, OpenFails, ReadSheet, GenData, NextBatch, Insert,
                          InsertFails, BatchDone
      <4>. QED BY <4>1, EndIsAtomic DEF Atomic!AtomicNext
    <3>2. CASE stage[p] # "end"
      <4>1. Types'
        BY TypesStep
      <4>. QED BY <2>2, <3>2, <4>1, QuietReads DEF Atomic!AtomicNext
    <3>. QED BY <3>1, <3>2
  <2>. QED BY <2>1, <2>2 DEF ImportNext
<1>. QED BY <1>1, <1>2, ImportCorrect, PTL DEF ImportSpec, ImplementsAtomic, Atomic!AtomicSpec

=============================================================================
