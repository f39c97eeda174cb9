---------------------------- MODULE ExcelImport ----------------------------
(***************************************************************************)
(* Importing a sheet of a workbook into a table: toolx/excelImport.go,     *)
(* SaveDb (which gives no sheet name) and SaveDbByName.                    *)
(*                                                                         *)
(* Every importer works in a transaction of its own: it reads the sheet    *)
(* and, for integer ids, the largest id of the table, and inserts the rows *)
(* in batches.  The ids are the primary key; a transaction sees what       *)
(* others have committed, and waits when it inserts an id that another one *)
(* has inserted and not committed yet.                                     *)
(*                                                                         *)
(* Assumed: an ExcelStruct is used for one import (Info is never reset),   *)
(* nobody else writes to the table, and no column of the sheet is the id   *)
(* of the model, which would take the place of the new one (module Sheet). *)
(***************************************************************************)
EXTENDS Integers, Sequences

CONSTANTS Importers,  \* concurrent calls, each with an ExcelStruct of its own
          Books,      \* workbooks: the number of lines of every sheet
          Batch       \* rows in a batch (1000 in the code)

ASSUME BooksAssumption == Books \subseteq Seq(Nat) /\ <<>> \notin Books
ASSUME BatchAssumption == Batch \in Nat \ {0}
ASSUME ImportersAssumption == "int" \notin Importers

VARIABLES
  book,    \* the workbook of every call
  name,    \* the position of the sheet that it names, or NoName
  int,     \* IdIsInt
  stage,      \* "open", "ids", "batch", "insert", "end" or "done"
  count,   \* rows of Data
  base,    \* the largest id that was found
  lo,      \* rows before the batch
  row,     \* rows inserted
  pend,    \* what the transaction has inserted
  outcome,     \* the result: "none", "nil", "err" or "panic"
  table,   \* the committed rows
  lost     \* history: imports whose Commit failed

call == <<book, name, int>>
importVars == <<call, stage, count, base, lo, row, pend, outcome, table, lost>>

NoName == 0

ImportTypeOK ==
  /\ \A p \in Importers : book[p] \in Books /\ name[p] \in NoName..Len(book[p])
  /\ int \in [Importers -> BOOLEAN]
  /\ stage \in [Importers -> {"open", "ids", "batch", "insert", "end", "done"}]
  /\ outcome \in [Importers -> {"none", "nil", "err", "panic"}]
  /\ count \in [Importers -> Nat] /\ base \in [Importers -> Nat]
  /\ lo \in [Importers -> Nat] /\ row \in [Importers -> Nat]
  /\ \A p \in Importers : row[p] <= count[p]
  /\ \A p \in Importers : \A r \in pend[p] : r.of = p /\ r.row \in 1..row[p]
  /\ \A r \in table : r.of \in Importers /\ r.row \in 1..count[r.of]
  /\ lost \subseteq Importers

\* The sheet that is named exists (another name is the error of OpenFails).
ImportInit ==
  /\ book \in [Importers -> Books]
  /\ name \in [Importers -> UNION {NoName..Len(b) : b \in Books}]
  /\ \A p \in Importers : name[p] <= Len(book[p])
  /\ int \in [Importers -> BOOLEAN]
  /\ stage = [p \in Importers |-> "open"]
  /\ count = [p \in Importers |-> 0] /\ base = [p \in Importers |-> 0]
  /\ lo = [p \in Importers |-> 0] /\ row = [p \in Importers |-> 0]
  /\ pend = [p \in Importers |-> {}] /\ outcome = [p \in Importers |-> "none"]
  /\ table = {} /\ lost = {}

\* The first sheet, or the one behind the sheet of that name:
\* getSheetIndexByName counts from 1, and ReadExcelIo from 0.
Sheet(p) == IF name[p] = NoName THEN 1 ELSE name[p] + 1

\* Mutant of IdOf: the id is taken before it is incremented.
IdOf_Late(p, k) == IF int[p] THEN <<"int", base[p] + k - 1>> ELSE <<p, k>>

\* The id of a row: the next integer, or unique.
IdOf(p, k) == IF int[p] THEN <<"int", base[p] + k>> ELSE <<p, k>>

Ints == {r.id[2] : r \in {s \in table : s.id[1] = "int"}}
MaxId == CHOOSE m \in Ints \cup {0} : \A k \in Ints : k <= m

\* Mutant of BatchEnd: the last batch leaves a row.
BatchEnd_Short(p) == IF lo[p] + Batch < count[p] THEN lo[p] + Batch ELSE count[p] - 1

\* The end of the batch that begins behind row lo.
BatchEnd(p) == IF lo[p] + Batch <= count[p] THEN lo[p] + Batch ELSE count[p]

-----------------------------------------------------------------------------
\* The import goes on to its deferred end, with a result.
Ends(p, r) ==
  /\ stage' = [stage EXCEPT ![p] = "end"]
  /\ outcome' = [outcome EXCEPT ![p] = r]

\* The file is no workbook, there is no sheet of that name, or a number that
\* was read, like NaN, has no place in the JSON text that is made at the end.
OpenFails(p) ==
  /\ stage[p] \in {"open", "ids"}
  /\ Ends(p, "err")
  /\ UNCHANGED <<call, count, base, lo, row, pend, table, lost>>

\* The lines of the sheet, without the title.  When one cannot be read, the
\* error is dropped and the lines before it are taken for all.  Without any line,
\* or with a position behind the last sheet, it is a panic.
ReadSheet(p) ==
  /\ stage[p] = "open"
  /\ \/ /\ Sheet(p) <= Len(book[p])
        /\ \E read \in 1..book[p][Sheet(p)] : count' = [count EXCEPT ![p] = read - 1]
        /\ stage' = [stage EXCEPT ![p] = "ids"]
        /\ UNCHANGED outcome
     \/ Ends(p, "panic") /\ UNCHANGED count
  /\ UNCHANGED <<call, base, lo, row, pend, table, lost>>

\* The largest id is looked up, and taken for 0 when that fails.
GenData(p) ==
  /\ stage[p] = "ids"
  /\ \E m \in {MaxId, 0} : base' = [base EXCEPT ![p] = IF int[p] THEN m ELSE 0]
  /\ stage' = [stage EXCEPT ![p] = "batch"]
  /\ UNCHANGED <<call, count, lo, row, pend, outcome, table, lost>>

\* The next batch, while there are rows.
NextBatch(p) ==
  /\ stage[p] = "batch"
  /\ IF lo[p] < count[p] THEN stage' = [stage EXCEPT ![p] = "insert"] /\ UNCHANGED outcome
                         ELSE Ends(p, "nil")
  /\ UNCHANGED <<call, count, base, lo, row, pend, table, lost>>

\* A row of the batch is inserted, unless its id is taken.
Insert(p) ==
  /\ stage[p] = "insert" /\ row[p] < BatchEnd(p)
  /\ LET new == [id |-> IdOf(p, row[p] + 1), of |-> p, row |-> row[p] + 1] IN
     /\ \A q \in Importers \ {p} : \A r \in pend[q] : r.id # new.id
     /\ IF \E r \in table \cup pend[p] : r.id = new.id
        THEN Ends(p, "err") /\ UNCHANGED <<pend, row>>
        ELSE /\ pend' = [pend EXCEPT ![p] = @ \cup {new}]
             /\ row' = [row EXCEPT ![p] = @ + 1]
             /\ UNCHANGED <<stage, outcome>>
  /\ UNCHANGED <<call, count, base, lo, table, lost>>

\* Mutant of InsertFails: the error is that of an inner scope, and err is nil.
InsertFails_Shadowed(p) ==
  /\ stage[p] = "insert"
  /\ Ends(p, "nil")
  /\ UNCHANGED <<call, count, base, lo, row, pend, table, lost>>

\* The statement fails.
InsertFails(p) ==
  /\ stage[p] = "insert"
  /\ Ends(p, "err")
  /\ UNCHANGED <<call, count, base, lo, row, pend, table, lost>>

BatchDone(p) ==
  /\ stage[p] = "insert" /\ row[p] >= BatchEnd(p)
  /\ lo' = [lo EXCEPT ![p] = @ + Batch]
  /\ stage' = [stage EXCEPT ![p] = "batch"]
  /\ UNCHANGED <<call, count, base, row, pend, outcome, table, lost>>

\* Mutant of Deferred: no Rollback.
Deferred_Open(p) ==
  /\ stage[p] = "end"
  /\ \/ outcome[p] = "err" /\ UNCHANGED <<pend, table, lost>>
     \/ /\ outcome[p] # "err" /\ table' = table \cup pend[p]
        /\ pend' = [pend EXCEPT ![p] = {}] /\ UNCHANGED lost
     \/ outcome[p] # "err" /\ lost' = lost \cup {p}
        /\ pend' = [pend EXCEPT ![p] = {}] /\ UNCHANGED table
  /\ stage' = [stage EXCEPT ![p] = "done"]
  /\ UNCHANGED <<call, count, base, lo, row, outcome>>

\* The deferred function rolls back after an error, and else, also while the
\* function panics, commits and ignores whether that succeeds.
Deferred(p) ==
  /\ stage[p] = "end"
  /\ \/ outcome[p] = "err" /\ UNCHANGED <<table, lost>>
     \/ outcome[p] # "err" /\ table' = table \cup pend[p] /\ UNCHANGED lost
     \/ outcome[p] # "err" /\ lost' = lost \cup {p} /\ UNCHANGED table
  /\ pend' = [pend EXCEPT ![p] = {}]
  /\ stage' = [stage EXCEPT ![p] = "done"]
  /\ UNCHANGED <<call, count, base, lo, row, outcome>>

Progress(p) ==
  \/ OpenFails(p) \/ ReadSheet(p) \/ GenData(p) \/ NextBatch(p)
  \/ Insert(p) \/ BatchDone(p) \/ Deferred(p)

ImportNext == \E p \in Importers : Progress(p) \/ InsertFails(p)

\* Importers run.  Nothing makes one fail that waits for the id of another.
ImportFairness == \A p \in Importers : WF_importVars(Progress(p))

ImportSpec == ImportInit /\ [][ImportNext]_importVars /\ ImportFairness

-----------------------------------------------------------------------------
(* Properties *)

Saved(p) == {r.row : r \in {s \in table : s.of = p}}

\* An import that fails, panics or races with another one leaves no part of
\* its rows in the table (the transaction of SaveDb).
AllOrNothing == \A p \in Importers : Saved(p) \in {{}, 1..count[p]}

\* No error means that every row that was read is in the table, however the
\* batches cut it, and an error that none is.  Two errors are reported to nobody:
\* that of a Commit, and that of reading a sheet, of which fewer rows are read
\* then.
Reported ==
  \A p \in Importers : stage[p] = "done" =>
    /\ outcome[p] = "nil" /\ p \notin lost => Saved(p) = 1..count[p]
    /\ outcome[p] = "err" => Saved(p) = {}

\* What the caller was told, and whether it is true.
Told ==
  [p \in Importers |->
     IF stage[p] # "done" THEN "none"
     ELSE IF outcome[p] = "nil" /\ p \in lost THEN "lost" ELSE outcome[p]]

Atomic == INSTANCE AtomicImport WITH rows <- count, told <- Told

\* Concurrent imports are as good as imports one after the other, each of them
\* atomic: at its Commit an import that reports no error brings in all its rows,
\* whose ids go on from those that are in the table then, although it has looked
\* up the largest id long before (GenDataInt, SaveDb).  A Commit that fails
\* brings in none, and is told as a success.
ImplementsAtomic == Atomic!AtomicSpec

\* Imports that look up the same largest id do not disturb each other's rows:
\* one of them wins, and the integer ids in the table have no gaps and no
\* duplicates.
DenseIds ==
  /\ Ints = 1..MaxId
  /\ \A r, s \in table : r.id = s.id => r = s

\* Every import ends: two that insert the same ids do not wait for each other.
ImportsEnd == \A p \in Importers : <>(stage[p] = "done")

\* "SaveDbByName ... sheetName": the rows are those of the sheet of that name,
\* which has a title and has so many.
NamedSheet ==
  \A p \in Importers : stage[p] = "done" /\ outcome[p] = "nil" =>
    count[p] < book[p][IF name[p] = NoName THEN 1 ELSE name[p]]

=============================================================================
