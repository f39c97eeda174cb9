------------------------- MODULE MCBackgroundImport -------------------------
(***************************************************************************)
(* Background and ExcelImport in one run.  They share no state and do not  *)
(* call each other: a behaviour exercises one of them.  In a behaviour of  *)
(* the background parts every import has failed to open its file before.   *)
(***************************************************************************)
EXTENDS MCBackground, MCExcelImport

CONSTANTS p1, p2

VARIABLE turn

backgroundImportVars == <<turn, vars, importVars>>

BackgroundImportInit ==
  /\ turn \in {"background", "import"}
  /\ Init /\ (turn = "import" => part = "notify" /\ impl = "shellx")
  /\ ImportInit
  /\ turn = "background" => \A p \in Importers : name[p] = NoName /\ ~int[p]

Opened == \A p \in Importers : stage[p] = "done"

BackgroundImportNext ==
  /\ UNCHANGED turn
  /\ \/ turn = "background" /\ Opened /\ Next /\ UNCHANGED importVars
     \/ turn = "background" /\ (\E p \in Importers : OpenFails(p) \/ Deferred(p)) /\ UNCHANGED vars
     \/ turn = "import" /\ ImportNext /\ UNCHANGED vars

BackgroundImportSpec ==
  /\ BackgroundImportInit /\ [][BackgroundImportNext]_backgroundImportVars
  /\ Fairness /\ ImportFairness

=============================================================================
