---------------------------- MODULE MCQueryFiles ----------------------------
(***************************************************************************)
(* Query and Edits in one run.  They share no state and do not call each   *)
(* other: a behaviour exercises one of them.                               *)
(***************************************************************************)
EXTENDS MCQuery, MCFiles

VARIABLE turn

queryFilesVars == <<turn, vars, editVars>>

QueryFilesInit ==
  /\ turn \in {"query", "files"}
  /\ Init /\ (turn = "files" => part = "search" /\ dialect = "mysql")
  /\ EditsInit /\ (turn = "query" => \A c \in Calls : job[c].op = "CreateFile")

QueryFilesNext ==
  /\ UNCHANGED turn
  /\ \/ turn = "query" /\ Next /\ UNCHANGED editVars
     \/ turn = "files" /\ EditsNext /\ UNCHANGED vars

QueryFilesSpec == QueryFilesInit /\ [][QueryFilesNext]_queryFilesVars

Symmetry == Permutations({i1, i2, i3}) \cup Permutations({w1, w2})

=============================================================================
