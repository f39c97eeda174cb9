------------------------------- MODULE Query -------------------------------
(***************************************************************************)
(* The parts that find, place, describe and carry rows: searches           *)
(* (gormx/query.go), rule conditions (condition/condition.go), sort        *)
(* numbers (gormx/sort.go), the code generator (gormx/gen) and sheets      *)
(* (toolx/excelExport.go).  They share no state and do not call each       *)
(* other: a behaviour exercises one of them.                               *)
(***************************************************************************)
EXTENDS Search, Condition, SortOrder, Gen, Sheet

VARIABLE part

vars == <<part, searchVars, conditionVars, sortVars, genVars, sheetVars>>

Init ==
  /\ part \in {"search", "condition", "sort", "gen", "sheet"}
  /\ SearchInit /\ (part # "search" => dialect = "mysql")
  /\ ConditionInit /\ SortInit /\ GenInit /\ SheetInit

Next ==
  /\ UNCHANGED part
  /\ \/ part = "search" /\ SearchNext
        /\ UNCHANGED <<conditionVars, sortVars, genVars, sheetVars>>
     \/ part = "condition" /\ ConditionNext
        /\ UNCHANGED <<searchVars, sortVars, genVars, sheetVars>>
     \/ part = "sort" /\ SortNext
        /\ UNCHANGED <<searchVars, conditionVars, genVars, sheetVars>>
     \/ part = "gen" /\ GenNext
        /\ UNCHANGED <<searchVars, conditionVars, sortVars, sheetVars>>
     \/ part = "sheet" /\ SheetNext
        /\ UNCHANGED <<searchVars, conditionVars, sortVars, genVars>>

Spec == Init /\ [][Next]_vars

TypeOK ==
  /\ part \in {"search", "condition", "sort", "gen", "sheet"}
  /\ SearchTypeOK /\ ConditionTypeOK /\ SortTypeOK /\ GenTypeOK /\ SheetTypeOK

=============================================================================
