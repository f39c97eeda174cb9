---------------------------- MODULE AtomicImport ----------------------------
(***************************************************************************)
(* What SaveDb of toolx/excelImport.go promises, without transactions,     *)
(* batches and locks: imports that come one after the other.  All rows of  *)
(* an import are saved at once, with integer ids that go on from the       *)
(* largest one in the table, or none is.                                   *)
(***************************************************************************)
EXTENDS Integers

CONSTANT Importers

VARIABLES int,     \* imports whose ids are integers
          rows,    \* the rows that an import has read
          table,   \* the rows that are saved
          told     \* what the caller was told: "none", "nil", "err", "panic", or "lost",
           \* which is a nil that is not true

atomicVars == <<int, rows, table, told>>

AtomicInit ==
  /\ int \in [Importers -> BOOLEAN] /\ rows = [p \in Importers |-> 0]
  /\ table = {} /\ told = [p \in Importers |-> "none"]

Numbers == {r.id[2] : r \in {s \in table : s.id[1] = "int"}}
Largest == CHOOSE m \in Numbers \cup {0} : \A k \in Numbers : k <= m

NewRow(p, k) ==
  [id |-> IF int[p] THEN <<"int", Largest + k>> ELSE <<p, k>>, of |-> p, row |-> k]

\* The sheet is read.
Read(p) ==
  /\ told[p] = "none"
  /\ rows' = [rows EXCEPT ![p] = rows'[p]] /\ rows'[p] \in Nat
  /\ UNCHANGED <<int, table, told>>

Tells(p, r) == told[p] = "none" /\ told' = [told EXCEPT ![p] = r]

\* All rows are saved.
Save(p) ==
  /\ Tells(p, "nil")
  /\ table' = table \cup {NewRow(p, k) : k \in 1..rows[p]}
  /\ UNCHANGED <<int, rows>>

\* No row is saved.
Fail(p) ==
  /\ \E r \in {"err", "panic", "lost"} : Tells(p, r)
  /\ UNCHANGED <<int, rows, table>>

AtomicNext == \E p \in Importers : Read(p) \/ Save(p) \/ Fail(p)

AtomicSpec == AtomicInit /\ [][AtomicNext]_atomicVars

=============================================================================
