----------------------------- MODULE SortOrder -----------------------------
(***************************************************************************)
(* Sort numbers: gormx/sort.go.  CalculateSort finds the number to store   *)
(* with a row that is put at a given place, by up to three queries; its    *)
(* caller stores it.  Calls run in transactions that see what others have  *)
(* committed in between.                                                   *)
(*                                                                         *)
(* Numbers are floating point there and multiples of 1/Unit here: halves   *)
(* are taken until the unit is reached, and rounded then, as the last bit  *)
(* of a float is.                                                          *)
(***************************************************************************)
EXTENDS Integers, FiniteSetsExt

CONSTANTS Rows, Sorters,
          Unit,       \* a sort of 1
          MaxSort     \* bound on the numbers asked for, and to be gone beyond

ASSUME UnitAssumption == Unit \in Nat \ {0} /\ MaxSort \in Nat

VARIABLES
  sort,       \* of every row: its number, 0 when there is no row
  calc,       \* of every call: where it is, its arguments, what it has read
              \* and its result
  disturbed,  \* history: calls that others overlapped, whose queries failed,
              \* or whose half was rounded
  doubtful    \* history: rows whose number such a call has stored

sortVars == <<sort, calc, disturbed, doubtful>>

CalcStages == {"max", "same", "prev", "next", "store", "error"}

Calculations == [at : CalcStages, id : Rows, want : Nat, prev : Nat, new : Nat]

SortTypeOK ==
  /\ sort \in [Rows -> Nat]
  /\ calc \in [Sorters -> [at : {"idle"}] \cup Calculations]
  /\ disturbed \subseteq Sorters /\ doubtful \subseteq Rows

SortInit ==
  /\ sort = [i \in Rows |-> 0]
  /\ calc = [c \in Sorters |-> [at |-> "idle"]]
  /\ disturbed = {} /\ doubtful = {}

Sorts == {sort[i] : i \in Rows} \ {0}
Calculating == {c \in Sorters : calc[c].at # "idle"}

-----------------------------------------------------------------------------
Calculate(c, i, want) ==
  /\ calc[c].at = "idle"
  /\ calc' = [calc EXCEPT ![c] = [at |-> IF want = 0 THEN "max" ELSE "same", id |-> i,
                                  want |-> want, prev |-> 0, new |-> 0]]
  /\ UNCHANGED <<sort, disturbed, doubtful>>

\* No place is asked for: the row goes to the end.
QueryMax(c) ==
  /\ calc[c].at = "max"
  /\ \/ calc' = [calc EXCEPT ![c].at = "store", ![c].new = Max(Sorts \cup {0}) + Unit]
     \/ calc' = [calc EXCEPT ![c].at = "error"]
  /\ UNCHANGED <<sort, disturbed, doubtful>>

\* Does another row have the number?  A query that fails means no.
QuerySame(c) ==
  LET q == calc[c] taken == \E i \in Rows \ {q.id} : sort[i] = q.want IN
  /\ q.at = "same"
  /\ \/ /\ taken
        /\ calc' = [calc EXCEPT ![c].at = "prev"]
        /\ UNCHANGED disturbed
     \/ /\ calc' = [calc EXCEPT ![c].at = "store", ![c].new = q.want]
        /\ disturbed' = IF taken THEN disturbed \cup {c} ELSE disturbed
  /\ UNCHANGED <<sort, doubtful>>

Before(s) == Max({n \in Sorts : n < s} \cup {0})
After(s) == IF \E n \in Sorts : n > s THEN Min({n \in Sorts : n > s}) ELSE 0

\* The numbers before and after it.  A query that fails reads 0, like one
\* that finds none.
QueryPrev(c) ==
  LET before == Before(calc[c].want) IN
  /\ calc[c].at = "prev"
  /\ \E n \in {before, 0} :
       /\ calc' = [calc EXCEPT ![c].at = "next", ![c].prev = n]
       /\ disturbed' = IF n = before THEN disturbed ELSE disturbed \cup {c}
  /\ UNCHANGED <<sort, doubtful>>

\* Mutant of NewSort: the row always goes one further.
NewSort_Further(prev, s, next) == s + Unit

\* Mutant of NewSort: half the number, as if it were the first.
NewSort_Half(prev, s, next) == s \div 2

NewSort(prev, s, next) ==
  CASE prev > 0 /\ next > 0 -> (prev + s) \div 2
    [] prev > 0 /\ next = 0 -> s + Unit
    [] prev = 0 -> s \div 2

\* The last query, from which the number follows.
QueryNext(c) ==
  LET q == calc[c] after == After(q.want) IN
  /\ q.at = "next"
  /\ \E n \in {after, 0} : LET new == NewSort(q.prev, q.want, n) IN
       /\ calc' = [calc EXCEPT ![c] = [q EXCEPT !.at = "store", !.prev = 0, !.new = new]]
       /\ disturbed' = IF n = after /\ new \notin {q.prev, q.want} THEN disturbed
                       ELSE disturbed \cup {c}
  /\ UNCHANGED <<sort, doubtful>>

\* The caller stores the number: this disturbs all calls that run.
Store(c) ==
  LET q == calc[c] IN
  /\ q.at = "store"
  /\ sort' = [sort EXCEPT ![q.id] = q.new]
  /\ calc' = [calc EXCEPT ![c] = [at |-> "idle"]]
  /\ disturbed' = (disturbed \cup Calculating) \ {c}
  /\ doubtful' = IF c \in disturbed THEN doubtful \cup {q.id} ELSE doubtful \ {q.id}

GiveUp(c) ==
  /\ calc[c].at = "error"
  /\ calc' = [calc EXCEPT ![c] = [at |-> "idle"]] /\ disturbed' = disturbed \ {c}
  /\ UNCHANGED <<sort, doubtful>>

\* A row is deleted.
Delete(i) ==
  /\ sort[i] > 0
  /\ sort' = [sort EXCEPT ![i] = 0] /\ doubtful' = doubtful \ {i}
  /\ UNCHANGED <<calc, disturbed>>

SortNext ==
  \/ \E c \in Sorters, i \in Rows, n \in 0..MaxSort : Calculate(c, i, n)
  \/ \E c \in Sorters : \/ Max(Sorts \cup {0}) < MaxSort /\ QueryMax(c)
                        \/ QuerySame(c) \/ QueryPrev(c) \/ QueryNext(c)
                        \/ Store(c) \/ GiveUp(c)
  \/ \E i \in Rows : Delete(i)

-----------------------------------------------------------------------------
(* Properties *)

\* No two rows have the same number ("insert at the right place"), through any
\* sequence of calls, updates of a row included, as long as one of the two was
\* stored by a call that ran alone, whose queries worked, and whose half was
\* exact.  Nothing locks the rows between the queries and the store.
DistinctSorts ==
  \A i, j \in Rows :
    i # j /\ sort[i] = sort[j] /\ sort[i] > 0 => i \in doubtful \/ j \in doubtful

\* A row is stored next to the place it was asked to be: no other row lies
\* between.
Adjacent ==
  [][\A c \in Sorters : LET q == calc[c] IN
       q.at = "store" /\ calc'[c].at = "idle" /\ q.want > 0 /\ c \notin disturbed =>
         \A j \in Rows \ {q.id} :
           ~(q.new < sort[j] /\ sort[j] < q.want) /\ ~(q.want < sort[j] /\ sort[j] < q.new)]_sortVars

=============================================================================
