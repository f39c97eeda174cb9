------------------------------- MODULE Search -------------------------------
(***************************************************************************)
(* Searches: gormx/query.go, gormx/condition.go and MakeCondition.         *)
(* ResolveSearchQuery walks through the fields of a form, a structure      *)
(* whose tags say what each field filters by, and collects clauses;        *)
(* MakeCondition puts them into one statement.  A tagged field may be a    *)
(* form itself, of a joined table; its clauses are collected in the join.  *)
(* A behaviour of this module is one walk: the fields are chosen when the  *)
(* walk comes to them.                                                     *)
(***************************************************************************)
EXTENDS Integers, SequencesExt

CONSTANTS Columns, Values,
          Types,        \* types of tags that occur
          MaxFields,    \* bound on the fields of a form, nested ones included
          MaxNesting      \* bound on its nesting

ASSUME BoundsAssumption == MaxFields \in Nat /\ MaxNesting \in Nat

VARIABLES
  dialect,    \* the driver that the walk is told
  stack,      \* of the forms in the walk: the condition that their clauses go
              \* to; 0 is the main one, 1, 2... are joins, -1 is nil
  joins,      \* number of joins
  where,      \* the clauses of all conditions, each with its condition
  orders,     \* of every condition: its orders
  filters,    \* history: filters of the fields walked through, each with the
  sortings,   \* condition of its form, and what fields asked to sort by
  walk,       \* "fields", "done" or "panic"
  made,       \* how many conditions are in the statement
  statement   \* clauses and orders of the statement

searchVars == <<dialect, stack, joins, where, orders, filters, sortings, walk, made, statement>>

Dialects == {"mysql", "postgres"}

\* What is said to ignore case has an i before it.
Plain(type) ==
  CASE type = "iexact" -> "exact"           [] type = "icontains" -> "contains"
    [] type = "istartswith" -> "startswith" [] type = "iendswith" -> "endswith"
    [] OTHER -> type

\* The operator of a type: the i makes no difference, but the driver does.
Operator(driver, type) ==
  CASE Plain(type) = "exact" -> "="
    [] Plain(type) \in {"contains", "startswith", "endswith"} ->
         IF driver = "postgres" THEN "ILIKE" ELSE "LIKE"
    [] OTHER -> type        \* gt, gte, lt, lte, in, isnull

\* A clause: its text is the column and the operator.
Clauses == [column : Columns, op : {Operator(d, t) : d \in Dialects, t \in Types},
            arg : [pattern : {Plain(t) : t \in Types}, value : Values]]
Text(c) == <<c.column, c.op>>
Clause(type, column, value) ==
  [column |-> column, op |-> Operator(dialect, type),
   arg |-> [pattern |-> Plain(type), value |-> value]]

Orders == [column : Columns, way : {"asc", "desc"}]
Statements == [where : SUBSET Clauses, order : Seq(Orders)]

SearchTypeOK ==
  /\ dialect \in Dialects
  /\ joins \in 0..MaxFields
  /\ stack \in Seq(-1..joins) /\ Len(stack) <= MaxNesting + 1
  /\ where \subseteq [in : 0..joins, clause : Clauses]
  /\ orders \in [0..MaxFields -> Seq(Orders)]
  /\ filters \in Seq([in : 0..joins, type : Types, clause : Clauses])
  /\ sortings \in Seq([in : 0..joins, by : Orders])
  /\ walk \in {"fields", "done", "panic"}
  /\ made \in 0..(joins + 1)
  /\ statement \in Statements

Nothing == [where |-> {}, order |-> <<>>]

SearchInit ==
  /\ dialect \in Dialects
  /\ stack = <<0>> /\ joins = 0 /\ where = {} /\ orders = [k \in 0..MaxFields |-> <<>>]
  /\ filters = <<>> /\ sortings = <<>> /\ walk = "fields" /\ made = 0 /\ statement = Nothing

-----------------------------------------------------------------------------
collected == <<where, orders, filters, sortings>>
Panics == walk' = "panic" /\ UNCHANGED <<stack, joins, collected, made, statement>>
Here == Last(stack)

\* There is another field.
Field == walk = "fields" /\ stack # <<>> /\ Len(filters) + Len(sortings) + joins < MaxFields
Deeper == Len(stack) <= MaxNesting

\* A field without a tag is walked through with the same condition, if it is a
\* structure.  Fields tagged "-" and empty fields change nothing.
Untagged ==
  /\ Field
  /\ \/ /\ Deeper
        /\ stack' = Append(stack, Here)
        /\ UNCHANGED <<joins, collected, walk, made, statement>>
     \/ Panics

\* Mutant of SetWhere: what was set before is lost.
SetWhere_Fresh(to, c) == {w \in where : w.in # to} \cup {[in |-> to, clause |-> c]}

\* Clauses are kept by their text.
SetWhere(to, c) ==
  {w \in where : ~(w.in = to /\ Text(w.clause) = Text(c))} \cup {[in |-> to, clause |-> c]}

Filter(type, column, value) ==
  /\ Field
  /\ IF Here = -1 THEN Panics
     ELSE LET c == Clause(type, column, value) IN
          /\ where' = SetWhere(Here, c)
          /\ filters' = Append(filters, [in |-> Here, type |-> type, clause |-> c])
          /\ UNCHANGED <<stack, joins, orders, sortings, walk, made, statement>>

OrderBy(column, way) ==
  /\ Field
  /\ IF Here = -1 THEN Panics
     ELSE LET by == [column |-> column, way |-> way] IN
          /\ orders' = [orders EXCEPT ![Here] = Append(@, by)]
          /\ sortings' = Append(sortings, [in |-> Here, by |-> by])
          /\ UNCHANGED <<stack, joins, where, filters, walk, made, statement>>

\* The text of a join names two columns: a tag with fewer is an index out of
\* range.
JoinText == Field /\ Panics

\* A left or inner join.  Only the main condition has joins: a join in a join
\* gets nil for its condition.
Join ==
  /\ Field
  /\ IF Here = -1 THEN Panics
     ELSE /\ Deeper
          /\ stack' = Append(stack, IF Here = 0 THEN joins + 1 ELSE -1)
          /\ joins' = IF Here = 0 THEN joins + 1 ELSE joins
          /\ UNCHANGED <<collected, walk, made, statement>>

EndOfForm ==
  /\ walk = "fields" /\ stack # <<>>
  /\ stack' = Front(stack)
  /\ UNCHANGED <<joins, collected, walk, made, statement>>

\* MakeCondition: the next condition goes to the statement, the joins in their
\* order and then the form itself, and of each first the clauses.
MakeCondition ==
  LET k == IF made < joins THEN made + 1 ELSE 0 IN
  /\ walk = "fields" /\ stack = <<>>
  /\ statement' = [where |-> statement.where \cup {w.clause : w \in {w \in where : w.in = k}},
                   order |-> statement.order \o orders[k]]
  /\ made' = made + 1
  /\ walk' = IF k = 0 THEN "done" ELSE "fields"
  /\ UNCHANGED <<stack, joins, collected>>

SearchNext ==
  /\ UNCHANGED dialect
  /\ \/ Untagged \/ JoinText \/ Join \/ EndOfForm \/ MakeCondition
     \/ \E column \in Columns :
          \/ \E type \in Types, value \in Values : Filter(type, column, value)
          \/ \E way \in {"asc", "desc"} : OrderBy(column, way)

-----------------------------------------------------------------------------
(* Properties *)

\* A condition goes to the statement before another one.
Earlier(k, l) == 0 < k /\ (k < l \/ l = 0)

\* The statement has the clause that the walk made of every field, however deep,
\* and no other; and every order.  The orders of a joined form come before those
\* of the form that joins it, wherever their fields are, and otherwise in the
\* order of the fields.
\* Two things are less than a form may mean.  A later field of the same form
\* that comes to the same column and operator replaces the clause of an earlier
\* one: of contains and startswith, or contains and icontains, only the later one
\* filters.  And the clause is the code's (Operator), which differs from what
\* query.go:15-26 says of the types on Postgres: iexact, said to ignore case,
\* becomes '=', and contains, startswith and endswith, said to be LIKE, become
\* ILIKE as if they had an i (lines 87-119).
AllAsked ==
  walk = "done" =>
    /\ \A i \in DOMAIN filters :
         \/ filters[i].clause \in statement.where
         \/ \E j \in DOMAIN filters :
              j > i /\ filters[j].in = filters[i].in
              /\ Text(filters[j].clause) = Text(filters[i].clause)
    /\ \A c \in statement.where : \E i \in DOMAIN filters : filters[i].clause = c
    /\ \A i \in DOMAIN sortings : \E m \in DOMAIN statement.order : statement.order[m] = sortings[i].by
    /\ \A m \in DOMAIN statement.order : \E i \in DOMAIN sortings : statement.order[m] = sortings[i].by
    /\ \A i, j \in DOMAIN sortings :
         Earlier(sortings[i].in, sortings[j].in) \/ (sortings[i].in = sortings[j].in /\ i < j) =>
           \E m, n \in DOMAIN statement.order :
             m < n /\ statement.order[m] = sortings[i].by /\ statement.order[n] = sortings[j].by

=============================================================================
