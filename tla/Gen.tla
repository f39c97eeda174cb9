-------------------------------- MODULE Gen --------------------------------
(***************************************************************************)
(* Describing a table for the code generator: GetColumn of gormx/gen for   *)
(* MySQL, Postgres and Sqlite, and the constructors that choose among      *)
(* them.  The columns and the indexes are asked for in several queries,    *)
(* each of which may fail, while others change the table.                  *)
(*                                                                         *)
(* Of a column only its name and its indexes are modelled, and of an index *)
(* whether it is the primary key.  The columns are sorted at the end: the  *)
(* list is a set, with a number for each of the rows that are alike.       *)
(***************************************************************************)
EXTENDS Integers, FiniteSets

CONSTANTS TableColumns,     \* the columns the table may have
          Indexes,     \* its indexes: [id, primary, on], in the order of id
          MaxChanges   \* changes of the table meanwhile

\* A column is in one primary key only.
ASSUME IndexAssumption ==
  /\ TableColumns \cap Indexes = {} /\ MaxChanges \in Nat
  /\ \A i \in Indexes : i.on \in TableColumns /\ i.id \in Nat /\ i.primary \in BOOLEAN
  /\ \A i, k \in Indexes :
       i.id = k.id \/ (i.primary /\ k.primary /\ i.on = k.on) => i = k

VARIABLES
  column,    \* the columns of the table
  elsewhere, \* those of the table of that name in another schema of Postgres
  index,     \* the indexes of the table
  rowid,     \* the INTEGER PRIMARY KEY of a table of Sqlite, which has no index
  driver,    \* the database that holds it
  service,   \* the service that is asked
  ask,       \* "none", "columns", "indexes", "nil" or "error"
  reply,     \* the rows that were found, each with a column and a number
  left,      \* those that are not in the list yet
  list,      \* the rows with an index or none: ColumnData.Columns
  steady,    \* history: columns and indexes that were there all the time,
  existed,   \* and those that were there at some time
  skipped,   \* history: columns and indexes whose query failed unseen
  changes    \* changes of the table

genVars == <<column, elsewhere, index, rowid, driver, service, ask, reply, left, list,
             steady, existed, skipped, changes>>

Drivers == {"mysql", "postgres", "sqlite"}
NoIndex == [primary |-> FALSE]
FoundRows == [name : TableColumns, row : 1..4]

GenTypeOK ==
  /\ column \subseteq TableColumns /\ elsewhere \subseteq TableColumns
  /\ index \subseteq Indexes /\ rowid \subseteq Indexes
  /\ driver \in Drivers /\ service \in Drivers
  /\ ask \in {"none", "columns", "indexes", "nil", "error"}
  /\ left \subseteq reply /\ reply \subseteq FoundRows
  /\ list \subseteq [of : reply, index : Indexes \cup {NoIndex}]
  /\ steady \subseteq existed /\ existed \subseteq TableColumns \cup Indexes
  /\ skipped \subseteq TableColumns \cup Indexes
  /\ changes \in 0..MaxChanges

\* NewAutoCodeServiceByDB takes the service of the database.
ByDB(db) == db

\* NewAutoCodeService takes that of Postgres for Sqlite, and that of MySQL for
\* Postgres.
ByConfig(db) == IF db = "sqlite" THEN "postgres" ELSE "mysql"

GenInit ==
  /\ column = {} /\ elsewhere = {} /\ index = {} /\ rowid = {}
  /\ driver = "mysql" /\ service = "mysql"
  /\ ask = "none" /\ reply = {} /\ left = {} /\ list = {}
  /\ steady = {} /\ existed = {} /\ skipped = {} /\ changes = 0

\* A service is made for some database, and GetColumn called for some table.
\* A primary key of one column may be an INTEGER PRIMARY KEY in Sqlite.
NewService ==
  /\ ask = "none" /\ ask' = "columns"
  /\ driver' \in Drivers /\ service' \in {ByDB(driver'), ByConfig(driver')}
  /\ column' \in SUBSET TableColumns
  /\ index' \in SUBSET {i \in Indexes : i.on \in column'}
  /\ elsewhere' \in IF driver' = "postgres" THEN SUBSET TableColumns ELSE {{}}
  /\ rowid' = {} \/ (driver' = "sqlite" /\ \E i \in Indexes :
                       rowid' = {i} /\ {k \in Indexes : k.primary} = {i})
  /\ steady' = column' \cup index' /\ existed' = steady'
  /\ UNCHANGED <<reply, left, list, skipped, changes>>

asked == <<elsewhere, rowid, driver, service, ask, reply, left, list, skipped>>

\* Somebody adds or drops a column, with its indexes, or an index.
Change ==
  /\ ask \in {"columns", "indexes"} /\ changes < MaxChanges
  /\ changes' = changes + 1
  /\ \/ \E c \in TableColumns : column' = column \cup {c} /\ UNCHANGED index
     \/ \E c \in column : column' = column \ {c} /\ index' = {i \in index : i.on # c}
     \/ \E i \in Indexes : i.on \in column /\ index' = index \cup {i} /\ UNCHANGED column
     \/ \E i \in index : index' = index \ {i} /\ UNCHANGED column
  /\ steady' = steady \cap (column' \cup index')
  /\ existed' = existed \cup column' \cup index'
  /\ UNCHANGED asked

tableVars == <<column, elsewhere, index, rowid, driver, service, steady, existed, changes>>

\* A query fails, as all do on another database than the service is for, and
\* its error is returned: those of Sqlite for indexes are not.
QueryFails ==
  /\ ask = "columns" \/ (ask = "indexes" /\ service # "sqlite")
  /\ ask' = "error" /\ UNCHANGED <<tableVars, reply, left, list, skipped>>

\* Mutant of Found: columns that both tables have are left out.
Found_Own ==
  {f \in FoundRows : f.name \in column \ elsewhere /\ f.row = 1}

\* Postgres looks for the name of the table in all schemas, and joins what it
\* finds by the names of table and column: a column of two such tables is in
\* four rows.
Found ==
  {f \in FoundRows : f.name \in column \cup elsewhere
                      /\ (f.row = 1 \/ f.name \in column \cap elsewhere)}

AskColumns ==
  /\ ask = "columns" /\ service = driver
  /\ reply' = Found /\ left' = Found
  /\ ask' = IF Found = {} /\ service # "postgres" THEN "nil" ELSE "indexes"
  /\ UNCHANGED <<tableVars, list, skipped>>

\* A row stands in the list once for every index, or once without.
Described(f, found) ==
  IF found = {} THEN {[of |-> f, index |-> NoIndex]}
  ELSE {[of |-> f, index |-> i] : i \in found}

IndexesOf(c) == {i \in index : i.on = c}

\* The list is returned when the last row is in it.
Adds(f, entries) ==
  /\ list' = list \cup entries /\ left' = left \ {f}
  /\ ask' = IF left = {f} THEN "nil" ELSE "indexes"
  /\ UNCHANGED <<tableVars, reply>>

MysqlIndex(f) ==
  /\ ask = "indexes" /\ service = "mysql" /\ f \in left
  /\ Adds(f, Described(f, IndexesOf(f.name))) /\ UNCHANGED skipped

\* Sqlite asks for the indexes of the table, and for the columns of each: an
\* index whose query fails is left out, and a column when the first one does.
\* That a column is the primary key is read with the columns, and not used.
SqliteIndex(f) ==
  LET listed == IndexesOf(f.name) \ rowid IN
  /\ ask = "indexes" /\ service = "sqlite" /\ f \in left
  /\ \/ \E found \in SUBSET listed :
          Adds(f, Described(f, found)) /\ skipped' = skipped \cup (listed \ found)
     \/ Adds(f, {}) /\ skipped' = skipped \cup {f.name}

\* Mutant of Chosen: the first index of a column is kept.
Chosen_First(c) ==
  {i \in IndexesOf(c) : \A k \in IndexesOf(c) : i.id <= k.id}

\* Postgres keeps one index of a column: the first one, unless one is the
\* primary key.
Chosen(c) ==
  {i \in IndexesOf(c) : \A k \in IndexesOf(c) : i.primary \/ (~k.primary /\ i.id <= k.id)}

\* All indexes of the table in schema public are found with one query.
PostgresIndexes ==
  /\ ask = "indexes" /\ service = "postgres" /\ ask' = "nil"
  /\ list' = UNION {Described(f, Chosen(f.name)) : f \in reply} /\ left' = {}
  /\ UNCHANGED <<tableVars, reply, skipped>>

GenNext ==
  \/ NewService \/ Change \/ QueryFails \/ AskColumns \/ PostgresIndexes
  \/ \E f \in left : MysqlIndex(f) \/ SqliteIndex(f)

-----------------------------------------------------------------------------
(* Properties *)

\* GetColumn without an error.  Every column that was there all the time is in
\* the list, with its primary key when that was, and of MySQL with every index;
\* and the list has no column and no index that was not there at some time.  Not
\* so for what Sqlite leaves out when a query fails, and for an INTEGER PRIMARY
\* KEY, which comes without its key.  Postgres lists a column with one index at
\* most, and once, if no other schema has a table of the name; if one has, its
\* columns come too, and those of both tables four times.
EveryColumn ==
  ask = "nil" =>
    /\ \A c \in (steady \cap TableColumns) \ skipped : \E e \in list : e.of.name = c
    /\ \A i \in (steady \cap Indexes) \ (skipped \cup rowid) :
         (i.primary /\ i.on \notin skipped) \/ service = "mysql" =>
           \E e \in list : e.of.name = i.on /\ e.index = i
    /\ \A e \in list : /\ e.of.name \in existed \cup elsewhere
                        /\ e.index \in existed \cup {NoIndex}
    /\ service = "postgres" =>
         \A e, o \in list : e.of.name = o.of.name =>
           e.index = o.index /\ (e = o \/ e.of.name \in elsewhere)

=============================================================================
