----------------------------- MODULE CachedConn -----------------------------
(***************************************************************************)
(* The read-through cache in front of the database:                        *)
(* gormx/cachedgorm.go and gormx/batchx.                                   *)
(*                                                                         *)
(* Processes share one redis cache and one database.  A read goes through  *)
(* cache.Take of go-zero, which is external: one leader per key (the       *)
(* package variable singleFlights) looks the key up, on a miss queries the *)
(* database, stores what it found, or a placeholder, and shares its result *)
(* with the callers that came meanwhile.  A write (BatchExecCtx, ExecCtx)  *)
(* takes its keys from the old rows it was given, which its caller has     *)
(* read at some time before, commits, and then deletes the keys.           *)
(*                                                                         *)
(* A row is cached under its primary key, and under its value of a unique  *)
(* index as a pointer to the primary key.                                  *)
(***************************************************************************)
EXTENDS Integers, FiniteSets

CONSTANTS Procs,           \* goroutines, each with a connection of its own
          Rows,            \* primary keys
          Indexes,         \* values of the unique index
          Kinds,           \* queries in use, of "row", "query" and "expire"
          Expiry,          \* lifetime of an entry, in ticks
          Gap,             \* cacheSafeGapBetweenIndexAndPrimary, in ticks
          MaxWrites,       \* bound: committed writes
          NoRow, Absent, NotFound, Err

ASSUME KindsAssumption == Kinds \subseteq {"row", "query", "expire"}
ASSUME ExpiryAssumption == Expiry \in Nat \ {0} /\ Gap \in Nat \ {0}

VARIABLES
  db,      \* content of every row
  writes,  \* number of committed writes, the version of the next one
  cache,   \* what redis holds under every key
  ttl,     \* ticks until the entry expires
  st,      \* state of every process
  raced,   \* history: keys whose entry was outdated when it was stored
  failed,  \* history: keys whose deletion failed since the entry was stored
  missed   \* history: keys of a row that a write did not know of since then

vars == <<db, writes, cache, ttl, st, raced, failed, missed>>

Keys == Rows \cup Indexes
Content == [idx : Indexes, ver : 0..MaxWrites]

\* What stands for no row, and what is no answer, is neither a row nor a key.
ASSUME WritesAssumption == MaxWrites \in Nat
ASSUME SentinelAssumption ==
  /\ Rows \cap Indexes = {}
  /\ \A x \in {NoRow, Absent, NotFound, Err} : x \notin Keys /\ x \notin Content
  /\ \A r \in Rows : r \notin Content
  /\ NoRow \notin {Absent, NotFound} /\ Absent # NotFound /\ Err # NotFound

Idle == [pc |-> "idle", kind |-> "none", key |-> Absent, val |-> Absent]

TypeOK ==
  /\ db \in [Rows -> Content \cup {NoRow}]
  /\ writes \in 0..MaxWrites
  /\ DOMAIN cache = Keys
  /\ \A r \in Rows : cache[r] \in Content \cup {Absent, NotFound}
  /\ \A i \in Indexes : cache[i] \in Rows \cup {Absent, NotFound}
  /\ ttl \in [Keys -> 0..(Expiry + Gap)]
  /\ \A k \in Keys : ttl[k] = 0 <=> cache[k] = Absent
  /\ raced \subseteq Keys /\ failed \subseteq Keys /\ missed \subseteq Keys

Init ==
  /\ db \in [Rows -> [idx : Indexes, ver : {0}] \cup {NoRow}]
  /\ \A r, s \in Rows : r # s /\ db[r] # NoRow /\ db[s] # NoRow => db[r].idx # db[s].idx
  /\ writes = 0
  /\ cache = [k \in Keys |-> Absent]
  /\ ttl = [k \in Keys |-> 0]
  /\ st = [p \in Procs |-> Idle]
  /\ raced = {} /\ failed = {} /\ missed = {}

\* What the database would answer now to the query behind a key.
View(k) ==
  IF k \in Rows THEN db[k]
  ELSE IF \E r \in Rows : db[r] # NoRow /\ db[r].idx = k
       THEN CHOOSE r \in Rows : db[r] # NoRow /\ db[r].idx = k
       ELSE NoRow

-----------------------------------------------------------------------------
(* redis *)

\* An entry is stored with a lifetime.
Store(k, v, life) ==
  /\ cache' = [cache EXCEPT ![k] = v]
  /\ ttl' = [ttl EXCEPT ![k] = life]
  /\ raced' = IF v = View(k) THEN raced \ {k} ELSE raced \cup {k}
  /\ failed' = failed \ {k} /\ missed' = missed \ {k}

\* Entries disappear: deleted, or expired.
Remove(gone) ==
  /\ cache' = [k \in Keys |-> IF k \in gone THEN Absent ELSE cache[k]]
  /\ raced' = raced \ gone
  /\ failed' = failed \ gone /\ missed' = missed \ gone

cacheVars == <<cache, ttl, raced, failed, missed>>

\* Time passes.
Tick ==
  /\ \E k \in Keys : ttl[k] > 0
  /\ ttl' = [k \in Keys |-> IF ttl[k] > 0 THEN ttl[k] - 1 ELSE 0]
  /\ Remove({k \in Keys : ttl[k] <= 1})
  /\ UNCHANGED <<db, writes, st>>

-----------------------------------------------------------------------------
(* cache.Take *)

\* Mutant of Flight: every connection has a SingleFlight of its own.
Flight_PerConn(p, k) == <<p, k>>

\* The SingleFlight group of a key: one for all connections, which may share
\* cache keys.
Flight(p, k) == <<k>>

Leading(p) == st[p].pc \in {"get", "query", "putNone", "putPrimary", "put"}
SameFlight(p, q) == Flight(p, st[p].key) = Flight(q, st[q].key)

\* Mutant of Continue: an error of the leader is dropped, and with it the caller.
Continue_Lost(q, res) ==
  IF res = Err THEN st[q]
  ELSE IF res = NotFound THEN Idle
  ELSE IF st[q].kind = "row" /\ st[q].key \in Indexes
       THEN [st[q] EXCEPT !.pc = "enter", !.key = res]
  ELSE IF st[q].kind = "expire" THEN [st[q] EXCEPT !.pc = "reset", !.val = res]
  ELSE Idle

\* Where a query goes when its Take returns res without having loaded a row
\* by index itself: QueryRowIndexCtx follows the pointer, QueryWithExpireCtx
\* stores the value again, and everything else returns.
Continue(q, res) ==
  IF res \in {NotFound, Err} THEN Idle
  ELSE IF st[q].kind = "row" /\ st[q].key \in Indexes
       THEN [st[q] EXCEPT !.pc = "enter", !.key = res]
  ELSE IF st[q].kind = "expire" THEN [st[q] EXCEPT !.pc = "reset", !.val = res]
  ELSE Idle

\* The leader p returns res to itself and to the callers waiting for it; own
\* is where p goes.
Finish(p, res, own) ==
  st' = [q \in Procs |->
           IF q = p THEN own
           ELSE IF st[q].pc = "wait" /\ SameFlight(p, q) THEN Continue(q, res)
           ELSE st[q]]

\* Join the flight of the key, as its leader or behind one.
Enter(p) ==
  /\ st[p].pc = "enter"
  /\ \E role \in {"get", "wait"} :
       /\ role = "wait" <=> \E q \in Procs \ {p} : Leading(q) /\ SameFlight(p, q)
       /\ st' = [st EXCEPT ![p].pc = role]
  /\ UNCHANGED <<db, writes, cacheVars>>

\* Mutant of Get: a hit prolongs the entry.
Get_Refresh(p) ==
  /\ st[p].pc = "get"
  /\ LET k == st[p].key IN
     \/ /\ cache[k] # Absent
        /\ Finish(p, cache[k], Continue(p, cache[k]))
        /\ ttl' = [ttl EXCEPT ![k] = Expiry + Gap]
     \/ Finish(p, Err, Idle) /\ UNCHANGED ttl
     \/ /\ cache[k] = Absent
        /\ st' = [st EXCEPT ![p].pc = "query"]
        /\ UNCHANGED ttl
  /\ UNCHANGED <<db, writes, cache, raced, failed, missed>>

\* The leader looks the key up.  An error of redis is returned, not queried.
Get(p) ==
  /\ st[p].pc = "get"
  /\ LET k == st[p].key IN
     \/ cache[k] # Absent /\ Finish(p, cache[k], Continue(p, cache[k]))
     \/ Finish(p, Err, Idle)
     \/ cache[k] = Absent /\ st' = [st EXCEPT ![p].pc = "query"]
  /\ UNCHANGED <<db, writes, cacheVars>>

\* The leader queries the database.  By index, the primary key and the row
\* are both read.
Query(p) ==
  /\ st[p].pc = "query"
  /\ LET k == st[p].key
         v == View(k)
     IN \/ /\ v = NoRow
           /\ st' = [st EXCEPT ![p].pc = "putNone"]
        \/ /\ v # NoRow /\ k \in Indexes
           /\ st' = [st EXCEPT ![p].pc = "putPrimary",
                               ![p].val = [ptr |-> v, row |-> db[v]]]
        \/ /\ v # NoRow /\ k \in Rows
           /\ st' = [st EXCEPT ![p].pc = "put", ![p].val = v]
        \/ Finish(p, Err, Idle)
  /\ UNCHANGED <<db, writes, cacheVars>>

\* A placeholder is stored when there is no entry (an error is only logged).
PutNone(p) ==
  /\ st[p].pc = "putNone"
  /\ \/ cache[st[p].key] = Absent /\ Store(st[p].key, NotFound, Expiry)
     \/ UNCHANGED cacheVars
  /\ Finish(p, NotFound, Idle)
  /\ UNCHANGED <<db, writes>>

\* The closure of QueryRowIndexCtx stores the row before the index entry,
\* with the longer lifetime, and gives up when that fails.
PutPrimary(p) ==
  /\ st[p].pc = "putPrimary"
  /\ \/ /\ Store(st[p].val.ptr, st[p].val.row, Expiry + Gap)
        /\ st' = [st EXCEPT ![p].pc = "put", ![p].val = st[p].val.ptr]
     \/ Finish(p, Err, Idle) /\ UNCHANGED cacheVars
  /\ UNCHANGED <<db, writes>>

\* The leader stores what it loaded (an error is only logged) and shares it.
\* A row loaded by index is complete: "found" ends QueryRowIndexCtx.
Put(p) ==
  /\ st[p].pc = "put"
  /\ Store(st[p].key, st[p].val, Expiry) \/ UNCHANGED cacheVars
  /\ Finish(p, st[p].val,
            IF st[p].kind = "expire" THEN Continue(p, st[p].val) ELSE Idle)
  /\ UNCHANGED <<db, writes>>

-----------------------------------------------------------------------------
(* CachedConn *)

\* QueryRowIndexCtx ("row"), QueryCtx ("query"), and QueryWithExpireCtx or
\* QueryWithCallbackExpireCtx ("expire") begin with a Take.
Call(p) ==
  /\ st[p] = Idle
  /\ \E kind \in Kinds : \E k \in (IF kind = "row" THEN Indexes ELSE Rows) :
       st' = [st EXCEPT ![p] = [Idle EXCEPT !.pc = "enter", !.kind = kind, !.key = k]]
  /\ UNCHANGED <<db, writes, cacheVars>>

\* QueryWithExpireCtx stores the value whether it was loaded or cached, with
\* the lifetime the caller asked for; QueryWithCallbackExpireCtx without a
\* callback goes on with QueryCtx instead.
Reset(p) ==
  /\ st[p].pc = "reset"
  /\ \/ /\ \/ \E life \in 1..Expiry : Store(st[p].key, st[p].val, life)
           \/ UNCHANGED cacheVars
        /\ st' = [st EXCEPT ![p] = Idle]
     \/ /\ st' = [st EXCEPT ![p] = [Idle EXCEPT !.pc = "enter", !.kind = "query",
                                                !.key = st[p].key]]
        /\ UNCHANGED cacheVars
  /\ UNCHANGED <<db, writes>>

\* Cache keys of a row (GetCacheKeys of a model).
CacheKeys(r, idx) == {r, idx}

\* Mutant of ExecKeys: only the primary key is invalidated.
ExecKeys_Primary(r, old, idx) == {r}

\* The keys of an Exec on row r: those of the old data (BatchExecCtx), for an
\* insertion those of the new.
ExecKeys(r, old, idx) == CacheKeys(r, IF old # NoRow THEN old.idx ELSE idx)

\* The caller of BatchExecCtx has read the old row, and will give it another
\* value of the index or the same, or insert it, or delete it (NoRow).
Prepare(p) ==
  /\ st[p] = Idle /\ writes < MaxWrites
  /\ \E r \in Rows : \E idx \in Indexes \cup {NoRow} :
       /\ db[r] # NoRow \/ idx # NoRow
       /\ st' = [st EXCEPT ![p] = [Idle EXCEPT !.pc = "exec", !.key = r,
                                              !.val = [old |-> db[r], idx |-> idx]]]
  /\ UNCHANGED <<db, writes, cacheVars>>

\* ExecCtx: the statement inserts, updates or deletes the row as it is now, and
\* commits; the unique index holds.  Of a row that is gone it changes nothing.
\* The keys were taken before: one that the row has come to meanwhile is
\* missed.  A statement that fails changes nothing.
Exec(p) ==
  LET r == st[p].key  old == st[p].val.old  idx == st[p].val.idx
      keys == ExecKeys(r, old, idx)
      new == IF idx = NoRow \/ (old # NoRow /\ db[r] = NoRow) THEN NoRow
             ELSE [idx |-> idx, ver |-> writes + 1] IN
  /\ st[p].pc = "exec"
  /\ \/ /\ writes < MaxWrites /\ writes' = writes + 1
        /\ old = NoRow => db[r] = NoRow
        /\ new # NoRow => \A s \in Rows \ {r} : db[s] # NoRow => db[s].idx # idx
        /\ db' = [db EXCEPT ![r] = new]
        /\ missed' = IF NoRow \in {old, db[r]} THEN missed
                     ELSE missed \cup {k \in {db[r].idx} \ {old.idx} : cache[k] # Absent}
        /\ st' = [st EXCEPT ![p] = [Idle EXCEPT !.pc = "del", !.val = keys]]
     \/ st' = [st EXCEPT ![p] = Idle] /\ UNCHANGED <<db, writes, missed>>
  /\ UNCHANGED <<cache, ttl, raced, failed>>

\* ... then it deletes the cache keys.  When that fails the error is returned,
\* the write stays.
Del(p) ==
  /\ st[p].pc = "del"
  /\ \/ /\ Remove(st[p].val)
        /\ ttl' = [k \in Keys |-> IF k \in st[p].val THEN 0 ELSE ttl[k]]
     \/ /\ failed' = failed \cup {k \in st[p].val : cache[k] # Absent}
        /\ UNCHANGED <<cache, ttl, raced, missed>>
  /\ st' = [st EXCEPT ![p] = Idle]
  /\ UNCHANGED <<db, writes>>

-----------------------------------------------------------------------------
Step(p) ==
  \/ Enter(p) \/ Get(p) \/ Query(p) \/ PutNone(p) \/ PutPrimary(p) \/ Put(p)
  \/ Reset(p) \/ Exec(p) \/ Del(p)

Next == Tick \/ \E p \in Procs : Call(p) \/ Prepare(p) \/ Step(p)

\* Calls that started go on, and time passes.
Fairness == WF_vars(Tick) /\ \A p \in Procs : WF_vars(Step(p))

Safety == Init /\ [][Next]_vars
Spec == Safety /\ Fairness

-----------------------------------------------------------------------------
(* Properties *)

\* At most one caller loads a key from the database at a time, although the
\* callers use different connections (the comment on singleFlights).
OneLoader ==
  \A p, q \in Procs :
    p # q /\ Leading(p) /\ Leading(q) => st[p].key # st[q].key

\* Keys that an Exec has still to delete.
Owed == UNION {st[p].val : p \in {q \in Procs : st[q].pc = "del"}}

Positive(k) == cache[k] \notin {Absent, NotFound}

\* A cached row or pointer differs from the database only while the Exec that
\* changed it has not deleted it yet, when that deletion failed, when a reader
\* stored what it had queried before the write, or when the write took its keys
\* from a row that another one had given another index value meanwhile
\* (BatchExecCtx): no sequence of writes and loads, also over the index and the
\* primary key of a row, leaves any other outdated entry behind.
Coherent ==
  \A k \in Keys :
    Positive(k) /\ cache[k] # View(k) => k \in raced \cup failed \cup missed \cup Owed

\* What the cache answers, absent entries aside, is what the database holds.
Fresh ==
  \A k \in Keys :
    \/ cache[k] = Absent
    \/ cache[k] = NotFound /\ View(k) = NoRow
    \/ cache[k] = View(k)

\* When the writes stop, outdated entries and placeholders go away for good,
\* whatever races produced them, because a hit of QueryCtx or QueryRowIndexCtx
\* does not prolong an entry.  (QueryWithExpireCtx stores its hits again; an
\* outdated entry lives as long as such calls come.)
EventuallyFresh == <>[](\A p \in Procs : st[p].kind # "expire") => <>[]Fresh

\* Every call returns: a caller that waits for another one's load gets its
\* result, error or not.
CallsReturn == \A p \in Procs : st[p].pc # "idle" ~> st[p].pc = "idle"

=============================================================================
