-------------------------- MODULE CachedConnProof ---------------------------
(***************************************************************************)
(* Proofs about the read-through cache, for every number of connections,   *)
(* rows, index values and writes.                                          *)
(*                                                                         *)
(* Coherent is inductive once it is known what the entries and the states  *)
(* of the processes hold, and that the index is unique: a commit changes   *)
(* the answer behind the row's key and behind the index value it had at    *)
(* the commit, which the commit is going to delete or records as missed,   *)
(* and behind its new index value, under which nothing but a placeholder   *)
(* or an outdated pointer can be.                                          *)
(* Most steps leave the database alone and give results to the callers     *)
(* that wait: Frame says what they have in common.                         *)
(***************************************************************************)
EXTENDS CachedConn, TLAPS

Steps == {"enter", "get", "wait", "query", "putNone", "putPrimary", "put", "reset"}

\* What can be stored under a key.
Fit(k) == IF k \in Rows THEN Content ELSE Rows

Pairs == [ptr : Rows, row : Content]
\* What BatchExecCtx was given: the old row, and the index value it will have.
Plans == [old : Content \cup {NoRow}, idx : Indexes \cup {NoRow}]
Vals == Content \cup Rows \cup {Absent} \cup Pairs \cup Plans \cup SUBSET Keys
States == [pc : Steps \cup {"idle", "exec", "del"}, kind : {"none", "row", "query", "expire"},
           key : Keys \cup {Absent}, val : Vals]

\* What a process holds, by its state.
Good(x) ==
  /\ x.pc \in Steps => x.key \in Keys
  /\ x.pc \in Steps /\ x.kind # "row" => x.key \in Rows
  /\ x.pc = "put" => x.val \in Fit(x.key)
  /\ x.pc = "putPrimary" => x.val \in Pairs /\ x.key \in Indexes
  /\ x.pc = "reset" => x.val \in Content /\ x.key \in Rows
  /\ x.pc = "exec" => x.key \in Rows /\ x.val \in Plans
  /\ x.pc = "exec" => x.val.old # NoRow \/ x.val.idx # NoRow
  /\ x.pc = "del" => x.val \subseteq Keys

\* The unique index.
Unique ==
  \A r, s \in Rows : r # s /\ db[r] # NoRow /\ db[s] # NoRow => db[r].idx # db[s].idx

CacheTypes ==
  /\ DOMAIN cache = Keys
  /\ \A k \in Keys : cache[k] \in Fit(k) \cup {Absent, NotFound}
  /\ ttl \in [Keys -> 0..(Expiry + Gap)]
  /\ \A k \in Keys : ttl[k] = 0 <=> cache[k] = Absent
  /\ raced \subseteq Keys /\ failed \subseteq Keys /\ missed \subseteq Keys

DbTypes == db \in [Rows -> Content \cup {NoRow}] /\ writes \in 0..MaxWrites
ProcTypes == st \in [Procs -> States] /\ \A p \in Procs : Good(st[p])

CacheInv == DbTypes /\ Unique /\ CacheTypes /\ ProcTypes /\ OneLoader /\ Coherent

-----------------------------------------------------------------------------
\* The answer of the database, when there is one, fits the key.
LEMMA ViewFits ==
  ASSUME DbTypes, NEW k \in Keys
  PROVE  /\ View(k) = NoRow \/ View(k) \in Fit(k)
         /\ k \in Indexes /\ View(k) # NoRow =>
              View(k) \in Rows /\ db[View(k)] # NoRow /\ db[View(k)].idx = k
<1>1. CASE k \in Rows
  BY <1>1, SentinelAssumption DEF View, Fit, DbTypes
<1>2. CASE k \notin Rows
  <2>1. CASE \E r \in Rows : db[r] # NoRow /\ db[r].idx = k
    <3>1. View(k) = CHOOSE r \in Rows : db[r] # NoRow /\ db[r].idx = k
      BY <1>2, <2>1 DEF View
    <3>2. View(k) \in Rows /\ db[View(k)] # NoRow /\ db[View(k)].idx = k
      BY <2>1, <3>1
    <3>. QED BY <1>2, <3>2 DEF Fit
  <2>2. CASE ~ \E r \in Rows : db[r] # NoRow /\ db[r].idx = k
    BY <1>2, <2>2 DEF View
  <2>. QED BY <2>1, <2>2
<1>. QED BY <1>1, <1>2

\* A step of process p that leaves the database alone, ends or keeps what p
\* leads, and gives callers that wait a result or leaves them alone.
Frame(p) ==
  /\ UNCHANGED <<db, writes>>
  /\ st' \in [Procs -> States] /\ \A q \in Procs : Good(st'[q])
  /\ st[p].pc # "del"
  /\ \A q \in Procs : Leading(q)' => Leading(q) /\ st'[q].key = st[q].key
  /\ \A q \in Procs : st[q].pc = "del" => st'[q] = st[q]

\* Callers that wait for the leader p go on with its result.
LEMMA FinishFrame ==
  ASSUME ProcTypes, NEW p \in Procs, Leading(p), NEW res, NEW own,
         res \in Fit(st[p].key) \cup {NotFound, Err},
         own \in States, Good(own), own.pc \in {"idle", "enter", "reset"},
         Finish(p, res, own), UNCHANGED <<db, writes>>
  PROVE  Frame(p)
<1>1. st[p].key \in Keys /\ st[p].pc # "del" /\ st[p].pc # "wait"
  BY DEF ProcTypes, Good, Leading, Steps
<1>2. ASSUME NEW q \in Procs, st[q].pc = "wait", st[q].key = st[p].key
      PROVE  /\ Continue(q, res) \in States /\ Good(Continue(q, res))
             /\ Continue(q, res).pc \in {"idle", "enter", "reset"}
  <2>1. st[q] \in States /\ Good(st[q])
    BY DEF ProcTypes
  <2>2. CASE Continue(q, res) = Idle
    BY <2>2 DEF Idle, States, Vals, Good, Steps
  <2>3. CASE res \notin {NotFound, Err} /\ st[q].kind = "row" /\ st[q].key \in Indexes
    <3>1. Continue(q, res) = [st[q] EXCEPT !.pc = "enter", !.key = res]
      BY <2>3 DEF Continue
    <3>2. res \in Rows
      BY <1>2, <2>3, SentinelAssumption DEF Fit
    <3>3. res \in Keys
      BY <3>2 DEF Keys
    <3>4. Continue(q, res).pc = "enter" /\ Continue(q, res).key = res
      BY <2>1, <3>1 DEF States
    <3>5. Continue(q, res) \in States
      BY <2>1, <3>1, <3>3 DEF States, Steps
    <3>. QED BY <3>2, <3>3, <3>4, <3>5 DEF Good, Steps
  <2>4. CASE res \notin {NotFound, Err} /\ st[q].kind = "expire"
    <3>1. st[q].key \in Rows
      BY <1>2, <2>1, <2>4 DEF Good, Steps
    <3>2. Continue(q, res) = [st[q] EXCEPT !.pc = "reset", !.val = res]
      BY <2>4 DEF Continue
    <3>3. res \in Content
      BY <1>2, <2>4, <3>1 DEF Fit
    <3>4. /\ Continue(q, res).pc = "reset" /\ Continue(q, res).key = st[q].key
          /\ Continue(q, res).val = res
      BY <2>1, <3>2 DEF States
    <3>5. res \in Vals
      BY <3>3 DEF Vals
    <3>6. Continue(q, res) \in States
      BY <2>1, <3>2, <3>5 DEF States, Steps
    <3>7. st[q].key \in Keys
      BY <3>1 DEF Keys
    <3>. QED BY <3>1, <3>3, <3>4, <3>6, <3>7 DEF Good, Steps
  <2>. QED BY <2>2, <2>3, <2>4 DEF Continue
<1>3. \A q \in Procs : SameFlight(p, q) <=> st[p].key = st[q].key
  BY DEF SameFlight, Flight
<1>4. /\ st'[p] = own
      /\ \A q \in Procs \ {p} :
           st'[q] = IF st[q].pc = "wait" /\ st[p].key = st[q].key THEN Continue(q, res) ELSE st[q]
  BY <1>3 DEF Finish
<1>5. \A q \in Procs : st'[q] \in States /\ Good(st'[q])
  BY <1>2, <1>4 DEF ProcTypes
<1>6. st' \in [Procs -> States]
  BY <1>5 DEF Finish
<1>7. \A q \in Procs : Leading(q)' => Leading(q) /\ st'[q].key = st[q].key
  BY <1>2, <1>4 DEF Leading
<1>8. \A q \in Procs : st[q].pc = "del" => st'[q] = st[q]
  BY <1>1, <1>4
<1>. QED BY <1>1, <1>5, <1>6, <1>7, <1>8 DEF Frame

\* A process that goes on by itself, and leads the key it has led.
LEMMA AloneFrame ==
  ASSUME ProcTypes, NEW p \in Procs, NEW x \in States, Good(x),
         st[p].pc # "del", st' = [st EXCEPT ![p] = x],
         x.pc \in {"get", "query", "putNone", "putPrimary", "put"}
           => Leading(p) /\ x.key = st[p].key,
         UNCHANGED <<db, writes>>
  PROVE  Frame(p)
<1>1. st'[p] = x /\ \A q \in Procs \ {p} : st'[q] = st[q]
  BY DEF ProcTypes
<1>2. st' \in [Procs -> States] /\ \A q \in Procs : Good(st'[q])
  BY <1>1 DEF ProcTypes
<1>3. \A q \in Procs : Leading(q)' => Leading(q) /\ st'[q].key = st[q].key
  BY <1>1 DEF Leading
<1>. QED BY <1>1, <1>2, <1>3 DEF Frame

\* After such a step every key still has one loader.
LEMMA FrameLoader ==
  ASSUME OneLoader, NEW p \in Procs, Frame(p)
  PROVE  OneLoader'
BY DEF OneLoader, Frame

\* Outdated entries keep their cause while the cache is left alone.
LEMMA FrameCoherent ==
  ASSUME Coherent, NEW p \in Procs, Frame(p), UNCHANGED cacheVars
  PROVE  Coherent'
<1>1. \A k : View(k)' = View(k)
  BY DEF Frame, View
<1>2. Owed \subseteq Owed'
  BY DEF Frame, Owed
<1>. QED BY <1>1, <1>2 DEF Coherent, Positive, cacheVars

\* ... and while one entry is stored.
LEMMA StoreCoherent ==
  ASSUME Coherent, CacheTypes, NEW p \in Procs, Frame(p),
         NEW k \in Keys, NEW v \in Fit(k) \cup {NotFound}, NEW life \in 1..(Expiry + Gap),
         Store(k, v, life)
  PROVE  Coherent' /\ CacheTypes'
<1>1. \A j : View(j)' = View(j)
  BY DEF Frame, View
<1>2. Owed \subseteq Owed'
  BY DEF Frame, Owed
<1>3. cache'[k] = v /\ \A j \in Keys \ {k} : cache'[j] = cache[j]
  BY DEF Store, CacheTypes
<1>4. Coherent'
  <2>1. SUFFICES ASSUME NEW j \in Keys, Positive(j)', cache'[j] # View(j)
                 PROVE  j \in raced' \cup failed' \cup missed' \cup Owed'
    BY <1>1 DEF Coherent
  <2>2. CASE j = k
    BY <1>3, <2>1, <2>2 DEF Store
  <2>3. CASE j # k
    <3>1. Positive(j) /\ cache[j] # View(j)
      BY <1>3, <2>1, <2>3 DEF Positive
    <3>2. j \in raced \cup failed \cup missed \cup Owed
      BY <3>1 DEF Coherent
    <3>. QED BY <1>2, <2>3, <3>2 DEF Store
  <2>. QED BY <2>2, <2>3
<1>5. CacheTypes'
  <2>1. v # Absent
    BY SentinelAssumption DEF Fit, Keys
  <2>2. DOMAIN cache' = Keys /\ \A j \in Keys : cache'[j] \in Fit(j) \cup {Absent, NotFound}
    BY <1>3 DEF Store, CacheTypes
  <2>3. ttl' \in [Keys -> 0..(Expiry + Gap)]
    BY ExpiryAssumption DEF Store, CacheTypes
  <2>4. ttl'[k] = life /\ \A j \in Keys \ {k} : ttl'[j] = ttl[j]
    BY DEF Store, CacheTypes
  <2>5. \A j \in Keys : ttl'[j] = 0 <=> cache'[j] = Absent
    BY <1>3, <2>1, <2>4 DEF CacheTypes
  <2>6. raced' \subseteq Keys /\ failed' \subseteq Keys /\ missed' \subseteq Keys
    BY DEF Store, CacheTypes
  <2>. QED BY <2>2, <2>3, <2>5, <2>6 DEF CacheTypes
<1>. QED BY <1>4, <1>5

\* Entries that disappear are no longer outdated.
LEMMA RemoveCoherent ==
  ASSUME Coherent, NEW gone, Remove(gone), UNCHANGED db, Owed \subseteq Owed' \cup gone
  PROVE  Coherent'
<1>1. \A j : View(j)' = View(j)
  BY DEF View
<1>2. SUFFICES ASSUME NEW j \in Keys, Positive(j)', cache'[j] # View(j)
               PROVE  j \in raced' \cup failed' \cup missed' \cup Owed'
  BY <1>1 DEF Coherent
<1>3. j \notin gone /\ cache'[j] = cache[j]
  BY <1>2 DEF Remove, Positive
<1>4. j \in raced \cup failed \cup missed \cup Owed
  BY <1>2, <1>3 DEF Coherent, Positive
<1>. QED BY <1>3, <1>4 DEF Remove

\* What is left of a step once its frame is known.
LEMMA FrameInv ==
  ASSUME CacheInv, NEW p \in Procs, Frame(p), Coherent', CacheTypes'
  PROVE  CacheInv'
<1>1. DbTypes' /\ Unique'
  BY DEF CacheInv, Frame, DbTypes, Unique
<1>2. ProcTypes'
  BY DEF Frame, ProcTypes
<1>3. OneLoader'
  BY FrameLoader DEF CacheInv
<1>. QED BY <1>1, <1>2, <1>3 DEF CacheInv

\* ... when the cache is left alone.
LEMMA FrameQuiet ==
  ASSUME CacheInv, NEW p \in Procs, Frame(p), UNCHANGED cacheVars
  PROVE  CacheInv'
<1>1. Coherent'
  BY FrameCoherent DEF CacheInv
<1>2. CacheTypes'
  BY DEF CacheInv, CacheTypes, cacheVars
<1>. QED BY <1>1, <1>2, FrameInv

\* ... when one entry is stored.
LEMMA FrameStore ==
  ASSUME CacheInv, NEW p \in Procs, Frame(p),
         NEW k \in Keys, NEW v \in Fit(k) \cup {NotFound}, NEW life \in 1..(Expiry + Gap),
         Store(k, v, life)
  PROVE  CacheInv'
<1>1. Coherent' /\ CacheTypes'
  BY StoreCoherent DEF CacheInv
<1>. QED BY <1>1, FrameInv

\* The state between two calls.
LEMMA IdleGood == Idle \in States /\ Good(Idle) /\ Idle.pc = "idle" /\ Idle.kind = "none"
BY DEF Idle, States, Vals, Good, Steps

-----------------------------------------------------------------------------
\* Joining or leading the flight of a key.
LEMMA EnterStep == ASSUME CacheInv, NEW p \in Procs, Enter(p) PROVE CacheInv'
<1>0. ProcTypes /\ st[p] \in States /\ Good(st[p]) /\ OneLoader
  BY DEF CacheInv, ProcTypes
<1>1. PICK role \in {"get", "wait"} :
        /\ role = "wait" <=> \E q \in Procs \ {p} : Leading(q) /\ SameFlight(p, q)
        /\ st' = [st EXCEPT ![p] = [st[p] EXCEPT !.pc = role]]
  BY DEF Enter
<1>2. st[p].pc = "enter" /\ UNCHANGED <<db, writes, cacheVars>>
  BY DEF Enter
<1> DEFINE x == [st[p] EXCEPT !.pc = role]
<1>3. x.pc = role /\ x.key = st[p].key /\ x.kind = st[p].kind /\ x \in States
  BY <1>0 DEF States, Steps
<1>4. Good(x)
  BY <1>0, <1>2, <1>3 DEF Good, Steps
<1>5. st'[p] = x /\ \A q \in Procs \ {p} : st'[q] = st[q]
  BY <1>0, <1>1 DEF ProcTypes
<1>6. ProcTypes'
  BY <1>0, <1>1, <1>3, <1>4, <1>5 DEF ProcTypes
<1>7. OneLoader'
  <2>1. \A q \in Procs : SameFlight(p, q) <=> st[p].key = st[q].key
    BY DEF SameFlight, Flight
  <2>2. \A q \in Procs \ {p} : Leading(q)' <=> Leading(q)
    BY <1>5 DEF Leading
  <2>3. Leading(p)' => \A q \in Procs \ {p} : Leading(q) => st[p].key # st[q].key
    <3>1. Leading(p)' => role = "get"
      BY <1>1, <1>3, <1>5 DEF Leading
    <3>. QED BY <1>1, <2>1, <3>1
  <2>4. \A q \in Procs : st'[q].key = st[q].key
    BY <1>3, <1>5
  <2>5. \A a, b \in Procs :
          a # b /\ Leading(a)' /\ Leading(b)' => st[a].key # st[b].key
    BY <1>0, <2>2, <2>3 DEF OneLoader
  <2>. QED BY <2>4, <2>5 DEF OneLoader
<1>8. Owed' = Owed
  <2>1. \A q \in Procs : st'[q].pc = "del" <=> st[q].pc = "del"
    BY <1>2, <1>3, <1>5
  <2>2. \A q \in Procs : st[q].pc = "del" => st'[q].val = st[q].val
    BY <1>2, <1>5
  <2>. QED BY <2>1, <2>2 DEF Owed
<1>9. Coherent'
  <2>1. \A k : View(k)' = View(k)
    BY <1>2 DEF View
  <2>. QED BY <1>2, <1>8, <2>1 DEF CacheInv, Coherent, Positive, cacheVars
<1>10. DbTypes' /\ Unique' /\ CacheTypes'
  BY <1>2 DEF CacheInv, DbTypes, Unique, CacheTypes, cacheVars
<1>. QED BY <1>6, <1>7, <1>9, <1>10 DEF CacheInv

\* A result that ends the call of the leader.
LEMMA FinishIdle ==
  ASSUME CacheInv, NEW p \in Procs, Leading(p), NEW res,
         res \in Fit(st[p].key) \cup {NotFound, Err},
         Finish(p, res, Idle), UNCHANGED <<db, writes>>
  PROVE  Frame(p)
BY IdleGood, FinishFrame DEF CacheInv

\* A result that the leader itself goes on with, like the callers that wait.
LEMMA FinishOn ==
  ASSUME CacheInv, NEW p \in Procs, Leading(p), NEW res,
         res \in Fit(st[p].key) \cup {NotFound, Err},
         Finish(p, res, Continue(p, res)), UNCHANGED <<db, writes>>
  PROVE  Frame(p)
<1>1. ProcTypes /\ st[p] \in States /\ Good(st[p]) /\ st[p].pc \in Steps
  BY DEF CacheInv, ProcTypes, Leading, Steps
<1>2. CASE Continue(p, res) = Idle
  BY <1>1, <1>2, IdleGood, FinishFrame
<1>3. CASE res \notin {NotFound, Err} /\ st[p].kind = "row" /\ st[p].key \in Indexes
  <2>1. Continue(p, res) = [st[p] EXCEPT !.pc = "enter", !.key = res]
    BY <1>3 DEF Continue
  <2>2. res \in Rows /\ res \in Keys
    BY <1>3, SentinelAssumption DEF Fit, Keys
  <2>3. Continue(p, res).pc = "enter" /\ Continue(p, res).key = res
    BY <1>1, <2>1 DEF States
  <2>4. Continue(p, res) \in States
    BY <1>1, <2>1, <2>2 DEF States, Steps
  <2>5. Good(Continue(p, res))
    BY <2>2, <2>3, <2>4 DEF Good, Steps
  <2>. QED BY <1>1, <2>3, <2>4, <2>5, FinishFrame
<1>4. CASE res \notin {NotFound, Err} /\ st[p].kind = "expire"
  <2>1. Continue(p, res) = [st[p] EXCEPT !.pc = "reset", !.val = res]
    BY <1>4 DEF Continue
  <2>2. st[p].key \in Rows /\ st[p].key \in Keys
    BY <1>1, <1>4 DEF Good, Keys
  <2>3. res \in Content /\ res \in Vals
    BY <1>4, <2>2 DEF Fit, Vals
  <2>4. /\ Continue(p, res).pc = "reset" /\ Continue(p, res).key = st[p].key
        /\ Continue(p, res).val = res
    BY <1>1, <2>1 DEF States
  <2>5. Continue(p, res) \in States
    BY <1>1, <2>1, <2>3 DEF States, Steps
  <2>6. Good(Continue(p, res))
    BY <2>2, <2>3, <2>4, <2>5 DEF Good, Steps
  <2>. QED BY <1>1, <2>4, <2>5, <2>6, FinishFrame
<1>. QED BY <1>2, <1>3, <1>4 DEF Continue

\* Looking the key up.
LEMMA GetStep == ASSUME CacheInv, NEW p \in Procs, Get(p) PROVE CacheInv'
<1>0. ProcTypes /\ st[p] \in States /\ Good(st[p]) /\ st[p].pc = "get"
  BY DEF CacheInv, ProcTypes, Get
<1>1. Leading(p) /\ st[p].key \in Keys /\ UNCHANGED <<db, writes, cacheVars>>
  BY <1>0 DEF Leading, Good, Steps, Get
<1>2. CASE cache[st[p].key] # Absent /\ Finish(p, cache[st[p].key], Continue(p, cache[st[p].key]))
  <2>1. cache[st[p].key] \in Fit(st[p].key) \cup {NotFound, Err}
    BY <1>1, <1>2 DEF CacheInv, CacheTypes
  <2>. QED BY <1>1, <1>2, <2>1, FinishOn, FrameQuiet
<1>3. CASE Finish(p, Err, Idle)
  BY <1>1, <1>3, FinishIdle, FrameQuiet
<1>4. CASE st' = [st EXCEPT ![p].pc = "query"]
  <2> DEFINE x == [st[p] EXCEPT !.pc = "query"]
  <2>1. x.pc = "query" /\ x.key = st[p].key /\ x.kind = st[p].kind /\ x \in States
    BY <1>0 DEF States, Steps
  <2>2. Good(x)
    BY <1>0, <2>1 DEF Good, Steps
  <2>3. st' = [st EXCEPT ![p] = x]
    BY <1>4
  <2>4. Frame(p)
    BY <1>0, <1>1, <2>1, <2>2, <2>3, AloneFrame
  <2>. QED BY <1>1, <2>4, FrameQuiet
<1>. QED BY <1>2, <1>3, <1>4 DEF Get

\* Querying the database.
LEMMA QueryStep == ASSUME CacheInv, NEW p \in Procs, Query(p) PROVE CacheInv'
<1>0. /\ ProcTypes /\ st[p] \in States /\ Good(st[p]) /\ st[p].pc = "query"
      /\ DbTypes
  BY DEF CacheInv, ProcTypes, Query
<1>1. Leading(p) /\ st[p].key \in Keys /\ UNCHANGED <<db, writes, cacheVars>>
  BY <1>0 DEF Leading, Good, Steps, Query
<1> DEFINE k == st[p].key
           v == View(k)
<1>2. CASE v = NoRow /\ st' = [st EXCEPT ![p].pc = "putNone"]
  <2> DEFINE x == [st[p] EXCEPT !.pc = "putNone"]
  <2>1. x.pc = "putNone" /\ x.key = k /\ x.kind = st[p].kind /\ x \in States
    BY <1>0 DEF States, Steps
  <2>2. Good(x)
    BY <1>0, <2>1 DEF Good, Steps
  <2>3. st' = [st EXCEPT ![p] = x]
    BY <1>2
  <2>4. Frame(p)
    BY <1>0, <1>1, <2>1, <2>2, <2>3, AloneFrame
  <2>. QED BY <1>1, <2>4, FrameQuiet
<1>3. CASE /\ v # NoRow /\ k \in Indexes
           /\ st' = [st EXCEPT ![p].pc = "putPrimary", ![p].val = [ptr |-> v, row |-> db[v]]]
  <2>0. [ptr |-> v, row |-> db[v]] \in Pairs
    <3>1. v \in Rows /\ db[v] # NoRow
      BY <1>0, <1>1, <1>3, ViewFits
    <3>2. db[v] \in Content
      BY <1>0, <3>1 DEF DbTypes
    <3>. QED BY <3>1, <3>2 DEF Pairs
  <2> DEFINE w == [ptr |-> v, row |-> db[v]]
             x == [st[p] EXCEPT !.pc = "putPrimary", !.val = w]
  <2> HIDE DEF w
  <2>1. x.pc = "putPrimary" /\ x.key = k /\ x.kind = st[p].kind /\ x.val = w
    BY <1>0 DEF States
  <2>2. w \in Pairs /\ w \in Vals
    BY <2>0 DEF w, Vals
  <2>3. x \in States
    BY <1>0, <2>2 DEF States, Steps
  <2>4. Good(x)
    BY <1>0, <1>3, <2>1, <2>2 DEF Good, Steps
  <2>5. st' = [st EXCEPT ![p] = x]
    BY <1>0, <1>3 DEF w, ProcTypes
  <2>6. Frame(p)
    BY <1>0, <1>1, <2>1, <2>3, <2>4, <2>5, AloneFrame
  <2>. QED BY <1>1, <2>6, FrameQuiet
<1>4. CASE /\ v # NoRow /\ k \in Rows
           /\ st' = [st EXCEPT ![p].pc = "put", ![p].val = v]
  <2>0. v \in Fit(k) /\ v \in Vals
    BY <1>0, <1>1, <1>4, ViewFits DEF Fit, Vals
  <2> DEFINE x == [st[p] EXCEPT !.pc = "put", !.val = v]
  <2> HIDE DEF v
  <2>1. x.pc = "put" /\ x.key = k /\ x.kind = st[p].kind /\ x.val = v
    BY <1>0 DEF States
  <2>3. x \in States
    BY <1>0, <2>0 DEF States, Steps
  <2>4. Good(x)
    BY <1>0, <2>0, <2>1 DEF Good, Steps
  <2>5. st' = [st EXCEPT ![p] = x]
    BY <1>0, <1>4 DEF v, ProcTypes
  <2>6. Frame(p)
    BY <1>0, <1>1, <2>1, <2>3, <2>4, <2>5, AloneFrame
  <2>. QED BY <1>1, <2>6, FrameQuiet
<1>5. CASE Finish(p, Err, Idle)
  BY <1>1, <1>5, FinishIdle, FrameQuiet
<1>. QED BY <1>2, <1>3, <1>4, <1>5 DEF Query

\* Storing a placeholder.
LEMMA PutNoneStep == ASSUME CacheInv, NEW p \in Procs, PutNone(p) PROVE CacheInv'
<1>0. ProcTypes /\ st[p] \in States /\ Good(st[p]) /\ st[p].pc = "putNone"
  BY DEF CacheInv, ProcTypes, PutNone
<1>1. Leading(p) /\ st[p].key \in Keys
  BY <1>0 DEF Leading, Good, Steps
<1>2. Frame(p)
  BY <1>1, FinishIdle DEF PutNone
<1>3. CASE Store(st[p].key, NotFound, Expiry)
  BY <1>1, <1>2, <1>3, FrameStore, ExpiryAssumption
<1>4. CASE UNCHANGED cacheVars
  BY <1>2, <1>4, FrameQuiet
<1>. QED BY <1>3, <1>4 DEF PutNone

\* Storing the row before the index entry.
LEMMA PutPrimaryStep == ASSUME CacheInv, NEW p \in Procs, PutPrimary(p) PROVE CacheInv'
<1>0. ProcTypes /\ st[p] \in States /\ Good(st[p]) /\ st[p].pc = "putPrimary"
  BY DEF CacheInv, ProcTypes, PutPrimary
<1>1. Leading(p) /\ st[p].key \in Keys /\ UNCHANGED <<db, writes>>
  BY <1>0 DEF Leading, Good, Steps, PutPrimary
<1>2. CASE /\ Store(st[p].val.ptr, st[p].val.row, Expiry + Gap)
           /\ st' = [st EXCEPT ![p].pc = "put", ![p].val = st[p].val.ptr]
  <2>0. st[p].val.ptr \in Rows /\ st[p].val.row \in Content /\ st[p].key \in Indexes
    BY <1>0 DEF Good, Pairs
  <2> DEFINE w == st[p].val.ptr
             x == [st[p] EXCEPT !.pc = "put", !.val = w]
  <2> HIDE DEF w
  <2>1. x.pc = "put" /\ x.key = st[p].key /\ x.kind = st[p].kind /\ x.val = w
    BY <1>0 DEF States
  <2>2. w \in Rows /\ w \in Vals /\ w \in Fit(st[p].key)
    BY <2>0, SentinelAssumption DEF w, Vals, Fit
  <2>3. x \in States
    BY <1>0, <2>2 DEF States, Steps
  <2>4. Good(x)
    BY <1>0, <2>1, <2>2 DEF Good, Steps
  <2>5. st' = [st EXCEPT ![p] = x]
    BY <1>0, <1>2 DEF w, ProcTypes
  <2>6. Frame(p)
    BY <1>0, <1>1, <2>1, <2>3, <2>4, <2>5, AloneFrame
  <2>7. st[p].val.ptr \in Keys /\ st[p].val.row \in Fit(st[p].val.ptr)
    BY <2>0 DEF Keys, Fit
  <2>. QED BY <1>2, <2>6, <2>7, FrameStore, ExpiryAssumption
<1>3. CASE Finish(p, Err, Idle) /\ UNCHANGED cacheVars
  BY <1>1, <1>3, FinishIdle, FrameQuiet
<1>. QED BY <1>2, <1>3 DEF PutPrimary

\* Storing what was loaded.
LEMMA PutStep == ASSUME CacheInv, NEW p \in Procs, Put(p) PROVE CacheInv'
<1>0. ProcTypes /\ st[p] \in States /\ Good(st[p]) /\ st[p].pc = "put"
  BY DEF CacheInv, ProcTypes, Put
<1>1. Leading(p) /\ st[p].key \in Keys /\ st[p].val \in Fit(st[p].key)
  BY <1>0 DEF Leading, Good, Steps
<1>2. Frame(p)
  <2>1. CASE st[p].kind = "expire"
    BY <1>1, <2>1, FinishOn DEF Put
  <2>2. CASE st[p].kind # "expire"
    BY <1>1, <2>2, FinishIdle DEF Put
  <2>. QED BY <2>1, <2>2
<1>3. CASE Store(st[p].key, st[p].val, Expiry)
  BY <1>1, <1>2, <1>3, FrameStore, ExpiryAssumption
<1>4. CASE UNCHANGED cacheVars
  BY <1>2, <1>4, FrameQuiet
<1>. QED BY <1>3, <1>4 DEF Put

\* The beginning of a call.
LEMMA CallStep == ASSUME CacheInv, NEW p \in Procs, Call(p) PROVE CacheInv'
<1>0. ProcTypes /\ st[p] = Idle /\ UNCHANGED <<db, writes, cacheVars>>
  BY DEF CacheInv, Call
<1>1. PICK kind \in Kinds : \E k \in (IF kind = "row" THEN Indexes ELSE Rows) :
        st' = [st EXCEPT ![p] = [Idle EXCEPT !.pc = "enter", !.kind = kind, !.key = k]]
  BY DEF Call
<1>2. PICK k \in (IF kind = "row" THEN Indexes ELSE Rows) :
        st' = [st EXCEPT ![p] = [Idle EXCEPT !.pc = "enter", !.kind = kind, !.key = k]]
  BY <1>1
<1> DEFINE x == [Idle EXCEPT !.pc = "enter", !.kind = kind, !.key = k]
<1>3. x.pc = "enter" /\ x.kind = kind /\ x.key = k /\ k \in Keys
  BY <1>2 DEF Idle, Keys
<1>4. x \in States
  BY <1>3, KindsAssumption DEF Idle, States, Vals, Steps
<1>5. Good(x)
  BY <1>2, <1>3 DEF Good, Steps
<1>6. st[p].pc # "del"
  BY <1>0, IdleGood
<1>7. Frame(p)
  BY <1>0, <1>2, <1>3, <1>4, <1>5, <1>6, AloneFrame
<1>. QED BY <1>0, <1>7, FrameQuiet

\* Storing a value again.
LEMMA ResetStep == ASSUME CacheInv, NEW p \in Procs, Reset(p) PROVE CacheInv'
<1>0. ProcTypes /\ st[p] \in States /\ Good(st[p]) /\ st[p].pc = "reset" /\ UNCHANGED <<db, writes>>
  BY DEF CacheInv, ProcTypes, Reset
<1>1. st[p].key \in Rows /\ st[p].key \in Keys /\ st[p].val \in Content
  BY <1>0 DEF Good, Keys
<1>2. CASE st' = [st EXCEPT ![p] = Idle]
  <2>1. Frame(p)
    BY <1>0, <1>2, IdleGood, AloneFrame
  <2>2. CASE \E life \in 1..Expiry : Store(st[p].key, st[p].val, life)
    <3>1. PICK life \in 1..Expiry : Store(st[p].key, st[p].val, life)
      BY <2>2
    <3>2. life \in 1..(Expiry + Gap)
      BY ExpiryAssumption
    <3>3. st[p].val \in Fit(st[p].key)
      BY <1>1 DEF Fit
    <3>. QED BY <1>1, <2>1, <3>1, <3>2, <3>3, FrameStore
  <2>3. CASE UNCHANGED cacheVars
    BY <2>1, <2>3, FrameQuiet
  <2>. QED BY <1>0, <1>2, <2>2, <2>3 DEF Reset
<1>3. CASE /\ st' = [st EXCEPT ![p] = [Idle EXCEPT !.pc = "enter", !.kind = "query",
                                                  !.key = st[p].key]]
           /\ UNCHANGED cacheVars
  <2> DEFINE x == [Idle EXCEPT !.pc = "enter", !.kind = "query", !.key = st[p].key]
  <2>1. x.pc = "enter" /\ x.kind = "query" /\ x.key = st[p].key
    BY DEF Idle
  <2>2. x \in States
    BY <1>1 DEF Idle, States, Vals, Steps
  <2>3. Good(x)
    BY <1>1, <2>1 DEF Good, Steps
  <2>4. Frame(p)
    BY <1>0, <1>3, <2>1, <2>2, <2>3, AloneFrame
  <2>. QED BY <1>3, <2>4, FrameQuiet
<1>. QED BY <1>2, <1>3 DEF Reset

\* The old row has been read.
LEMMA PrepareStep == ASSUME CacheInv, NEW p \in Procs, Prepare(p) PROVE CacheInv'
<1>0. ProcTypes /\ DbTypes /\ st[p] = Idle /\ UNCHANGED <<db, writes, cacheVars>>
  BY DEF CacheInv, Prepare
<1>1. PICK r \in Rows : \E idx \in Indexes \cup {NoRow} :
        /\ db[r] # NoRow \/ idx # NoRow
        /\ st' = [st EXCEPT ![p] = [Idle EXCEPT !.pc = "exec", !.key = r,
                                               !.val = [old |-> db[r], idx |-> idx]]]
  BY DEF Prepare
<1>2. PICK idx \in Indexes \cup {NoRow} :
        /\ db[r] # NoRow \/ idx # NoRow
        /\ st' = [st EXCEPT ![p] = [Idle EXCEPT !.pc = "exec", !.key = r,
                                               !.val = [old |-> db[r], idx |-> idx]]]
  BY <1>1
<1> DEFINE plan == [old |-> db[r], idx |-> idx]
           x == [Idle EXCEPT !.pc = "exec", !.key = r, !.val = plan]
<1>3. plan \in Plans /\ (plan.old # NoRow \/ plan.idx # NoRow)
  BY <1>0, <1>2 DEF DbTypes, Plans
<1> HIDE DEF plan
<1>4. x.pc = "exec" /\ x.key = r /\ x.val = plan
  BY DEF Idle
<1>5. x \in States
  BY <1>3 DEF Idle, States, Vals, Keys
<1>6. Good(x)
  BY <1>3, <1>4 DEF Good, Steps
<1>7. st[p].pc # "del"
  BY <1>0, IdleGood
<1>8. Frame(p)
  BY <1>0, <1>2, <1>4, <1>5, <1>6, <1>7, AloneFrame DEF plan
<1>. QED BY <1>0, <1>8, FrameQuiet

\* A statement that commits: the answers that change are those behind the keys
\* that are now to be deleted, and behind the index value that was missed.
LEMMA ExecStep == ASSUME CacheInv, NEW p \in Procs, Exec(p) PROVE CacheInv'
<1>0. /\ ProcTypes /\ DbTypes /\ CacheTypes /\ Unique /\ OneLoader /\ Coherent
      /\ st[p].pc = "exec" /\ st[p] \in States /\ Good(st[p])
      /\ UNCHANGED <<cache, ttl, raced, failed>>
  BY DEF CacheInv, ProcTypes, Exec
<1> DEFINE r == st[p].key
           old == st[p].val.old
           idx == st[p].val.idx
           ks == ExecKeys(r, old, idx)
           new == IF idx = NoRow \/ (old # NoRow /\ db[r] = NoRow) THEN NoRow
                  ELSE [idx |-> idx, ver |-> writes + 1]
<1>a. r \in Rows /\ st[p].val \in Plans /\ (old # NoRow \/ idx # NoRow)
  BY <1>0 DEF Good
<1>b. old \in Content \cup {NoRow} /\ idx \in Indexes \cup {NoRow}
  BY <1>a DEF Plans
<1>1. CASE st' = [st EXCEPT ![p] = Idle] /\ UNCHANGED <<db, writes, missed>>
  <2>1. st[p].pc # "del" /\ Idle.pc = "idle"
    BY <1>0, IdleGood
  <2>2. Frame(p)
    BY <1>0, <1>1, <2>1, IdleGood, AloneFrame
  <2>3. UNCHANGED cacheVars
    BY <1>0, <1>1 DEF cacheVars
  <2>. QED BY <2>2, <2>3, FrameQuiet
<1>2. CASE /\ writes < MaxWrites /\ writes' = writes + 1
           /\ old = NoRow => db[r] = NoRow
           /\ new # NoRow => \A s \in Rows \ {r} : db[s] # NoRow => db[s].idx # idx
           /\ db' = [db EXCEPT ![r] = new]
           /\ missed' = IF NoRow \in {old, db[r]} THEN missed
                        ELSE missed \cup {k \in {db[r].idx} \ {old.idx} : cache[k] # Absent}
           /\ st' = [st EXCEPT ![p] = [Idle EXCEPT !.pc = "del", !.val = ks]]
  <2>1. writes' \in 0..MaxWrites
    BY <1>0, <1>2, WritesAssumption DEF DbTypes
  <2>2. new \in Content \cup {NoRow} /\ (new # NoRow => new.idx = idx)
    <3>1. writes + 1 \in 0..MaxWrites
      BY <1>2, <2>1
    <3>. QED BY <1>b, <3>1 DEF Content
  <2>3. ks = {r, IF old # NoRow THEN old.idx ELSE idx}
    BY DEF ExecKeys, CacheKeys
  <2>4. ks \subseteq Keys /\ r \in ks
    <3>1. old # NoRow => old.idx \in Indexes
      BY <1>b DEF Content
    <3>. QED BY <1>a, <1>b, <2>3, <3>1 DEF Keys
  <2>5. db[r] # NoRow /\ cache[db[r].idx] # Absent => db[r].idx \in ks \cup missed'
    <3>1. CASE old = NoRow
      BY <1>2, <3>1
    <3>2. CASE old # NoRow /\ db[r] # NoRow /\ cache[db[r].idx] # Absent
      <4>1. missed' = missed \cup {k \in {db[r].idx} \ {old.idx} : cache[k] # Absent}
        BY <1>2, <3>2
      <4>2. old.idx \in ks
        BY <2>3, <3>2
      <4>. QED BY <3>2, <4>1, <4>2
    <3>. QED BY <3>1, <3>2
  <2>6. missed \subseteq missed' /\ missed' \subseteq Keys
    <3>1. db[r] # NoRow => db[r].idx \in Keys
      BY <1>0, <1>a DEF DbTypes, Content, Keys
    <3>2. missed \subseteq Keys
      BY <1>0 DEF CacheTypes
    <3>. QED BY <1>2, <3>1, <3>2
  <2>c. UNCHANGED <<cache, ttl, raced, failed>> /\ db' = [db EXCEPT ![r] = new]
    BY <1>0, <1>2
  <2>7. new # NoRow => \A s \in Rows \ {r} : db[s] # NoRow => db[s].idx # new.idx
    BY <1>2, <2>2
  <2>d. st' = [st EXCEPT ![p] = [Idle EXCEPT !.pc = "del", !.val = ks]]
    BY <1>2
  <2> HIDE DEF ks, new, old, idx
  <2>8. DbTypes'
    BY <1>0, <1>a, <2>1, <2>2, <2>c DEF DbTypes
  <2>9. db'[r] = new /\ \A s \in Rows \ {r} : db'[s] = db[s]
    BY <1>0, <1>a, <2>c DEF DbTypes
  <2>10. Unique'
    BY <1>0, <2>7, <2>9 DEF Unique
  <2> DEFINE x == [Idle EXCEPT !.pc = "del", !.val = ks]
  <2>11. x.pc = "del" /\ x.val = ks /\ x \in States
    BY <2>4 DEF Idle, States, Vals
  <2>12. Good(x)
    BY <2>4, <2>11 DEF Good, Steps
  <2>13. st'[p] = x /\ \A q \in Procs \ {p} : st'[q] = st[q]
    BY <1>0, <2>d DEF ProcTypes
  <2>14. ProcTypes'
    BY <1>0, <2>d, <2>11, <2>12, <2>13 DEF ProcTypes
  <2>15. OneLoader'
    <3>1. ~Leading(p)'
      BY <2>11, <2>13 DEF Leading
    <3>2. \A q \in Procs \ {p} : Leading(q)' <=> Leading(q)
      BY <2>13 DEF Leading
    <3>. QED BY <1>0, <2>13, <3>1, <3>2 DEF OneLoader
  <2>16. Owed \cup ks \subseteq Owed'
    <3>1. \A q \in Procs : st[q].pc = "del" => st'[q] = st[q]
      BY <1>0, <2>13
    <3>2. st'[p].pc = "del" /\ st'[p].val = ks
      BY <2>11, <2>13
    <3>. QED BY <3>1, <3>2 DEF Owed
  <2>17. Coherent'
    <3>1. SUFFICES ASSUME NEW k \in Keys, Positive(k)', cache'[k] # View(k)'
                   PROVE  k \in raced' \cup failed' \cup missed' \cup Owed'
      BY DEF Coherent
    <3>2. Positive(k) /\ cache[k] = cache'[k]
      BY <2>c, <3>1 DEF Positive
    <3>3. CASE cache[k] # View(k)
      BY <1>0, <2>6, <2>16, <3>2, <3>3 DEF Coherent
    <3>4. CASE cache[k] = View(k) /\ k \in Rows
      <4>1. View(k) = db[k] /\ View(k)' = db'[k]
        BY <3>4 DEF View
      <4>2. k = r
        BY <2>9, <3>1, <3>2, <3>4, <4>1
      <4>. QED BY <2>4, <2>16, <4>2
    <3>5. CASE cache[k] = View(k) /\ k \notin Rows
      <4>1. k \in Indexes
        BY <3>5 DEF Keys
      <4>2. View(k) \in Rows /\ db[View(k)] # NoRow /\ db[View(k)].idx = k
        <5>1. cache[k] \in Rows
          BY <1>0, <3>2, <3>5 DEF CacheTypes, Fit, Positive
        <5>2. View(k) # NoRow
          BY <3>5, <5>1, SentinelAssumption DEF Keys
        <5>. QED BY <1>0, <4>1, <5>2, ViewFits
      <4>3. CASE View(k) = r
        BY <2>5, <2>16, <3>2, <4>2, <4>3 DEF Positive
      <4>4. CASE View(k) # r
        <5>1. db'[View(k)] # NoRow /\ db'[View(k)].idx = k
          BY <2>9, <4>2, <4>4
        <5>2. \E s \in Rows : db'[s] # NoRow /\ db'[s].idx = k
          BY <4>2, <5>1
        <5>3. View(k)' = CHOOSE s \in Rows : db'[s] # NoRow /\ db'[s].idx = k
          BY <3>5, <5>2 DEF View
        <5>4. View(k)' \in Rows /\ db'[View(k)'] # NoRow /\ db'[View(k)'].idx = k
          BY <5>2, <5>3
        <5>5. View(k)' = View(k)
          BY <2>10, <4>2, <5>1, <5>4 DEF Unique
        <5>. QED BY <3>1, <3>2, <3>5, <5>5
      <4>. QED BY <4>3, <4>4
    <3>. QED BY <3>3, <3>4, <3>5
  <2>18. CacheTypes'
    BY <1>0, <2>6, <2>c DEF CacheTypes
  <2>. QED BY <2>8, <2>10, <2>14, <2>15, <2>17, <2>18 DEF CacheInv
<1>. QED BY <1>0, <1>1, <1>2 DEF Exec

\* The deletion of the keys after the commit.
LEMMA DelStep == ASSUME CacheInv, NEW p \in Procs, Del(p) PROVE CacheInv'
<1>0. /\ ProcTypes /\ st[p] \in States /\ Good(st[p]) /\ st[p].pc = "del"
      /\ CacheTypes /\ OneLoader /\ Coherent
      /\ UNCHANGED <<db, writes>> /\ st' = [st EXCEPT ![p] = Idle]
  BY DEF CacheInv, ProcTypes, Del
<1>1. st[p].val \subseteq Keys
  BY <1>0 DEF Good
<1>2. st'[p] = Idle /\ \A q \in Procs \ {p} : st'[q] = st[q]
  BY <1>0 DEF ProcTypes
<1>3. ProcTypes'
  BY <1>0, <1>2, IdleGood DEF ProcTypes
<1>4. OneLoader'
  <2>1. ~Leading(p)'
    BY <1>2, IdleGood DEF Leading
  <2>2. \A q \in Procs \ {p} : Leading(q)' <=> Leading(q)
    BY <1>2 DEF Leading
  <2>. QED BY <1>0, <1>2, <2>1, <2>2 DEF OneLoader
<1>5. Owed \subseteq Owed' \cup st[p].val
  BY <1>2 DEF Owed
<1>6. DbTypes' /\ Unique'
  BY <1>0 DEF CacheInv, DbTypes, Unique
<1>7. CASE /\ Remove(st[p].val)
           /\ ttl' = [k \in Keys |-> IF k \in st[p].val THEN 0 ELSE ttl[k]]
  <2>1. Coherent'
    BY <1>0, <1>5, <1>7, RemoveCoherent
  <2>2. CacheTypes'
    BY <1>0, <1>7, ExpiryAssumption DEF CacheTypes, Remove
  <2>. QED BY <1>3, <1>4, <1>6, <2>1, <2>2 DEF CacheInv
<1>8. CASE /\ failed' = failed \cup {k \in st[p].val : cache[k] # Absent}
           /\ UNCHANGED <<cache, ttl, raced, missed>>
  <2>1. \A k : View(k)' = View(k)
    BY <1>0 DEF View
  <2>2. Coherent'
    BY <1>0, <1>5, <1>8, <2>1 DEF Coherent, Positive
  <2>3. CacheTypes'
    BY <1>0, <1>1, <1>8 DEF CacheTypes
  <2>. QED BY <1>3, <1>4, <1>6, <2>2, <2>3 DEF CacheInv
<1>. QED BY <1>7, <1>8 DEF Del

\* The passing of time.
LEMMA TickStep == ASSUME CacheInv, Tick PROVE CacheInv'
<1>0. /\ CacheTypes /\ Coherent /\ UNCHANGED <<db, writes, st>>
      /\ ttl' = [k \in Keys |-> IF ttl[k] > 0 THEN ttl[k] - 1 ELSE 0]
      /\ Remove({k \in Keys : ttl[k] <= 1})
  BY DEF CacheInv, Tick
<1>1. Owed' = Owed
  BY <1>0 DEF Owed
<1>2. Coherent'
  BY <1>0, <1>1, RemoveCoherent
<1>3. CacheTypes'
  <2>1. ttl' \in [Keys -> 0..(Expiry + Gap)]
    BY <1>0, ExpiryAssumption DEF CacheTypes
  <2>2. \A k \in Keys : ttl'[k] = 0 <=> cache'[k] = Absent
    <3>1. TAKE k \in Keys
    <3>2. ttl[k] \in Nat /\ (ttl[k] = 0 <=> cache[k] = Absent)
      BY <1>0, ExpiryAssumption DEF CacheTypes
    <3>3. ttl'[k] = IF ttl[k] > 0 THEN ttl[k] - 1 ELSE 0
      BY <1>0
    <3>4. cache'[k] = IF ttl[k] <= 1 THEN Absent ELSE cache[k]
      BY <1>0 DEF Remove
    <3>. QED BY <3>2, <3>3, <3>4
  <2>3. DOMAIN cache' = Keys /\ \A k \in Keys : cache'[k] \in Fit(k) \cup {Absent, NotFound}
    BY <1>0 DEF Remove, CacheTypes
  <2>. QED BY <1>0, <2>1, <2>2, <2>3 DEF CacheTypes, Remove
<1>4. DbTypes' /\ Unique' /\ ProcTypes' /\ OneLoader'
  BY <1>0 DEF CacheInv, DbTypes, Unique, ProcTypes, OneLoader, Leading
<1>. QED BY <1>2, <1>3, <1>4 DEF CacheInv

-----------------------------------------------------------------------------
\* The invariant holds of every reachable state.
THEOREM CacheCorrect == Safety => []CacheInv
<1>1. Init => CacheInv
  <2>1. SUFFICES ASSUME Init PROVE CacheInv
    OBVIOUS
  <2>2. DbTypes
    <3>1. [idx : Indexes, ver : {0}] \subseteq Content
      BY WritesAssumption DEF Content
    <3>. QED BY <2>1, <3>1, WritesAssumption DEF Init, DbTypes
  <2>3. Unique
    BY <2>1 DEF Init, Unique
  <2>4. CacheTypes
    BY <2>1, ExpiryAssumption DEF Init, CacheTypes
  <2>5. ProcTypes
    BY <2>1, IdleGood DEF Init, ProcTypes
  <2>6. OneLoader
    BY <2>1, IdleGood DEF Init, OneLoader, Leading
  <2>7. Coherent
    BY <2>1 DEF Init, Coherent, Positive
  <2>. QED BY <2>2, <2>3, <2>4, <2>5, <2>6, <2>7 DEF CacheInv
<1>2. CacheInv /\ [Next]_vars => CacheInv'
  <2>1. SUFFICES ASSUME CacheInv, [Next]_vars PROVE CacheInv'
    OBVIOUS
  <2>2. CASE UNCHANGED vars
    <3>1. UNCHANGED <<db, writes, cache, ttl, st, raced, failed, missed>>
      BY <2>2 DEF vars
    <3>2. (\A k : View(k)' = View(k)) /\ Owed' = Owed
      BY <3>1 DEF View, Owed
    <3>3. Coherent'
      BY <2>1, <3>1, <3>2 DEF CacheInv, Coherent, Positive
    <3>4. DbTypes' /\ Unique' /\ CacheTypes' /\ ProcTypes' /\ OneLoader'
      BY <2>1, <3>1 DEF CacheInv, DbTypes, Unique, CacheTypes, ProcTypes, OneLoader, Leading
    <3>. QED BY <3>3, <3>4 DEF CacheInv
  <2>3. CASE Tick
    BY <2>1, <2>3, TickStep
  <2>4. ASSUME NEW p \in Procs, Call(p) \/ Prepare(p) \/ Step(p) PROVE CacheInv'
    BY <2>1, <2>4, CallStep, PrepareStep, ExecStep, EnterStep, GetStep, QueryStep, PutNoneStep,
       PutPrimaryStep, PutStep, ResetStep, DelStep DEF Step
  <2>. QED BY <2>1, <2>2, <2>3, <2>4 DEF Next
<1>. QED BY <1>1, <1>2, PTL DEF Safety

\* Type correctness of the cache.
THEOREM TypeCorrect == Safety => []TypeOK
<1>1. CacheInv => TypeOK
  <2>1. SUFFICES ASSUME CacheInv PROVE TypeOK
    OBVIOUS
  <2>2. \A r \in Rows : cache[r] \in Content \cup {Absent, NotFound}
    BY <2>1 DEF CacheInv, CacheTypes, Fit, Keys
  <2>3. \A i \in Indexes : cache[i] \in Rows \cup {Absent, NotFound}
    BY <2>1, SentinelAssumption DEF CacheInv, CacheTypes, Fit, Keys
  <2>. QED BY <2>1, <2>2, <2>3 DEF CacheInv, DbTypes, CacheTypes, TypeOK
<1>. QED BY <1>1, CacheCorrect, PTL

\* One caller at a time loads a key, over all connections.
THEOREM OneLoaderCorrect == Safety => []OneLoader
<1>1. CacheInv => OneLoader
  BY DEF CacheInv
<1>. QED BY <1>1, CacheCorrect, PTL

\* An outdated row or pointer has one of four causes, however many writes and
\* loads overlap: the Exec that changed the row has still to delete it, that
\* deletion failed, a reader stored what it had queried before the write, or the
\* write took its keys from an old row that another one had outdated.
THEOREM CoherentCorrect == Safety => []Coherent
<1>1. CacheInv => Coherent
  BY DEF CacheInv
<1>. QED BY <1>1, CacheCorrect, PTL

=============================================================================
