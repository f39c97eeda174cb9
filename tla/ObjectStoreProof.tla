-------------------------- MODULE ObjectStoreProof --------------------------
(***************************************************************************)
(* Proofs about the sweeps over an object store, for every number of keys, *)
(* of getters and of disturbances.                                         *)
(*                                                                         *)
(* Thorough is about the end of a sweep.  It becomes inductive by saying   *)
(* where an object that is due can be while the sweep runs (Pending): not  *)
(* listed yet, in the hand of the lister, in the batch, among the results  *)
(* or among the failures; and what the goroutines may hold at each stage   *)
(* (Stages).  What others do to the store only ever spares the keys that   *)
(* they touch, which Spares states once for all their steps.  An upload    *)
(* that is there is still to be listed, or in the channel (Fed).           *)
(* For AnswersFit it is enough that a getter does what follows from what   *)
(* it saw (Seen).                                                          *)
(***************************************************************************)
EXTENDS ObjectStore, FiniteSetTheorems, TLAPS

\* What the goroutines hold at each stage of a sweep.
Stages ==
  /\ pc \in {"start", "uploads"} =>
       lister = "off" /\ remover = "off" /\ cursor = 1 /\ ~failed
  /\ pc \in {"walk", "ask"} => job \in {"restore", "list"}
  /\ pc = "ask" => job = "restore"
  /\ pc = "uploads" => job \in {"clear", "uploads"}
  /\ pc = "drain" => remover # "off"
  /\ remover # "off" => job \in Removals /\ pc \in {"drain", "return"}
  /\ pc = "return" => remover \in {"off", "closed"}
  /\ lister = "off" <=> remover = "off"
  /\ remover = "closed" => lister = "closed"
  /\ remover # "gather" => batch = {}
  /\ remover # "report" => results = {}

\* The state that a sweep without an error returns in.
Ending ==
  /\ ret = "ok" => pc = "return"
  /\ ret = "ok" /\ job \in Removals => errs = {} /\ remover = "closed"
  /\ ret = "ok" /\ job \in {"restore", "list"} => ~failed
  /\ job \in {"clear", "uploads"} /\ (remover # "off" \/ ret = "ok") => uploads = {}

\* An object that is due is still what the sweep is for.
Same(k) ==
  /\ job = "expired" => today - store[k].day >= LifeDay
  /\ job = "restore" => store[k].class = "cold"

\* Where an object that is due can be.
Pending(k) ==
  /\ job \in Removals =>
       \/ store[k] = Gone
       \/ k >= cursor /\ lister # "closed"
       \/ lister = "send" /\ k = hand
       \/ k \in batch \/ <<k, FALSE>> \in results \/ k \in errs
  /\ job = "list" => store[k] # Gone /\ (k \in done \/ (k >= cursor /\ pc = "walk"))
  /\ job = "restore" => /\ store[k] # Gone
                        /\ \/ k \in done \cup errs
                           \/ k >= cursor /\ pc \in {"walk", "ask"}
                           \/ k = hand /\ pc = "ask"

Work ==
  pc # "start" /\ ~failed =>
    \A k \in due \ touched : (store[k] # Gone => Same(k)) /\ Pending(k)

\* What the sweep by age holds is old enough, or was put since.
Old(k) == k \in touched \/ store[k] = Gone \/ today - store[k].day >= LifeDay
Holds == job = "expired" =>
           /\ \A k \in batch : Old(k)
           /\ lister = "send" => Old(hand)

\* While the uploads are removed, those that are left come through the channel.
Fed ==
  /\ pc = "start" => feed.at = "off" /\ feed.next = 1 /\ feed.chan = {}
  /\ pc = "uploads" => /\ feed.at # "off"
                       /\ \A k \in uploads : k >= feed.next \/ k \in feed.chan
                       /\ \A k, l \in feed.chan : k = l
                       /\ feed.at = "closed" => Unfed = {}

SweepInv == TypeOK /\ today <= day /\ Stages /\ Ending /\ Work /\ Holds /\ Fed

\* Most steps have nothing to do with the uploads.
LEMMA FedStays ==
  ASSUME Fed, UNCHANGED <<uploads, feed>>, pc' = pc \/ pc' \notin {"start", "uploads"}
  PROVE  Fed'
BY DEF Fed, Unfed

-----------------------------------------------------------------------------
(* What others may do *)

\* A step of others spares the keys that it does not touch.
Spares ==
  /\ store' \in [Keys -> Objects \cup {Gone}]
  /\ touched' \subseteq Keys /\ touched \subseteq touched'
  /\ day' \in Nat /\ day <= day'
  /\ \A k \in Keys \ touched' : /\ store'[k] = Gone <=> store[k] = Gone
                                /\ store'[k].class = store[k].class
                                /\ store'[k].day = store[k].day

\* The sweep itself does nothing.
Rests == UNCHANGED <<uploads, listVars, removeVars, sweepVars>>

GetTypes == get' \in [Getters -> [at : {"idle", "ask", "read", "served", "missing", "refused", "wait"},
                                  key : Keys, saw : Objects \cup {Gone}]]

\* A change of what was restored keeps the rest of a cold object.
LEMMA RestoreSpares ==
  ASSUME TypeOK, NEW k \in Keys, store[k] # Gone, NEW r \in {"none", "ongoing", "done"},
         store' = [store EXCEPT ![k].restore = r], UNCHANGED touched, UNCHANGED day
  PROVE  Spares
<1>1. store[k] \in Objects /\ store \in [Keys -> Objects \cup {Gone}]
  BY DEF TypeOK
<1>2. [store[k] EXCEPT !.restore = r] \in Objects
  BY <1>1 DEF Objects
<1>3. store' = [store EXCEPT ![k] = [store[k] EXCEPT !.restore = r]]
  OBVIOUS
<1>4. [store[k] EXCEPT !.restore = r].class = store[k].class
      /\ [store[k] EXCEPT !.restore = r].day = store[k].day
  BY <1>1 DEF Objects
<1>5. \A o \in Objects : o # Gone
  BY DEF Objects, Gone
<1>6. store'[k] # Gone /\ store'[k].class = store[k].class /\ store'[k].day = store[k].day
  BY <1>1, <1>2, <1>3, <1>4, <1>5
<1>7. \A j \in Keys : j # k => store'[j] = store[j]
  BY <1>1, <1>3
<1>8. store' \in [Keys -> Objects \cup {Gone}]
  BY <1>1, <1>2, <1>3
<1> QED
  BY <1>6, <1>7, <1>8 DEF Spares, TypeOK

\* The request to restore an object that the store takes spares it.
LEMMA RestoringSpares ==
  ASSUME TypeOK, NEW k \in Keys, Takes(k), store' = Restoring(k),
         UNCHANGED touched, UNCHANGED day
  PROVE  Spares
<1>1. store[k] # Gone
  BY DEF Takes, Gone
<1>2. store[k].restore \in {"none", "ongoing", "done"}
  BY <1>1 DEF TypeOK, Objects
<1>3. store' = [store EXCEPT ![k].restore = IF store[k].restore = "none" THEN "ongoing" ELSE store[k].restore]
  BY DEF Restoring
<1> QED
  BY <1>1, <1>2, <1>3, RestoreSpares

\* What a step of others leaves of the invariant.
LEMMA SparesInv ==
  ASSUME SweepInv, Spares, Rests, GetTypes, left' \in 0..MaxTrouble
  PROVE  SweepInv'
<1>1. TypeOK'
  BY DEF SweepInv, TypeOK, Spares, Rests, GetTypes, listVars, removeVars, sweepVars
<1>2. (today <= day)'
  BY DEF SweepInv, TypeOK, Spares, Rests, sweepVars
<1>3. Stages' /\ Ending'
  BY DEF SweepInv, Stages, Ending, Rests, listVars, removeVars, sweepVars
<1>4. Work'
  <2> SUFFICES ASSUME pc # "start", ~failed, NEW k \in due \ touched'
               PROVE  (store'[k] # Gone => Same(k)') /\ Pending(k)'
    BY DEF Work, Rests, listVars, sweepVars
  <2>1. k \in due \ touched /\ k \in Keys \ touched'
    BY DEF Spares, SweepInv, TypeOK
  <2>2. (store[k] # Gone => Same(k)) /\ Pending(k)
    BY <2>1 DEF SweepInv, Work
  <2>3. /\ store'[k] = Gone <=> store[k] = Gone
        /\ store'[k].class = store[k].class /\ store'[k].day = store[k].day
    BY <2>1 DEF Spares
  <2>4. store'[k] # Gone => Same(k)'
    BY <2>2, <2>3 DEF Same, Rests, sweepVars
  <2>5. Pending(k)'
    BY <2>2, <2>3 DEF Pending, Rests, listVars, removeVars, sweepVars
  <2> QED
    BY <2>4, <2>5
<1>5. Holds'
  <2>1. \A k \in Keys : Old(k) => Old(k)'
    BY DEF Old, Spares, Rests, sweepVars
  <2>2. batch \subseteq Keys /\ hand \in Keys
    BY DEF SweepInv, TypeOK
  <2> QED
    BY <2>1, <2>2 DEF SweepInv, Holds, Rests, listVars, removeVars, sweepVars
<1>6. Fed'
  BY FedStays DEF SweepInv, Rests, listVars, sweepVars
<1> QED
  BY <1>1, <1>2, <1>3, <1>4, <1>5, <1>6 DEF SweepInv

-----------------------------------------------------------------------------
(* Each step keeps the invariant *)

\* The steps of a getter.
LEMMA GetterInv ==
  ASSUME SweepInv, NEW g \in Getters, Getter(g)
  PROVE  SweepInv'
<1>0. TypeOK
  BY DEF SweepInv
<1>1. get[g].key \in Keys /\ store[get[g].key] \in Objects \cup {Gone}
  BY <1>0 DEF TypeOK
<1>2. ASSUME UNCHANGED worldVars PROVE Spares
  BY <1>0, <1>2 DEF Spares, worldVars, TypeOK
<1>3. ASSUME NEW at \in {"served", "refused", "wait"}, Goes(g, at) PROVE GetTypes
  BY <1>0, <1>3 DEF Goes, GetTypes, TypeOK
<1>4. CASE Stat(g)
  <2>1. AfterStat(store[get[g].key]) \in {"missing", "read", "wait", "ask"}
    BY DEF AfterStat
  <2>2. GetTypes
    <3> DEFINE Ats == {"idle", "ask", "read", "served", "missing", "refused", "wait"}
               Get == [at : Ats, key : Keys, saw : Objects \cup {Gone}]
               o == store[get[g].key]
               new == [get[g] EXCEPT !.at = AfterStat(o), !.saw = o]
    <3>1. get \in [Getters -> Get]
      BY <1>0 DEF TypeOK
    <3>2. AfterStat(o) \in Ats /\ o \in Objects \cup {Gone}
      BY <1>1, <2>1
    <3>3. get' = [get EXCEPT ![g] = new]
      BY <1>4 DEF Stat
    <3> HIDE DEF Ats, o
    <3>4. new \in Get
      BY <3>1, <3>2
    <3> HIDE DEF new, Get
    <3>5. get' \in [Getters -> Get]
      BY <3>1, <3>3, <3>4
    <3> QED
      BY <3>5 DEF GetTypes, Get, Ats
  <2> QED
    BY <1>0, <1>2, <1>4, <2>2, SparesInv DEF Stat, Rests, worldVars, sweepVars, TypeOK
<1>5. CASE Ask(g)
  <2>1. GetTypes
    BY <1>3, <1>5 DEF Ask
  <2>2. Spares
    <3>1. CASE Takes(get[g].key)
      BY <1>0, <1>1, <1>5, <3>1, RestoringSpares DEF Ask
    <3>2. CASE ~Takes(get[g].key)
      BY <1>2, <1>5, <3>2 DEF Ask, worldVars
    <3> QED
      BY <3>1, <3>2
  <2> QED
    BY <1>0, <1>5, <2>1, <2>2, SparesInv DEF Ask, Rests, sweepVars, TypeOK
<1>6. CASE Read(g)
  <2>1. GetTypes
    BY <1>3, <1>6 DEF Read
  <2> QED
    BY <1>0, <1>2, <1>6, <2>1, SparesInv DEF Read, Rests, worldVars, sweepVars, TypeOK
<1> QED
  BY <1>4, <1>5, <1>6 DEF Getter

\* What the store and its other clients do, and requests of getters that fail.
LEMMA WorldInv ==
  ASSUME SweepInv,
         \/ Midnight
         \/ \E g \in Getters : GetFails(g)
         \/ \E k \in Keys : \/ Delete(k) \/ Lapse(k) \/ Thaw(k)
                            \/ \E class \in {"warm", "cold"} : Put(k, class)
  PROVE  SweepInv'
<1>0. TypeOK
  BY DEF SweepInv
<1>1. ASSUME Trouble PROVE left' \in 0..MaxTrouble
  BY <1>0, <1>1, BoundsAssumption DEF Trouble, TypeOK
<1>2. ASSUME UNCHANGED get PROVE GetTypes
  BY <1>0, <1>2 DEF GetTypes, TypeOK
<1>3. CASE Midnight
  <2>1. Spares
    BY <1>0, <1>3 DEF Midnight, Spares, TypeOK
  <2> QED
    BY <1>1, <1>2, <1>3, <2>1, SparesInv DEF Midnight, Rests, sweepVars
<1>4. ASSUME NEW g \in Getters, GetFails(g) PROVE SweepInv'
  <2>1. Spares
    BY <1>0, <1>4 DEF GetFails, Spares, TypeOK
  <2>2. GetTypes
    BY <1>0, <1>4 DEF GetFails, Goes, GetTypes, TypeOK
  <2> QED
    BY <1>1, <1>4, <2>1, <2>2, SparesInv DEF GetFails, Rests, sweepVars
<1>5. ASSUME NEW k \in Keys, Delete(k) PROVE SweepInv'
  <2>1. Spares
    BY <1>0, <1>5 DEF Delete, Spares, TypeOK
  <2> QED
    BY <1>1, <1>2, <1>5, <2>1, SparesInv DEF Delete, Rests, sweepVars
<1>6. ASSUME NEW k \in Keys, Lapse(k) PROVE SweepInv'
  <2>1. store[k] # Gone
    BY <1>6 DEF Lapse, Gone
  <2>2. Spares
    BY <1>0, <1>6, <2>1, RestoreSpares DEF Lapse
  <2> QED
    BY <1>1, <1>2, <1>6, <2>2, SparesInv DEF Lapse, Rests, sweepVars
<1>7. ASSUME NEW k \in Keys, Thaw(k) PROVE SweepInv'
  <2>1. store[k] # Gone
    BY <1>7 DEF Thaw, Gone
  <2>2. Spares
    BY <1>0, <1>7, <2>1, RestoreSpares DEF Thaw
  <2> QED
    BY <1>0, <1>2, <1>7, <2>2, SparesInv DEF Thaw, Rests, sweepVars, TypeOK
<1>8. ASSUME NEW k \in Keys, NEW class \in {"warm", "cold"}, Put(k, class) PROVE SweepInv'
  <2>1. [class |-> class, restore |-> "none", day |-> day] \in Objects
    BY <1>0 DEF Objects, TypeOK
  <2>2. Spares
    BY <1>0, <1>8, <2>1 DEF Put, Spares, TypeOK
  <2> QED
    BY <1>1, <1>2, <1>8, <2>2, SparesInv DEF Put, Rests, sweepVars
<1> QED
  BY <1>3, <1>4, <1>5, <1>6, <1>7, <1>8

\* The call begins.
LEMMA StartInv ==
  ASSUME SweepInv, Start
  PROVE  SweepInv'
<1>0. TypeOK /\ Stages /\ Ending /\ Fed /\ pc = "start"
  BY DEF SweepInv, Start
<1>a. feed' = feed \/ (job \in {"clear", "uploads"} /\ feed' = [feed EXCEPT !.at = "list"])
  BY <1>0 DEF Start
<1>b. feed' \in [at : {"off", "list", "closed"}, next : 1..(NKeys + 1), chan : SUBSET Keys]
  BY <1>0, <1>a DEF TypeOK
<1>1. TypeOK'
  <2> HIDE DEF Keys
  <2>1. due' \subseteq Keys /\ today' \in Nat /\ touched' = {}
    BY <1>0 DEF TypeOK, Start, Due
  <2>2. /\ pc' \in {"uploads", "walk", "drain"} /\ lister' \in {lister, "list"}
        /\ remover' \in {remover, "gather"}
    BY DEF Start, StartRemoval
  <2> QED
    BY <1>0, <1>b, <2>1, <2>2 DEF TypeOK, Start
<1>c. Fed'
  <2>1. CASE job \in {"clear", "uploads"}
    <3>1. feed' = [feed EXCEPT !.at = "list"] /\ pc' = "uploads" /\ uploads' = uploads
      BY <1>0, <2>1 DEF Start
    <3>2. feed'.at = "list" /\ feed'.next = 1
      BY <1>0, <3>1 DEF Fed, TypeOK
    <3>3. uploads \subseteq 1..NKeys
      BY <1>0 DEF TypeOK, Keys
    <3>4. feed'.chan = {}
      BY <1>0, <3>1 DEF Fed, TypeOK
    <3> QED
      BY <1>0, <3>1, <3>2, <3>3, <3>4 DEF Fed
  <2>2. CASE job \notin {"clear", "uploads"}
    BY <2>2, <1>0 DEF Start, StartRemoval, Fed
  <2> QED
    BY <2>1, <2>2
<1>2. (today <= day)'
  BY <1>0 DEF TypeOK, Start
<1>3. Stages'
  BY <1>0 DEF Stages, Start, StartRemoval, TypeOK, Jobs, Removals
<1>4. Ending'
  BY <1>0 DEF Stages, Ending, Start, StartRemoval, TypeOK, Jobs, Removals
<1>5. Work'
  <2> SUFFICES ASSUME NEW k \in due' PROVE (store[k] # Gone => Same(k))' /\ Pending(k)'
    BY DEF Work
  <2>1. /\ k \in Keys /\ store[k] # Gone /\ store' = store /\ job' = job
        /\ job = "expired" => today' - store[k].day >= LifeDay
        /\ job = "restore" => store[k].class = "cold"
    BY DEF Start, Due
  <2>2. k >= cursor' /\ (job \in {"restore", "list"} => pc' = "walk")
    BY <1>0, <2>1 DEF Stages, Start, Keys
  <2>3. job \in Removals => lister' # "closed"
    BY <1>0 DEF Stages, Start, StartRemoval
  <2>4. (store[k] # Gone => Same(k))'
    BY <2>1 DEF Same
  <2>5. Pending(k)'
    BY <2>1, <2>2, <2>3 DEF Pending
  <2> QED
    BY <2>4, <2>5
<1>6. Holds'
  BY <1>0 DEF Holds, Stages, Start, StartRemoval
<1> QED
  BY <1>1, <1>2, <1>3, <1>4, <1>5, <1>6, <1>c DEF SweepInv

\* While the store rests, what is due stays due.
LEMMA SameStays ==
  ASSUME UNCHANGED <<store, touched, today, job>>, NEW k
  PROVE  (Same(k) <=> Same(k)') /\ (Old(k) <=> Old(k)')
BY DEF Same, Old

\* The listing gives the next object: what it passes over is not due.
LEMMA ListNextInv ==
  ASSUME SweepInv, ListNext
  PROVE  SweepInv'
<1>0. TypeOK /\ Stages /\ Ending /\ UNCHANGED <<worldVars, failed, feed, removeVars, job, today, errs, ret, due, get>>
  BY DEF SweepInv, ListNext
<1>1. PICK h \in Ahead :
        /\ \A l \in Ahead : h <= l
        /\ cursor' = h + 1 /\ hand' = h
        /\ lister' = IF lister = "list" /\ Wanted(store[h]) THEN "send" ELSE lister
        /\ pc' = IF job = "restore" /\ Wanted(store[h]) THEN "ask" ELSE pc
        /\ done' = IF job = "list" THEN done \cup {h} ELSE done
  BY DEF ListNext
<1>2. h \in Keys /\ h >= cursor /\ store[h] # Gone
  BY DEF Ahead
<1>3. lister = "list" \/ pc = "walk"
  BY DEF ListNext, Listing
<1>4. TypeOK'
  <2>1. cursor' \in 1..(NKeys + 1) /\ hand' \in Keys /\ done' \subseteq Keys
    BY <1>0, <1>1, <1>2, StoresAssumption DEF Keys, TypeOK
  <2>2. pc' \in {"start", "uploads", "walk", "ask", "drain", "return"}
        /\ lister' \in {"off", "list", "send", "closed"}
    BY <1>0, <1>1 DEF TypeOK
  <2> QED
    BY <1>0, <2>1, <2>2 DEF TypeOK, worldVars, removeVars
<1>5. (today <= day)'
  BY <1>0 DEF SweepInv, worldVars
<1>6. Stages'
  BY <1>0, <1>1, <1>3 DEF Stages, removeVars, Removals
<1>7. Ending'
  BY <1>0, <1>1, <1>3 DEF Stages, Ending, removeVars, worldVars
<1>8. Work'
  <2> SUFFICES ASSUME ~failed, NEW k \in due \ touched
               PROVE  (store[k] # Gone => Same(k))' /\ Pending(k)'
    BY <1>0 DEF Work, worldVars
  <2>1. pc # "start"
    BY <1>0, <1>3 DEF Stages
  <2>2. k \in Keys /\ (store[k] # Gone => Same(k)) /\ Pending(k)
    BY <1>0, <2>1 DEF SweepInv, Work, TypeOK
  <2>3. (store[k] # Gone => Same(k))'
    BY <1>0, <2>2, SameStays DEF worldVars
  <2>4. k >= cursor /\ store[k] # Gone => k = h \/ k >= cursor'
    BY <1>0, <1>1, <1>2, <2>2 DEF Ahead, Keys, TypeOK
  <2>5. k = h => Wanted(store[k])
    BY <1>2, <2>2 DEF Same, Wanted, OldEnough
  <2>6. CASE job \in Removals
    <3>1. lister = "list"
      BY <1>0, <1>3, <2>6 DEF Stages, Removals
    <3> QED
      BY <1>0, <1>1, <2>2, <2>3, <2>4, <2>5, <2>6, <3>1 DEF Pending, worldVars, removeVars, Removals
  <2>7. CASE job = "list"
    <3>1. pc' = pc /\ done' = done \cup {h}
      BY <1>1, <2>7
    <3> QED
      BY <1>0, <2>2, <2>3, <2>4, <2>7, <3>1 DEF Pending, worldVars, Removals
  <2>8. CASE job = "restore"
    <3>1. done' = done /\ hand' = h /\ pc' \in {"walk", "ask"} /\ (k = h => pc' = "ask")
      BY <1>0, <1>1, <1>3, <2>5, <2>8 DEF Stages, Removals
    <3>2. pc # "ask"
      BY <1>0, <1>3, <2>8 DEF Stages, Removals
    <3> QED
      BY <1>0, <2>2, <2>3, <2>4, <2>8, <3>1, <3>2 DEF Pending, worldVars, Removals
  <2>9. CASE job = "uploads"
    BY <1>0, <2>3, <2>9 DEF Pending, Removals
  <2> QED
    BY <1>0, <2>6, <2>7, <2>8, <2>9 DEF TypeOK, Jobs
<1>9. Holds'
  <2>1. CASE job = "expired"
    <3>1. \A k : Old(k) <=> Old(k)'
      BY <1>0, SameStays DEF worldVars
    <3>2. Wanted(store[h]) => Old(h)
      BY <2>1 DEF Wanted, OldEnough, Old
    <3>3. lister = "list"
      BY <1>0, <1>3, <2>1 DEF Stages
    <3>4. \A k \in batch' : Old(k)'
      BY <1>0, <2>1, <3>1 DEF SweepInv, Holds, removeVars
    <3>5. lister' = "send" => Old(h)'
      BY <1>1, <3>1, <3>2, <3>3
    <3> QED
      BY <1>1, <3>4, <3>5 DEF Holds, Old
  <2> QED
    BY <1>0, <2>1 DEF Holds
<1>f. Fed'
  BY <1>0, <1>1, FedStays DEF SweepInv, worldVars
<1> QED
  BY <1>4, <1>5, <1>6, <1>7, <1>8, <1>9, <1>f DEF SweepInv

\* Listing and its ends, and the uploads: nothing is sent or removed.
LEMMA ListErrorInv ==
  ASSUME SweepInv, ListError
  PROVE  SweepInv'
<1>0. TypeOK /\ Stages /\ Ending
      /\ UNCHANGED <<store, uploads, day, touched, hand, feed, removeVars, job, today, errs, due, get>>
  BY DEF SweepInv, ListError
<1>1. /\ failed' = TRUE /\ cursor' \in {cursor, NKeys + 1} /\ Trouble
      /\ lister' = IF job \in {"remove", "clear"} THEN "closed" ELSE lister
      /\ lister = "list" \/ pc = "walk"
  BY DEF ListError, Listing
<1>2. IF job = "list" THEN pc' = "return" /\ ret' = "err" /\ done' = {}
                      ELSE UNCHANGED <<pc, ret, done>>
  BY DEF ListError
<1>3. TypeOK'
  <2>1. cursor' \in 1..(NKeys + 1) /\ left' \in 0..MaxTrouble
    BY <1>0, <1>1, StoresAssumption, BoundsAssumption DEF TypeOK, Trouble
  <2>2. /\ pc' \in {"start", "uploads", "walk", "ask", "drain", "return"}
        /\ ret' \in {"none", "ok", "err"} /\ done' \subseteq Keys
        /\ lister' \in {"off", "list", "send", "closed"} /\ failed' \in BOOLEAN
    BY <1>0, <1>1, <1>2 DEF TypeOK
  <2> QED
    BY <1>0, <2>1, <2>2 DEF TypeOK, removeVars
<1>4. Stages'
  BY <1>0, <1>1, <1>2 DEF Stages, removeVars, Removals
<1>5. Ending'
  BY <1>0, <1>1, <1>2 DEF Stages, Ending, removeVars, Removals
<1>6. Work' /\ (today <= day)'
  BY <1>0, <1>1 DEF Work, SweepInv
<1>7. Holds'
  <2>1. \A k : Old(k) <=> Old(k)'
    BY <1>0, SameStays
  <2>2. Old(hand) <=> Old(hand)'
    BY <1>0 DEF Old
  <2> QED
    BY <1>0, <1>1, <2>1, <2>2 DEF SweepInv, Holds, removeVars
<1>f. Fed'
  BY <1>0, <1>2, FedStays DEF SweepInv
<1> QED
  BY <1>3, <1>4, <1>5, <1>6, <1>7, <1>f DEF SweepInv

\* The listing is at its end: what is due and is still there was listed.
LEMMA ListEndInv ==
  ASSUME SweepInv, ListEnd \/ WalkEnd
  PROVE  SweepInv'
<1>0. TypeOK /\ Stages /\ Ending /\ Ahead = {}
      /\ UNCHANGED <<worldVars, cursor, hand, failed, feed, removeVars, job, today, done, errs, due, get>>
  BY DEF SweepInv, ListEnd, WalkEnd, listVars, sweepVars
<1>1. \/ lister = "list" /\ lister' = "closed" /\ UNCHANGED <<pc, ret>>
      \/ pc = "walk" /\ pc' = "return" /\ ret' = (IF failed THEN "err" ELSE "ok") /\ UNCHANGED lister
  BY DEF ListEnd, WalkEnd, listVars, sweepVars
<1>2. TypeOK'
  BY <1>0, <1>1 DEF TypeOK, worldVars, removeVars
<1>3. Stages' /\ (today <= day)'
  BY <1>0, <1>1 DEF SweepInv, Stages, removeVars, worldVars
<1>4. Ending'
  BY <1>0, <1>1 DEF Stages, Ending, removeVars, worldVars, Removals
<1>5. Work'
  <2> SUFFICES ASSUME ~failed, NEW k \in due \ touched
               PROVE  (store[k] # Gone => Same(k))' /\ Pending(k)'
    BY <1>0 DEF Work, worldVars
  <2>1. pc # "start"
    BY <1>0, <1>1 DEF Stages
  <2>2. k \in Keys /\ (store[k] # Gone => Same(k)) /\ Pending(k)
    BY <1>0, <2>1 DEF SweepInv, Work, TypeOK
  <2>3. (store[k] # Gone => Same(k))'
    BY <1>0, <2>2, SameStays DEF worldVars
  <2>4. ~(k >= cursor /\ store[k] # Gone)
    BY <1>0, <2>2 DEF Ahead
  <2>5. Pending(k)'
    BY <1>0, <1>1, <2>2, <2>4 DEF Pending, Stages, worldVars, removeVars, Removals
  <2> QED
    BY <2>3, <2>5
<1>6. Holds'
  <2>1. \A k : Old(k) <=> Old(k)'
    BY <1>0, SameStays DEF worldVars
  <2>2. Old(hand) <=> Old(hand)'
    BY <1>0 DEF Old, worldVars
  <2> QED
    BY <1>0, <1>1, <2>1, <2>2 DEF SweepInv, Holds, removeVars
<1>f. Fed'
  BY <1>0, <1>1, FedStays DEF SweepInv, worldVars
<1> QED
  BY <1>2, <1>3, <1>4, <1>5, <1>6, <1>f DEF SweepInv

\* A step of the goroutine that lists the uploads disturbs nothing else.
LEMMA FeedOnly ==
  ASSUME SweepInv, Fed',
         UNCHANGED <<worldVars, cursor, lister, hand, failed, removeVars, sweepVars, get>>,
         feed' \in [at : {"off", "list", "closed"}, next : 1..(NKeys + 1), chan : SUBSET Keys]
  PROVE  SweepInv'
<1>0. UNCHANGED <<store, uploads, day, touched, cursor, lister, hand, failed, get>>
      /\ UNCHANGED <<remover, batch, results, pc, job, today, done, errs, ret, due, left>>
  BY DEF worldVars, removeVars, sweepVars
<1>1. TypeOK'
  BY <1>0 DEF SweepInv, TypeOK
<1>2. Stages' /\ Ending' /\ (today <= day)'
  BY <1>0 DEF SweepInv, Stages, Ending
<1>3. Work'
  <2> SUFFICES ASSUME pc # "start", ~failed, NEW k \in due \ touched
               PROVE  (store[k] # Gone => Same(k))' /\ Pending(k)'
    BY <1>0 DEF Work
  <2>1. (store[k] # Gone => Same(k)) /\ Pending(k)
    BY DEF SweepInv, Work
  <2>2. (store[k] # Gone => Same(k))'
    BY <1>0, <2>1 DEF Same
  <2>3. Pending(k)'
    BY <1>0, <2>1 DEF Pending
  <2> QED
    BY <2>2, <2>3
<1>4. Holds'
  BY <1>0 DEF SweepInv, Holds, Old
<1> QED
  BY <1>1, <1>2, <1>3, <1>4 DEF SweepInv

\* The uploads are listed: what was not listed is still to come, or sent.
LEMMA FeedInv ==
  ASSUME SweepInv, Feed
  PROVE  SweepInv'
<1>0. TypeOK /\ Fed /\ UNCHANGED <<worldVars, cursor, lister, hand, failed, removeVars, sweepVars, get>>
  BY DEF SweepInv, Feed
<1>1. CASE \E k \in Unfed : /\ \A l \in Unfed : k <= l
                            /\ feed' = [feed EXCEPT !.next = k + 1, !.chan = {k}]
                            /\ feed.chan = {}
  <2>1. PICK k \in Unfed : /\ \A l \in Unfed : k <= l
                           /\ feed' = [feed EXCEPT !.next = k + 1, !.chan = {k}]
                           /\ feed.chan = {}
    BY <1>1
  <2>2. feed'.at = feed.at /\ feed'.next = k + 1 /\ feed'.chan = {k}
    BY <1>0, <2>1 DEF TypeOK
  <2>3. k \in 1..NKeys /\ uploads \subseteq 1..NKeys /\ NKeys \in Nat
    BY <1>0, <2>1, StoresAssumption DEF TypeOK, Unfed, Keys
  <2>4. feed' \in [at : {"off", "list", "closed"}, next : 1..(NKeys + 1), chan : SUBSET Keys]
    <3>1. k + 1 \in 1..(NKeys + 1) /\ {k} \in SUBSET Keys
      BY <2>3 DEF Keys
    <3> QED
      BY <1>0, <2>1, <3>1 DEF TypeOK
  <2>a. feed.at = "list"
    BY DEF Feed
  <2>b. feed.next \in 1..(NKeys + 1)
    BY <1>0 DEF TypeOK
  <2>5. feed.next \in Nat /\ feed.at = "list"
    BY <2>a, <2>b
  <2>6. \A l \in uploads : pc = "uploads" => l >= k + 1 \/ l \in {k}
    BY <1>0, <2>1, <2>3, <2>5 DEF Fed, Unfed
  <2>7. Fed'
    BY <1>0, <2>2, <2>5, <2>6 DEF Fed, Feed, worldVars, sweepVars
  <2> QED
    BY <1>0, <2>4, <2>7, FeedOnly
<1>2. CASE Unfed = {} /\ feed' = [feed EXCEPT !.at = "closed"]
  <2>1. feed'.at = "closed" /\ feed'.next = feed.next /\ feed'.chan = feed.chan
    BY <1>0, <1>2 DEF TypeOK
  <2>2. feed' \in [at : {"off", "list", "closed"}, next : 1..(NKeys + 1), chan : SUBSET Keys]
    BY <1>0, <1>2 DEF TypeOK
  <2>3. feed.at = "list"
    BY DEF Feed
  <2>4. Fed'
    BY <1>0, <1>2, <2>1, <2>3 DEF Fed, Unfed, worldVars, sweepVars
  <2> QED
    BY <1>0, <2>2, <2>4, FeedOnly
<1> QED
  BY <1>1, <1>2 DEF Feed

\* The unfinished uploads go first.
LEMMA UploadsInv ==
  ASSUME SweepInv, RemoveUpload \/ UploadFails \/ UploadsEnd
  PROVE  SweepInv'
<1>0. TypeOK /\ Stages /\ Ending /\ Fed /\ pc = "uploads"
  BY DEF SweepInv, RemoveUpload, UploadFails, UploadsEnd, listVars, sweepVars
<1>1. UNCHANGED <<store, day, touched, cursor, hand, failed, batch, results, job, today, done, errs, due, get>>
  BY DEF RemoveUpload, UploadFails, UploadsEnd, listVars, sweepVars, worldVars, removeVars
<1>a. ASSUME UploadsEnd PROVE uploads = {}
  BY <1>0, <1>a DEF UploadsEnd, Fed, Unfed
<1>2. \/ UNCHANGED <<pc, ret, lister, remover, left>> /\ RemoveUpload
      \/ pc' = "return" /\ ret' = "err" /\ UNCHANGED <<uploads, lister, remover>> /\ Trouble
      \/ job = "clear" /\ uploads = {} /\ UNCHANGED <<uploads, ret, left>>
           /\ pc' = "drain" /\ lister' = "list" /\ remover' = "gather"
      \/ job # "clear" /\ uploads = {} /\ UNCHANGED <<uploads, lister, remover, left>>
           /\ pc' = "return" /\ ret' = "ok"
  BY <1>a DEF RemoveUpload, UploadFails, UploadsEnd, StartRemoval, listVars, sweepVars, worldVars, removeVars
<1>b. \/ UNCHANGED feed
      \/ feed' = [feed EXCEPT !.at = "closed"]
      \/ feed' = [feed EXCEPT !.chan = {}]
  BY DEF RemoveUpload, UploadFails, UploadsEnd, listVars
<1>3. TypeOK'
  <2>1. left' \in 0..MaxTrouble /\ uploads' \subseteq Keys
    BY <1>0, <1>2, BoundsAssumption DEF TypeOK, Trouble, RemoveUpload
  <2>2. feed' \in [at : {"off", "list", "closed"}, next : 1..(NKeys + 1), chan : SUBSET Keys]
    BY <1>0, <1>b DEF TypeOK
  <2> QED
    BY <1>0, <1>1, <1>2, <2>1, <2>2 DEF TypeOK
<1>4. Stages' /\ (today <= day)'
  BY <1>0, <1>1, <1>2 DEF SweepInv, Stages, Removals
<1>5. Ending'
  <2>1. uploads = {} => uploads' = {}
    BY <1>2 DEF RemoveUpload
  <2> QED
    BY <1>0, <1>1, <1>2, <2>1 DEF Stages, Ending, Removals
<1>6. Work'
  <2> SUFFICES ASSUME ~failed, NEW k \in due \ touched
               PROVE  (store[k] # Gone => Same(k))' /\ Pending(k)'
    BY <1>1 DEF Work
  <2>1. k \in Keys /\ (store[k] # Gone => Same(k)) /\ Pending(k)
    BY <1>0 DEF SweepInv, Work, TypeOK
  <2>2. (store[k] # Gone => Same(k))'
    BY <1>1, <2>1, SameStays
  <2>3. job \in {"clear", "uploads"} /\ k >= cursor /\ lister' # "closed"
    BY <1>0, <1>2, <2>1 DEF Stages, Keys
  <2>4. Pending(k)'
    BY <1>1, <2>3 DEF Pending
  <2> QED
    BY <2>2, <2>4
<1>7. Holds'
  BY <1>0, <1>1 DEF Stages, Holds
<1>8. Fed'
  <2>1. CASE RemoveUpload
    <3>1. PICK k \in feed.chan : uploads' = uploads \ {k}
      BY <2>1 DEF RemoveUpload
    <3>2. feed'.at = feed.at /\ feed'.next = feed.next /\ pc' = pc
      BY <1>0, <2>1 DEF RemoveUpload, TypeOK, sweepVars
    <3>3. feed' = [feed EXCEPT !.chan = {}] /\ feed'.chan = {}
      BY <1>0, <2>1 DEF RemoveUpload, TypeOK
    <3>4. \A l \in uploads' : l >= feed.next
      BY <1>0, <3>1 DEF Fed
    <3> QED
      BY <1>0, <3>1, <3>2, <3>3, <3>4 DEF Fed, Unfed
  <2>2. CASE ~RemoveUpload
    BY <1>0, <1>2, <2>2 DEF Fed
  <2> QED
    BY <2>1, <2>2
<1> QED
  BY <1>3, <1>4, <1>5, <1>6, <1>7, <1>8 DEF SweepInv

\* The key goes from the hand of the lister into the batch.
LEMMA GatherInv ==
  ASSUME SweepInv, Gather
  PROVE  SweepInv'
<1>0. /\ TypeOK /\ Stages /\ Ending /\ lister = "send" /\ remover = "gather" /\ lister' = "list"
      /\ batch' = batch \cup {hand} /\ Cardinality(batch) < BatchSize
      /\ UNCHANGED <<worldVars, cursor, hand, failed, feed, remover, results, sweepVars, get>>
  BY DEF SweepInv, Gather
<1>1. TypeOK'
  <2>1. IsFiniteSet(Keys)
    BY StoresAssumption, FS_Interval DEF Keys
  <2>2. IsFiniteSet(batch)
    BY <1>0, <2>1, FS_Subset DEF TypeOK
  <2>3. /\ Cardinality(batch) \in Nat
        /\ Cardinality(batch') = Cardinality(batch) \/ Cardinality(batch') = Cardinality(batch) + 1
    <3>1. Cardinality(batch) \in Nat
      BY <2>2, FS_CardinalityType
    <3>2. Cardinality(batch \cup {hand}) =
            IF hand \in batch THEN Cardinality(batch) ELSE Cardinality(batch) + 1
      BY <2>2, FS_AddElement
    <3> QED
      BY <1>0, <3>1, <3>2
  <2>4. Cardinality(batch') <= BatchSize
    BY <1>0, <2>3, BoundsAssumption
  <2> QED
    BY <1>0, <2>4 DEF TypeOK, worldVars, sweepVars
<1>2. Stages' /\ Ending' /\ (today <= day)'
  BY <1>0 DEF SweepInv, Stages, Ending, worldVars, sweepVars
<1>3. Work'
  <2> SUFFICES ASSUME pc # "start", ~failed, NEW k \in due \ touched
               PROVE  (store[k] # Gone => Same(k))' /\ Pending(k)'
    BY <1>0 DEF Work, worldVars, sweepVars
  <2>1. (store[k] # Gone => Same(k)) /\ Pending(k)
    BY DEF SweepInv, Work
  <2>2. (store[k] # Gone => Same(k))'
    BY <1>0, <2>1, SameStays DEF worldVars, sweepVars
  <2>3. job \in Removals
    BY <1>0 DEF Stages
  <2>4. Pending(k)'
    BY <1>0, <2>1, <2>3 DEF Pending, worldVars, sweepVars, Removals
  <2> QED
    BY <2>2, <2>4
<1>4. Holds'
  <2>1. \A k : Old(k) <=> Old(k)'
    BY <1>0, SameStays DEF worldVars, sweepVars
  <2> QED
    BY <1>0, <2>1 DEF SweepInv, Holds, sweepVars
<1>f. Fed'
  BY <1>0, FedStays DEF SweepInv, worldVars, sweepVars
<1> QED
  BY <1>1, <1>2, <1>3, <1>4, <1>f DEF SweepInv

\* The batch is posted: every key of it is gone or has failed.
LEMMA PostInv ==
  ASSUME SweepInv, Post
  PROVE  SweepInv'
<1>0. /\ TypeOK /\ Stages /\ Ending /\ remover = "gather" /\ remover' = "report" /\ batch' = {}
      /\ UNCHANGED <<uploads, day, touched, listVars, sweepVars, get>>
  BY DEF SweepInv, Post
<1>1. PICK bad \in SUBSET batch :
        /\ IF bad = {} THEN UNCHANGED left ELSE Trouble
        /\ store' = [k \in Keys |-> IF k \in batch \ bad THEN Gone ELSE store[k]]
        /\ results' = {<<k, k \notin bad>> : k \in batch}
  BY DEF Post
<1>2. store' \in [Keys -> Objects \cup {Gone}]
  BY <1>0, <1>1 DEF TypeOK
<1>3. TypeOK'
  <2>1. left' \in 0..MaxTrouble
    BY <1>0, <1>1, BoundsAssumption DEF TypeOK, Trouble
  <2>2. results' \subseteq Keys \X BOOLEAN
    <3>1. batch \subseteq Keys
      BY <1>0 DEF TypeOK
    <3>2. \A k \in batch : (k \notin bad) \in BOOLEAN
      OBVIOUS
    <3>3. \A k \in batch : <<k, k \notin bad>> \in Keys \X BOOLEAN
      BY <3>1, <3>2
    <3> QED
      BY <1>1, <3>3
  <2>3. batch' \subseteq Keys /\ Cardinality(batch') <= BatchSize
    BY <1>0, FS_EmptySet, BoundsAssumption
  <2> QED
    BY <1>0, <1>2, <2>1, <2>2, <2>3 DEF TypeOK, listVars, sweepVars
<1>4. Stages' /\ Ending' /\ (today <= day)'
  BY <1>0 DEF SweepInv, Stages, Ending, listVars, sweepVars
<1>5. Work'
  <2> SUFFICES ASSUME pc # "start", ~failed, NEW k \in due \ touched
               PROVE  (store[k] # Gone => Same(k))' /\ Pending(k)'
    BY <1>0 DEF Work, listVars, sweepVars
  <2>1. k \in Keys /\ (store[k] # Gone => Same(k)) /\ Pending(k)
    BY <1>0 DEF SweepInv, Work, TypeOK
  <2>2. store'[k] = Gone \/ store'[k] = store[k]
    BY <1>1, <2>1
  <2>3. (store[k] # Gone => Same(k))'
    BY <1>0, <2>1, <2>2 DEF Same, sweepVars
  <2>4. job \in Removals
    BY <1>0 DEF Stages
  <2>5. k \in batch => store'[k] = Gone \/ <<k, FALSE>> \in results'
    <3>1. CASE k \in bad
      <4>1. <<k, k \notin bad>> \in results' /\ (k \notin bad) = FALSE
        BY <1>1, <3>1
      <4> QED
        BY <4>1
    <3>2. CASE k \notin bad
      BY <1>1, <2>1, <3>2
    <3> QED
      BY <3>1, <3>2
  <2>6. results = {}
    BY <1>0 DEF Stages
  <2>7. Pending(k)'
    BY <1>0, <2>1, <2>2, <2>4, <2>5, <2>6 DEF Pending, listVars, sweepVars, Removals
  <2> QED
    BY <2>3, <2>7
<1>6. Holds'
  <2>1. hand \in Keys
    BY <1>0 DEF TypeOK
  <2>2. store'[hand] = Gone \/ store'[hand] = store[hand]
    BY <1>1, <2>1
  <2> QED
    BY <1>0, <2>2 DEF SweepInv, Holds, Old, listVars, sweepVars
<1>f. Fed'
  BY <1>0, FedStays DEF SweepInv, listVars, sweepVars
<1> QED
  BY <1>3, <1>4, <1>5, <1>6, <1>f DEF SweepInv

\* The caller takes a result.
LEMMA DrainInv ==
  ASSUME SweepInv, Drain
  PROVE  SweepInv'
<1>0. /\ TypeOK /\ Stages /\ Ending /\ pc = "drain" /\ remover = "report"
      /\ remover' = IF results' = {} THEN "gather" ELSE remover
      /\ UNCHANGED <<worldVars, listVars, batch, job, today, pc, ret, due, get>>
  BY DEF SweepInv, Drain
<1>1. PICK r \in results :
        /\ results' = results \ {r}
        /\ IF r[2] THEN done' = done \cup {r[1]} /\ UNCHANGED errs
                   ELSE errs' = errs \cup {r[1]} /\ UNCHANGED done
  BY DEF Drain
<1>2. TypeOK'
  <2>1. done' \subseteq Keys /\ errs' \subseteq Keys
    BY <1>0, <1>1 DEF TypeOK
  <2> QED
    BY <1>0, <1>1, <2>1 DEF TypeOK, worldVars, listVars
<1>3. Stages' /\ Ending' /\ (today <= day)'
  BY <1>0, <1>1 DEF SweepInv, Stages, Ending, worldVars, listVars
<1>4. Work'
  <2> SUFFICES ASSUME ~failed, NEW k \in due \ touched
               PROVE  (store[k] # Gone => Same(k))' /\ Pending(k)'
    BY <1>0 DEF Work, worldVars, listVars
  <2>1. (store[k] # Gone => Same(k)) /\ Pending(k)
    BY <1>0 DEF SweepInv, Work
  <2>2. (store[k] # Gone => Same(k))'
    BY <1>0, <2>1, SameStays DEF worldVars
  <2>3. job \in Removals
    BY <1>0 DEF Stages
  <2>4. errs \subseteq errs' /\ (<<k, FALSE>> \in results => <<k, FALSE>> \in results' \/ k \in errs')
    <3>1. errs \subseteq errs'
      BY <1>1
    <3>2. CASE r = <<k, FALSE>>
      <4>1. r[1] = k /\ r[2] = FALSE
        BY <3>2
      <4> QED
        BY <1>1, <3>1, <4>1
    <3>3. CASE r # <<k, FALSE>>
      BY <1>1, <3>1, <3>3
    <3> QED
      BY <3>1, <3>2, <3>3
  <2>5. Pending(k)'
    BY <1>0, <2>1, <2>3, <2>4 DEF Pending, worldVars, listVars, Removals
  <2> QED
    BY <2>2, <2>5
<1>5. Holds'
  <2>1. \A k : Old(k) <=> Old(k)'
    BY <1>0, SameStays DEF worldVars
  <2>2. Old(hand) <=> Old(hand)'
    BY <1>0 DEF Old, worldVars, listVars
  <2> QED
    BY <1>0, <2>1, <2>2 DEF SweepInv, Holds, listVars
<1>f. Fed'
  BY <1>0, FedStays DEF SweepInv, worldVars, listVars
<1> QED
  BY <1>2, <1>3, <1>4, <1>5, <1>f DEF SweepInv

\* The goroutine of the client ends, and the caller after it.
LEMMA DrainEndInv ==
  ASSUME SweepInv, RemoverEnds \/ DrainEnd
  PROVE  SweepInv'
<1>0. /\ TypeOK /\ Stages /\ Ending
      /\ UNCHANGED <<worldVars, listVars, batch, results, job, today, done, errs, due, get>>
  BY DEF SweepInv, RemoverEnds, DrainEnd, removeVars, sweepVars
<1>1. \/ /\ remover = "gather" /\ lister = "closed" /\ batch = {} /\ remover' = "closed"
         /\ UNCHANGED <<pc, ret>>
      \/ /\ pc = "drain" /\ remover = "closed" /\ pc' = "return" /\ UNCHANGED remover
         /\ ret' = IF errs = {} THEN "ok" ELSE "err"
  BY DEF RemoverEnds, DrainEnd, removeVars, sweepVars
<1>2. TypeOK'
  BY <1>0, <1>1 DEF TypeOK, worldVars, listVars
<1>3. Stages' /\ (today <= day)'
  BY <1>0, <1>1 DEF SweepInv, Stages, worldVars, listVars
<1>4. Ending'
  BY <1>0, <1>1 DEF Stages, Ending, worldVars, listVars, Removals
<1>5. Work'
  <2> SUFFICES ASSUME ~failed, NEW k \in due \ touched
               PROVE  (store[k] # Gone => Same(k))' /\ Pending(k)'
    BY <1>0 DEF Work, worldVars, listVars
  <2>1. pc # "start" /\ job \in Removals
    BY <1>0, <1>1 DEF Stages
  <2>2. (store[k] # Gone => Same(k)) /\ Pending(k)
    BY <1>0, <2>1 DEF SweepInv, Work
  <2>3. (store[k] # Gone => Same(k))'
    BY <1>0, <2>2, SameStays DEF worldVars
  <2>4. Pending(k)'
    BY <1>0, <2>1, <2>2 DEF Pending, worldVars, listVars, Removals
  <2> QED
    BY <2>3, <2>4
<1>6. Holds'
  <2>1. \A k : Old(k) <=> Old(k)'
    BY <1>0, SameStays DEF worldVars
  <2>2. Old(hand) <=> Old(hand)'
    BY <1>0 DEF Old, worldVars, listVars
  <2> QED
    BY <1>0, <2>1, <2>2 DEF SweepInv, Holds, listVars
<1>f. Fed'
  BY <1>0, <1>1, FedStays DEF SweepInv, worldVars, listVars
<1> QED
  BY <1>2, <1>3, <1>4, <1>5, <1>6, <1>f DEF SweepInv

\* RestoreObjectsLife asks for a cold object.
LEMMA SweepAsksInv ==
  ASSUME SweepInv, SweepAsks
  PROVE  SweepInv'
<1>0. /\ TypeOK /\ Stages /\ Ending /\ pc = "ask" /\ pc' = "walk" /\ job = "restore"
      /\ UNCHANGED <<uploads, day, touched, listVars, removeVars, job, today, ret, due, get>>
  BY DEF SweepInv, SweepAsks, Stages
<1>1. \/ Takes(hand) /\ store' = Restoring(hand) /\ done' = done \cup {hand} /\ UNCHANGED <<errs, left>>
      \/ errs' = errs \cup {hand} /\ UNCHANGED <<store, done>> /\ (Trouble \/ UNCHANGED left)
  BY DEF SweepAsks
<1>2. hand \in Keys
  BY <1>0 DEF TypeOK
<1>3. Spares
  <2>1. CASE Takes(hand) /\ store' = Restoring(hand)
    BY <1>0, <1>2, <2>1, RestoringSpares
  <2>2. CASE UNCHANGED store
    BY <1>0, <2>2 DEF Spares, TypeOK
  <2> QED
    BY <1>1, <2>1, <2>2
<1>4. TypeOK'
  <2>1. left' \in 0..MaxTrouble
    BY <1>0, <1>1, BoundsAssumption DEF TypeOK, Trouble
  <2>2. done' \subseteq Keys /\ errs' \subseteq Keys
    BY <1>0, <1>1, <1>2 DEF TypeOK
  <2> QED
    BY <1>0, <1>3, <2>1, <2>2 DEF TypeOK, Spares, listVars, removeVars
<1>5. Stages' /\ (today <= day)'
  BY <1>0 DEF SweepInv, Stages, listVars, removeVars, Removals
<1>6. Ending'
  BY <1>0 DEF Ending, listVars, removeVars, Removals
<1>7. Work'
  <2> SUFFICES ASSUME ~failed, NEW k \in due \ touched
               PROVE  (store[k] # Gone => Same(k))' /\ Pending(k)'
    BY <1>0 DEF Work, listVars
  <2>1. k \in Keys \ touched' /\ (store[k] # Gone => Same(k)) /\ Pending(k)
    BY <1>0 DEF SweepInv, Work, TypeOK
  <2>2. /\ store'[k] = Gone <=> store[k] = Gone
        /\ store'[k].class = store[k].class /\ store'[k].day = store[k].day
    BY <1>3, <2>1 DEF Spares
  <2>3. (store[k] # Gone => Same(k))'
    BY <1>0, <2>1, <2>2 DEF Same
  <2>4. done \subseteq done' /\ errs \subseteq errs' /\ hand \in done' \cup errs'
    BY <1>1
  <2>5. Pending(k)'
    BY <1>0, <2>1, <2>2, <2>4 DEF Pending, listVars, Removals
  <2> QED
    BY <2>3, <2>5
<1>8. Holds'
  BY <1>0 DEF Holds
<1>f. Fed'
  BY <1>0, FedStays DEF SweepInv, listVars
<1> QED
  BY <1>4, <1>5, <1>6, <1>7, <1>8, <1>f DEF SweepInv

-----------------------------------------------------------------------------
(* Getters *)

\* A getter does what follows from what it saw.
Seen == \A g \in Getters :
          get[g].at \in {"ask", "read"} => AfterStat(get[g].saw) = get[g].at

\* Only the steps of a getter, and the failure of one, change get.
LEMMA GetSteps ==
  ASSUME [Next]_vars
  PROVE  UNCHANGED get \/ \E g \in Getters : Getter(g) \/ GetFails(g)
<1>1. CASE Lister \/ Remover
  BY <1>1 DEF Lister, Remover, ListNext, ListEnd, WalkEnd, Feed, Gather, Post, RemoverEnds
<1>2. CASE Caller
  BY <1>2 DEF Caller, Start, RemoveUpload, UploadsEnd, Drain, DrainEnd, SweepAsks
<1>3. CASE Others
  BY <1>3 DEF Others, ListError, UploadFails, Midnight, Delete, Lapse, Put
<1>4. CASE \E k \in Keys : Thaw(k)
  BY <1>4 DEF Thaw
<1>5. CASE UNCHANGED vars
  BY <1>5 DEF vars
<1> QED
  BY <1>1, <1>2, <1>3, <1>4, <1>5 DEF Next

\* A getter that goes on keeps its key and what it saw.
LEMMA GoesOn ==
  ASSUME TypeOK, NEW g \in Getters, NEW at, Goes(g, at)
  PROVE  /\ get'[g].at = at /\ get'[g].saw = get[g].saw
         /\ \A h \in Getters \ {g} : get'[h] = get[h]
BY DEF TypeOK, Goes

LEMMA SeenInv ==
  ASSUME TypeOK, Seen, [Next]_vars
  PROVE  Seen'
<1>1. CASE UNCHANGED get
  BY <1>1 DEF Seen
<1>2. ASSUME NEW g \in Getters, Stat(g) PROVE Seen'
  <2>1. /\ get'[g].at = AfterStat(get'[g].saw)
        /\ \A h \in Getters \ {g} : get'[h] = get[h]
    BY <1>2 DEF Stat, TypeOK
  <2> QED
    BY <2>1 DEF Seen
<1>3. ASSUME NEW g \in Getters, NEW at \in {"wait", "refused", "served"}, Goes(g, at)
      PROVE  Seen'
  BY <1>3, GoesOn DEF Seen
<1>4. ASSUME NEW g \in Getters, Ask(g) \/ Read(g) \/ GetFails(g)
      PROVE  \E at \in {"wait", "refused", "served"} : Goes(g, at)
  BY <1>4 DEF Ask, Read, GetFails
<1> QED
  BY <1>1, <1>2, <1>3, <1>4, GetSteps DEF Getter

\* A getter that is refused has seen another object than the one there is.
LEMMA SeenFits ==
  ASSUME TypeOK, Seen, [Next]_vars, NEW g \in Getters,
         get[g].at \in {"ask", "read"}, get'[g].at = "refused"
  PROVE  \/ store[get[g].key].class # get[g].saw.class
         \/ store[get[g].key].restore # get[g].saw.restore
<1> DEFINE o == store[get[g].key]
           s == get[g].saw
<1>1. s \in Objects \cup {Gone} /\ AfterStat(s) = get[g].at
  BY DEF TypeOK, Seen
<1>2. s # Gone /\ s \in Objects
  BY <1>1 DEF AfterStat
<1>3. (get[g].at = "ask" /\ ~Takes(get[g].key)) \/ (get[g].at = "read" /\ ~Readable(o))
  <2>1. PICK h \in Getters : Getter(h) \/ GetFails(h)
    BY GetSteps
  <2>2. h = g
    <3>1. get'[g] # get[g]
      OBVIOUS
    <3>2. \A at : Goes(h, at) => \A i \in Getters \ {h} : get'[i] = get[i]
      BY GoesOn
    <3>3. \A i \in Getters \ {h} : get'[i] = get[i]
      BY <2>1, <3>2 DEF Getter, Stat, Ask, Read, GetFails, TypeOK
    <3> QED
      BY <3>1, <3>3
  <2>3. \A at : Goes(g, at) => at = "refused"
    BY GoesOn
  <2>4. ~GetFails(g) /\ ~Stat(g)
    BY <2>3 DEF GetFails, Stat
  <2>5. CASE Ask(g)
    BY <2>3, <2>5 DEF Ask
  <2>6. CASE Read(g)
    BY <2>3, <2>6 DEF Read
  <2> QED
    BY <2>1, <2>2, <2>4, <2>5, <2>6 DEF Getter
<1>4. CASE get[g].at = "ask" /\ ~Takes(get[g].key)
  <2>1. s.class = "cold" /\ s.restore # "ongoing"
    BY <1>1, <1>2, <1>4 DEF AfterStat, Readable, Objects
  <2> QED
    BY <1>4, <2>1 DEF Takes
<1>5. CASE get[g].at = "read" /\ ~Readable(o)
  <2>1. Readable(s)
    BY <1>1, <1>2, <1>5 DEF AfterStat
  <2> QED
    BY <1>5, <2>1 DEF Readable
<1> QED
  BY <1>3, <1>4, <1>5

-----------------------------------------------------------------------------
(* The theorems *)

LEMMA InitInv ==
  ASSUME Init
  PROVE  SweepInv
<1>1. TypeOK
  <2>1. store \in [Keys -> Objects \cup {Gone}] /\ uploads \subseteq Keys
    BY StoresAssumption DEF Init
  <2>2. cursor \in 1..(NKeys + 1) /\ left \in 0..MaxTrouble /\ day \in Nat
    BY StoresAssumption, BoundsAssumption DEF Init
  <2>3. batch \subseteq Keys /\ Cardinality(batch) <= BatchSize
    BY FS_EmptySet, BoundsAssumption DEF Init
  <2>4. hand \in Keys
    BY StoresAssumption DEF Init, Keys
  <2>6. feed \in [at : {"off", "list", "closed"}, next : 1..(NKeys + 1), chan : SUBSET Keys]
    BY <2>2, <2>4, StoresAssumption DEF Init
  <2>5. get \in [Getters -> [at : {"idle", "ask", "read", "served", "missing", "refused", "wait"},
                             key : Keys, saw : Objects \cup {Gone}]]
    BY DEF Init
  <2> QED
    BY <2>1, <2>2, <2>3, <2>4, <2>5, <2>6 DEF Init, TypeOK
<1>2. today <= day
  BY BoundsAssumption DEF Init
<1>3. Stages /\ Ending /\ Work /\ Holds /\ Fed
  BY DEF Init, Stages, Ending, Work, Holds, Fed
<1> QED
  BY <1>1, <1>2, <1>3 DEF SweepInv

LEMMA NextInv ==
  ASSUME SweepInv, [Next]_vars
  PROVE  SweepInv'
<1>1. CASE Next
  <2>1. CASE Lister
    BY <2>1, ListNextInv, ListEndInv, FeedInv DEF Lister
  <2>2. CASE Remover
    BY <2>2, GatherInv, PostInv, DrainEndInv DEF Remover
  <2>3. CASE Caller
    BY <2>3, StartInv, UploadsInv, DrainInv, DrainEndInv, SweepAsksInv DEF Caller
  <2>4. CASE Others
    BY <2>4, ListErrorInv, UploadsInv, WorldInv DEF Others
  <2>5. CASE \E g \in Getters : Getter(g)
    BY <2>5, GetterInv
  <2>6. CASE \E k \in Keys : Thaw(k)
    BY <2>6, WorldInv
  <2> QED
    BY <1>1, <2>1, <2>2, <2>3, <2>4, <2>5, <2>6 DEF Next
<1>2. CASE UNCHANGED vars
  <2>1. /\ UNCHANGED <<store, uploads, day, left, touched>>
        /\ UNCHANGED <<cursor, lister, hand, failed, feed>>
        /\ UNCHANGED <<remover, batch, results>>
        /\ UNCHANGED <<job, today, pc, done, errs, ret, due, get>>
    BY <1>2 DEF vars, worldVars, listVars, removeVars, sweepVars
  <2>2. Spares /\ GetTypes /\ left' \in 0..MaxTrouble
    BY <2>1 DEF SweepInv, TypeOK, Spares, GetTypes
  <2> QED
    BY <2>1, <2>2, SparesInv DEF Rests, listVars, removeVars, sweepVars
<1> QED
  BY <1>1, <1>2

\* At the end nothing is pending.
LEMMA InvThorough ==
  ASSUME SweepInv
  PROVE  Thorough
<1> SUFFICES ASSUME pc = "return", ret = "ok", ~Swallowed
             PROVE  /\ job \in {"clear", "uploads"} => uploads = {}
                    /\ \A k \in due \ touched :
                         /\ job \in Removals => store[k] = Gone
                         /\ job = "list" => k \in done
                         /\ job = "restore" => k \in done \cup errs
  BY DEF Thorough
<1>1. Stages /\ Ending
  BY DEF SweepInv
<1>2. ASSUME NEW k \in due \ touched, job \in Removals \cup {"list", "restore"}
      PROVE  Pending(k)
  <2>1. ~failed
    BY <1>1, <1>2 DEF Ending, Swallowed
  <2> QED
    BY <1>2, <2>1 DEF SweepInv, Work
<1>3. ASSUME NEW k \in due \ touched, job \in Removals PROVE store[k] = Gone
  BY <1>1, <1>2, <1>3 DEF Pending, Stages, Ending
<1>4. ASSUME NEW k \in due \ touched, job \in {"list", "restore"}
      PROVE  /\ job = "list" => k \in done
             /\ job = "restore" => k \in done \cup errs
  BY <1>2, <1>4 DEF Pending
<1>5. job \in {"clear", "uploads"} => uploads = {}
  BY <1>1 DEF Ending
<1> QED
  BY <1>3, <1>4, <1>5

\* The invariant that the theorems rest on: where each object that is due can
\* be while the goroutines of remove.go, clear.go and object.go run.
THEOREM SweepCorrect == Spec => []SweepInv
<1>1. Init => SweepInv
  BY InitInv
<1>2. SweepInv /\ [Next]_vars => SweepInv'
  BY NextInv
<1> QED
  BY <1>1, <1>2, PTL DEF Spec

\* Type correctness: the batch never holds more than one request removes.
THEOREM TypeCorrect == Spec => []TypeOK
<1>1. SweepInv => TypeOK
  BY DEF SweepInv
<1> QED
  BY <1>1, SweepCorrect, PTL

\* A sweep that returns without an error has dealt with every object that it
\* found when it began and that nobody else has put or deleted since; except a
\* removal whose listing failed (remove.go:32, 80), which reports success with
\* objects left.
THEOREM ThoroughCorrect == Spec => []Thorough
<1>1. SweepInv => Thorough
  BY InvThorough
<1> QED
  BY <1>1, SweepCorrect, PTL

\* RemoveExpiredObjectsByPrefix removes nothing that was put less than lifeDay
\* calendar days ago, unless it was put while the sweep ran.
THEOREM OnlyExpiredCorrect == Spec => OnlyExpired
<1> DEFINE Step ==
      \A k \in Keys \ touched :
        Post /\ job = "expired" /\ store[k] # Gone /\ store'[k] = Gone
          => day - store[k].day >= LifeDay
<1>1. SweepInv /\ [Next]_vars => [Step]_vars
  <2> SUFFICES ASSUME SweepInv, NEW k \in Keys \ touched,
                      Post, job = "expired", store[k] # Gone, store'[k] = Gone
               PROVE  day - store[k].day >= LifeDay
    OBVIOUS
  <2>1. k \in batch
    BY DEF Post
  <2>2. today - store[k].day >= LifeDay
    BY <2>1 DEF SweepInv, Holds, Old
  <2>3. store[k].day \in Nat /\ today \in Nat /\ day \in Nat /\ today <= day
    BY DEF SweepInv, TypeOK, Objects
  <2> QED
    BY <2>2, <2>3, BoundsAssumption
<1>2. Spec => [][Step]_vars
  BY <1>1, SweepCorrect, PTL DEF Spec
<1> QED
  BY <1>2 DEF OnlyExpired

\* What GetObject, GetObjectURL and PresignedGetObjectURL tell their caller
\* follows what StatObject returned: nobody is refused whose object is still
\* in the state that was seen.
THEOREM AnswersFitCorrect == Spec => AnswersFit
<1> DEFINE Step ==
      \A g \in Getters :
        get[g].at \in {"ask", "read"} /\ get'[g].at = "refused"
          => store[get[g].key].class # get[g].saw.class
             \/ store[get[g].key].restore # get[g].saw.restore
<1>1. Init => Seen
  BY DEF Init, Seen
<1>2. TypeOK /\ Seen /\ [Next]_vars => Seen'
  BY SeenInv
<1>3. TypeOK /\ Seen /\ [Next]_vars => [Step]_vars
  BY SeenFits
<1>4. Spec => [][Step]_vars
  BY <1>1, <1>2, <1>3, TypeCorrect, PTL DEF Spec
<1> QED
  BY <1>4 DEF AnswersFit

=============================================================================
