---------------------------- MODULE ObjectStore ----------------------------
(***************************************************************************)
(* The client of an S3 store: package minioCli.  One sweep goes over the   *)
(* objects below a prefix, while callers fetch single objects and others   *)
(* put and delete objects.  The variable job names the sweep:              *)
(*   "remove"   RemoveObjectsByPrefix                                      *)
(*   "expired"  RemoveExpiredObjectsByPrefix                               *)
(*   "clear"    ClearPrefix                                                *)
(*   "uploads"  RemoveIncompleteUpload                                     *)
(*   "restore"  RestoreObjectsLife                                         *)
(*   "list"     ListObjects, QueryObjects and GetBucketSize                *)
(*                                                                         *)
(* A removal is three goroutines on two unbuffered channels: one lists the *)
(* objects, the store's client gathers them into batches and posts them,   *)
(* the caller drains the results.  The unfinished uploads come through a   *)
(* channel of one place, which a goroutine of the store's client fills and *)
(* the caller ranges over.  Objects of the class GLACIER ("cold")          *)
(* must be restored before they can be read: GetObject, GetObjectURL and   *)
(* PresignedGetObjectURL look at the object first and ask for that.        *)
(*                                                                         *)
(* Assumed: days have 24 hours, a listing gives the keys in order, and the *)
(* context of a call is not cancelled.                                     *)
(***************************************************************************)
EXTENDS Integers, FiniteSets

CONSTANTS NKeys,       \* the keys below the prefix are 1..NKeys
          Stores,      \* what the store may hold at the start
          Uploads,     \* keys that have an unfinished upload at the start
          LifeDay,     \* lifeDay of the "expired" sweep
          BatchSize,   \* objects that one request removes
          Getters,     \* callers that fetch an object
          MaxTrouble   \* bound on what others do and on what fails

Keys == 1..NKeys
Removals == {"remove", "expired", "clear"}
Jobs == Removals \cup {"uploads", "restore", "list"}

\* An object: its class, whether it was restored, and the day it was put.
Objects == [class : {"warm", "cold"}, restore : {"none", "ongoing", "done"}, day : Nat]
Gone == [class |-> "gone", restore |-> "none", day |-> 0]

Readable(o) == o.class = "warm" \/ (o.class = "cold" /\ o.restore = "done")

ASSUME StoresAssumption ==
  /\ NKeys \in Nat \ {0} /\ Stores \subseteq [Keys -> Objects \cup {Gone}]
  /\ Uploads \subseteq Keys
ASSUME BoundsAssumption ==
  LifeDay \in Nat /\ BatchSize \in Nat \ {0} /\ MaxTrouble \in Nat

VARIABLES
  store,    \* the object of every key
  uploads,  \* keys with an unfinished upload
  day,      \* the day that it is
  left,     \* how much trouble may still come
  job,      \* the sweep
  today,    \* the day on which the sweep began
  pc,       \* its caller: "start", "uploads", "walk", "ask", "drain" or "return"
  cursor,   \* the key that the listing has reached
  lister,   \* the listing goroutine: "off", "list", "send" or "closed"
  hand,     \* the key that was listed last
  remover,  \* the client's goroutine: "off", "gather", "report" or "closed"
  batch,    \* the keys it has gathered
  results,  \* the results that it has to report: the keys that failed or not
  failed,   \* the listing gave an error
  feed,     \* listing of the uploads: where it is, its next key, its channel
  done,     \* keys that were removed, restored or listed
  errs,     \* keys that failed
  ret,      \* the result of the sweep: "none", "ok" or "err"
  due,      \* history: what the sweep found to do when it began
  touched,  \* history: keys that others have put or deleted since
  get       \* of every getter: where it is, the key, and what it saw of it

worldVars == <<store, uploads, day, left, touched>>
listVars == <<cursor, lister, hand, failed, feed>>
removeVars == <<remover, batch, results>>
sweepVars == <<job, today, pc, done, errs, ret, due>>
vars == <<worldVars, listVars, removeVars, sweepVars, get>>

TypeOK ==
  /\ store \in [Keys -> Objects \cup {Gone}] /\ uploads \subseteq Keys
  /\ day \in Nat /\ today \in Nat /\ left \in 0..MaxTrouble
  /\ job \in Jobs /\ pc \in {"start", "uploads", "walk", "ask", "drain", "return"}
  /\ cursor \in 1..(NKeys + 1) /\ hand \in Keys
  /\ lister \in {"off", "list", "send", "closed"}
  /\ remover \in {"off", "gather", "report", "closed"}
  /\ batch \subseteq Keys /\ Cardinality(batch) <= BatchSize
  /\ results \subseteq Keys \X BOOLEAN
  /\ feed \in [at : {"off", "list", "closed"}, next : 1..(NKeys + 1), chan : SUBSET Keys]
  /\ failed \in BOOLEAN /\ ret \in {"none", "ok", "err"}
  /\ done \subseteq Keys /\ errs \subseteq Keys
  /\ due \subseteq Keys /\ touched \subseteq Keys
  /\ get \in [Getters -> [at : {"idle", "ask", "read", "served", "missing", "refused", "wait"},
                          key : Keys, saw : Objects \cup {Gone}]]

Init ==
  /\ store \in Stores /\ uploads = Uploads /\ day = LifeDay /\ left = MaxTrouble
  /\ job \in Jobs /\ today = 0 /\ pc = "start"
  /\ cursor = 1 /\ lister = "off" /\ hand = 1 /\ failed = FALSE
  /\ feed = [at |-> "off", next |-> 1, chan |-> {}]
  /\ remover = "off" /\ batch = {} /\ results = {}
  /\ done = {} /\ errs = {} /\ ret = "none" /\ due = {} /\ touched = {}
  /\ get \in [Getters -> [at : {"idle"}, key : Keys, saw : {Gone}]]

\* Something goes wrong, or others act: it does so at most MaxTrouble times.
Trouble == left > 0 /\ left' = left - 1

-----------------------------------------------------------------------------
(* Beginning and listing *)

\* Mutant of OldEnough: the sweep takes what is one day younger.
OldEnough_Early(o) == today - o.day >= LifeDay - 1

\* The object has passed its days, counted from midnight to midnight
\* (daysPassed >= lifeDay).
OldEnough(o) == today - o.day >= LifeDay

\* What the sweep has to do with an object that it lists.
Wanted(o) == /\ job = "expired" => OldEnough(o)
             /\ job = "restore" => o.class = "cold"

\* What there is to do on the day d for the sweep that begins.
Due(d) == {k \in Keys : /\ store[k] # Gone
                        /\ job = "expired" => d - store[k].day >= LifeDay
                        /\ job = "restore" => store[k].class = "cold"}

\* The two goroutines of a removal begin.
StartRemoval == pc' = "drain" /\ lister' = "list" /\ remover' = "gather"

\* The call begins and reads the clock, once.
Start ==
  /\ pc = "start"
  /\ today' = day /\ due' = Due(day) /\ touched' = {}
  /\ CASE job \in {"clear", "uploads"} ->
              /\ pc' = "uploads" /\ feed' = [feed EXCEPT !.at = "list"]
              /\ UNCHANGED <<lister, remover>>
       [] job \in {"restore", "list"} -> pc' = "walk" /\ UNCHANGED <<lister, remover, feed>>
       [] OTHER -> StartRemoval /\ UNCHANGED feed
  /\ UNCHANGED <<store, uploads, day, left, cursor, hand, failed, batch, results,
                 job, done, errs, ret, get>>

\* The keys that the listing has not come to.
Ahead == {k \in Keys : k >= cursor /\ store[k] # Gone}

\* Somebody reads the listing: the goroutine of a removal, or the caller.
Listing == lister = "list" \/ pc = "walk"

\* The listing gives the next object.  A removal sends it, a restore asks for
\* it, a list keeps it; what is not wanted is passed over.
ListNext ==
  /\ Listing
  /\ \E k \in Ahead :
       /\ \A l \in Ahead : k <= l
       /\ cursor' = k + 1
       /\ hand' = k
       /\ lister' = IF lister = "list" /\ Wanted(store[k]) THEN "send" ELSE lister
       /\ pc' = IF job = "restore" /\ Wanted(store[k]) THEN "ask" ELSE pc
       /\ done' = IF job = "list" THEN done \cup {k} ELSE done
  /\ UNCHANGED <<worldVars, failed, feed, removeVars, job, today, errs, ret, due, get>>

\* The listing gives an error, and may be at its end with it.  Removing by
\* prefix stops there and forgets the error, by age it goes on; restoring goes
\* on too and returns the error at its end; a list returns it at once.
ListError ==
  /\ Listing /\ ~failed
  /\ Trouble
  /\ failed' = TRUE
  /\ cursor' \in {cursor, NKeys + 1}
  /\ lister' = IF job \in {"remove", "clear"} THEN "closed" ELSE lister
  /\ IF job = "list"
       THEN pc' = "return" /\ ret' = "err" /\ done' = {}
       ELSE UNCHANGED <<pc, ret, done>>
  /\ UNCHANGED <<store, uploads, day, touched, hand, feed, removeVars, job, today, errs, due, get>>

\* The listing is at its end: the goroutine closes its channel.
ListEnd ==
  /\ lister = "list" /\ Ahead = {}
  /\ lister' = "closed"
  /\ UNCHANGED <<worldVars, cursor, hand, failed, feed, removeVars, sweepVars, get>>

\* The caller that listed by itself returns.
WalkEnd ==
  /\ pc = "walk" /\ Ahead = {}
  /\ pc' = "return" /\ ret' = IF failed THEN "err" ELSE "ok"
  /\ UNCHANGED <<worldVars, listVars, removeVars, job, today, done, errs, due, get>>

-----------------------------------------------------------------------------
(* Removing *)

\* The uploads that their listing has not come to.
Unfed == {k \in uploads : k >= feed.next}

\* The goroutine that lists the uploads sends the next one, when the channel
\* has room, and closes it behind the last one.
Feed ==
  /\ feed.at = "list"
  /\ \/ /\ feed.chan = {}
        /\ \E k \in Unfed :
             /\ \A l \in Unfed : k <= l
             /\ feed' = [feed EXCEPT !.next = k + 1, !.chan = {k}]
     \/ Unfed = {} /\ feed' = [feed EXCEPT !.at = "closed"]
  /\ UNCHANGED <<worldVars, cursor, lister, hand, failed, removeVars, sweepVars, get>>

\* The next unfinished upload is removed.
RemoveUpload ==
  /\ pc = "uploads"
  /\ \E k \in feed.chan : uploads' = uploads \ {k}
  /\ feed' = [feed EXCEPT !.chan = {}]
  /\ UNCHANGED <<store, day, left, touched, cursor, lister, hand, failed,
                 removeVars, sweepVars, get>>

\* The listing gives an error and ends, or an upload cannot be removed: the
\* call returns.  In the second case nobody reads the channel any more.
UploadFails ==
  /\ pc = "uploads"
  /\ Trouble
  /\ \/ feed.at = "list" /\ feed.chan = {} /\ feed' = [feed EXCEPT !.at = "closed"]
     \/ feed.chan # {} /\ feed' = [feed EXCEPT !.chan = {}]
  /\ pc' = "return" /\ ret' = "err"
  /\ UNCHANGED <<store, uploads, day, touched, cursor, lister, hand, failed,
                 removeVars, job, today, done, errs, due, get>>

\* There are no more uploads: ClearPrefix goes on with the objects.
UploadsEnd ==
  /\ pc = "uploads" /\ feed.at = "closed" /\ feed.chan = {}
  /\ IF job = "clear"
       THEN StartRemoval /\ UNCHANGED ret
       ELSE pc' = "return" /\ ret' = "ok" /\ UNCHANGED <<lister, remover>>
  /\ UNCHANGED <<worldVars, cursor, hand, failed, feed, batch, results,
                 job, today, done, errs, due, get>>

\* The two goroutines meet on the channel.
Gather ==
  /\ lister = "send" /\ remover = "gather" /\ Cardinality(batch) < BatchSize
  /\ batch' = batch \cup {hand}
  /\ lister' = "list"
  /\ UNCHANGED <<worldVars, cursor, hand, failed, feed, remover, results, sweepVars, get>>

\* The batch is posted when it is full or the channel is closed.  Any of its
\* objects, or the request, may fail.
Post ==
  /\ remover = "gather" /\ batch # {}
  /\ Cardinality(batch) = BatchSize \/ lister = "closed"
  /\ \E bad \in SUBSET batch :
       /\ IF bad = {} THEN UNCHANGED left ELSE Trouble
       /\ store' = [k \in Keys |-> IF k \in batch \ bad THEN Gone ELSE store[k]]
       /\ results' = {<<k, k \notin bad>> : k \in batch}
  /\ batch' = {} /\ remover' = "report"
  /\ UNCHANGED <<uploads, day, touched, listVars, sweepVars, get>>

\* Mutant of Drain: the caller returns at the first failure.
Drain_Stop ==
  /\ pc = "drain" /\ remover = "report"
  /\ \E r \in results :
       /\ results' = results \ {r}
       /\ IF r[2] THEN done' = done \cup {r[1]} /\ UNCHANGED <<errs, pc, ret>>
                  ELSE /\ errs' = errs \cup {r[1]} /\ UNCHANGED done
                       /\ pc' = "return" /\ ret' = "err"
  /\ remover' = IF results' = {} THEN "gather" ELSE remover
  /\ UNCHANGED <<worldVars, listVars, batch, job, today, due, get>>

\* The caller takes a result and notes the failure or the success.
Drain ==
  /\ pc = "drain" /\ remover = "report"
  /\ \E r \in results :
       /\ results' = results \ {r}
       /\ IF r[2] THEN done' = done \cup {r[1]} /\ UNCHANGED errs
                  ELSE errs' = errs \cup {r[1]} /\ UNCHANGED done
  /\ remover' = IF results' = {} THEN "gather" ELSE remover
  /\ UNCHANGED <<worldVars, listVars, batch, job, today, pc, ret, due, get>>

\* The last batch was posted: the channel of the results is closed.
RemoverEnds ==
  /\ remover = "gather" /\ lister = "closed" /\ batch = {}
  /\ remover' = "closed"
  /\ UNCHANGED <<worldVars, listVars, batch, results, sweepVars, get>>

\* Mutant of DrainEnd: what failed is only logged.
DrainEnd_Forget ==
  /\ pc = "drain" /\ remover = "closed"
  /\ pc' = "return" /\ ret' = "ok"
  /\ UNCHANGED <<worldVars, listVars, removeVars, job, today, done, errs, due, get>>

\* The caller returns, with an error when a removal failed.
DrainEnd ==
  /\ pc = "drain" /\ remover = "closed"
  /\ pc' = "return" /\ ret' = IF errs = {} THEN "ok" ELSE "err"
  /\ UNCHANGED <<worldVars, listVars, removeVars, job, today, done, errs, due, get>>

-----------------------------------------------------------------------------
(* Restoring and fetching *)

\* The store takes a request to restore a cold object, unless one is under
\* way; a restored object stays so.
Takes(k) == store[k].class = "cold" /\ store[k].restore # "ongoing"
Restoring(k) ==
  [store EXCEPT ![k].restore = IF @ = "none" THEN "ongoing" ELSE @]

\* RestoreObjectsLife asks for the object that was listed.  A refusal, or a
\* request that fails, is logged; the object is counted all the same.
SweepAsks ==
  /\ pc = "ask"
  /\ \/ /\ Takes(hand)
        /\ store' = Restoring(hand) /\ done' = done \cup {hand}
        /\ UNCHANGED <<errs, left>>
     \/ /\ errs' = errs \cup {hand}
        /\ IF Takes(hand) THEN Trouble ELSE UNCHANGED left
        /\ UNCHANGED <<store, done>>
  /\ pc' = "walk"
  /\ UNCHANGED <<uploads, day, touched, listVars, removeVars, job, today, ret, due, get>>

\* A getter goes on to at, from where it came to.
Goes(g, at) == get' = [get EXCEPT ![g].at = at]

\* Mutant of AfterStat: an object that is being restored is asked for again.
AfterStat_AskAgain(o) ==
  IF o = Gone THEN "missing" ELSE IF Readable(o) THEN "read" ELSE "ask"

\* What a getter does about an object in the state it has seen: read it, ask
\* for it to be restored, or tell its caller to wait.
AfterStat(o) ==
  IF o = Gone THEN "missing"
  ELSE IF Readable(o) THEN "read"
  ELSE IF o.restore = "ongoing" THEN "wait" ELSE "ask"

\* A caller fetches its object, or comes back for it: StatObject, and the
\* decision on what it returned.
Stat(g) ==
  /\ get[g].at \in {"idle", "wait", "refused"}
  /\ LET o == store[get[g].key] IN
       get' = [get EXCEPT ![g].at = AfterStat(o), ![g].saw = o]
  /\ UNCHANGED <<worldVars, listVars, removeVars, sweepVars>>

\* RestoreObject: the caller is told to wait, or that the request failed.
Ask(g) ==
  /\ get[g].at = "ask"
  /\ LET k == get[g].key IN
       IF Takes(k) THEN store' = Restoring(k) /\ Goes(g, "wait")
                   ELSE Goes(g, "refused") /\ UNCHANGED store
  /\ UNCHANGED <<uploads, day, left, touched, listVars, removeVars, sweepVars>>

\* The object, or the URL, is handed out and read.
Read(g) ==
  /\ get[g].at = "read"
  /\ Goes(g, IF Readable(store[get[g].key]) THEN "served" ELSE "refused")
  /\ UNCHANGED <<worldVars, listVars, removeVars, sweepVars>>

\* A request of a getter fails: its caller gets the error.
GetFails(g) ==
  /\ get[g].at \in {"idle", "wait", "refused", "ask", "read"}
  /\ Trouble
  /\ Goes(g, "wait")
  /\ UNCHANGED <<store, uploads, day, touched, listVars, removeVars, sweepVars>>

-----------------------------------------------------------------------------
(* The store and its other clients *)

\* PutObject, of the class given or of the warm class that is its default.
Put(k, class) ==
  /\ Trouble
  /\ store' = [store EXCEPT ![k] = [class |-> class, restore |-> "none", day |-> day]]
  /\ touched' = touched \cup {k}
  /\ UNCHANGED <<uploads, day, listVars, removeVars, sweepVars, get>>

\* RemoveObject.
Delete(k) ==
  /\ store[k] # Gone
  /\ Trouble
  /\ store' = [store EXCEPT ![k] = Gone]
  /\ touched' = touched \cup {k}
  /\ UNCHANGED <<uploads, day, listVars, removeVars, sweepVars, get>>

\* The store has restored an object.
Thaw(k) ==
  /\ store[k].restore = "ongoing"
  /\ store' = [store EXCEPT ![k].restore = "done"]
  /\ UNCHANGED <<uploads, day, left, touched, listVars, removeVars, sweepVars, get>>

\* The days for which an object was restored are over.
Lapse(k) ==
  /\ store[k].restore = "done"
  /\ Trouble
  /\ store' = [store EXCEPT ![k].restore = "none"]
  /\ UNCHANGED <<uploads, day, touched, listVars, removeVars, sweepVars, get>>

Midnight ==
  /\ Trouble
  /\ day' = day + 1
  /\ UNCHANGED <<store, uploads, touched, listVars, removeVars, sweepVars, get>>

Lister == ListNext \/ ListEnd \/ WalkEnd \/ Feed
Remover == Gather \/ Post \/ RemoverEnds
Caller == Start \/ RemoveUpload \/ UploadsEnd \/ Drain \/ DrainEnd \/ SweepAsks
Getter(g) == Stat(g) \/ Ask(g) \/ Read(g)
Others ==
  \/ ListError \/ UploadFails \/ Midnight
  \/ \E g \in Getters : GetFails(g)
  \/ \E k \in Keys : \/ Delete(k)
                     \/ Lapse(k)
                     \/ \E class \in {"warm", "cold"} : Put(k, class)

Next ==
  \/ Lister \/ Remover \/ Caller \/ Others
  \/ \E g \in Getters : Getter(g)
  \/ \E k \in Keys : Thaw(k)

\* Every goroutine runs, the store restores what it was asked for, and a
\* caller that is told to wait comes back.
Spec == /\ Init /\ [][Next]_vars
        /\ WF_vars(Lister) /\ WF_vars(Remover) /\ WF_vars(Caller)
        /\ \A g \in Getters : WF_vars(Getter(g))
        /\ \A k \in Keys : WF_vars(Thaw(k))

-----------------------------------------------------------------------------
(* Properties *)

\* An error of the listing that RemoveObjectsByPrefix, ClearPrefix and
\* RemoveExpiredObjectsByPrefix only log.
Swallowed == failed /\ job \in Removals

\* A sweep that returns without an error has dealt with every object that was
\* there when it began and that nobody else has put or deleted since: it is
\* removed, listed, or asked to be restored (or that has failed, which
\* RestoreObjectsLife only logs).  The uploads are gone.  The removals promise
\* nothing when their listing fails.
Thorough ==
  pc = "return" /\ ret = "ok" /\ ~Swallowed =>
    /\ job \in {"clear", "uploads"} => uploads = {}
    /\ \A k \in due \ touched :
         /\ job \in Removals => store[k] = Gone
         /\ job = "list" => k \in done
         /\ job = "restore" => k \in done \cup errs

\* The promise that RemoveExpiredObjectsByPrefix keeps: it removes no object
\* that was put less than lifeDay calendar days ago, counted from midnight to
\* midnight, except one that was put after the sweep began: between the listing
\* and the request the batch waits, and the request names the key only.
OnlyExpired ==
  [][\A k \in Keys \ touched :
       Post /\ job = "expired" /\ store[k] # Gone /\ store'[k] = Gone
         => day - store[k].day >= LifeDay]_vars

\* The promise in its words (remove.go:62, 70, 84): it removes objects that are
\* older than lifeDay days.  The code compares with >=, and calendar days: with
\* lifeDay 1 an object put a minute before midnight is removed a minute after.
PastLifeDay ==
  [][\A k \in Keys \ touched :
       Post /\ job = "expired" /\ store[k] # Gone /\ store'[k] = Gone
         => day - store[k].day > LifeDay]_vars

\* What a getter is told follows the object: it is refused, by the store or
\* when it reads, only when the object is not any more what StatObject saw.
AnswersFit ==
  [][\A g \in Getters :
       get[g].at \in {"ask", "read"} /\ get'[g].at = "refused"
         => store[get[g].key].class # get[g].saw.class
            \/ store[get[g].key].restore # get[g].saw.restore]_vars

\* The removal of an upload has failed while two more were still to come: one
\* fills the channel, and the goroutine waits with the other one until the
\* context is cancelled (clear.go:32-35, 50-53).
Abandoned == pc = "return" /\ ret = "err" /\ feed.at = "list" /\ feed.chan # {} /\ Unfed # {}

\* The call returns and leaves no goroutine behind that waits on a channel,
\* but the listing of the uploads when removing one of them has failed; and a
\* getter that comes back for its object as it is told is served in the end,
\* or the object is gone, whatever others ask for meanwhile.
Ends ==
  /\ <>(/\ pc = "return" /\ lister \in {"off", "closed"} /\ remover \in {"off", "closed"}
        /\ feed.at = "list" => Abandoned)
  /\ \A g \in Getters : <>(get[g].at \in {"served", "missing"})

=============================================================================
