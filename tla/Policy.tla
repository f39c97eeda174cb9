------------------------------- MODULE Policy -------------------------------
(***************************************************************************)
(* Access rules: package casbinx.  The rules are rows of a table; one      *)
(* enforcer, made once for all services, keeps a copy in memory.  Casbin() *)
(* hands out the enforcer after it has loaded the table again, so every    *)
(* operation begins with a load.  A load reads the table and later puts    *)
(* what it read in place of the copy, each under the enforcer's lock;      *)
(* removing and adding rules change table and copy in one step under it.   *)
(*                                                                         *)
(* UpdateCasbin clears the rules of an authority and adds the new ones:    *)
(* two loads and two changes, among which everything else may happen.      *)
(* UpdateCasbinApi changes the table only.                                 *)
(*                                                                         *)
(* Whoever calls Casbin() first makes the enforcer, once; making it loads  *)
(* the table, and when that fails there will never be an enforcer: every   *)
(* call ends in a nil dereference.                                         *)
(***************************************************************************)
EXTENDS Integers, FiniteSets

CONSTANTS Authorities,
          Apis,          \* paths with their methods
          Updaters,      \* calls of UpdateCasbin
          Listers,       \* calls of GetCasbinByAuthorityId
          Tables,        \* what the table may hold at the start
          Wants,         \* sets of apis that updates ask for
          MaxRenames     \* bound on the calls of UpdateCasbinApi

Rules == Authorities \X Apis
Callers == Updaters \cup Listers

ASSUME PolicyAssumption ==
  /\ Updaters \cap Listers = {} /\ MaxRenames \in Nat
  /\ Tables \subseteq SUBSET Rules /\ Wants \subseteq SUBSET Apis

VARIABLES
  enforcer, \* "unmade", "ready" or "nil"
  table,    \* the rules in the database
  copy,     \* the rules in the enforcer
  call,     \* of every caller: where it is, its authority, and the rules it wants
  snap,     \* what the load of a caller has read
  renames,  \* calls of UpdateCasbinApi so far
  some,     \* history: of every lister, the rules that the table held at some
            \* time of the call
  always,   \* history: the rules that it held at all times of it
  excused   \* history: callers that were disturbed (see below)

policyVars == <<enforcer, table, copy, call, snap, renames, some, always, excused>>

CallStages == {"read", "apply", "clear", "read2", "apply2", "add", "list",
           "ok", "error", "panic"}

PolicyTypeOK ==
  /\ enforcer \in {"unmade", "ready", "nil"}
  /\ table \subseteq Rules /\ copy \subseteq Rules
  /\ call \in [Callers -> [at : {"idle"}] \cup
                          [at : CallStages, sub : Authorities, want : SUBSET Apis]]
  /\ snap \in [Callers -> SUBSET Rules]
  /\ renames \in 0..MaxRenames
  /\ some \in [Listers -> SUBSET Rules] /\ always \in [Listers -> SUBSET Rules]
  /\ excused \subseteq Callers

PolicyInit ==
  /\ enforcer = "unmade" /\ table \in Tables /\ copy = {}
  /\ call = [c \in Callers |-> [at |-> "idle"]]
  /\ snap = [c \in Callers |-> {}] /\ renames = 0
  /\ some = [c \in Listers |-> {}] /\ always = [c \in Listers |-> {}]
  /\ excused = {}

Of(sub, rules) == {r \in rules : r[1] = sub}
Wanted(c) == {call[c].sub} \X call[c].want
Running == {c \in Callers : call[c].at \notin {"idle", "ok", "error", "panic"}}

Goes(c, at) == call' = [call EXCEPT ![c].at = at]

\* The table changes: the histories of the calls that run follow.
Table(new) ==
  /\ table' = new
  /\ some' = [c \in Listers |-> IF c \in Running THEN some[c] \cup new ELSE some[c]]
  /\ always' = [c \in Listers |-> IF c \in Running THEN always[c] \cap new ELSE always[c]]

\* Updates of the same authority disturb each other, and a rename disturbs all.
Rivals(c, sub) == {d \in Running \cap Updaters : d # c /\ call[d].sub = sub}

-----------------------------------------------------------------------------
\* UpdateCasbin is called.
Update(c, sub, want) ==
  /\ call[c].at = "idle"
  /\ call' = [call EXCEPT ![c] = [at |-> "read", sub |-> sub, want |-> want]]
  /\ excused' = excused \cup Rivals(c, sub) \cup
                IF Rivals(c, sub) = {} THEN {} ELSE {c}
  /\ UNCHANGED <<enforcer, table, copy, snap, renames, some, always>>

\* GetCasbinByAuthorityId is called.
AskList(c, sub) ==
  /\ call[c].at = "idle"
  /\ call' = [call EXCEPT ![c] = [at |-> "read", sub |-> sub, want |-> {}]]
  /\ some' = [some EXCEPT ![c] = table] /\ always' = [always EXCEPT ![c] = table]
  /\ UNCHANGED <<enforcer, table, copy, snap, renames, excused>>

\* Casbin(): the enforcer is made, with the rules of the table.
Make(c) ==
  /\ enforcer = "unmade" /\ call[c].at = "read"
  /\ enforcer' = "ready" /\ copy' = table
  /\ UNCHANGED <<table, call, snap, renames, some, always, excused>>

\* The table cannot be loaded then, and the enforcer is nil for good.
MakeFails(c) ==
  /\ enforcer = "unmade" /\ call[c].at = "read"
  /\ enforcer' = "nil"
  /\ UNCHANGED <<table, copy, call, snap, renames, some, always, excused>>

\* LoadPolicy is called on nil.
Panic(c) ==
  /\ enforcer = "nil" /\ call[c].at = "read"
  /\ Goes(c, "panic")
  /\ UNCHANGED <<enforcer, table, copy, snap, renames, some, always, excused>>

\* Mutant of LoadReads: the rules that the enforcer has are kept.
LoadReads_Copy(c) ==
  /\ enforcer = "ready"
  /\ call[c].at \in {"read", "read2"}
  /\ Goes(c, IF call[c].at = "read" THEN "apply" ELSE "apply2")
  /\ snap' = [snap EXCEPT ![c] = copy]
  /\ UNCHANGED <<enforcer, table, copy, renames, some, always, excused>>

\* LoadPolicy reads the table.
LoadReads(c) ==
  /\ enforcer = "ready"
  /\ call[c].at \in {"read", "read2"}
  /\ Goes(c, IF call[c].at = "read" THEN "apply" ELSE "apply2")
  /\ snap' = [snap EXCEPT ![c] = table]
  /\ UNCHANGED <<enforcer, table, copy, renames, some, always, excused>>

\* Where a caller goes after its load.
AfterLoad(c) ==
  IF c \in Listers THEN "list"
  ELSE IF call[c].at \in {"read", "apply"} THEN "clear" ELSE "add"

\* LoadPolicy puts the rules it read in place of the copy.  Who is about to
\* read the copy is disturbed, if the rules are not ones of its time.
LoadApplies(c) ==
  /\ call[c].at \in {"apply", "apply2"}
  /\ copy' = snap[c] /\ snap' = [snap EXCEPT ![c] = {}]
  /\ Goes(c, AfterLoad(c))
  /\ excused' = excused \cup {d \in Listers \ {c} :
                   /\ call[d].at = "list"
                   /\ ~(always[d] \subseteq snap[c] /\ snap[c] \subseteq some[d])}
  /\ UNCHANGED <<enforcer, table, renames, some, always>>

\* The load fails, and Casbin() ignores it: the copy stays as it is.
LoadFails(c) ==
  /\ enforcer = "ready"
  /\ call[c].at \in {"read", "read2"}
  /\ Goes(c, AfterLoad(c))
  /\ excused' = excused \cup ({c} \cap Listers)
  /\ UNCHANGED <<enforcer, table, copy, snap, renames, some, always>>

\* Mutant of Clear: the copy is cleared and not the table.
Clear_Copy(c) ==
  /\ call[c].at = "clear"
  /\ copy' = copy \ Of(call[c].sub, copy)
  /\ Goes(c, "read2")
  /\ UNCHANGED <<enforcer, table, some, always, snap, renames, excused>>

\* ClearCasbin: RemoveFilteredPolicy.
Clear(c) ==
  /\ call[c].at = "clear"
  /\ Table(table \ Of(call[c].sub, table))
  /\ copy' = copy \ Of(call[c].sub, copy)
  /\ Goes(c, "read2")
  /\ UNCHANGED <<enforcer, snap, renames, excused>>

\* The rules cannot be removed, and UpdateCasbin ignores it.
ClearFails(c) ==
  /\ call[c].at = "clear"
  /\ Goes(c, "read2")
  /\ excused' = excused \cup {c}
  /\ UNCHANGED <<enforcer, table, copy, snap, renames, some, always>>

\* AddPolicies refuses when there is nothing to add, when the copy has one of
\* the rules, and when the table has (it is unique): the call returns an error.
Refused(c) == call[c].want = {} \/ Wanted(c) \cap (copy \cup table) # {}

\* The new rules are added, all or none.  Any insertion may fail as well.
Add(c) ==
  /\ call[c].at = "add"
  /\ \/ /\ ~Refused(c)
        /\ Table(table \cup Wanted(c))
        /\ copy' = copy \cup Wanted(c)
        /\ Goes(c, "ok")
     \/ /\ Goes(c, "error")
        /\ UNCHANGED <<table, copy, some, always>>
  /\ UNCHANGED <<enforcer, snap, renames, excused>>

\* UpdateCasbinApi renames an api in the table, unless a rule would be there
\* twice.  The copy keeps the old name, and the updates that run are disturbed.
Rename(old, new) ==
  /\ renames < MaxRenames /\ old # new
  /\ LET moved == {r \in table : r[2] = old} IN
       /\ \A r \in moved : <<r[1], new>> \notin table
       /\ Table((table \ moved) \cup {<<r[1], new>> : r \in moved})
  /\ renames' = renames + 1
  /\ excused' = excused \cup (Running \cap Updaters)
  /\ UNCHANGED <<enforcer, copy, call, snap>>

\* GetCasbinByAuthorityId returns the rules that the copy has: want holds them.
List(c) ==
  /\ call[c].at = "list"
  /\ call' = [call EXCEPT ![c].at = "ok",
                          ![c].want = {r[2] : r \in Of(call[c].sub, copy)}]
  /\ UNCHANGED <<enforcer, table, copy, snap, renames, some, always, excused>>

PolicyNext ==
  \/ \E sub \in Authorities :
       \/ \E c \in Updaters, want \in Wants : Update(c, sub, want)
       \/ \E c \in Listers : AskList(c, sub)
  \/ \E c \in Callers :
       \/ Make(c) \/ MakeFails(c) \/ Panic(c) \/ LoadReads(c) \/ LoadApplies(c) \/ LoadFails(c)
       \/ Clear(c) \/ ClearFails(c) \/ Add(c) \/ List(c)
  \/ \E old, new \in Apis : Rename(old, new)

-----------------------------------------------------------------------------
(* Properties *)

\* UpdateCasbin replaces the rules of its authority: when it returns, the
\* table has exactly what was wanted, or nothing if an error is returned,
\* whatever is loaded, listed or updated for others meanwhile.  Not promised
\* when another update of the same authority overlaps, when a rename does,
\* and when the removal fails, which the code ignores.  The rules of an
\* authority change only by an update of its own, or by a rename.
Replaces ==
  /\ \A c \in Updaters :
       call[c].at = "add" /\ call'[c].at \in {"ok", "error"} /\ c \notin excused =>
         Of(call[c].sub, table') = IF call'[c].at = "ok" THEN Wanted(c) ELSE {}
  /\ \A sub \in Authorities :
       Of(sub, table') # Of(sub, table) =>
         \/ renames' # renames
         \/ \E c \in Updaters \cap Running : call[c].sub = sub /\ call'[c] # call[c]

Replaced == [][Replaces]_policyVars

\* What is listed, or enforced, was in the table during the call, and what was
\* there all the time is listed, unless a load put older rules in place in
\* between, or the caller's own load failed.
ListedFresh ==
  \A c \in Listers : call[c].at = "ok" /\ c \notin excused =>
    LET listed == {call[c].sub} \X call[c].want IN
      Of(call[c].sub, always[c]) \subseteq listed /\ listed \subseteq some[c]

=============================================================================
