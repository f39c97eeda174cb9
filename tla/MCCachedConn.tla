---------------------------- MODULE MCCachedConn ----------------------------
(***************************************************************************)
(* Instances of CachedConn for TLC, in two scenes.  "reads": one write,    *)
(* whose old row is read while nothing has been written, among reads of    *)
(* every kind.  "writes": the row exists, two writes overlap, with keys    *)
(* taken from rows that may be outdated; only p2 reads, and not with       *)
(* QueryWithExpireCtx.                                                     *)
(***************************************************************************)
EXTENDS CachedConn

CONSTANTS p1, p2, i1, i2

VARIABLE scene

SceneInit ==
  /\ Init
  /\ scene \in {"reads", "writes"}
  /\ scene = "writes" => \A r \in Rows : db[r] # NoRow /\ db[r].idx = i1

SceneNext ==
  /\ UNCHANGED scene
  /\ Next
  /\ scene = "reads" =>
       /\ writes' <= 1
       /\ \A p \in Procs : st'[p].pc = "exec" /\ st[p].pc # "exec" => writes = 0
  /\ scene = "writes" =>
       /\ st'[p1].kind = "none"
       /\ \A p \in Procs : st'[p].kind # "expire"

SceneSpec == SceneInit /\ [][SceneNext]_<<vars, scene>> /\ Fairness

=============================================================================
