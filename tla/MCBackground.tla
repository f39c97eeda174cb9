---------------------------- MODULE MCBackground ----------------------------
(* Instances of Background for TLC. *)
EXTENDS Background

CONSTANTS m1, m2, m3, k1, k2

Entries == {[type |-> "dir", size |-> 0], [type |-> "link", size |-> 1],
            [type |-> "file", size |-> 0], [type |-> "file", size |-> 1],
            [type |-> "file", size |-> 2]}

\* Single files, and directories with up to MaxEntries entries.
SingleFiles == {<<[type |-> "file", size |-> k]>> : k \in 0..2}
Trees(MaxEntries) ==
  UNION {{<<[type |-> "dir", size |-> 0]>> \o t : t \in [1..k -> Entries]} : k \in 0..MaxEntries}

MCSources == SingleFiles \cup Trees(2)

=============================================================================
