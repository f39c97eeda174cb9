----------------------------- MODULE Background -----------------------------
(***************************************************************************)
(* The parts that leave work to a goroutine and meet it again at a channel *)
(* or a pipe: the notification queue (notifyx), shell commands (shellx,    *)
(* utils) and archives, uploaded while they are packed (filex).  They      *)
(* share no state and do not call each other: a behaviour exercises one of *)
(* them, and the others are never called.                                  *)
(***************************************************************************)
EXTENDS Notify, ExecShell, Archive

VARIABLE part

vars == <<part, notifyVars, shellVars, archiveVars>>

Init ==
  /\ part \in {"notify", "shell", "archive"}
  /\ NotifyInit /\ ShellInit /\ ArchiveInit

Next ==
  /\ UNCHANGED part
  /\ \/ part = "notify" /\ NotifyNext /\ UNCHANGED <<shellVars, archiveVars>>
     \/ part = "shell" /\ ShellNext /\ UNCHANGED <<notifyVars, archiveVars>>
     \/ part = "archive" /\ ArchiveNext /\ UNCHANGED <<notifyVars, shellVars>>

\* Nothing of a part is enabled before it is called, which nothing promises.
Fairness == NotifyFairness /\ ShellFairness /\ ArchiveFairness

Spec == Init /\ [][Next]_vars /\ Fairness

TypeOK ==
  /\ part \in {"notify", "shell", "archive"}
  /\ NotifyTypeOK /\ ShellTypeOK /\ ArchiveTypeOK

=============================================================================
