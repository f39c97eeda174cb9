----------------------------- MODULE MCArchive -----------------------------
(* Single files, for TLC. *)
EXTENDS Archive

MCFiles == {<<[type |-> "file", size |-> k]>> : k \in 0..2}

=============================================================================
