------------------------------ MODULE MCFiles ------------------------------
(* Instances of Edits, with Trees, for TLC. *)
EXTENDS Edits

CONSTANTS c1, c2

d == <<"d">>
f == <<"f">>
g == <<"g">>

\* A prefix "p"; the system takes no longer names than "ppa".
MCOrder == <<"a", "d", "e", "f", "g", "h", "h.old", "n", "pa", "ppa", "ps", "pt",
             "s", "t", "temp.temp", "tmp", "x">>
MCNewName == [n \in {"a", "s", "t", "pa"} |->
  CASE n = "a" -> "pa" [] n = "s" -> "ps" [] n = "t" -> "pt" [] n = "pa" -> "ppa"]

MCFiles == {<<"d", "a">>, <<"d", "s", "t", "a">>, <<"h">>, <<"x", "a">>, <<"x", "pa">>, f, g}
MCTemp == <<"tmp">>
MCTree == [p \in MCFiles \cup {<<>>, d, <<"d", "s">>, <<"d", "s", "t">>, <<"x">>, <<"tmp">>} |->
  IF p \in MCFiles THEN p ELSE Dir]
MCText == [p \in MCFiles |->
  IF p = f THEN <<"k", NL, "l", NL>> ELSE IF p = g THEN <<"k", NL>> ELSE <<p>>]

\* The last line of f is not complete.
MCLooseText == [MCText EXCEPT ![f] = <<"k", NL, "l">>]

MCTemplate == [p \in {<<>>, <<"a">>, <<"s">>, <<"s", "a">>} |->
  IF p \in {<<>>, <<"s">>} THEN Dir ELSE p]

Job(op, from, to) == [op |-> op, from |-> from, to |-> to]

MCJobs == {
  \* into a new directory, into itself, into another one; a file onto itself
  Job("CopyDir", d, <<"e">>), Job("CopyDir", d, <<"d", "s">>),
  Job("CopyFile", <<"d", "a">>, <<"e", "a">>), Job("CopyFile", <<"d", "a">>, <<"d", "a">>),
  Job("Copy", <<"d", "a">>, <<"x", "a">>), Job("CopyTpl", <<>>, <<"e">>),
  \* to a new place, where a name is about to be taken, onto a directory
  Job("FileMove", <<"d", "s">>, <<"e", "s">>), Job("FileMove", <<"x", "a">>, <<"d", "pa">>),
  Job("FileMove", <<"d", "a">>, <<"x">>),
  \* without and with a name that is taken
  Job("RenameFiles", d, d), Job("RenameFilesAndDir", d, d),
  Job("RenameFiles", <<"x">>, <<"x">>),
  Job("CreateIfNotExist", <<>>, <<"n">>), Job("CreateFile", <<>>, <<"n">>),
  Job("CreateFileForce", <<>>, <<"d", "a">>),
  Job("RemoveIfExist", <<>>, <<"x", "pa">>), Job("RemoveIfExist", <<>>, <<"d", "s">>),
  Job("DeLFile", <<>>, <<"x">>), Job("DeLFile", <<>>, <<"tmp">>),
  Job("CreateDir", <<>>, <<"e", "s">>), Job("GetGoctlHome", <<"h.old">>, <<"h">>),
  Job("FileInsertInfoSeek", <<"k", "new">>, f), Job("FileInsertInfoLine", <<0, "new">>, g),
  Job("FileInsertInfoLine", <<1, "new">>, f),
  Job("AppendString", <<"m", NL>>, f), Job("AppendByte", <<"o">>, f),
  Job("AppendString", <<"m", NL>>, <<"n">>), Job("AppendByte", <<"m">>, <<"n">>),
  Job("AppendByte", <<"o">>, <<"n">>),
  Job("CoverString", <<"m", NL>>, f), Job("CoverByte", <<"m">>, f)}

\* One renaming, of two levels of directories.
MCRenaming == {Job("RenameFilesAndDir", d, d)}

\* One insertion.
MCInsertion == {Job("FileInsertInfoSeek", <<"k", "new">>, f)}

=============================================================================
