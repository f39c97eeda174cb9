------------------------------- MODULE Edits -------------------------------
(***************************************************************************)
(* Inserting lines into files and writing files: toolx/file.go.  These     *)
(* calls run at the same time as each other and as those of module Trees,  *)
(* whose FileMove an insertion uses for its last step.                     *)
(*                                                                         *)
(* Every insertion, of whatever file, writes the new text to one and the   *)
(* same temporary file.  Its directory is made by nobody in the program,   *)
(* and removed at the end.  Files are shorter than a buffer (4096 bytes):  *)
(* each is read and written at once.                                       *)
(***************************************************************************)
EXTENDS Trees

CONSTANT NL     \* the end of a line

VARIABLES
  spoilt,       \* history: insertions whose temporary file was used by another
                \* one as well
  unflushed     \* history: insertions that did not write all of theirs

history == <<spoilt, unflushed>>
editVars == <<treeVars, history>>

TempFile == Append(Temp, "temp.temp")

Insertion(j) == j.op \in {"FileInsertInfoSeek", "FileInsertInfoLine"}
Writing(j) == j.op \in {"AppendString", "CoverString", "AppendByte", "CoverByte"}

IsText(text) == text \in Seq(Range(text))

\* Lines of one word each: every second word is the end of a line.
IsLines(text) == \A i \in 1..Len(text) : text[i] = NL <=> i % 2 = 0

\* Nobody edits what is in the directory of the temporary file.
ASSUME EditsAssumption ==
  /\ \A j \in Jobs : Insertion(j) \/ Writing(j) \/ j.op \in Operations
  /\ \A j \in Jobs : Writing(j) => IsText(j.from)
  /\ \A p \in DOMAIN InitText : IsText(InitText[p])
  /\ "temp.temp" \in Names
  /\ \A j \in Jobs : Insertion(j) =>
       /\ ~Meets({j.to}, {Temp})
       /\ j.to \in Files(InitTree) => IsLines(InitText[j.to])

\* The first step of a call: From is, of an insertion, the line it looks for,
\* or how many lines come before it, and the line to insert, of a writing its
\* text.
FirstStep(j) ==
  IF Insertion(j) THEN Step("edit", j.from, j.to)
  ELSE IF j.op \in {"AppendString", "CoverString"} THEN Step("lstat", j.from, j.to)
  ELSE IF Writing(j) THEN Step("openByte", j.from, j.to)
  ELSE First(j)

EditsInit ==
  /\ tree = InitTree /\ data = InitText /\ spoilt = {} /\ unflushed = {}
  /\ job \in [Calls -> Jobs]
  /\ todo = [c \in Calls |-> <<FirstStep(job[c])>>]
  /\ out = [c \in Calls |-> "run"]

-----------------------------------------------------------------------------
(* FileInsertInfoSeek and FileInsertInfoLine *)

\* Mutant of EditOpen: the file is emptied when it is opened.
EditOpen_Trunc(c) ==
  /\ Does(c, "edit") /\ HasFile(tree, To(c))
  /\ GoesOn(c, <<Step("temp", <<>>, tree[To(c)]), Step("move", TempFile, To(c)),
                 Step("cleanup", <<>>, Temp)>>)
  /\ data' = [data EXCEPT ![tree[To(c)]] = <<>>] /\ UNCHANGED <<tree, history>>

\* The file is opened.
EditOpen(c) ==
  /\ Does(c, "edit") /\ HasFile(tree, To(c))
  /\ GoesOn(c, <<Step("temp", <<>>, tree[To(c)]), Step("move", TempFile, To(c)),
                 Step("cleanup", <<>>, Temp)>>)
  /\ UNCHANGED <<fs, history>>

\* The calls that write to the temporary file, or have it still to move.
Using == {c \in Calls : out[c] = "run" /\ Insertion(job[c])
            /\ todo[c][1].do \in {"read", "flush", "move", "again", "rename"}}

\* The temporary file is made, or emptied.
EditTemp(c) ==
  /\ Does(c, "temp") /\ Create(c, TempFile)
  /\ GoesOn(c, <<Step("read", To(c), Opened(c, TempFile))>>)
  /\ spoilt' = IF Using = {} THEN spoilt ELSE spoilt \cup Using \cup {c}
  /\ UNCHANGED unflushed

\* The lines that are complete, each followed by the new line where it matches:
\* a seeking insertion looks at the words, the other one at the number.
Rewritten(text, j) ==
  LET ends == {i \in 1..Len(text) : text[i] = NL}
      Matches(i) ==
        IF j.op = "FileInsertInfoLine" THEN Cardinality({k \in ends : k < i}) = j.from[1]
        ELSE i > 1 /\ text[i - 1] = j.from[1] /\ i - 2 \in ends \cup {0}
  IN FlattenSeq([i \in 1..Max(ends \cup {0}) |->
       IF i \in ends /\ Matches(i) THEN <<NL, j.from[2], NL>> ELSE <<text[i]>>])

EditRead(c) ==
  /\ Does(c, "read")
  /\ GoesOn(c, <<Step("flush", Rewritten(data[From(c)], job[c]), To(c))>>)
  /\ UNCHANGED <<fs, history>>

\* The temporary file is written, all of it or, when the write fails, a
\* beginning; nobody looks which.
EditFlush(c) ==
  /\ Does(c, "flush") /\ GoesOn(c, <<>>) /\ UNCHANGED spoilt
  /\ \/ Write(To(c), From(c)) /\ UNCHANGED unflushed
     \/ \E n \in 0..Len(From(c)) - 1 :
          Write(To(c), SubSeq(From(c), 1, n)) /\ unflushed' = unflushed \cup {c}

\* The directory of the temporary file is removed; an error is dropped.
EditCleanup(c) ==
  /\ Does(c, "cleanup") /\ GoesOn(c, <<>>)
  /\ tree' \in {tree, RemoveAll(tree, Temp)} /\ UNCHANGED <<data, history>>

-----------------------------------------------------------------------------
(* WriteFileString and WriteFileByte *)

\* WriteFileString looks whether there is a file, and opens it, or makes it.
WriteLook(c) ==
  /\ Does(c, "lstat")
  /\ GoesOn(c, <<Step(IF HasFile(tree, To(c)) THEN "openString" ELSE "makeString",
                      From(c), To(c))>>)
  /\ UNCHANGED <<fs, history>>

\* A file that it makes, it does not write at the end of.
WriteMake(c) ==
  /\ Does(c, "makeString") /\ Create(c, To(c))
  /\ GoesOn(c, <<Step("write", From(c), Opened(c, To(c)))>>)
  /\ UNCHANGED history

\* Mutant of WriteOpen: WriteFileByte does not write at the end of the file.
WriteOpen_Start(c) ==
  /\ \/ Does(c, "openString") /\ HasFile(tree, To(c))
     \/ Does(c, "openByte") /\ CanCreate(tree, To(c))
  /\ IF HasFile(tree, To(c)) /\ job[c].op \in {"AppendString", "AppendByte"}
     THEN UNCHANGED fs
     ELSE Create(c, To(c))
  /\ GoesOn(c, <<Step(IF job[c].op = "AppendString" THEN "append" ELSE "write",
                      From(c), Opened(c, To(c)))>>)
  /\ UNCHANGED history

\* Opening empties the file that is to be covered; WriteFileByte makes one that
\* is not there, WriteFileString does not at this point.
WriteOpen(c) ==
  /\ \/ Does(c, "openString") /\ HasFile(tree, To(c))
     \/ Does(c, "openByte") /\ CanCreate(tree, To(c))
  /\ IF HasFile(tree, To(c)) /\ job[c].op \in {"AppendString", "AppendByte"}
     THEN UNCHANGED fs
     ELSE Create(c, To(c))
  /\ GoesOn(c, <<Step(IF job[c].op \in {"AppendString", "AppendByte"} THEN "append" ELSE "write",
                      From(c), Opened(c, To(c)))>>)
  /\ UNCHANGED history

WriteEnd(c) ==
  /\ Does(c, "append") /\ data' = [data EXCEPT ![To(c)] = @ \o From(c)]
  /\ GoesOn(c, <<>>) /\ UNCHANGED <<tree, history>>

EditsNext ==
  \/ TreesNext /\ UNCHANGED history
  \/ \E c \in Calls :
       \/ EditOpen(c) \/ EditTemp(c) \/ EditRead(c) \/ EditFlush(c) \/ EditCleanup(c)
       \/ WriteLook(c) \/ WriteMake(c) \/ WriteOpen(c) \/ WriteEnd(c)

-----------------------------------------------------------------------------
(* Properties *)

\* No other call writes at the file of the insertion c, and none but another
\* insertion in the directory of the temporary file.
Alone(c) ==
  \A k \in Calls \ {c} :
    /\ job[k].to # job[c].to
    /\ Insertion(job[k]) \/ ~Meets(Writes(job[k]), {job[c].to, Temp})

\* Lines of one word each: those of the file, with the line to insert behind
\* every one that it belongs to.
Inserted(text, j) ==
  FlattenSeq([i \in 1..Len(text) \div 2 |->
    LET line == text[2 * i - 1] IN
    IF j.from[1] = (IF j.op = "FileInsertInfoLine" THEN i - 1 ELSE line)
    THEN <<line, NL, j.from[2], NL>> ELSE <<line, NL>>])

Beginnings(text) == {SubSeq(text, 1, n) : n \in 0..Len(text)}

\* What insertion c may leave of a text: all of it, or a beginning when it could
\* not write the rest.
Reached(c, text) == {text} \cup IF c \in unflushed THEN Beginnings(text) ELSE {}

\* An insertion whose temporary file was its own leaves the file with the new
\* line where it belongs when it reports no error, and as it was when it
\* reports one, whatever other insertions do before and after it.  There is one
\* step that may fail without an error: the last Flush (toolx/file.go:50, 103).
\* The file is then cut off, anywhere, and the insertion returns nil; no other
\* step loses text.  Insertions that overlap share the temporary file and are
\* not covered.  The last line of the file is complete.
EditsCommit ==
  \A c \in Calls : LET j == job[c] IN
    /\ out[c] # "run" /\ Insertion(j) /\ c \notin spoilt /\ Alone(c)
    /\ j.to \in Files(InitTree) /\ Last(InitText[j.to]) = NL
    => /\ HasFile(tree, j.to)
       /\ data[tree[j.to]] \in IF out[c] = "nil" THEN Reached(c, Inserted(InitText[j.to], j))
                                ELSE {InitText[j.to]}

\* What is appended without an error is kept, although others append to the
\* same file at the same time, and make it.  WriteFileString is left out when
\* there is no file at the start: it empties one that was made since it looked.
AppendsKept ==
  \A c \in Calls : LET j == job[c] IN
    /\ out[c] = "nil" /\ j.op \in {"AppendString", "AppendByte"}
    /\ \A k \in Calls : Meets(Writes(job[k]), {j.to}) =>
         /\ job[k].to = j.to
         /\ \/ job[k].op = "AppendByte"
            \/ job[k].op = "AppendString" /\ j.to \in Files(InitTree)
    => LET text == data[tree[j.to]] IN
       \E i \in 0..(Len(text) - Len(j.from)) : SubSeq(text, i + 1, i + Len(j.from)) = j.from

\* "将原文件写入临时文件" (the file is written to the temporary file),
\* toolx/file.go:33: an insertion that reports no error keeps every line of the
\* file, the last one too, whether or not it is complete, when all was written.
EveryLineKept ==
  \A c \in Calls : LET j == job[c] IN
    /\ out[c] = "nil" /\ Insertion(j) /\ c \notin spoilt \cup unflushed /\ Alone(c)
    /\ j.to \in Files(InitTree)
    => Range(InitText[j.to]) \subseteq Range(data[tree[j.to]])

EditsSpec == EditsInit /\ [][EditsNext]_editVars

=============================================================================
