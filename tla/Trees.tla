------------------------------- MODULE Trees -------------------------------
(***************************************************************************)
(* Files and directories: filex/file.go, pathx/file.go, pathx/fs.go and    *)
(* MkdirIfNotExist of pathx/path.go.  Calls run at the same time on one    *)
(* tree.  What a call has left to do is a stack of steps, one for each use *)
(* of the file system, in the order of its loops and of its recursion:     *)
(* nothing is left to do behind a recursive call but the rest of the loop. *)
(*                                                                         *)
(* A file is read or written in one step, and RemoveAll is one step.       *)
(***************************************************************************)
EXTENDS FileSystem

CONSTANTS Calls,      \* concurrent calls
          Jobs,       \* what they may be: [op, from, to], see First
          InitTree,   \* the tree at the start: every file is its own node
          Template,   \* the tree that is embedded in the program
          InitText,   \* of every file at the start: what is in it
          NewName,    \* the names that a prefix and a suffix make; they have no extension
          Temp        \* the directory that edits (module Edits) work in

\* Every directory above a file or a directory is there.
Rooted(t) ==
  /\ DOMAIN t \subseteq Paths /\ HasDir(t, <<>>)
  /\ \A p \in DOMAIN t : \A i \in 0..Len(p) - 1 : HasDir(t, SubSeq(p, 1, i))

Operations == {
  "CopyFile", "Copy", "CopyDir", "CopyTpl", "FileMove", "RenameFiles",
  "RenameFilesAndDir", "CreateIfNotExist", "CreateFile", "CreateFileForce",
  "RemoveIfExist", "DeLFile", "CreateDir", "GetGoctlHome"}

\* Nobody removes the root.  A prefix and a suffix keep different names apart.
ASSUME TreesAssumption ==
  /\ Rooted(InitTree) /\ Rooted(Template) /\ Temp \in Paths \ {<<>>}
  /\ NewName \in [DOMAIN NewName -> Names] /\ Dir \notin Calls \X Paths
  /\ \A m, n \in DOMAIN NewName : NewName[m] = NewName[n] => m = n
  /\ \A p \in Files(InitTree) :
       InitTree[p] = p /\ p \in DOMAIN InitText /\ p \notin Calls \X Paths
  /\ \A j \in Jobs : j.to \in Paths /\ (j.op \in Operations => j.from \in Paths)
  /\ \A j \in Jobs : j.op \in {"RemoveIfExist", "DeLFile"} => j.to # <<>>

VARIABLES
  tree,    \* the tree
  data,    \* of every node: what is in it, a sequence of words
  job,     \* of every call: what it is
  todo,    \* of every call: the steps that are left
  out      \* of every call: "run", "nil" or "error"

fs == <<tree, data>>
treeVars == <<tree, data, job, todo, out>>

Step(do, from, to) == [do |-> do, from |-> from, to |-> to]

\* The first step of every operation.  RemoveOrQuit is RemoveIfExist with a
\* question between its two steps, MkDir and IsNotExistMkDir are CreateDir.
First(j) == Step(
  CASE j.op \in {"CopyFile", "Copy"} -> "open"
    [] j.op = "CopyDir" -> "dir"
    [] j.op = "CopyTpl" -> "template"
    [] j.op = "FileMove" -> "move"
    [] j.op = "RenameFilesAndDir" -> "namesAndDirs"
    [] j.op = "RenameFiles" -> "names"
    [] j.op = "CreateIfNotExist" -> "absent"
    [] j.op = "CreateFile" -> "exists"
    [] j.op = "CreateFileForce" -> "make"
    [] j.op = "RemoveIfExist" -> "present"
    [] j.op = "DeLFile" -> "delete"
    [] j.op = "CreateDir" -> "mkdir"
    [] j.op = "GetGoctlHome" -> "home", j.from, j.to)

TreesTypeOK ==
  /\ tree[<<>>] = Dir /\ \A p \in DOMAIN tree \ {<<>>} : HasDir(tree, Front(p))
  /\ \A p \in Files(tree) : tree[p] \in DOMAIN data
  /\ job \in [Calls -> Jobs] /\ DOMAIN todo = Calls
  /\ out \in [Calls -> {"run", "nil", "error"}]
  /\ \A c \in Calls : out[c] = "run" <=> todo[c] # <<>>

-----------------------------------------------------------------------------
Does(c, do) == out[c] = "run" /\ todo[c][1].do = do

From(c) == todo[c][1].from
To(c) == todo[c][1].to

\* The first step is done, and the call goes on with others, or returns nil.
GoesOn(c, steps) ==
  LET rest == steps \o Tail(todo[c]) IN
  /\ todo' = [todo EXCEPT ![c] = rest]
  /\ out' = IF rest = <<>> THEN [out EXCEPT ![c] = "nil"] ELSE out
  /\ UNCHANGED job

\* A use of the file system that is not possible, or fails by itself, ends the
\* call with an error, except where the code drops the error.
Refused(c) ==
  /\ out[c] = "run" /\ todo[c][1].do \notin
       {"exists", "present", "lstat", "home", "old", "homedir", "folder",
         "flush", "cleanup"}
  /\ todo' = [todo EXCEPT ![c] = <<>>] /\ out' = [out EXCEPT ![c] = "error"]
  /\ UNCHANGED <<fs, job>>

\* A directory is there when the step is done, as CheckPathExists and Stat
\* before MkdirAll leave it.
Ensure(p) ==
  /\ p \in DOMAIN tree \/ CanMkdirAll(tree, p)
  /\ tree' = IF p \in DOMAIN tree THEN tree ELSE MkdirAll(tree, p)
  /\ UNCHANGED data

\* os.Create and the handle: the file is emptied, or made with a node.
Create(c, p) ==
  /\ CanCreate(tree, p)
  /\ LET n == IF HasFile(tree, p) THEN tree[p] ELSE <<c, p>> IN
     /\ tree' = Place(tree, p, n)
     /\ data' = [m \in DOMAIN data \cup {n} |-> IF m = n THEN <<>> ELSE data[m]]

Opened(c, p) == IF HasFile(tree, p) THEN tree[p] ELSE <<c, p>>

\* A write from the beginning of a file.  All words are of the same length.
Write(n, text) ==
  /\ data' = [data EXCEPT ![n] = text \o SubSeq(@, Len(text) + 1, Len(@))]
  /\ UNCHANGED tree

-----------------------------------------------------------------------------
(* CopyFile and Copy *)

\* Mutant of CopyOpen: a file that is not there any more is left out.
CopyOpen_Skip(c) ==
  /\ Does(c, "open")
  /\ IF From(c) \in DOMAIN tree
     THEN GoesOn(c, <<Step("parent", tree[From(c)], To(c)), Step("check", From(c), To(c))>>)
     ELSE GoesOn(c, <<>>)
  /\ UNCHANGED fs

\* The source is opened; from here on its node is read, whatever its path is.
\* CopyFile looks at both paths again at the end.
CopyOpen(c) ==
  /\ Does(c, "open") /\ From(c) \in DOMAIN tree
  /\ GoesOn(c, <<Step("parent", tree[From(c)], To(c))>> \o
               IF job[c].op = "Copy" THEN <<>> ELSE <<Step("check", From(c), To(c))>>)
  /\ UNCHANGED fs

CopyFolder(c) ==
  /\ Does(c, "parent") /\ Ensure(Front(To(c)))
  /\ GoesOn(c, <<Step("create", From(c), To(c))>>)

\* The target is emptied before anything is read.
CopyCreate(c) ==
  /\ Does(c, "create") /\ Create(c, To(c))
  /\ GoesOn(c, <<Step("data", From(c), Opened(c, To(c)))>>)

\* A directory can be opened and not read.
CopyData(c) ==
  /\ Does(c, "data") /\ From(c) # Dir /\ Write(To(c), data[From(c)])
  /\ GoesOn(c, <<>>)

CopyCheck(c) ==
  /\ Does(c, "check") /\ {From(c), To(c)} \subseteq DOMAIN tree
  /\ GoesOn(c, <<>>) /\ UNCHANGED fs

-----------------------------------------------------------------------------
(* CopyDir, and CopyTpl with CopyFsDir and CopyFsFile *)

CopyDir(c) ==
  /\ Does(c, "dir") /\ HasDir(tree, From(c)) /\ CanMkdirAll(tree, To(c))
  /\ tree' = MkdirAll(tree, To(c)) /\ UNCHANGED data
  /\ GoesOn(c, <<Step("entries", From(c), To(c))>>)

\* One step for every entry of a directory of tree t.
Entries(t, p, q, dir, file) ==
  LET names == ReadDir(t, p) IN
  [i \in 1..Len(names) |-> LET r == Append(p, names[i]) IN
     Step(IF HasDir(t, r) THEN dir ELSE file, r, Append(q, names[i]))]

\* The entries are read when the target is there already: a target below the
\* source is among them.
CopyEntries(c) ==
  /\ Does(c, "entries") /\ HasDir(tree, From(c))
  /\ GoesOn(c, Entries(tree, From(c), To(c), "dir", "open")) /\ UNCHANGED fs

CopyTpl(c) ==
  /\ Does(c, "template") /\ HasDir(Template, From(c))
  /\ GoesOn(c, Entries(Template, From(c), To(c), "fsdir", "folder")) /\ UNCHANGED fs

CopyFsDir(c) ==
  /\ Does(c, "fsdir") /\ CanMkdirAll(tree, To(c))
  /\ tree' = MkdirAll(tree, To(c)) /\ UNCHANGED data
  /\ GoesOn(c, Entries(Template, From(c), To(c), "fsdir", "folder"))

\* MkdirIfNotExist, whose error is dropped, and then WriteFile.
CopyFsFolder(c) ==
  /\ Does(c, "folder") /\ (Ensure(Front(To(c))) \/ UNCHANGED fs)
  /\ GoesOn(c, <<Step("writefile", From(c), To(c))>>)

CopyFsFile(c) ==
  /\ Does(c, "writefile") /\ Create(c, To(c))
  /\ GoesOn(c, <<Step("write", <<"template", From(c)>>, Opened(c, To(c)))>>)

WriteContent(c) ==
  /\ Does(c, "write") /\ Write(To(c), From(c))
  /\ GoesOn(c, <<>>)

-----------------------------------------------------------------------------
(* FileMove and renaming *)

\* Redirect: the directory is looked for, made when it is not there, and then
\* looked for, and if need be made, a second time.
Move(c) ==
  /\ \E do \in {"move", "again"} :
       /\ Does(c, do) /\ Ensure(Front(To(c)))
       /\ GoesOn(c, <<Step(IF do = "move" /\ Front(To(c)) \notin DOMAIN tree
                           THEN "again" ELSE "rename", From(c), To(c))>>)

\* Mutant of RenameEntries: the new name of a directory is left to the
\* recursion, which renames the files only.
RenameEntries_FilesOnly(c) ==
  /\ Does(c, "names") \/ Does(c, "namesAndDirs")
  /\ HasDir(tree, From(c))
  /\ GoesOn(c, Entries(tree, From(c), From(c), "names", "newname")) /\ UNCHANGED fs

\* All entries are read before the first one is renamed.
RenameEntries(c) ==
  /\ Does(c, "names") \/ Does(c, "namesAndDirs")
  /\ HasDir(tree, From(c))
  /\ GoesOn(c, Entries(tree, From(c), From(c),
       IF Does(c, "names") THEN "names" ELSE "newdir", "newname"))
  /\ UNCHANGED fs

\* Whatever file has the new name is replaced.  Only the directories right
\* below the first one get a new name: the recursion renames files.
RenameOne(c) ==
  \E do \in {"rename", "newname", "newdir"} :
    /\ Does(c, do)
    /\ do # "rename" => Last(From(c)) \in DOMAIN NewName
    /\ LET q == IF do = "rename" THEN To(c)
                ELSE Append(Front(From(c)), NewName[Last(From(c))]) IN
       /\ CanRename(tree, From(c), q)
       /\ tree' = Rename(tree, From(c), q) /\ UNCHANGED data
       /\ GoesOn(c, IF do = "newdir" THEN <<Step("names", q, q)>> ELSE <<>>)

-----------------------------------------------------------------------------
(* Making and removing *)

\* What stands at To is looked up, and the answer used in the next step:
\* CreateIfNotExist refuses a path that is taken, CreateFile keeps its file.
LookUp(c) ==
  LET there == To(c) \in DOMAIN tree IN
  /\ \/ Does(c, "absent") /\ ~there /\ GoesOn(c, <<Step("make", c, To(c))>>)
     \/ Does(c, "exists") /\ GoesOn(c, IF there THEN <<>> ELSE <<Step("make", c, To(c))>>)
     \/ Does(c, "present") /\ GoesOn(c, IF there THEN <<Step("remove", c, To(c))>> ELSE <<>>)
  /\ UNCHANGED fs

Make(c) ==
  /\ Does(c, "make") /\ Create(c, To(c))
  /\ GoesOn(c, <<Step("write", <<"by", c>>, Opened(c, To(c)))>>)

\* os.Remove takes a directory only when it is empty.
Unlink(c) ==
  /\ \/ Does(c, "remove") /\ To(c) \in DOMAIN tree /\ Under(tree, To(c)) = {To(c)}
     \/ Does(c, "delete")
  /\ tree' = RemoveAll(tree, To(c)) /\ UNCHANGED data
  /\ GoesOn(c, <<>>)

\* CreateDir refuses a file of that name.
Mkdir(c) ==
  /\ Does(c, "mkdir") /\ ~HasFile(tree, To(c)) /\ Ensure(To(c))
  /\ GoesOn(c, <<>>)

\* GetGoctlHome: a file in place of the home is renamed, to From, and the home
\* made; errors are dropped.
Home(c) ==
  \/ /\ Does(c, "home") /\ UNCHANGED fs
     /\ GoesOn(c, IF HasFile(tree, To(c))
                  THEN <<Step("old", From(c), To(c)), Step("homedir", From(c), To(c))>>
                  ELSE <<>>)
  \/ /\ Does(c, "old") /\ GoesOn(c, <<>>)
     /\ \/ /\ CanRename(tree, To(c), From(c))
           /\ tree' = Rename(tree, To(c), From(c)) /\ UNCHANGED data
        \/ UNCHANGED fs
  \/ /\ Does(c, "homedir") /\ (Ensure(To(c)) \/ UNCHANGED fs)
     /\ GoesOn(c, <<>>)

CopyNext(c) ==
  \/ CopyOpen(c) \/ CopyFolder(c) \/ CopyCreate(c) \/ CopyData(c) \/ CopyCheck(c)
  \/ CopyDir(c) \/ CopyEntries(c)
  \/ CopyTpl(c) \/ CopyFsDir(c) \/ CopyFsFolder(c) \/ CopyFsFile(c) \/ WriteContent(c)

TreesNext ==
  \E c \in Calls :
    \/ Refused(c) \/ CopyNext(c)
    \/ Move(c) \/ RenameEntries(c) \/ RenameOne(c)
    \/ LookUp(c) \/ Make(c) \/ Unlink(c) \/ Mkdir(c) \/ Home(c)

-----------------------------------------------------------------------------
(* Properties *)

\* Below which paths a call may write or take away.
Writes(j) ==
  CASE j.op \in {"RenameFiles", "RenameFilesAndDir"} -> {j.from}
    [] j.op \in {"FileMove", "GetGoctlHome"} -> {j.from, j.to}
    [] j.op \in {"FileInsertInfoSeek", "FileInsertInfoLine"} -> {j.to, Temp}
    [] OTHER -> {j.to}

Meets(P, Q) == \E p \in P, q \in Q : IsPrefix(p, q) \/ IsPrefix(q, p)

\* No other call writes at these paths.
Quiet(c, P) == \A k \in Calls \ {c} : ~Meets(Writes(job[k]), P)

\* The names below p that would be made are not taken by others.
NoClash(p) ==
  \A q \in DOMAIN InitTree : IsPrefix(p, q) /\ q # p /\ Last(q) \in DOMAIN NewName
    => Append(Front(q), NewName[Last(q)]) \notin DOMAIN InitTree

Renames(j) == j.op \in {"RenameFiles", "RenameFilesAndDir"}

Below(p) == {q \in Files(InitTree) : IsPrefix(p, q)}

\* Call k gives what is below a directory new names that nothing has, and no
\* other call writes there.
Steady(k) == LET b == job[k].from IN Renames(job[k]) /\ Quiet(k, {b}) /\ NoClash(b)

\* A copy that reports no error is a copy: every file below the source, or of
\* the template, is below the target with what was in it, at its own path, even
\* when the files are being renamed meanwhile (then perhaps with a new name).
\* When a renaming of the directory above has a clash, another directory may
\* get the name of the source, and is copied in its place.
CopyComplete ==
  \A c \in Calls : LET j == job[c] IN
    /\ out[c] = "nil" /\ j.op \in {"CopyFile", "Copy", "CopyDir", "CopyTpl"}
    /\ Quiet(c, {j.to})
    /\ \/ j.op = "CopyTpl"
       \/ /\ ~Meets({j.from}, {j.to})
          /\ \A k \in Calls \ {c} : ~Meets(Writes(job[k]), {j.from}) \/ Steady(k)
    => IF j.op = "CopyTpl"
       THEN \A p \in {q \in Files(Template) : IsPrefix(j.from, q)} :
              LET q == j.to \o SubSeq(p, Len(j.from) + 1, Len(p)) IN
              HasFile(tree, q) /\ data[tree[q]] = <<"template", p>>
       ELSE \A p \in Below(j.from) : \E q \in Files(tree) :
              /\ IsPrefix(j.to, q) /\ data[tree[q]] = InitText[p]
              /\ \/ q = j.to \o SubSeq(p, Len(j.from) + 1, Len(p))
                 \/ \E k \in Calls : Renames(job[k]) /\ Meets({job[k].from}, {j.from})

\* The path of a file below a directory that is renamed, as the code has it: in
\* RenameFilesAndDir the directories right below get a new name, those below
\* them do not, since the recursion renames files only.  RenamedThroughout is
\* what the comment of the code says instead.
NewPath(j, p) ==
  [i \in 1..Len(p) |->
     IF i = Len(p) \/ (j.op = "RenameFilesAndDir" /\ i = Len(j.from) + 1)
     THEN NewName[p[i]] ELSE p[i]]

\* A renaming that reports no error has given every file below the directory,
\* however deep, its new name, and only once although a new name may be one that
\* is renamed when it is read; no file is lost and nothing else is left
\* (RenameFilesAndDir, RenameFiles).  A file that has one of the new names
\* already is replaced without a word: such a tree is left out (NoClash).
RenamedOnce ==
  \A c \in Calls : LET j == job[c] IN
    out[c] = "nil" /\ Renames(j) /\ Quiet(c, {j.from}) /\ NoClash(j.from)
    => /\ {p \in Files(tree) : IsPrefix(j.from, p)} = {NewPath(j, p) : p \in Below(j.from)}
       /\ \A p \in Below(j.from) : data[tree[NewPath(j, p)]] = InitText[p]

\* "为目录下的所有文件和子目录添加前缀和后缀" (all files and directories),
\* "递归修改目录内的文件和子目录名称" (recursively), pathx/file.go:209-210: every
\* file and every directory below has its new name at the end.
RenamedThroughout ==
  \A c \in Calls : LET j == job[c] IN
    /\ out[c] = "nil" /\ j.op = "RenameFilesAndDir"
    /\ Quiet(c, {j.from}) /\ NoClash(j.from)
    => \A p \in Under(InitTree, j.from) :
         [i \in 1..Len(p) |-> IF i > Len(j.from) THEN NewName[p[i]] ELSE p[i]] \in DOMAIN tree

=============================================================================
