-------------------------- MODULE EditsInvariants --------------------------
(***************************************************************************)
(* What the steps of modules Trees and Edits keep: the inductive           *)
(* invariants from which module FilesProof proves their properties.        *)
(*                                                                         *)
(* FilesInv     what the steps that a call has left may hold               *)
(* AppendInv    where what has been appended is                            *)
(* ShapeInv     which steps an insertion has left                          *)
(* CommitInv    how far an insertion has come                              *)
(* RenameInv    how far a renaming has come                                *)
(* GroundInv    where renamings have brought what a copy reads             *)
(* CopyInv      how far a copy has come                                    *)
(***************************************************************************)
EXTENDS Edits

-----------------------------------------------------------------------------
(* Paths *)

\* A path below p, with p replaced by q.
Shift(p, q, r) == q \o SubSeq(r, Len(p) + 1, Len(r))

-----------------------------------------------------------------------------
(* What a call has left to do *)

\* The call c may write at p.
Reach(c, p) == p \in Paths /\ \E w \in Writes(job[c]) : IsPrefix(w, p)

\* What the steps of a call hold: paths that it may write at, in To or in From,
\* sources, and nodes, of which nothing is said.
StepOK(c, s) ==
  /\ s.do \in {"open", "parent", "create", "check", "dir", "entries", "template",
               "fsdir", "folder", "writefile", "move", "again", "rename", "absent",
               "exists", "present", "make", "remove", "delete", "mkdir", "home",
               "old", "homedir", "edit", "cleanup", "lstat", "openString",
               "makeString", "openByte"} => Reach(c, s.to)
  /\ s.do \in {"present", "remove", "delete", "cleanup"} => s.to # <<>>
  /\ s.do \in {"open", "check", "dir", "entries", "template", "fsdir", "folder",
               "writefile"} => s.from \in Paths
  /\ s.do \in {"move", "again", "rename", "home", "old", "namesAndDirs", "names",
               "newname", "newdir"} => Reach(c, s.from)
  /\ s.do \in {"newname", "newdir"} => s.from # <<>> /\ Reach(c, Front(s.from))
  /\ s.do \in {"edit", "temp", "read", "flush", "cleanup"} => Insertion(job[c])

\* The steps that hold a node in To that they, or the next one, write to.
Handles == {"data", "write", "append", "read", "flush"}

\* None of the given steps holds node n.
Apart(steps, n) ==
  \A i \in 1..Len(steps) : steps[i].do \in Handles => steps[i].to # n

FilesInv ==
  /\ Rooted(tree) /\ \A p \in Files(tree) : tree[p] \in DOMAIN data
  /\ job \in [Calls -> Jobs] /\ DOMAIN todo = Calls
  /\ out \in [Calls -> {"run", "nil", "error"}]
  /\ \A c \in Calls : out[c] = "run" <=> todo[c] # <<>>
  /\ \A c \in Calls : \A i \in 1..Len(todo[c]) : StepOK(c, todo[c][i])

-----------------------------------------------------------------------------
(* What is appended *)

\* The paths that calls do nothing with but append to the file.
AppendTo(p) ==
  \A k \in Calls : Meets(Writes(job[k]), {p}) =>
    /\ job[k].to = p
    /\ \/ job[k].op = "AppendByte"
       \/ job[k].op = "AppendString" /\ p \in Files(InitTree)

\* The nodes that a file at p has by its own: that of the start, and those made
\* there.
Own(p) == ({p} \cap Files(InitTree)) \cup (Calls \X {p})

Holds(text, words) ==
  \E i \in 0..(Len(text) - Len(words)) : SubSeq(text, i + 1, i + Len(words)) = words

\* What a call that appends at p has left: to look, to open, or to write to the
\* node that stands there.
Appending(k, p, s) ==
  /\ s.from = job[k].from
  /\ \/ s.do \in {"lstat", "openString"} /\ job[k].op = "AppendString" /\ s.to = p
     \/ s.do = "openByte" /\ s.to = p
     \/ s.do = "append" /\ HasFile(tree, p) /\ s.to = tree[p]

\* The state of the file at such a path p, and of those that append to it.
AppendAt(p) ==
  /\ p \in Files(InitTree) => HasFile(tree, p)
  /\ HasFile(tree, p) => tree[p] \in Own(p) /\ IsText(data[tree[p]])
  /\ \A q \in DOMAIN tree : q # p => tree[q] \notin Own(p)
  /\ \A k \in Calls : Meets(Writes(job[k]), {p}) =>
       /\ todo[k] # <<>> => Len(todo[k]) = 1 /\ Appending(k, p, todo[k][1])
       /\ out[k] = "nil" => HasFile(tree, p) /\ Holds(data[tree[p]], job[k].from)
  /\ \A k \in Calls : ~Meets(Writes(job[k]), {p}) =>
       \A i \in 1..Len(todo[k]) : todo[k][i].do \in Handles => todo[k][i].to \notin Own(p)

AppendInv == \A p \in {job[c].to : c \in Calls} : AppendTo(p) => AppendAt(p)

-----------------------------------------------------------------------------
(* Insertions *)

Runs(k, dos) == out[k] = "run" /\ todo[k][1].do \in dos

\* What an insertion has left.
Shape(k) ==
  LET s == todo[k] IN
  \/ s = <<>>
  \/ Len(s) = 1 /\ s[1].do = "edit" /\ s[1].to = job[k].to
  \/ /\ Len(s) = 3 /\ s[1].do \in {"temp", "read", "flush"} /\ s[3].do = "cleanup"
     /\ s[2].do = "move" /\ s[2].from = TempFile /\ s[2].to = job[k].to
  \/ /\ Len(s) = 2 /\ s[1].do \in {"move", "again", "rename"} /\ s[2].do = "cleanup"
     /\ s[1].from = TempFile /\ s[1].to = job[k].to
  \/ Len(s) = 1 /\ s[1].do = "cleanup"

ShapeInv == \A k \in Calls : Insertion(job[k]) => Shape(k)

\* It has not made the temporary file yet.
Early(k) == Insertion(job[k]) /\ Runs(k, {"edit", "temp"})

\* In tree t node n stands nowhere but at q.
Only(t, n, q) == \A r \in DOMAIN t : t[r] = n => r = q

\* No call that is not an insertion holds node n, if steps are left to them.
Unheld(steps, n) ==
  \A k \in Calls : ~Insertion(job[k]) => Apart(steps[k], n)

\* The insertions that EditsCommit is about.
Own1(c) == Insertion(job[c]) /\ c \notin spoilt /\ Alone(c) /\ job[c].to \in Files(InitTree)

\* The temporary file is nobody's but the insertions', and so are the nodes
\* that they have still to make.
TempNodes ==
  /\ HasFile(tree, TempFile) =>
       /\ tree[TempFile] \in Own(TempFile)
       /\ Only(tree, tree[TempFile], TempFile) /\ Unheld(todo, tree[TempFile])
  /\ \A k \in Calls : Early(k) =>
       /\ \A r \in DOMAIN tree : tree[r] # <<k, TempFile>>
       /\ Unheld(todo, <<k, TempFile>>)

\* The file that the insertion c is of stands alone, and no other call holds it.
FileNode(c) ==
  LET f == job[c].to IN
  /\ HasFile(tree, f) /\ tree[f] \in {f} \cup Own(TempFile)
  /\ Only(tree, tree[f], f) /\ Unheld(todo, tree[f])
  /\ \A k \in Calls \ {c} : Insertion(job[k]) /\ Runs(k, {"read", "flush"})
                            => todo[k][1].to # tree[f]

\* The temporary file is that of c from when it has made it until it is moved.
TempNode(c) ==
  /\ Runs(c, {"read", "flush"}) =>
       LET n == todo[c][1].to IN
       /\ n \in Own(TempFile) /\ n \in DOMAIN data /\ data[n] = <<>>
       /\ Only(tree, n, TempFile) /\ Unheld(todo, n)
       /\ (TempFile \in DOMAIN tree => tree[TempFile] = n)
  /\ Runs(c, {"move", "again", "rename"}) /\ TempFile \in DOMAIN tree =>
       /\ HasFile(tree, TempFile)
       /\ data[tree[TempFile]] \in Reached(c, Rewritten(InitText[job[c].to], job[c]))
  /\ (c \in Using => Using = {c})

\* What is in the file, and what c carries from step to step.
Phase(c) ==
  LET f == job[c].to
      new == Rewritten(InitText[f], job[c])
  IN
  /\ \/ out[c] = "error"
     \/ Runs(c, {"edit", "temp", "read", "flush", "move", "again", "rename"})
     => data[tree[f]] = InitText[f]
  /\ Runs(c, {"temp"}) => todo[c][1].to = tree[f]
  /\ Runs(c, {"read"}) => todo[c][1].from = tree[f]
  /\ Runs(c, {"flush"}) => todo[c][1].from = new
  /\ out[c] = "nil" \/ Runs(c, {"cleanup"}) => data[tree[f]] \in Reached(c, new)

CommitInv == \A c \in Calls : Own1(c) =>
  TempNodes /\ FileNode(c) /\ TempNode(c) /\ Phase(c)

-----------------------------------------------------------------------------
(* Renaming *)

\* The renamings that RenamedOnce is about, with a directory to rename in.
Own2(c) == LET b == job[c].from IN
  Renames(job[c]) /\ Quiet(c, {b}) /\ NoClash(b) /\ out[c] # "error"

\* A renaming of what is below a directory, with new names that nothing has.
Fit(j) ==
  Renames(j) /\ j.from \in Paths /\ HasDir(InitTree, j.from) /\ NoClash(j.from)

\* The path of p when the directories have their new names, and no file has.
Moved(j, p) ==
  [i \in 1..Len(p) |->
     IF /\ j.op = "RenameFilesAndDir" /\ i = Len(j.from) + 1 /\ i # Len(p)
        /\ p[i] \in DOMAIN NewName
     THEN NewName[p[i]] ELSE p[i]]

\* The directory that p is in has a new name if it is to have one.
Known(j, p) ==
  j.op = "RenameFilesAndDir" /\ Len(p) > Len(j.from) + 1 => p[Len(j.from) + 1] \in DOMAIN NewName

\* Step s, and those that it makes, rename the file p, which is still at its
\* path, or the directory that it is in has its new name.
Behind(s, p) ==
  \/ s.do = "namesAndDirs"
  \/ s.do = "newdir" /\ IsPrefix(s.from, p)

Ahead(j, s, p) ==
  \/ s.do = "names" /\ IsPrefix(s.from, Moved(j, p)) /\ s.from # Moved(j, p)
  \/ s.do = "newname" /\ s.from = Moved(j, p)

Covers(j, s, p) == Behind(s, p) \/ Ahead(j, s, p)

\* The file of the start that was at p is at q in tree t, and nowhere else.
Stands(t, p, q) == HasFile(t, q) /\ t[q] = p /\ Only(t, p, q)

\* What the steps of a renaming are.
RenameStep(j, t, steps, s) ==
  LET b == j.from IN
  \/ /\ s.do = "namesAndDirs" /\ s.from = b /\ Len(steps) = 1 /\ j.op = "RenameFilesAndDir"
     /\ \A q \in DOMAIN t : IsPrefix(b, q) => q \in DOMAIN InitTree
  \/ /\ s.do = "names" /\ s.from \in Paths /\ IsPrefix(b, s.from)
     /\ j.op = "RenameFilesAndDir" => \E n \in DOMAIN NewName \cap Names :
          Append(b, n) \in DOMAIN InitTree /\ IsPrefix(Append(b, NewName[n]), s.from)
  \/ s.do = "newname" /\ \E p \in Below(b) : Moved(j, p) = s.from
  \/ /\ s.do = "newdir" /\ j.op = "RenameFilesAndDir" /\ HasDir(t, s.from)
     /\ \E n \in Names : s.from = Append(b, n) /\ s.from \in DOMAIN InitTree

\* One step at most renames the file of the start that was at p, and where the
\* file is meanwhile.
Ways(j, t, steps, p) ==
  /\ \A i, h \in 1..Len(steps) : Covers(j, steps[i], p) /\ Covers(j, steps[h], p) => i = h
  /\ \A i \in 1..Len(steps) :
       /\ Behind(steps[i], p) => Stands(t, p, p)
       /\ Ahead(j, steps[i], p) => Stands(t, p, Moved(j, p)) /\ Known(j, p)
  /\ (\A i \in 1..Len(steps) : ~Covers(j, steps[i], p)) =>
       Stands(t, p, NewPath(j, p)) /\ Last(p) \in DOMAIN NewName /\ Known(j, p)

\* No two steps rename the same directory.
DirsOnce(steps) == \A i, h \in 1..Len(steps) :
  steps[i].do = "newdir" /\ steps[h].do = "newdir" /\ steps[i].from = steps[h].from => i = h

\* The tree, and the steps that are left, of a renaming.
Renaming(j, t, steps) ==
  /\ \A q \in Files(t) : IsPrefix(j.from, q) => t[q] \in Below(j.from)
  /\ \A i \in 1..Len(steps) : RenameStep(j, t, steps, steps[i])
  /\ DirsOnce(steps) /\ \A p \in Below(j.from) : Ways(j, t, steps, p)

\* No other call writes to the files.
Kept(c, p) ==
  /\ p \in DOMAIN data /\ data[p] = InitText[p]
  /\ \A k \in Calls \ {c} : Apart(todo[k], p)

\* Without a directory a renaming does not begin.
RenameAt(c) ==
  IF HasDir(InitTree, job[c].from)
  THEN /\ Renaming(job[c], tree, todo[c])
       /\ \A p \in Below(job[c].from) : Kept(c, p)
  ELSE /\ ~HasDir(tree, job[c].from) /\ out[c] = "run"
       /\ todo[c][1].do \in {"names", "namesAndDirs"} /\ todo[c][1].from = job[c].from

RenameInv == \A c \in Calls : Own2(c) => RenameAt(c)

-----------------------------------------------------------------------------
(* Copying *)

\* Where a name in the path x may be a new one.
Slots(x) == {i \in 1..Len(x) :
  /\ x[i] \in DOMAIN NewName
  /\ \E k \in Calls : Steady(k) /\ IsPrefix(job[k].from, SubSeq(x, 1, i - 1))}

\* What was at x may be at q.
Alias(q, x) ==
  /\ q \in Paths /\ Len(q) = Len(x)
  /\ \A i \in 1..Len(x) : q[i] = x[i] \/ (i \in Slots(x) /\ q[i] = NewName[x[i]])

\* Nothing happens at g and below but renamings of what is below a directory.
Calm(g) ==
  \A k \in Calls : ~Meets(Writes(job[k]), {g}) \/ (Steady(k) /\ IsPrefix(g, job[k].from))

Region(g) == {x \in DOMAIN InitTree : IsPrefix(g, x)}

\* What was at g and below is there, at the paths that at gives, and nothing
\* else; the files are as they were, and nobody holds them.
Ground(g, at) ==
  /\ \A x \in Region(g) : /\ Alias(at[x], x) /\ IsPrefix(g, at[x])
                          /\ at[x] \in DOMAIN tree /\ tree[at[x]] = InitTree[x]
  /\ \A q \in DOMAIN tree : IsPrefix(g, q) => \E x \in Region(g) : q = at[x]
  /\ \A x \in Region(g) : InitTree[x] # Dir =>
       /\ Only(tree, x, at[x]) /\ x \in DOMAIN data /\ data[x] = InitText[x]
       /\ \A k \in Calls : Apart(todo[k], x)

GroundInv == \A g \in Paths : Calm(g) => \E at : Ground(g, at)

\* The copies that CopyComplete is about.
Own3(c) == LET j == job[c] IN
  /\ out[c] # "error" /\ j.op \in {"CopyFile", "Copy", "CopyDir", "CopyTpl"}
  /\ Quiet(c, {j.to})
  /\ \/ j.op = "CopyTpl"
     \/ /\ ~Meets({j.from}, {j.to})
        /\ \A k \in Calls \ {c} : ~Meets(Writes(job[k]), {j.from}) \/ Steady(k)

\* The files to copy, and what is in them.
Sources(j) ==
  IF j.op = "CopyTpl" THEN {p \in Files(Template) : IsPrefix(j.from, p)} ELSE Below(j.from)

Content(j, p) == IF j.op = "CopyTpl" THEN <<"template", p>> ELSE InitText[p]

\* The copy reads x as r.
Reads(j, r, x) ==
  /\ r \in Paths /\ IsPrefix(j.from, r)
  /\ IF j.op = "CopyTpl" THEN r = x ELSE x \in DOMAIN InitTree /\ Alias(r, x)

\* A place for the copy of p.
CopyOf(j, p, q) == \E r : Reads(j, r, p) /\ q = Shift(j.from, j.to, r)

\* The nodes that a file at q, where only c writes, may have.
Nodes(c, q) == ({q} \cap Files(InitTree)) \cup {<<c, q>>}

\* The steps that make, or empty, a file or a directory.
Makers == {"open", "parent", "create", "dir", "entries", "template", "fsdir",
           "folder", "writefile"}

\* What step s of c is to make is q, or is at q and below.
Target(c, s, q) ==
  /\ q \in Paths /\ IsPrefix(job[c].to, q)
  /\ IF s.do \in Makers THEN s.to = q ELSE s.do \in {"data", "write"} /\ s.to \in Nodes(c, q)

\* Neither path is below the other.
Across(p, q) == ~IsPrefix(p, q) /\ ~IsPrefix(q, p)

\* Step s, and those that it makes, copy p: first what is below a path of which
\* the names are read, then the path, then the node.
Begins(j, s, p) ==
  /\ s.do \in {"open", "dir", "entries", "template", "fsdir", "folder", "writefile"}
  /\ s.to = Shift(j.from, j.to, s.from)
  /\ (s.do \in {"folder", "writefile"} => s.from = p) /\ (s.do = "fsdir" => s.from # p)
  /\ \E x : Reads(j, s.from, x) /\ IsPrefix(x, p)

Opens(j, s, p) ==
  s.do \in {"parent", "create"} /\ (s.from = Dir \/ (s.from = p /\ CopyOf(j, p, s.to)))

Pours(j, s, p) ==
  \/ s.do = "data" /\ s.from = p
  \/ s.do = "write" /\ s.from = <<"template", p>>

Copying(j, s, p) ==
  \/ Begins(j, s, p) \/ Opens(j, s, p)
  \/ s.do = "data" /\ s.from = Dir
  \/ /\ Pours(j, s, p)
     /\ \E q : CopyOf(j, p, q) /\ HasFile(tree, q) /\ tree[q] = s.to /\ data[s.to] = <<>>

\* The copy of p is complete, and no step that is left touches it.
Copied(c, p) == \E q :
  /\ CopyOf(job[c], p, q) /\ HasFile(tree, q) /\ data[tree[q]] = Content(job[c], p)
  /\ \A i \in 1..Len(todo[c]) : \A y : Target(c, todo[c][i], y) => Across(y, q)

\* What stands where only c writes.
CopyNodes(c) == \A q \in Paths : IsPrefix(job[c].to, q) =>
  /\ HasFile(tree, q) => tree[q] \in Nodes(c, q)
  /\ \A n \in Nodes(c, q) : Only(tree, n, q) /\ \A k \in Calls \ {c} : Apart(todo[k], n)

\* The steps of a copy, no two of which make the same.
CopySteps(c, steps) ==
  /\ \A i \in 1..Len(steps) :
       /\ steps[i].do \in Makers \cup {"data", "write", "check"}
       /\ (steps[i].do \in Makers => IsPrefix(job[c].to, steps[i].to))
       /\ (steps[i].do \in {"template", "fsdir", "folder", "writefile", "write"}
             <=> job[c].op = "CopyTpl")
  /\ \A i, h \in 1..Len(steps) : i # h => \A y, z :
       Target(c, steps[i], y) /\ Target(c, steps[h], z) => Across(y, z)

CopyAt(c) ==
  /\ CopyNodes(c) /\ CopySteps(c, todo[c])
  /\ \A p \in Sources(job[c]) :
       Copied(c, p) \/ \E i \in 1..Len(todo[c]) : Copying(job[c], todo[c][i], p)

CopyInv == \A c \in Calls : Own3(c) => CopyAt(c)

=============================================================================
