----------------------------- MODULE FileSystem -----------------------------
(***************************************************************************)
(* What filex and pathx use of package os: a tree t is a function whose    *)
(* domain are the paths that exist, sequences of names behind a directory  *)
(* <<>> that always exists.  t[p] is Dir, or the node that holds the data  *)
(* of a file.  External: only the outcomes that the callers can tell apart *)
(* are modelled; permissions and symbolic links are left out.              *)
(***************************************************************************)
EXTENDS Integers, Sequences, SequencesExt, FiniteSets, Functions

CONSTANTS Dir,        \* what a directory holds; no node is Dir
          MaxDepth,   \* names in the longest path the system takes
          Order       \* the names there are, in the order of ReadDir

ASSUME OrderAssumption ==
  /\ Order \in Seq(Range(Order)) /\ MaxDepth \in Nat
  /\ \A i, j \in 1..Len(Order) : Order[i] = Order[j] => i = j

Names == Range(Order)
Paths == Seq(Names)

HasDir(t, p) == p \in DOMAIN t /\ t[p] = Dir
HasFile(t, p) == p \in DOMAIN t /\ t[p] # Dir
Files(t) == {p \in DOMAIN t : t[p] # Dir}
Under(t, p) == {q \in DOMAIN t : IsPrefix(p, q)}

\* The names in a directory: the k-th one has k - 1 others before it.
ReadDir(t, p) ==
  LET here == {i \in 1..Len(Order) : Append(p, Order[i]) \in DOMAIN t} IN
  [k \in 1..Cardinality(here) |->
     Order[CHOOSE i \in here : Cardinality({h \in here : h < i}) = k - 1]]

\* A directory and all above it are made, unless a file is in the way.
CanMkdirAll(t, p) ==
  Len(p) <= MaxDepth /\ \A i \in 1..Len(p) : ~HasFile(t, SubSeq(p, 1, i))

MkdirAll(t, p) ==
  [q \in DOMAIN t \cup {SubSeq(p, 1, i) : i \in 1..Len(p)} |->
     IF q \in DOMAIN t THEN t[q] ELSE Dir]

CanCreate(t, p) == Len(p) <= MaxDepth /\ HasDir(t, Front(p)) /\ ~HasDir(t, p)

\* The file p has the given node; the tree has no other place for it.
Place(t, p, n) == [q \in DOMAIN t \cup {p} |-> IF q = p THEN n ELSE t[q]]

RemoveAll(t, p) == Restrict(t, DOMAIN t \ Under(t, p))

\* A file may be renamed to a path that is free or a file, which is replaced,
\* and a directory to a path that is free and not below itself.
CanRename(t, p, q) ==
  /\ p \in DOMAIN t /\ HasDir(t, Front(q)) /\ ~HasDir(t, q)
  /\ t[p] = Dir => q \notin DOMAIN t /\ ~IsPrefix(p, q)

Rename(t, p, q) ==
  LET Old(r) == IF IsPrefix(q, r) THEN p \o SubSeq(r, Len(q) + 1, Len(r)) ELSE r IN
  IF p = q THEN t
  ELSE [r \in (DOMAIN t \ Under(t, p))
              \cup {q \o SubSeq(s, Len(p) + 1, Len(s)) : s \in Under(t, p)} |->
          t[Old(r)]]

=============================================================================
