----------------------------- MODULE FilesProof -----------------------------
(***************************************************************************)
(* Modules Trees and Edits are correct for every number of calls, every    *)
(* choice of jobs, every tree, template and texts, and every step failing: *)
(* the proofs of TreesTypeOK, AppendsKept, EditsCommit, RenamedOnce and    *)
(* CopyComplete.                                                           *)
(*                                                                         *)
(* A step of a call is told apart by what it may change (Changes) and by   *)
(* what it leaves to do (NewSteps): the calls that a property is not about *)
(* are done with in one lemma each (AppendOther, OtherStep,                *)
(* RenameOther, GroundOther, CopyOther).                                   *)
(***************************************************************************)
EXTENDS EditsInvariants, SequenceTheorems, FiniteSetTheorems, WellFoundedInduction, TLAPS

-----------------------------------------------------------------------------
(* Paths *)

\* The library's facts about sequences, for paths.
LEMMA PathLen ==
  ASSUME NEW p \in Paths
  PROVE  /\ Len(p) \in Nat /\ DOMAIN p = 1..Len(p) /\ \A i \in 1..Len(p) : p[i] \in Names
BY LenProperties DEF Paths

\* Paths of the same length with the same names are the same.
LEMMA PathEqual ==
  ASSUME NEW p \in Paths, NEW q \in Paths, Len(p) = Len(q),
         \A i \in 1..Len(p) : p[i] = q[i]
  PROVE  p = q
BY SeqEqual DEF Paths

\* The root, above all that pathx and filex are given, is a path.
LEMMA RootPath == <<>> \in Paths /\ Len(<<>>) = 0
BY EmptySeq DEF Paths

\* It is the path without names.
LEMMA NotRoot ==
  ASSUME NEW p \in Paths
  PROVE  p # <<>> <=> Len(p) > 0
BY EmptySeq DEF Paths

\* The names that a path begins with are a path.
LEMMA CutPath ==
  ASSUME NEW p \in Paths, NEW m \in Nat, m <= Len(p)
  PROVE  /\ SubSeq(p, 1, m) \in Paths /\ Len(SubSeq(p, 1, m)) = m
         /\ \A i \in 1..m : SubSeq(p, 1, m)[i] = p[i]
<1>1. \A i \in 1..m : p[i] \in Names
  BY PathLen
<1>2. /\ SubSeq(p, 1, m) \in Seq(Names)
      /\ Len(SubSeq(p, 1, m)) = IF 1 <= m THEN m - 1 + 1 ELSE 0
      /\ \A i \in 1..m - 1 + 1 : SubSeq(p, 1, m)[i] = p[1 + i - 1]
  BY <1>1, SubSeqProperties
<1> QED BY <1>2 DEF Paths

\* What it means that a path begins with another one, name by name.
LEMMA PrefixIs ==
  ASSUME NEW p \in Paths, NEW q \in Paths
  PROVE  IsPrefix(p, q) <=> (Len(p) <= Len(q) /\ \A i \in 1..Len(p) : p[i] = q[i])
<1>1. Len(p) \in Nat /\ Len(q) \in Nat
  BY PathLen
<1>2. CASE Len(p) <= Len(q)
  <2>1. /\ SubSeq(p, 1, Len(p)) = p
        /\ SubSeq(q, 1, Len(p)) \in Paths /\ Len(SubSeq(q, 1, Len(p))) = Len(p)
        /\ \A i \in 1..Len(p) : SubSeq(q, 1, Len(p))[i] = q[i]
    BY <1>1, <1>2, CutPath, SubSeqFull DEF Paths
  <2>2. (\A i \in 1..Len(p) : p[i] = q[i]) => p = SubSeq(q, 1, Len(p))
    BY <2>1, PathEqual
  <2> QED BY <1>2, <2>1, <2>2 DEF IsPrefix
<1>3. CASE ~(Len(p) <= Len(q))
  BY <1>3 DEF IsPrefix
<1> QED BY <1>2, <1>3

\* What is above a path is one of its beginnings.
LEMMA PrefixCut ==
  ASSUME NEW p \in Paths, NEW q \in Paths, IsPrefix(p, q)
  PROVE  /\ Len(p) \in 0..Len(q) /\ p = SubSeq(q, 1, Len(p))
         /\ (p # q <=> Len(p) < Len(q))
<1>1. Len(p) \in Nat /\ Len(q) \in Nat /\ Len(p) <= Len(q) /\ \A i \in 1..Len(p) : p[i] = q[i]
  BY PathLen, PrefixIs
<1>2. p = SubSeq(q, 1, Len(p))
  <2>1. /\ SubSeq(q, 1, Len(p)) \in Paths /\ Len(SubSeq(q, 1, Len(p))) = Len(p)
        /\ \A i \in 1..Len(p) : SubSeq(q, 1, Len(p))[i] = q[i]
    BY <1>1, CutPath
  <2> QED BY <1>1, <2>1, PathEqual
<1>3. Len(p) = Len(q) => p = q
  BY <1>1, PathEqual
<1> QED BY <1>1, <1>2, <1>3

\* The names that a path begins with are above it.
LEMMA CutPrefix ==
  ASSUME NEW p \in Paths, NEW m \in Nat, m <= Len(p)
  PROVE  IsPrefix(SubSeq(p, 1, m), p)
<1>1. /\ SubSeq(p, 1, m) \in Paths /\ Len(SubSeq(p, 1, m)) = m
      /\ \A i \in 1..m : SubSeq(p, 1, m)[i] = p[i]
  BY CutPath
<1>2. Len(p) \in Nat
  BY PathLen
<1> QED BY <1>1, <1>2, PrefixIs

\* To be at or below a path is an order, and the paths at or above one path
\* are a chain.
LEMMA PrefixOrder ==
  ASSUME NEW p \in Paths, NEW q \in Paths, NEW r \in Paths
  PROVE  /\ IsPrefix(p, p)
         /\ IsPrefix(p, q) /\ IsPrefix(q, r) => IsPrefix(p, r)
         /\ IsPrefix(p, q) /\ IsPrefix(q, p) => p = q
         /\ IsPrefix(p, r) /\ IsPrefix(q, r) => IsPrefix(p, q) \/ IsPrefix(q, p)
         /\ IsPrefix(<<>>, p)
<1>1. Len(p) \in Nat /\ Len(q) \in Nat /\ Len(r) \in Nat
  BY PathLen
<1>2. IsPrefix(p, p)
  BY <1>1, PrefixIs
<1>3. IsPrefix(p, q) /\ IsPrefix(q, r) => IsPrefix(p, r)
  BY <1>1, PrefixIs
<1>4. IsPrefix(p, q) /\ IsPrefix(q, p) => p = q
  BY <1>1, PrefixIs, PathEqual
<1>5. ASSUME IsPrefix(p, r), IsPrefix(q, r)
      PROVE  IsPrefix(p, q) \/ IsPrefix(q, p)
  <2>1. CASE Len(p) <= Len(q)
    BY <1>1, <1>5, <2>1, PrefixIs
  <2>2. CASE Len(q) <= Len(p)
    BY <1>1, <1>5, <2>2, PrefixIs
  <2> QED BY <1>1, <2>1, <2>2
<1>6. IsPrefix(<<>>, p)
  BY <1>1, PrefixIs, RootPath
<1> QED BY <1>2, <1>3, <1>4, <1>5, <1>6

\* The directory of a path: all that is above the path, and is not the path.
LEMMA FrontPath ==
  ASSUME NEW p \in Paths
  PROVE  /\ Front(p) \in Paths /\ IsPrefix(Front(p), p)
         /\ p # <<>> => /\ Len(Front(p)) = Len(p) - 1 /\ Front(p) # p
                        /\ Last(p) \in Names /\ p = Append(Front(p), Last(p))
         /\ \A q \in Paths : IsPrefix(q, p) /\ q # p => IsPrefix(q, Front(p))
<1>1. Len(p) \in Nat
  BY PathLen
<1>2. CASE p = <<>>
  <2>1. SubSeq(p, 1, Len(p) - 1) = <<>>
    BY <1>2, RootPath, SubSeqEmpty
  <2>2. \A q \in Paths : IsPrefix(q, p) => q = p
    BY <1>2, PrefixOrder
  <2> QED BY <1>2, <2>1, <2>2, RootPath, PrefixOrder DEF Front
<1>3. CASE p # <<>>
  <2>1. Len(p) - 1 \in Nat /\ Len(p) - 1 <= Len(p)
    BY <1>1, <1>3, NotRoot
  <2>2. /\ Front(p) \in Paths /\ IsPrefix(Front(p), p) /\ Len(Front(p)) = Len(p) - 1
        /\ \A i \in 1..Len(p) - 1 : Front(p)[i] = p[i]
    BY <2>1, CutPath, CutPrefix DEF Front
  <2>3. Front(p) # p
    BY <1>1, <2>2
  <2>4. Last(p) \in Names
    BY <2>1, PathLen DEF Last
  <2>5. p = Append(Front(p), Last(p))
    <3>1. /\ Append(Front(p), Last(p)) \in Paths
          /\ Len(Append(Front(p), Last(p))) = Len(p)
          /\ \A i \in 1..Len(p) - 1 : Append(Front(p), Last(p))[i] = p[i]
          /\ Append(Front(p), Last(p))[Len(p)] = p[Len(p)]
      BY <1>1, <2>2, <2>4, AppendProperties DEF Paths, Last
    <3>2. \A i \in 1..Len(p) : Append(Front(p), Last(p))[i] = p[i]
      BY <1>1, <3>1
    <3> QED BY <3>1, <3>2, PathEqual
  <2>6. ASSUME NEW q \in Paths, IsPrefix(q, p), q # p
        PROVE  IsPrefix(q, Front(p))
    <3>1. Len(q) < Len(p) /\ Len(q) \in Nat
      BY <2>6, PrefixCut, PathLen
    <3>2. \A i \in 1..Len(q) : q[i] = p[i]
      BY <2>6, PrefixIs
    <3> QED BY <1>1, <2>2, <3>1, <3>2, PrefixIs
  <2> QED BY <2>2, <2>3, <2>4, <2>5, <2>6
<1> QED BY <1>2, <1>3

\* The path of an entry, as filepath.Join makes it in every loop over a
\* directory: it is right below the directory.
LEMMA EntryPath ==
  ASSUME NEW p \in Paths, NEW n \in Names
  PROVE  /\ Append(p, n) \in Paths /\ Append(p, n) # <<>> /\ Len(Append(p, n)) = Len(p) + 1
         /\ Front(Append(p, n)) = p /\ Last(Append(p, n)) = n
         /\ IsPrefix(p, Append(p, n)) /\ ~IsPrefix(Append(p, n), p)
         /\ \A q \in Paths : IsPrefix(q, Append(p, n)) => q = Append(p, n) \/ IsPrefix(q, p)
<1> DEFINE e == Append(p, n)
<1>1. /\ e \in Paths /\ e # <<>> /\ Len(e) = Len(p) + 1 /\ e[Len(p) + 1] = n
      /\ \A i \in 1..Len(p) : e[i] = p[i]
  BY AppendProperties DEF Paths
<1>2. Len(p) \in Nat
  BY PathLen
<1> HIDE DEF e
<1>3. /\ Front(e) \in Paths /\ Len(Front(e)) = Len(p)
      /\ \A i \in 1..Len(p) : Front(e)[i] = p[i]
  BY <1>1, <1>2, CutPath DEF Front
<1>4. Front(e) = p
  BY <1>3, PathEqual
<1>5. Last(e) = n
  BY <1>1 DEF Last
<1>6. IsPrefix(p, e) /\ ~IsPrefix(e, p)
  BY <1>1, <1>2, PrefixIs
<1>7. \A q \in Paths : IsPrefix(q, e) => q = e \/ IsPrefix(q, p)
  BY <1>1, <1>4, FrontPath
<1> QED BY <1>1, <1>4, <1>5, <1>6, <1>7 DEF e

\* The path of what is renamed: the new path, and behind it the names that were
\* behind the old one.
LEMMA ShiftPath ==
  ASSUME NEW p \in Paths, NEW q \in Paths, NEW r \in Paths, IsPrefix(p, r)
  PROVE  /\ Shift(p, q, r) \in Paths /\ Len(Shift(p, q, r)) = Len(q) + Len(r) - Len(p)
         /\ \A i \in 1..Len(q) : Shift(p, q, r)[i] = q[i]
         /\ \A i \in Len(q) + 1..Len(q) + Len(r) - Len(p) :
              Shift(p, q, r)[i] = r[i - Len(q) + Len(p)]
<1> DEFINE s == SubSeq(r, Len(p) + 1, Len(r))
<1>1. Len(p) \in Nat /\ Len(q) \in Nat /\ Len(r) \in Nat /\ Len(p) <= Len(r)
  BY PathLen, PrefixIs
<1>2. \A i \in Len(p) + 1..Len(r) : r[i] \in Names
  BY <1>1, PathLen
<1>3. /\ s \in Seq(Names)
      /\ Len(s) = IF Len(p) + 1 <= Len(r) THEN Len(r) - (Len(p) + 1) + 1 ELSE 0
      /\ \A i \in 1..Len(r) - (Len(p) + 1) + 1 : s[i] = r[Len(p) + 1 + i - 1]
  BY <1>1, <1>2, SubSeqProperties
<1>4. Len(s) = Len(r) - Len(p) /\ \A i \in 1..Len(s) : s[i] = r[Len(p) + i]
  BY <1>1, <1>3
<1> HIDE DEF s
<1>5. /\ q \o s \in Seq(Names) /\ Len(q \o s) = Len(q) + Len(s)
      /\ \A i \in 1..Len(q) + Len(s) : (q \o s)[i] = IF i <= Len(q) THEN q[i] ELSE s[i - Len(q)]
  BY <1>3, ConcatProperties DEF Paths
<1>6. q \o s \in Paths /\ Len(q \o s) = Len(q) + Len(r) - Len(p)
  BY <1>1, <1>4, <1>5 DEF Paths
<1>7. \A i \in 1..Len(q) : (q \o s)[i] = q[i]
  BY <1>1, <1>4, <1>5
<1>8. ASSUME NEW i \in Len(q) + 1..Len(q) + Len(r) - Len(p)
      PROVE  (q \o s)[i] = r[i - Len(q) + Len(p)]
  <2>1. i \in 1..Len(q) + Len(s) /\ ~(i <= Len(q)) /\ i - Len(q) \in 1..Len(s)
    BY <1>1, <1>4
  <2>2. (q \o s)[i] = s[i - Len(q)] /\ s[i - Len(q)] = r[Len(p) + (i - Len(q))]
    BY <1>4, <1>5, <2>1
  <2>3. Len(p) + (i - Len(q)) = i - Len(q) + Len(p)
    BY <1>1
  <2> QED BY <2>2, <2>3
<1> QED BY <1>6, <1>7, <1>8 DEF Shift, s

\* It is below the new path, and renaming it back gives the old path.
LEMMA ShiftBack ==
  ASSUME NEW p \in Paths, NEW q \in Paths, NEW r \in Paths, IsPrefix(p, r)
  PROVE  /\ IsPrefix(q, Shift(p, q, r)) /\ Shift(q, p, Shift(p, q, r)) = r
         /\ (r = p <=> Shift(p, q, r) = q)
<1> DEFINE s == Shift(p, q, r)
<1>1. /\ Len(p) \in Nat /\ Len(q) \in Nat /\ Len(r) \in Nat /\ Len(p) <= Len(r)
      /\ \A i \in 1..Len(p) : p[i] = r[i]
  BY PathLen, PrefixIs
<1>2. /\ s \in Paths /\ Len(s) = Len(q) + Len(r) - Len(p)
      /\ \A i \in 1..Len(q) : s[i] = q[i]
      /\ \A i \in Len(q) + 1..Len(q) + Len(r) - Len(p) : s[i] = r[i - Len(q) + Len(p)]
  BY ShiftPath
<1> HIDE DEF s
<1>3. IsPrefix(q, s)
  BY <1>1, <1>2, PrefixIs
<1> DEFINE u == Shift(q, p, s)
<1>4. /\ u \in Paths /\ Len(u) = Len(p) + Len(s) - Len(q)
      /\ \A i \in 1..Len(p) : u[i] = p[i]
      /\ \A i \in Len(p) + 1..Len(p) + Len(s) - Len(q) : u[i] = s[i - Len(p) + Len(q)]
  BY <1>2, <1>3, ShiftPath
<1> HIDE DEF u
<1>5. Len(u) = Len(r)
  BY <1>1, <1>2, <1>4
<1>6. ASSUME NEW i \in 1..Len(u) PROVE u[i] = r[i]
  <2>1. CASE i <= Len(p)
    BY <1>1, <1>4, <2>1
  <2>2. CASE i > Len(p)
    <3>1. /\ i \in Len(p) + 1..Len(p) + Len(s) - Len(q)
          /\ i - Len(p) + Len(q) \in Len(q) + 1..Len(q) + Len(r) - Len(p)
          /\ i - Len(p) + Len(q) - Len(q) + Len(p) = i
      BY <1>1, <1>2, <1>5, <2>2
    <3> QED BY <1>2, <1>4, <3>1
  <2> QED BY <1>1, <1>5, <2>1, <2>2
<1>7. u = r
  BY <1>4, <1>5, <1>6, PathEqual
<1>8. r = p <=> s = q
  <2>1. r = p <=> Len(r) = Len(p)
    BY PrefixCut, <1>1
  <2>2. s = q <=> Len(s) = Len(q)
    <3>1. q # s <=> Len(q) < Len(s)
      BY <1>2, <1>3, PrefixCut
    <3>2. Len(s) \in Nat /\ Len(q) <= Len(s)
      BY <1>1, <1>2
    <3> QED BY <1>1, <3>1, <3>2
  <2> QED BY <1>1, <1>2, <2>1, <2>2
<1> QED BY <1>3, <1>7, <1>8 DEF s, u

\* What is above a path is shifted with it.
LEMMA ShiftCut ==
  ASSUME NEW p \in Paths, NEW q \in Paths, NEW r \in Paths, IsPrefix(p, r),
         NEW m \in Nat, Len(q) <= m, m <= Len(Shift(p, q, r))
  PROVE  /\ m - Len(q) + Len(p) \in Len(p)..Len(r)
         /\ IsPrefix(p, SubSeq(r, 1, m - Len(q) + Len(p)))
         /\ SubSeq(Shift(p, q, r), 1, m) = Shift(p, q, SubSeq(r, 1, m - Len(q) + Len(p)))
<1> DEFINE s == Shift(p, q, r)
           k == m - Len(q) + Len(p)
           c == SubSeq(r, 1, k)
<1>1. /\ Len(p) \in Nat /\ Len(q) \in Nat /\ Len(r) \in Nat /\ Len(p) <= Len(r)
      /\ \A i \in 1..Len(p) : p[i] = r[i]
  BY PathLen, PrefixIs
<1>2. /\ s \in Paths /\ Len(s) = Len(q) + Len(r) - Len(p)
      /\ \A i \in 1..Len(q) : s[i] = q[i]
      /\ \A i \in Len(q) + 1..Len(q) + Len(r) - Len(p) : s[i] = r[i - Len(q) + Len(p)]
  BY ShiftPath
<1>3. m <= Len(s)
  OBVIOUS
<1> HIDE DEF s
<1>4. k \in Len(p)..Len(r) /\ k \in Nat /\ k <= Len(r)
  BY <1>1, <1>2, <1>3
<1>5. c \in Paths /\ Len(c) = k /\ \A i \in 1..k : c[i] = r[i]
  BY <1>4, CutPath
<1>6. SubSeq(s, 1, m) \in Paths /\ Len(SubSeq(s, 1, m)) = m /\ \A i \in 1..m : SubSeq(s, 1, m)[i] = s[i]
  BY <1>2, <1>3, CutPath
<1> HIDE DEF c
<1>7. IsPrefix(p, c)
  BY <1>1, <1>4, <1>5, PrefixIs
<1> DEFINE u == Shift(p, q, c)
<1>8. /\ u \in Paths /\ Len(u) = Len(q) + Len(c) - Len(p)
      /\ \A i \in 1..Len(q) : u[i] = q[i]
      /\ \A i \in Len(q) + 1..Len(q) + Len(c) - Len(p) : u[i] = c[i - Len(q) + Len(p)]
  BY <1>5, <1>7, ShiftPath
<1> HIDE DEF u
<1>9. Len(u) = m
  BY <1>1, <1>4, <1>5, <1>8
<1>10. ASSUME NEW i \in 1..m PROVE u[i] = s[i]
  <2>1. CASE i <= Len(q)
    BY <1>1, <1>2, <1>8, <2>1
  <2>2. CASE i > Len(q)
    <3>1. /\ i \in Len(q) + 1..Len(q) + Len(c) - Len(p)
          /\ i \in Len(q) + 1..Len(q) + Len(r) - Len(p)
          /\ i - Len(q) + Len(p) \in 1..k
      BY <1>1, <1>2, <1>3, <1>5, <2>2
    <3>2. u[i] = c[i - Len(q) + Len(p)] /\ s[i] = r[i - Len(q) + Len(p)]
      BY <1>2, <1>8, <3>1
    <3>3. c[i - Len(q) + Len(p)] = r[i - Len(q) + Len(p)]
      BY <1>5, <3>1
    <3> QED BY <3>2, <3>3
  <2> QED BY <1>1, <2>1, <2>2
<1>11. u = SubSeq(s, 1, m)
  BY <1>6, <1>8, <1>9, <1>10, PathEqual
<1> QED BY <1>4, <1>7, <1>11 DEF s, c, u

-----------------------------------------------------------------------------
(* Trees *)

\* In a rooted tree every path above another one is a directory.
LEMMA RootedAbove ==
  ASSUME NEW t, Rooted(t), NEW p \in DOMAIN t, NEW q \in Paths, IsPrefix(q, p)
  PROVE  q \in DOMAIN t /\ (q # p => t[q] = Dir)
<1>1. p \in Paths
  BY DEF Rooted
<1>2. CASE q = p
  BY <1>2
<1>3. CASE q # p
  <2>1. Len(q) \in 0..Len(p) - 1 /\ q = SubSeq(p, 1, Len(q))
    BY <1>1, <1>3, PrefixCut, PathLen
  <2>2. HasDir(t, SubSeq(p, 1, Len(q)))
    BY <2>1 DEF Rooted
  <2> QED BY <2>1, <2>2 DEF HasDir
<1> QED BY <1>2, <1>3

\* That every directory above is there is what makes a tree rooted.
LEMMA RootedIf ==
  ASSUME NEW t, DOMAIN t \subseteq Paths, HasDir(t, <<>>),
         \A p \in DOMAIN t : \A q \in Paths : IsPrefix(q, p) /\ q # p => HasDir(t, q)
  PROVE  Rooted(t)
<1>1. ASSUME NEW p \in DOMAIN t, NEW i \in 0..Len(p) - 1
      PROVE  HasDir(t, SubSeq(p, 1, i))
  <2>1. p \in Paths /\ i \in Nat /\ i <= Len(p) /\ i # Len(p)
    BY PathLen
  <2>2. /\ SubSeq(p, 1, i) \in Paths /\ Len(SubSeq(p, 1, i)) = i
        /\ IsPrefix(SubSeq(p, 1, i), p)
    BY <2>1, CutPath, CutPrefix
  <2>3. SubSeq(p, 1, i) # p
    BY <2>1, <2>2
  <2> QED BY <2>2, <2>3
<1> QED BY <1>1 DEF Rooted

\* How the operators change a tree t to u.
Grown(t, u, p) ==
  /\ DOMAIN t \subseteq DOMAIN u /\ HasDir(u, p)
  /\ \A q \in DOMAIN t : u[q] = t[q]
  /\ \A q \in DOMAIN u \ DOMAIN t : u[q] = Dir /\ IsPrefix(q, p)

With(t, u, p, n) ==
  /\ DOMAIN u = DOMAIN t \cup {p} /\ u[p] = n /\ p # <<>>
  /\ \A q \in DOMAIN t \ {p} : u[q] = t[q]

Without(t, u, p) ==
  /\ DOMAIN u = {q \in DOMAIN t : ~IsPrefix(p, q)}
  /\ \A q \in DOMAIN u : u[q] = t[q]

\* What is renamed is where it was before below the new path, with the new path
\* for the old one; the file that was there is gone.
Renamed(t, u, p, q) ==
  LET Stay == {r \in DOMAIN t : ~IsPrefix(p, r) /\ r # q} IN
  /\ p # <<>> /\ q # <<>> /\ ~IsPrefix(p, q)
  /\ DOMAIN u = Stay \cup {Shift(p, q, s) : s \in Under(t, p)}
  /\ \A r \in Stay : u[r] = t[r] /\ ~IsPrefix(q, r)
  /\ \A s \in Under(t, p) : u[Shift(p, q, s)] = t[s]

\* os.MkdirAll leaves every file, and every directory above what it makes, there.
LEMMA MkdirAllTree ==
  ASSUME NEW t, Rooted(t), NEW p \in Paths, CanMkdirAll(t, p)
  PROVE  Rooted(MkdirAll(t, p)) /\ Grown(t, MkdirAll(t, p), p)
<1> DEFINE u == MkdirAll(t, p)
           A == {SubSeq(p, 1, i) : i \in 1..Len(p)}
<1>1. Len(p) \in Nat
  BY PathLen
<1>2. /\ DOMAIN u = DOMAIN t \cup A /\ \A q \in DOMAIN t : u[q] = t[q]
      /\ \A q \in A \ DOMAIN t : u[q] = Dir
  BY DEF MkdirAll
<1>3. \A q \in A : q \in Paths /\ IsPrefix(q, p) /\ ~HasFile(t, q)
  <2> SUFFICES ASSUME NEW i \in 1..Len(p)
               PROVE  LET q == SubSeq(p, 1, i) IN q \in Paths /\ IsPrefix(q, p) /\ ~HasFile(t, q)
    OBVIOUS
  <2>1. i \in Nat /\ i <= Len(p)
    BY <1>1
  <2> QED BY <2>1, CutPath, CutPrefix DEF CanMkdirAll
<1>4. \A q \in Paths : IsPrefix(q, p) => q = <<>> \/ q \in A
  <2> SUFFICES ASSUME NEW q \in Paths, IsPrefix(q, p), q # <<>> PROVE q \in A OBVIOUS
  <2>1. Len(q) \in 0..Len(p) /\ q = SubSeq(p, 1, Len(q)) /\ Len(q) > 0
    BY PrefixCut, NotRoot
  <2>2. Len(q) \in 1..Len(p)
    BY <1>1, <2>1
  <2> DEFINE i == Len(q)
  <2>3. i \in 1..Len(p) /\ q = SubSeq(p, 1, i)
    BY <2>1, <2>2
  <2> HIDE DEF i
  <2> QED BY <2>3
<1> HIDE DEF A, u
<1>5. DOMAIN t \subseteq Paths /\ <<>> \in DOMAIN t /\ t[<<>>] = Dir
  BY DEF Rooted, HasDir
<1>6. \A q \in A : HasDir(u, q)
  BY <1>2, <1>3 DEF HasDir, HasFile
<1>7. \A q \in Paths : IsPrefix(q, p) => HasDir(u, q)
  BY <1>2, <1>4, <1>5, <1>6 DEF HasDir
<1>8. ASSUME NEW r \in DOMAIN u, NEW q \in Paths, IsPrefix(q, r), q # r PROVE HasDir(u, q)
  <2>1. CASE r \in DOMAIN t
    <3>1. q \in DOMAIN t /\ t[q] = Dir
      BY <1>8, <2>1, RootedAbove
    <3> QED BY <1>2, <3>1 DEF HasDir
  <2>2. CASE r \in A
    <3>1. IsPrefix(q, p)
      BY <1>3, <1>8, <2>2, PrefixOrder
    <3> QED BY <1>7, <3>1
  <2> QED BY <1>2, <2>1, <2>2
<1>9. DOMAIN u \subseteq Paths /\ HasDir(u, <<>>)
  BY <1>2, <1>3, <1>5 DEF HasDir
<1>10. Rooted(u)
  BY <1>8, <1>9, RootedIf
<1>11. HasDir(u, p)
  BY <1>7, PrefixOrder
<1> QED BY <1>2, <1>3, <1>10, <1>11 DEF Grown, u

\* So does os.Create: all but the one path is as it was.
LEMMA PlaceTree ==
  ASSUME NEW t, Rooted(t), NEW p \in Paths, CanCreate(t, p), NEW n, n # Dir
  PROVE  Rooted(Place(t, p, n)) /\ With(t, Place(t, p, n), p, n)
<1> DEFINE u == Place(t, p, n)
<1>1. /\ DOMAIN u = DOMAIN t \cup {p} /\ u[p] = n
      /\ \A q \in DOMAIN t \ {p} : u[q] = t[q]
  BY DEF Place
<1> HIDE DEF u
<1>2. DOMAIN t \subseteq Paths /\ <<>> \in DOMAIN t /\ t[<<>>] = Dir
  BY DEF Rooted, HasDir
<1>3. p # <<>> /\ HasDir(t, Front(p)) /\ ~HasDir(t, p)
  BY <1>2 DEF CanCreate, HasDir
<1>4. ASSUME NEW r \in DOMAIN u, NEW q \in Paths, IsPrefix(q, r), q # r PROVE HasDir(u, q)
  <2>1. CASE r \in DOMAIN t
    <3>1. q \in DOMAIN t /\ t[q] = Dir
      BY <1>4, <2>1, RootedAbove
    <3>2. q # p
      BY <1>3, <3>1 DEF HasDir
    <3> QED BY <1>1, <3>1, <3>2 DEF HasDir
  <2>2. CASE r = p
    <3>1. Front(p) \in Paths /\ IsPrefix(q, Front(p)) /\ Front(p) \in DOMAIN t /\ Front(p) # p
      BY <1>3, <1>4, <2>2, FrontPath DEF HasDir
    <3>2. q \in DOMAIN t /\ t[q] = Dir
      BY <1>3, <3>1, RootedAbove DEF HasDir
    <3> QED BY <1>1, <1>3, <3>2 DEF HasDir
  <2> QED BY <1>1, <2>1, <2>2
<1>5. DOMAIN u \subseteq Paths /\ HasDir(u, <<>>)
  BY <1>1, <1>2, <1>3 DEF HasDir
<1>6. Rooted(u)
  BY <1>4, <1>5, RootedIf
<1> QED BY <1>1, <1>3, <1>6 DEF With, u

\* os.RemoveAll takes away all at and below a path, and nothing else.
LEMMA RemoveAllTree ==
  ASSUME NEW t, Rooted(t), NEW p \in Paths, p # <<>>
  PROVE  Rooted(RemoveAll(t, p)) /\ Without(t, RemoveAll(t, p), p)
<1> DEFINE u == RemoveAll(t, p)
<1>1. DOMAIN u = {q \in DOMAIN t : ~IsPrefix(p, q)} /\ \A q \in DOMAIN u : u[q] = t[q]
  BY DEF RemoveAll, Restrict, Under
<1> HIDE DEF u
<1>2. DOMAIN t \subseteq Paths /\ <<>> \in DOMAIN t /\ t[<<>>] = Dir
  BY DEF Rooted, HasDir
<1>3. ~IsPrefix(p, <<>>)
  BY PrefixOrder, RootPath
<1>4. ASSUME NEW r \in DOMAIN u, NEW q \in Paths, IsPrefix(q, r), q # r PROVE HasDir(u, q)
  <2>1. r \in DOMAIN t /\ r \in Paths /\ ~IsPrefix(p, r)
    BY <1>1, <1>2
  <2>2. q \in DOMAIN t /\ t[q] = Dir
    BY <1>4, <2>1, RootedAbove
  <2>3. ~IsPrefix(p, q)
    BY <1>4, <2>1, PrefixOrder
  <2> QED BY <1>1, <2>2, <2>3 DEF HasDir
<1>5. DOMAIN u \subseteq Paths /\ HasDir(u, <<>>)
  BY <1>1, <1>2, <1>3 DEF HasDir
<1>6. Rooted(u)
  BY <1>4, <1>5, RootedIf
<1> QED BY <1>1, <1>6 DEF Without, u

\* os.Rename takes all at and below a path to the new one, and nothing else.
LEMMA RenameTree ==
  ASSUME NEW t, Rooted(t), NEW p \in Paths, NEW q \in Paths, p # q, CanRename(t, p, q)
  PROVE  Rooted(Rename(t, p, q)) /\ Renamed(t, Rename(t, p, q), p, q)
<1> DEFINE u == Rename(t, p, q)
           Stay == {r \in DOMAIN t : ~IsPrefix(p, r) /\ r # q}
           New == {Shift(p, q, s) : s \in Under(t, p)}
           Old(r) == IF IsPrefix(q, r) THEN Shift(q, p, r) ELSE r
<1>1. /\ DOMAIN t \subseteq Paths /\ <<>> \in DOMAIN t /\ t[<<>>] = Dir
      /\ p \in DOMAIN t /\ HasDir(t, Front(q)) /\ ~HasDir(t, q)
      /\ t[p] = Dir => q \notin DOMAIN t /\ ~IsPrefix(p, q)
  BY DEF Rooted, HasDir, CanRename
<1>2. u = [r \in (DOMAIN t \ Under(t, p)) \cup New |-> t[Old(r)]]
  BY DEF Rename, Shift
<1>3. \A s \in Under(t, p) : s \in DOMAIN t /\ s \in Paths /\ IsPrefix(p, s)
  BY <1>1 DEF Under
<1>4. q # <<>> /\ Front(q) \in DOMAIN t /\ t[Front(q)] = Dir /\ Front(q) \in Paths
  BY <1>1, FrontPath DEF HasDir
<1>5. ~IsPrefix(p, q)
  <2>1. ASSUME IsPrefix(p, q), t[p] # Dir PROVE FALSE
    <3>1. IsPrefix(p, Front(q))
      BY <2>1, FrontPath
    <3>2. p = Front(q) \/ t[p] = Dir
      BY <1>4, <3>1, RootedAbove
    <3> QED BY <1>4, <2>1, <3>2
  <2> QED BY <1>1, <2>1
<1>6. p # <<>>
  BY <1>5, PrefixOrder
<1>7. \A r \in DOMAIN t : IsPrefix(q, r) => r = q
  BY <1>1, RootedAbove DEF HasDir
<1>8. \A s \in Under(t, p) : /\ Shift(p, q, s) \in Paths /\ IsPrefix(q, Shift(p, q, s))
                             /\ Shift(q, p, Shift(p, q, s)) = s
  BY <1>3, ShiftPath, ShiftBack
<1>9. ~IsPrefix(p, q) /\ q \in New
  <2>1. p \in Under(t, p) /\ Shift(p, q, p) = q
    BY <1>1, PrefixOrder, ShiftBack DEF Under
  <2> QED BY <1>5, <2>1
<1>10. DOMAIN u = Stay \cup New
  <2>1. DOMAIN u = (DOMAIN t \ Under(t, p)) \cup New
    BY <1>2
  <2>2. \A r \in DOMAIN t \ Under(t, p) : r \in Stay \/ r = q
    BY DEF Under
  <2>3. Stay \subseteq DOMAIN t \ Under(t, p)
    BY DEF Under
  <2> HIDE DEF u, Stay, New
  <2> QED BY <1>9, <2>1, <2>2, <2>3
<1>11. \A r \in Stay : u[r] = t[r] /\ ~IsPrefix(q, r)
  <2> SUFFICES ASSUME NEW r \in Stay PROVE u[r] = t[r] /\ ~IsPrefix(q, r) OBVIOUS
  <2>1. ~IsPrefix(q, r) /\ r \in DOMAIN t \ Under(t, p)
    BY <1>7 DEF Under
  <2>2. Old(r) = r
    BY <2>1
  <2> HIDE DEF Old, New, u
  <2> QED BY <1>2, <2>1, <2>2
<1>12. \A s \in Under(t, p) : u[Shift(p, q, s)] = t[s]
  <2> SUFFICES ASSUME NEW s \in Under(t, p) PROVE u[Shift(p, q, s)] = t[s] OBVIOUS
  <2>1. Shift(p, q, s) \in New
    OBVIOUS
  <2>2. Old(Shift(p, q, s)) = s
    BY <1>8
  <2> HIDE DEF Old, New, u
  <2> QED BY <1>2, <2>1, <2>2
<1>13. Rooted(u)
  <2> HIDE DEF u
    <2>1. DOMAIN u \subseteq Paths
    <3>1. Stay \subseteq Paths
      BY <1>1
    <3>2. New \subseteq Paths
      BY <1>8
    <3> QED BY <1>10, <3>1, <3>2
  <2>2. HasDir(u, <<>>)
    <3>1. <<>> \in Stay
      BY <1>1, <1>4, <1>6, RootPath, PrefixOrder
    <3> QED BY <1>1, <1>10, <1>11, <3>1 DEF HasDir
  <2>3. ASSUME NEW r \in Stay, NEW v \in Paths, IsPrefix(v, r), v # r PROVE HasDir(u, v)
    <3>1. r \in DOMAIN t /\ r \in Paths /\ ~IsPrefix(p, r)
      BY <1>1
    <3>2. v \in DOMAIN t /\ t[v] = Dir
      BY <2>3, <3>1, RootedAbove
    <3>3. ~IsPrefix(p, v) /\ v # q
      BY <1>1, <2>3, <3>1, <3>2, PrefixOrder DEF HasDir
    <3>4. v \in Stay
      BY <3>2, <3>3
    <3> QED BY <1>10, <1>11, <3>2, <3>4 DEF HasDir
  <2>4. ASSUME NEW v \in Paths, IsPrefix(v, q), v # q PROVE HasDir(u, v)
    <3>1. IsPrefix(v, Front(q))
      BY <2>4, FrontPath
    <3>2. v \in DOMAIN t /\ t[v] = Dir
      BY <1>4, <3>1, RootedAbove
    <3>3. ~IsPrefix(p, v)
      BY <1>5, <2>4, PrefixOrder
    <3>4. v \in Stay
      BY <2>4, <3>2, <3>3
    <3> QED BY <1>10, <1>11, <3>2, <3>4 DEF HasDir
  <2>5. ASSUME NEW s \in Under(t, p), NEW v \in Paths,
               IsPrefix(v, Shift(p, q, s)), v # Shift(p, q, s)
        PROVE  HasDir(u, v)
    <3> DEFINE w == Shift(p, q, s)
    <3>1. w \in Paths /\ IsPrefix(q, w)
      BY <1>8
    <3>2. IsPrefix(v, q) \/ IsPrefix(q, v)
      BY <2>5, <3>1, PrefixOrder
    <3>3. CASE IsPrefix(v, q) /\ v # q
      BY <2>4, <3>3
    <3>4. CASE IsPrefix(q, v)
      <4>1. /\ Len(v) \in Nat /\ Len(q) <= Len(v) /\ Len(v) < Len(w)
            /\ v = SubSeq(w, 1, Len(v))
        BY <2>5, <3>1, <3>4, PrefixCut, PathLen, PrefixIs
      <4> DEFINE k == Len(v) - Len(q) + Len(p)
                 c == SubSeq(s, 1, k)
      <4>2. s \in Paths /\ IsPrefix(p, s) /\ s \in DOMAIN t /\ Len(v) <= Len(w)
        BY <1>3, <3>1, <4>1, PathLen
      <4>3. k \in Len(p)..Len(s) /\ IsPrefix(p, c) /\ SubSeq(w, 1, Len(v)) = Shift(p, q, c)
        BY <4>1, <4>2, ShiftCut
      <4>4. Len(p) \in Nat /\ Len(s) \in Nat
        BY <4>2, PathLen
      <4>5. c \in Paths /\ Len(c) = k /\ IsPrefix(c, s)
        BY <4>2, <4>3, <4>4, CutPath, CutPrefix
      <4>6. c # s
        <5>1. Shift(p, q, c) = v
          BY <4>1, <4>3
        <5> HIDE DEF c
        <5> QED BY <2>5, <5>1
      <4> HIDE DEF c, k
      <4>7. c \in DOMAIN t /\ t[c] = Dir
        BY <4>2, <4>5, <4>6, RootedAbove
      <4>8. c \in Under(t, p)
        BY <4>3, <4>7 DEF Under
      <4> HIDE DEF w
      <4>9. v \in New /\ u[v] = Dir
        BY <1>12, <4>1, <4>3, <4>7, <4>8
      <4> QED BY <1>10, <4>9 DEF HasDir
    <3> QED BY <3>2, <3>3, <3>4, PrefixOrder
  <2>6. \A r \in DOMAIN u : \A v \in Paths : IsPrefix(v, r) /\ v # r => HasDir(u, v)
    BY <1>10, <2>3, <2>5
  <2> QED BY <2>1, <2>2, <2>6, RootedIf
<1> QED BY <1>4, <1>5, <1>6, <1>10, <1>11, <1>12, <1>13 DEF Renamed

-----------------------------------------------------------------------------
(* Entries of a directory *)

\* Every place in a finite set of numbers is that of one of them.
LEMMA Placed ==
  ASSUME NEW S, S \subseteq Nat, IsFiniteSet(S)
  PROVE  /\ Cardinality(S) \in Nat
         /\ \A k \in 1..Cardinality(S) :
              \E i \in S : Cardinality({h \in S : h < i}) = k - 1
<1> DEFINE L(i) == {h \in S : h < i}
           n == Cardinality(S)
           f == [i \in S |-> Cardinality(L(i)) + 1]
<1>1. n \in Nat
  BY FS_CardinalityType
<1>2. \A i \in S : IsFiniteSet(L(i)) /\ Cardinality(L(i)) \in Nat /\ Cardinality(L(i)) + 1 <= n
  <2> SUFFICES ASSUME NEW i \in S
               PROVE  IsFiniteSet(L(i)) /\ Cardinality(L(i)) \in Nat /\ Cardinality(L(i)) + 1 <= n
    OBVIOUS
  <2>1. IsFiniteSet(S \ {i}) /\ Cardinality(S \ {i}) = n - 1
    BY FS_RemoveElement
  <2>2. L(i) \in SUBSET (S \ {i})
    OBVIOUS
  <2>3. IsFiniteSet(L(i)) /\ Cardinality(L(i)) <= n - 1
    BY <2>1, <2>2, FS_Subset
  <2>4. Cardinality(L(i)) \in Nat
    BY <2>3, FS_CardinalityType
  <2> QED BY <1>1, <2>3, <2>4
<1>3. \A i, j \in S : i < j => Cardinality(L(i)) < Cardinality(L(j))
  <2> SUFFICES ASSUME NEW i \in S, NEW j \in S, i < j
               PROVE  Cardinality(L(i)) < Cardinality(L(j))
    OBVIOUS
  <2>0. i \in Nat /\ j \in Nat /\ \A h \in S : h \in Nat
    OBVIOUS
  <2>1. L(i) \in SUBSET L(j) /\ i \in L(j) /\ i \notin L(i)
    <3>1. \A h \in S : h < i => h < j
      BY <2>0
    <3>2. L(i) \subseteq L(j)
      BY <3>1
    <3>3. i \in L(j) /\ i \notin L(i)
      BY <2>0
    <3> QED BY <3>2, <3>3
  <2>2. Cardinality(L(i)) <= Cardinality(L(j)) /\ (Cardinality(L(j)) = Cardinality(L(i)) => L(j) = L(i))
    BY <1>2, <2>1, FS_Subset
  <2> HIDE DEF L
  <2> QED BY <1>2, <2>1, <2>2
<1>4. \A i \in S : f[i] \in 1..n
  <2> HIDE DEF L, n
  <2> QED BY <1>1, <1>2
<1>5. \A i, j \in S : f[i] = f[j] => i = j
  <2> SUFFICES ASSUME NEW i \in S, NEW j \in S, i # j PROVE f[i] # f[j] OBVIOUS
  <2>1. i < j \/ j < i
    OBVIOUS
  <2> HIDE DEF L, n
  <2> QED BY <1>2, <1>3, <2>1
<1>6. f \in Injection(S, 1..n)
  <2>1. f \in [S -> 1..n]
    BY <1>4
  <2>2. DOMAIN f = S
    OBVIOUS
  <2> HIDE DEF f
  <2> QED BY <1>5, <2>1, <2>2 DEF Injection, IsInjective
<1>7. IsFiniteSet(1..n) /\ Cardinality(1..n) = n
  <2> HIDE DEF n
  <2> QED BY <1>1, FS_Interval
<1>8. f \in Surjection(S, 1..n)
  BY <1>6, <1>7, FS_Injection
<1>9. \A k \in 1..n : \E i \in S : f[i] = k
  BY <1>8 DEF Surjection
<1>10. \A i \in S : f[i] = Cardinality(L(i)) + 1
  OBVIOUS
<1> HIDE DEF f, n, L
<1>11. \A k \in 1..n : \E i \in S : Cardinality(L(i)) = k - 1
  <2> SUFFICES ASSUME NEW k \in 1..n PROVE \E i \in S : Cardinality(L(i)) = k - 1 OBVIOUS
  <2>1. PICK i \in S : f[i] = k
    BY <1>9
  <2>2. Cardinality(L(i)) \in Nat /\ Cardinality(L(i)) + 1 = k
    BY <1>2, <1>10, <2>1
  <2>3. Cardinality(L(i)) = k - 1
    BY <1>1, <2>2
  <2> QED BY <2>3
<1> QED BY <1>1, <1>11 DEF n, L

\* The entries that are read are those that there are, each of them once.
LEMMA ReadDirNames ==
  ASSUME NEW t, NEW p
  PROVE  LET names == ReadDir(t, p) IN
         /\ names \in Seq(Names)
         /\ \A k \in 1..Len(names) : names[k] \in Names /\ Append(p, names[k]) \in DOMAIN t
         /\ \A n \in Names : Append(p, n) \in DOMAIN t => \E k \in 1..Len(names) : names[k] = n
         /\ \A k, l \in 1..Len(names) : names[k] = names[l] => k = l
<1> DEFINE here == {i \in 1..Len(Order) : Append(p, Order[i]) \in DOMAIN t}
           n == Cardinality(here)
           At(k) == CHOOSE i \in here : Cardinality({h \in here : h < i}) = k - 1
           names == [k \in 1..n |-> Order[At(k)]]
<1>1. /\ Len(Order) \in Nat /\ DOMAIN Order = 1..Len(Order)
      /\ \A i, j \in 1..Len(Order) : Order[i] = Order[j] => i = j
  BY OrderAssumption, LenProperties
<1>2. \A i \in 1..Len(Order) : Order[i] \in Names
  BY <1>1 DEF Names, Range
<1>3. \A x \in Names : \E i \in 1..Len(Order) : x = Order[i]
  BY <1>1 DEF Names, Range
<1>4. IsFiniteSet(here) /\ here \subseteq Nat
  <2>1. IsFiniteSet(1..Len(Order))
    BY <1>1, FS_Interval
  <2>2. here \in SUBSET (1..Len(Order))
    OBVIOUS
  <2> QED BY <1>1, <2>1, <2>2, FS_Subset
<1>5. /\ n \in Nat
      /\ \A k \in 1..n : \E i \in here : Cardinality({h \in here : h < i}) = k - 1
  BY <1>4, Placed
<1>6. \A i \in here : i \in 1..Len(Order) /\ Append(p, Order[i]) \in DOMAIN t
  OBVIOUS
<1>7. \A i \in 1..Len(Order) : Append(p, Order[i]) \in DOMAIN t => i \in here
  OBVIOUS
<1>8. ReadDir(t, p) = names
  BY DEF ReadDir
<1> HIDE DEF here
<1>9. \A k \in 1..n : At(k) \in here /\ Cardinality({h \in here : h < At(k)}) = k - 1
  BY <1>5
<1>10. \A i \in here : \E k \in 1..n : Cardinality({h \in here : h < i}) = k - 1
  <2> SUFFICES ASSUME NEW i \in here
               PROVE  \E k \in 1..n : Cardinality({h \in here : h < i}) = k - 1
    OBVIOUS
  <2> DEFINE low == {h \in here : h < i}
  <2>1. IsFiniteSet(here \ {i}) /\ Cardinality(here \ {i}) = n - 1
    BY <1>4, FS_RemoveElement
  <2>2. low \in SUBSET (here \ {i})
    BY <1>4
  <2>3. Cardinality(low) <= n - 1 /\ Cardinality(low) \in Nat
    BY <2>1, <2>2, FS_Subset, FS_CardinalityType
  <2> HIDE DEF low, n
  <2>4. Cardinality(low) + 1 \in 1..n /\ Cardinality(low) = (Cardinality(low) + 1) - 1
    BY <1>5, <2>3
  <2>5. \E k \in 1..n : Cardinality(low) = k - 1
    BY <2>4
  <2> QED BY <2>5 DEF low
<1>11. \A i, j \in here : Cardinality({h \in here : h < i}) = Cardinality({h \in here : h < j}) => i = j
  <2> SUFFICES ASSUME NEW i \in here, NEW j \in here, i < j
               PROVE  Cardinality({h \in here : h < i}) # Cardinality({h \in here : h < j})
    BY <1>4
  <2> DEFINE a == {h \in here : h < i}
             b == {h \in here : h < j}
  <2>0. i \in Nat /\ j \in Nat /\ \A h \in here : h \in Nat
    BY <1>4
  <2>1. a \in SUBSET b /\ i \in b /\ i \notin a
    <3>1. \A h \in here : h < i => h < j
      BY <2>0
    <3>2. a \subseteq b
      BY <3>1
    <3>3. i \in b /\ i \notin a
      BY <2>0
    <3> QED BY <3>2, <3>3
  <2>2. b \in SUBSET here
    OBVIOUS
  <2>3. IsFiniteSet(b)
    BY <1>4, <2>2, FS_Subset
  <2>4. Cardinality(b) = Cardinality(a) => b = a
    BY <2>1, <2>3, FS_Subset
  <2> HIDE DEF a, b
  <2>5. Cardinality(a) # Cardinality(b)
    BY <2>1, <2>4
  <2> QED BY <2>5 DEF a, b
<1>12. \A k \in 1..n : names[k] = Order[At(k)] /\ At(k) \in here
  BY <1>9
<1>13. \A k \in 1..n : names[k] \in Names /\ Append(p, names[k]) \in DOMAIN t
  <2> HIDE DEF names, At, n
  <2> QED BY <1>2, <1>6, <1>12
<1>14. names \in Seq(Names) /\ Len(names) = n
  <2> HIDE DEF At
  <2>1. names \in [1..n -> Names]
    BY <1>13
  <2> HIDE DEF names, n
  <2> QED BY <1>5, <2>1
<1>15. ASSUME NEW x \in Names, Append(p, x) \in DOMAIN t
       PROVE  \E k \in 1..n : names[k] = x
  <2>1. PICK i \in here : x = Order[i]
    BY <1>3, <1>7, <1>15
  <2>2. PICK k \in 1..n : Cardinality({h \in here : h < i}) = k - 1
    BY <1>10
  <2>3. At(k) = i
    BY <1>9, <1>11, <2>2
  <2> HIDE DEF At, names, n
  <2> QED BY <1>12, <2>1, <2>3
<1>16. ASSUME NEW k \in 1..n, NEW l \in 1..n, names[k] = names[l]
       PROVE  k = l
  <2>1. At(k) = At(l)
    <3> HIDE DEF At, names
    <3> QED BY <1>1, <1>6, <1>12, <1>16
  <2>2. k - 1 = l - 1
    <3>1. Cardinality({h \in here : h < At(k)}) = k - 1 /\ Cardinality({h \in here : h < At(l)}) = l - 1
      BY <1>9
    <3> HIDE DEF At, n
    <3> QED BY <2>1, <3>1
  <2> HIDE DEF n
  <2> QED BY <1>5, <2>2
<1> HIDE DEF names, n, At
<1> QED BY <1>8, <1>13, <1>14, <1>15, <1>16

\* Sequences of whatever there is.
AnySeq(s) == \E S : s \in Seq(S)

\* Two sequences of steps or words, one behind the other.
LEMMA Joined ==
  ASSUME NEW s, AnySeq(s), NEW t, AnySeq(t)
  PROVE  /\ AnySeq(s \o t) /\ Len(s) \in Nat /\ Len(t) \in Nat /\ Len(s \o t) = Len(s) + Len(t)
         /\ \A i \in 1..Len(s) + Len(t) : (s \o t)[i] = IF i <= Len(s) THEN s[i] ELSE t[i - Len(s)]
<1>1. PICK S : s \in Seq(S)
  BY DEF AnySeq
<1>2. PICK T : t \in Seq(T)
  BY DEF AnySeq
<1>3. s \in Seq(S \cup T) /\ t \in Seq(S \cup T)
  BY <1>1, <1>2, SeqMonotonic
<1> QED BY <1>3, ConcatProperties, LenProperties DEF AnySeq

\* A sequence without its first element.
LEMMA Rest ==
  ASSUME NEW s, AnySeq(s)
  PROVE  /\ Len(s) \in Nat
         /\ s # <<>> => /\ AnySeq(Tail(s)) /\ Len(s) > 0 /\ Len(Tail(s)) = Len(s) - 1
                        /\ \A i \in 1..Len(Tail(s)) : Tail(s)[i] = s[i + 1]
<1>1. PICK S : s \in Seq(S)
  BY DEF AnySeq
<1>2. Len(s) \in Nat /\ (s # <<>> => Len(s) > 0)
  BY <1>1, EmptySeq, LenProperties
<1>3. s # <<>> => /\ Tail(s) \in Seq(S) /\ Len(Tail(s)) = Len(s) - 1
                  /\ \A i \in 1..Len(Tail(s)) : Tail(s)[i] = s[i + 1]
  BY <1>1, HeadTailProperties
<1> QED BY <1>2, <1>3 DEF AnySeq

\* Sequences of at most three steps: what an operation has left at its start.
LEMMA Short ==
  /\ AnySeq(<<>>) /\ Len(<<>>) = 0
  /\ \A a : AnySeq(<<a>>) /\ Len(<<a>>) = 1 /\ <<a>>[1] = a
  /\ \A a, b : AnySeq(<<a, b>>) /\ Len(<<a, b>>) = 2 /\ <<a, b>>[1] = a /\ <<a, b>>[2] = b
  /\ \A a, b, d : /\ AnySeq(<<a, b, d>>) /\ Len(<<a, b, d>>) = 3
                  /\ <<a, b, d>>[1] = a /\ <<a, b, d>>[2] = b /\ <<a, b, d>>[3] = d
<1>1. <<>> \in Seq({}) /\ Len(<<>>) = 0
  OBVIOUS
<1>2. \A a : <<a>> \in Seq({a}) /\ Len(<<a>>) = 1 /\ <<a>>[1] = a
  OBVIOUS
<1>3. \A a, b : <<a, b>> \in Seq({a, b}) /\ Len(<<a, b>>) = 2 /\ <<a, b>>[1] = a /\ <<a, b>>[2] = b
  OBVIOUS
<1>4. \A a, b, d : /\ <<a, b, d>> \in Seq({a, b, d}) /\ Len(<<a, b, d>>) = 3
                   /\ <<a, b, d>>[1] = a /\ <<a, b, d>>[2] = b /\ <<a, b, d>>[3] = d
  OBVIOUS
<1> QED BY <1>1, <1>2, <1>3, <1>4 DEF AnySeq

\* The steps of a call that goes on are the new ones, and those behind the
\* first one.
LEMMA GoesOnTodo ==
  ASSUME NEW c \in Calls, DOMAIN todo = Calls, out \in [Calls -> {"run", "nil", "error"}],
         AnySeq(todo[c]), todo[c] # <<>>, out[c] = "run",
         NEW steps, AnySeq(steps), GoesOn(c, steps)
  PROVE  /\ job' = job /\ DOMAIN todo' = Calls /\ out' \in [Calls -> {"run", "nil", "error"}]
         /\ \A k \in Calls \ {c} : todo'[k] = todo[k] /\ out'[k] = out[k]
         /\ AnySeq(todo'[c]) /\ todo'[c] = steps \o Tail(todo[c])
         /\ Len(todo[c]) \in Nat /\ Len(steps) \in Nat /\ Len(todo[c]) > 0
         /\ Len(todo'[c]) = Len(steps) + Len(todo[c]) - 1
         /\ \A i \in 1..Len(todo'[c]) :
              todo'[c][i] = IF i <= Len(steps) THEN steps[i] ELSE todo[c][i - Len(steps) + 1]
         /\ out'[c] = (IF todo'[c] = <<>> THEN "nil" ELSE "run")
<1> DEFINE rest == steps \o Tail(todo[c])
           old == todo[c]
<1>1. /\ todo' = [todo EXCEPT ![c] = rest] /\ job' = job
      /\ out' = IF rest = <<>> THEN [out EXCEPT ![c] = "nil"] ELSE out
  BY DEF GoesOn
<1>2. /\ Len(old) \in Nat /\ AnySeq(Tail(old)) /\ Len(old) > 0 /\ Len(Tail(old)) = Len(old) - 1
      /\ \A i \in 1..Len(Tail(old)) : Tail(old)[i] = old[i + 1]
  BY Rest
<1>3. /\ AnySeq(rest) /\ Len(steps) \in Nat /\ Len(rest) = Len(steps) + Len(Tail(old))
      /\ \A i \in 1..Len(steps) + Len(Tail(old)) :
           rest[i] = IF i <= Len(steps) THEN steps[i] ELSE Tail(old)[i - Len(steps)]
  BY <1>2, Joined
<1>4. \A i \in 1..Len(rest) : rest[i] = IF i <= Len(steps) THEN steps[i] ELSE old[i - Len(steps) + 1]
  <2> SUFFICES ASSUME NEW i \in 1..Len(rest)
               PROVE  rest[i] = IF i <= Len(steps) THEN steps[i] ELSE old[i - Len(steps) + 1]
    OBVIOUS
  <2> HIDE DEF rest, old
  <2>1. i \in 1..Len(steps) + Len(Tail(old))
    BY <1>3
  <2>2. CASE i <= Len(steps)
    BY <1>3, <2>1, <2>2
  <2>3. CASE ~(i <= Len(steps))
    <3>1. i - Len(steps) \in 1..Len(Tail(old))
      BY <1>2, <1>3, <2>1, <2>3
    <3>2. rest[i] = Tail(old)[i - Len(steps)]
      BY <1>3, <2>1, <2>3
    <3> QED BY <1>2, <2>3, <3>1, <3>2
  <2> QED BY <2>2, <2>3
<1>5. Len(rest) = Len(steps) + Len(old) - 1
  <2> HIDE DEF rest, old
  <2> QED BY <1>2, <1>3
<1>6. todo'[c] = rest /\ DOMAIN todo' = Calls /\ \A k \in Calls \ {c} : todo'[k] = todo[k]
  <2> HIDE DEF rest
  <2> QED BY <1>1
<1>7. /\ out' \in [Calls -> {"run", "nil", "error"}] /\ \A k \in Calls \ {c} : out'[k] = out[k]
      /\ out'[c] = (IF rest = <<>> THEN "nil" ELSE "run")
  <2> HIDE DEF rest
  <2> QED BY <1>1
<1>8. todo'[c] = steps \o Tail(todo[c])
  BY <1>6
<1> HIDE DEF rest
<1> QED BY <1>1, <1>2, <1>3, <1>4, <1>5, <1>6, <1>7, <1>8

\* A call that is refused ends with an error, and changes nothing else.
LEMMA RefusedTodo ==
  ASSUME NEW c \in Calls, DOMAIN todo = Calls, out \in [Calls -> {"run", "nil", "error"}],
         Refused(c)
  PROVE  /\ job' = job /\ DOMAIN todo' = Calls /\ out' \in [Calls -> {"run", "nil", "error"}]
         /\ \A k \in Calls \ {c} : todo'[k] = todo[k] /\ out'[k] = out[k]
         /\ todo'[c] = <<>> /\ out'[c] = "error" /\ out[c] = "run" /\ UNCHANGED fs
BY DEF Refused

-----------------------------------------------------------------------------
(* What a step changes *)

Texts == {"data", "write", "append", "flush"}

\* The tree and the data after a step of c: as they were; with directories on
\* the way to a path that c may write at; with a file made or emptied at such a
\* path; with all below such a path gone, or somewhere else; or with a new text
\* in the node that the step holds.
Makes(c) == \E q, r \in Paths :
  /\ Reach(c, r) /\ IsPrefix(q, r) /\ CanMkdirAll(tree, q)
  /\ tree' = MkdirAll(tree, q) /\ UNCHANGED data
Creates(c) == \E q \in Paths : Reach(c, q) /\ Create(c, q)
Removes(c) == \E q \in Paths :
  Reach(c, q) /\ q # <<>> /\ tree' = RemoveAll(tree, q) /\ UNCHANGED data
Moves(c) == \E p, q \in Paths :
  /\ Reach(c, p) /\ Reach(c, q) /\ CanRename(tree, p, q)
  /\ tree' = Rename(tree, p, q) /\ UNCHANGED data
Fills(c) ==
  /\ todo[c][1].do \in Texts /\ UNCHANGED tree
  /\ \E text : data' = [data EXCEPT ![To(c)] = text]

Changes(c) == UNCHANGED fs \/ Makes(c) \/ Creates(c) \/ Removes(c) \/ Moves(c) \/ Fills(c)

\* The new steps of a call hold what steps may hold, and the nodes among that
\* are those of files that it may write, or that it held.
NewOK(c, s) ==
  /\ StepOK(c, s)
  /\ s.do \in Handles =>
       \/ \E q \in Paths : Reach(c, q) /\ s.to = Opened(c, q)
       \/ todo[c][1].do \in Handles /\ s.to = To(c)

NewSteps(c) ==
  \/ \E steps : /\ AnySeq(steps) /\ GoesOn(c, steps)
                /\ \A i \in 1..Len(steps) : NewOK(c, steps[i])
  \/ Refused(c)

AllSeqs == \A c \in Calls : AnySeq(todo[c])

\* A call may write at the paths that Writes names.
LEMMA WritesPaths ==
  ASSUME NEW c \in Calls, FilesInv
  PROVE  /\ Writes(job[c]) \subseteq Paths /\ job[c] \in Jobs
         /\ \A w \in Writes(job[c]) : Reach(c, w)
         /\ Insertion(job[c]) => Writes(job[c]) = {job[c].to, Temp}
<1> DEFINE j == job[c]
<1>1. job[c] \in Jobs
  BY DEF FilesInv
<1>2. j.to \in Paths /\ Temp \in Paths /\ (j.op \in Operations => j.from \in Paths)
  BY <1>1, TreesAssumption
<1>3. Insertion(j) => Writes(j) = {j.to, Temp}
  BY DEF Insertion, Writes
<1>4. Writes(j) \subseteq Paths
  <2>1. j.op \in {"RenameFiles", "RenameFilesAndDir", "FileMove", "GetGoctlHome"} => j.from \in Paths
    BY <1>2 DEF Operations
  <2> HIDE DEF j
  <2> QED BY <1>2, <2>1 DEF Writes
<1>5. \A w \in Writes(j) : Reach(c, w)
  BY <1>4, PrefixOrder DEF Reach
<1> QED BY <1>1, <1>3, <1>4, <1>5

\* Below a path that a call may write at, it may write.
LEMMA ReachBelow ==
  ASSUME NEW c \in Calls, FilesInv, NEW p, Reach(c, p), NEW q \in Paths, IsPrefix(p, q)
  PROVE  Reach(c, q)
<1>1. PICK w \in Writes(job[c]) : IsPrefix(w, p)
  BY DEF Reach
<1>2. w \in Paths /\ p \in Paths
  BY WritesPaths DEF Reach
<1> QED BY <1>1, <1>2, PrefixOrder DEF Reach

\* The temporary file of toolx/file.go is in its directory.
LEMMA TempPath ==
  /\ Temp \in Paths /\ Temp # <<>> /\ TempFile \in Paths /\ IsPrefix(Temp, TempFile)
  /\ Front(TempFile) = Temp /\ TempFile # Temp
<1>1. Temp \in Paths /\ Temp # <<>> /\ "temp.temp" \in Names
  BY TreesAssumption, EditsAssumption
<1> QED BY <1>1, EntryPath DEF TempFile

\* Sequences of one step, joined.
LEMMA Pair ==
  ASSUME NEW a, NEW b
  PROVE  <<a>> \o <<>> = <<a>> /\ <<a>> \o <<b>> = <<a, b>>
<1> DEFINE S == {a, b}
           u == <<a>>
           v == <<b>>
           w == <<a, b>>
<1>1. u \in Seq(S) /\ v \in Seq(S) /\ w \in Seq(S)
  OBVIOUS
<1>2. Len(u) = 1 /\ Len(v) = 1 /\ Len(w) = 2 /\ u[1] = a /\ v[1] = b /\ w[1] = a /\ w[2] = b
  OBVIOUS
<1> HIDE DEF S, u, v, w
<1>3. u \o <<>> = u
  BY <1>1, ConcatEmptySeq
<1>4. /\ u \o v \in Seq(S) /\ Len(u \o v) = 2
      /\ \A i \in 1..2 : (u \o v)[i] = IF i <= 1 THEN u[i] ELSE v[i - 1]
  BY <1>1, <1>2, ConcatProperties
<1>5. \A i \in 1..2 : (u \o v)[i] = w[i]
  <2>1. (u \o v)[1] = a
    BY <1>2, <1>4
  <2>2. (u \o v)[2] = b
    BY <1>2, <1>4
  <2> QED BY <1>2, <2>1, <2>2
<1>6. u \o v = w
  BY <1>1, <1>2, <1>4, <1>5, SeqEqual
<1> QED BY <1>3, <1>6 DEF u, v, w

\* A call that runs has a first step, which holds what such a step may hold.
LEMMA FirstStepOK ==
  ASSUME NEW c \in Calls, FilesInv, AllSeqs, out[c] = "run"
  PROVE  /\ todo[c] # <<>> /\ AnySeq(todo[c]) /\ StepOK(c, todo[c][1])
         /\ Len(todo[c]) \in Nat /\ Len(todo[c]) > 0
         /\ DOMAIN todo = Calls /\ out \in [Calls -> {"run", "nil", "error"}]
<1>1. todo[c] # <<>> /\ AnySeq(todo[c]) /\ \A i \in 1..Len(todo[c]) : StepOK(c, todo[c][i])
  BY DEF FilesInv, AllSeqs
<1>2. Len(todo[c]) \in Nat /\ Len(todo[c]) > 0
  BY <1>1, Rest
<1> QED BY <1>1, <1>2 DEF FilesInv

\* The steps that an action adds, as the actions write them.
LEMMA StepsAdded ==
  ASSUME NEW c \in Calls
  PROVE  /\ GoesOn(c, <<>>) => NewSteps(c)
         /\ \A a : NewOK(c, a) /\ GoesOn(c, <<a>>) => NewSteps(c)
         /\ \A a, b : NewOK(c, a) /\ NewOK(c, b) /\ GoesOn(c, <<a, b>>) => NewSteps(c)
         /\ \A a, b, d : NewOK(c, a) /\ NewOK(c, b) /\ NewOK(c, d) /\ GoesOn(c, <<a, b, d>>)
                         => NewSteps(c)
<1>1. GoesOn(c, <<>>) => NewSteps(c)
  <2>1. AnySeq(<<>>) /\ \A i \in 1..Len(<<>>) : NewOK(c, <<>>[i])
    BY Short
  <2> QED BY <2>1 DEF NewSteps
<1>2. ASSUME NEW a, NewOK(c, a), GoesOn(c, <<a>>) PROVE NewSteps(c)
  <2>1. AnySeq(<<a>>) /\ \A i \in 1..Len(<<a>>) : i = 1 /\ <<a>>[i] = a
    BY Short
  <2> QED BY <1>2, <2>1 DEF NewSteps
<1>3. ASSUME NEW a, NEW b, NewOK(c, a), NewOK(c, b), GoesOn(c, <<a, b>>) PROVE NewSteps(c)
  <2>1. AnySeq(<<a, b>>) /\ \A i \in 1..Len(<<a, b>>) : <<a, b>>[i] \in {a, b}
    BY Short
  <2>2. \A i \in 1..Len(<<a, b>>) : NewOK(c, <<a, b>>[i])
    BY <1>3, <2>1
  <2> QED BY <1>3, <2>1, <2>2 DEF NewSteps
<1>4. ASSUME NEW a, NEW b, NEW d, NewOK(c, a), NewOK(c, b), NewOK(c, d),
             GoesOn(c, <<a, b, d>>)
      PROVE  NewSteps(c)
  <2>1. AnySeq(<<a, b, d>>) /\ \A i \in 1..Len(<<a, b, d>>) : <<a, b, d>>[i] \in {a, b, d}
    BY Short
  <2>2. \A i \in 1..Len(<<a, b, d>>) : NewOK(c, <<a, b, d>>[i])
    BY <1>4, <2>1
  <2> QED BY <1>4, <2>1, <2>2 DEF NewSteps
<1> QED BY <1>1, <1>2, <1>3, <1>4

\* The node of the file that is opened.
LEMMA OpenedOK ==
  ASSUME NEW c \in Calls, NEW q, Reach(c, q), NEW do, NEW from,
         do \in {"data", "write", "append"} \/ (do = "read" /\ Insertion(job[c]))
  PROVE  NewOK(c, Step(do, from, Opened(c, q)))
<1> DEFINE n == Opened(c, q)
<1>1. \E r \in Paths : Reach(c, r) /\ n = Opened(c, r)
  BY DEF Reach
<1> HIDE DEF n
<1>2. Step(do, from, n).do = do /\ Step(do, from, n).to = n /\ Step(do, from, n).from = from
  BY DEF Step
<1> DEFINE s == Step(do, from, n)
<1> HIDE DEF s
<1>3. StepOK(c, s)
  BY <1>2 DEF StepOK, s
<1> QED BY <1>1, <1>2, <1>3 DEF NewOK, s, n

\* One step for every entry of a directory, each of another name.
LEMMA EntriesAre ==
  ASSUME NEW t, NEW p, NEW q, NEW dir, NEW file
  PROVE  LET names == ReadDir(t, p)
             steps == Entries(t, p, q, dir, file)
         IN
         /\ AnySeq(steps) /\ Len(steps) = Len(names) /\ Len(names) \in Nat
         /\ \A i \in 1..Len(steps) :
              /\ names[i] \in Names /\ Append(p, names[i]) \in DOMAIN t
              /\ steps[i] = Step(IF HasDir(t, Append(p, names[i])) THEN dir ELSE file,
                                 Append(p, names[i]), Append(q, names[i]))
<1> DEFINE names == ReadDir(t, p)
           n == Len(names)
           e(i) == Step(IF HasDir(t, Append(p, names[i])) THEN dir ELSE file,
                        Append(p, names[i]), Append(q, names[i]))
           steps == Entries(t, p, q, dir, file)
           S == {e(i) : i \in 1..n}
<1>1. names \in Seq(Names) /\ \A k \in 1..n : names[k] \in Names /\ Append(p, names[k]) \in DOMAIN t
  BY ReadDirNames
<1>2. n \in Nat
  BY <1>1, LenProperties
<1>3. steps = [i \in 1..n |-> e(i)]
  BY DEF Entries
<1>4. steps \in [1..n -> S]
  BY <1>3
<1>5. \A i \in 1..n : steps[i] = e(i)
  BY <1>3
<1> HIDE DEF steps, e, n, S
<1>6. steps \in Seq(S) /\ Len(steps) = n
  BY <1>2, <1>4
<1>7. AnySeq(steps)
  BY <1>6 DEF AnySeq
<1> QED BY <1>1, <1>2, <1>5, <1>6, <1>7 DEF n, e, steps

\* So may the steps that a loop over a directory adds.
LEMMA EntriesAdded ==
  ASSUME NEW c \in Calls, NEW t, NEW p, NEW q, NEW dir, NEW file,
         \A n \in Names : \A do \in {dir, file} : NewOK(c, Step(do, Append(p, n), Append(q, n))),
         GoesOn(c, Entries(t, p, q, dir, file))
  PROVE  NewSteps(c)
<1> DEFINE steps == Entries(t, p, q, dir, file)
           names == ReadDir(t, p)
           do(i) == IF HasDir(t, Append(p, names[i])) THEN dir ELSE file
<1>1. /\ AnySeq(steps)
      /\ \A i \in 1..Len(steps) : /\ names[i] \in Names
                                  /\ steps[i] = Step(do(i), Append(p, names[i]), Append(q, names[i]))
  BY EntriesAre
<1>2. \A i : do(i) \in {dir, file}
  OBVIOUS
<1> HIDE DEF steps, names, do
<1>3. \A i \in 1..Len(steps) : NewOK(c, steps[i])
  BY <1>1, <1>2
<1> QED BY <1>1, <1>3 DEF NewSteps, steps

\* CheckPathExists with MkdirAll makes directories on the way to where the call
\* may write, or changes nothing.
LEMMA EnsureChanges ==
  ASSUME NEW c \in Calls, NEW r, Reach(c, r), NEW p \in Paths, IsPrefix(p, r), Ensure(p)
  PROVE  UNCHANGED fs \/ Makes(c)
<1>1. CASE p \in DOMAIN tree
  BY <1>1 DEF Ensure, fs
<1>2. CASE p \notin DOMAIN tree
  <2>1. CanMkdirAll(tree, p) /\ tree' = MkdirAll(tree, p) /\ UNCHANGED data
    BY <1>2 DEF Ensure
  <2> QED BY <2>1 DEF Makes, Reach
<1> QED BY <1>1, <1>2

\* What a call may write at are paths, and so are those above and below.
LEMMA ReachPath ==
  ASSUME NEW c \in Calls, FilesInv, NEW p, Reach(c, p)
  PROVE  /\ p \in Paths /\ Front(p) \in Paths /\ IsPrefix(Front(p), p) /\ IsPrefix(p, p)
         /\ \A n \in Names : Append(p, n) \in Paths /\ Reach(c, Append(p, n))
                             /\ Append(p, n) # <<>> /\ Front(Append(p, n)) = p
<1>1. p \in Paths
  BY DEF Reach
<1>2. \A n \in Names : Append(p, n) \in Paths /\ IsPrefix(p, Append(p, n))
                       /\ Append(p, n) # <<>> /\ Front(Append(p, n)) = p
  BY <1>1, EntryPath
<1> QED BY <1>1, <1>2, FrontPath, PrefixOrder, ReachBelow

-----------------------------------------------------------------------------
(* Every action of Trees and Edits *)

\* CopyFile and Copy change what they may, and go on with steps that they may
\* have.
LEMMA CopyChanges ==
  ASSUME NEW c \in Calls, FilesInv, AllSeqs,
         CopyOpen(c) \/ CopyFolder(c) \/ CopyCreate(c) \/ CopyData(c) \/ CopyCheck(c)
  PROVE  Changes(c) /\ NewSteps(c)
<1> DEFINE s == todo[c][1]
<1>1. CASE CopyOpen(c)
  <2>1. s.do = "open" /\ out[c] = "run" /\ UNCHANGED fs
    BY <1>1 DEF CopyOpen, Does
  <2>2. Reach(c, s.to) /\ s.from \in Paths
    BY <2>1, FirstStepOK DEF StepOK
  <2>3. NewOK(c, Step("parent", tree[s.from], s.to)) /\ NewOK(c, Step("check", s.from, s.to))
    BY <2>2 DEF NewOK, StepOK, Handles, Step
  <2>4. \/ GoesOn(c, <<Step("parent", tree[s.from], s.to)>> \o <<>>)
        \/ GoesOn(c, <<Step("parent", tree[s.from], s.to)>> \o <<Step("check", s.from, s.to)>>)
    BY <1>1 DEF CopyOpen, From, To
  <2>5. \A a, b : <<a>> \o <<>> = <<a>> /\ <<a>> \o <<b>> = <<a, b>>
    BY Pair
  <2>6. NewSteps(c)
    BY <2>3, <2>4, <2>5, StepsAdded
  <2> QED BY <2>1, <2>6 DEF Changes
<1>2. CASE CopyFolder(c)
  <2>1. s.do = "parent" /\ out[c] = "run" /\ Ensure(Front(s.to)) /\ GoesOn(c, <<Step("create", s.from, s.to)>>)
    BY <1>2 DEF CopyFolder, Does, From, To
  <2>2. Reach(c, s.to)
    BY <2>1, FirstStepOK DEF StepOK
  <2>3. NewOK(c, Step("create", s.from, s.to))
    BY <2>2 DEF NewOK, StepOK, Handles, Step
  <2>4. UNCHANGED fs \/ Makes(c)
    BY <2>1, <2>2, ReachPath, EnsureChanges
  <2> QED BY <2>1, <2>3, <2>4, StepsAdded DEF Changes
<1>3. CASE CopyCreate(c)
  <2>1. /\ s.do = "create" /\ out[c] = "run" /\ Create(c, s.to)
        /\ GoesOn(c, <<Step("data", s.from, Opened(c, s.to))>>)
    BY <1>3 DEF CopyCreate, Does, From, To
  <2>2. Reach(c, s.to)
    BY <2>1, FirstStepOK DEF StepOK
  <2>3. NewOK(c, Step("data", s.from, Opened(c, s.to)))
    BY <2>2, OpenedOK
  <2>4. Creates(c)
    BY <2>1, <2>2 DEF Creates, Reach
  <2> QED BY <2>1, <2>3, <2>4, StepsAdded DEF Changes
<1>4. CASE CopyData(c)
  <2>1. s.do = "data" /\ Write(To(c), data[From(c)]) /\ GoesOn(c, <<>>)
    BY <1>4 DEF CopyData, Does
  <2>2. Fills(c)
    BY <2>1 DEF Fills, Write, Texts
  <2> QED BY <2>1, <2>2, StepsAdded DEF Changes
<1>5. CASE CopyCheck(c)
  <2>1. GoesOn(c, <<>>) /\ UNCHANGED fs
    BY <1>5 DEF CopyCheck
  <2> QED BY <2>1, StepsAdded DEF Changes
<1> QED BY <1>1, <1>2, <1>3, <1>4, <1>5

\* So do CopyDir and CopyTpl;
LEMMA CopyDirChanges ==
  ASSUME NEW c \in Calls, FilesInv, AllSeqs,
         \/ CopyDir(c) \/ CopyEntries(c) \/ CopyTpl(c) \/ CopyFsDir(c)
         \/ CopyFsFolder(c) \/ CopyFsFile(c) \/ WriteContent(c)
  PROVE  Changes(c) /\ NewSteps(c)
<1> DEFINE s == todo[c][1]
<1>0. out[c] = "run" /\ s.do \in {"dir", "entries", "template", "fsdir", "folder", "writefile", "write"}
  BY DEF CopyDir, CopyEntries, CopyTpl, CopyFsDir, CopyFsFolder, CopyFsFile, WriteContent, Does
<1>a. s.do # "write" => Reach(c, s.to) /\ s.from \in Paths
  BY <1>0, FirstStepOK DEF StepOK
<1>b. s.do # "write" => \A n \in Names : /\ Append(s.from, n) \in Paths
                                         /\ Reach(c, Append(s.to, n))
  BY <1>a, ReachPath, EntryPath
<1>c. s.do # "write" => Makes(c) \/ ~(CanMkdirAll(tree, s.to) /\ tree' = MkdirAll(tree, s.to) /\ UNCHANGED data)
  BY <1>a, ReachPath DEF Makes
<1>1. CASE CopyDir(c)
  <2>1. /\ s.do = "dir" /\ CanMkdirAll(tree, s.to) /\ tree' = MkdirAll(tree, s.to) /\ UNCHANGED data
        /\ GoesOn(c, <<Step("entries", s.from, s.to)>>)
    BY <1>1 DEF CopyDir, Does, From, To
  <2>2. NewOK(c, Step("entries", s.from, s.to))
    BY <1>a, <2>1 DEF NewOK, StepOK, Handles, Step
  <2> QED BY <1>c, <2>1, <2>2, StepsAdded DEF Changes
<1>2. CASE CopyEntries(c)
  <2>1. s.do = "entries" /\ UNCHANGED fs /\ GoesOn(c, Entries(tree, s.from, s.to, "dir", "open"))
    BY <1>2 DEF CopyEntries, Does, From, To
  <2>2. \A n \in Names : \A do \in {"dir", "open"} :
          NewOK(c, Step(do, Append(s.from, n), Append(s.to, n)))
    BY <1>b, <2>1 DEF NewOK, StepOK, Handles, Step
  <2>3. NewSteps(c)
    BY <2>1, <2>2, EntriesAdded
  <2> QED BY <2>1, <2>3 DEF Changes
<1>3. CASE CopyTpl(c)
  <2>1. s.do = "template" /\ UNCHANGED fs /\ GoesOn(c, Entries(Template, s.from, s.to, "fsdir", "folder"))
    BY <1>3 DEF CopyTpl, Does, From, To
  <2>2. \A n \in Names : \A do \in {"fsdir", "folder"} :
          NewOK(c, Step(do, Append(s.from, n), Append(s.to, n)))
    BY <1>b, <2>1 DEF NewOK, StepOK, Handles, Step
  <2>3. NewSteps(c)
    BY <2>1, <2>2, EntriesAdded
  <2> QED BY <2>1, <2>3 DEF Changes
<1>4. CASE CopyFsDir(c)
  <2>1. /\ s.do = "fsdir" /\ CanMkdirAll(tree, s.to) /\ tree' = MkdirAll(tree, s.to) /\ UNCHANGED data
        /\ GoesOn(c, Entries(Template, s.from, s.to, "fsdir", "folder"))
    BY <1>4 DEF CopyFsDir, Does, From, To
  <2>2. \A n \in Names : \A do \in {"fsdir", "folder"} :
          NewOK(c, Step(do, Append(s.from, n), Append(s.to, n)))
    BY <1>b, <2>1 DEF NewOK, StepOK, Handles, Step
  <2>3. NewSteps(c)
    BY <2>1, <2>2, EntriesAdded
  <2> QED BY <1>c, <2>1, <2>3 DEF Changes
<1>5. CASE CopyFsFolder(c)
  <2>1. /\ s.do = "folder" /\ (Ensure(Front(s.to)) \/ UNCHANGED fs)
        /\ GoesOn(c, <<Step("writefile", s.from, s.to)>>)
    BY <1>5 DEF CopyFsFolder, Does, From, To
  <2>2. NewOK(c, Step("writefile", s.from, s.to))
    BY <1>a, <2>1 DEF NewOK, StepOK, Handles, Step
  <2>3. UNCHANGED fs \/ Makes(c)
    BY <1>a, <2>1, ReachPath, EnsureChanges
  <2> QED BY <2>1, <2>2, <2>3, StepsAdded DEF Changes
<1>6. CASE CopyFsFile(c)
  <2>1. /\ s.do = "writefile" /\ Create(c, s.to)
        /\ GoesOn(c, <<Step("write", <<"template", s.from>>, Opened(c, s.to))>>)
    BY <1>6 DEF CopyFsFile, Does, From, To
  <2>2. NewOK(c, Step("write", <<"template", s.from>>, Opened(c, s.to)))
    BY <1>a, <2>1, OpenedOK
  <2>3. Creates(c)
    BY <1>a, <2>1 DEF Creates, Reach
  <2> QED BY <2>1, <2>2, <2>3, StepsAdded DEF Changes
<1>7. CASE WriteContent(c)
  <2>1. s.do = "write" /\ Write(To(c), From(c)) /\ GoesOn(c, <<>>)
    BY <1>7 DEF WriteContent, Does
  <2>2. Fills(c)
    BY <2>1 DEF Fills, Write, Texts
  <2> QED BY <2>1, <2>2, StepsAdded DEF Changes
<1> QED BY <1>1, <1>2, <1>3, <1>4, <1>5, <1>6, <1>7

\* Renaming within what a call may write at.
LEMMA RenameChanges ==
  ASSUME NEW c \in Calls, NEW p, NEW q, Reach(c, p), Reach(c, q), CanRename(tree, p, q),
         tree' = Rename(tree, p, q), UNCHANGED data
  PROVE  Moves(c)
BY DEF Moves, Reach

\* FileMove and the two renamings;
LEMMA MoveChanges ==
  ASSUME NEW c \in Calls, FilesInv, AllSeqs, Move(c) \/ RenameEntries(c) \/ RenameOne(c)
  PROVE  Changes(c) /\ NewSteps(c)
<1> DEFINE s == todo[c][1]
<1>1. CASE Move(c)
  <2>1. PICK do \in {"move", "again"} :
          /\ s.do = do /\ out[c] = "run" /\ Ensure(Front(s.to))
          /\ GoesOn(c, <<Step(IF do = "move" /\ Front(s.to) \notin DOMAIN tree
                              THEN "again" ELSE "rename", s.from, s.to)>>)
    BY <1>1 DEF Move, Does, From, To
  <2>2. Reach(c, s.to) /\ Reach(c, s.from)
    BY <2>1, FirstStepOK DEF StepOK
  <2>3. \A d \in {"again", "rename"} : NewOK(c, Step(d, s.from, s.to))
    BY <2>2 DEF NewOK, StepOK, Handles, Step
  <2>4. NewSteps(c)
    BY <2>1, <2>3, StepsAdded
  <2>5. UNCHANGED fs \/ Makes(c)
    BY <2>1, <2>2, ReachPath, EnsureChanges
  <2> QED BY <2>4, <2>5 DEF Changes
<1>2. CASE RenameEntries(c)
  <2>1. /\ s.do \in {"names", "namesAndDirs"} /\ out[c] = "run" /\ UNCHANGED fs
        /\ \E d \in {"names", "newdir"} : GoesOn(c, Entries(tree, s.from, s.from, d, "newname"))
    BY <1>2 DEF RenameEntries, Does, From
  <2>2. Reach(c, s.from)
    BY <2>1, FirstStepOK DEF StepOK
  <2>3. \A n \in Names : \A do \in {"names", "newdir", "newname"} :
          NewOK(c, Step(do, Append(s.from, n), Append(s.from, n)))
    <3> SUFFICES ASSUME NEW n \in Names, NEW do \in {"names", "newdir", "newname"}
                 PROVE  NewOK(c, Step(do, Append(s.from, n), Append(s.from, n)))
      OBVIOUS
    <3> DEFINE e == Append(s.from, n)
    <3>1. Reach(c, e) /\ e # <<>> /\ Reach(c, Front(e))
      BY <2>2, ReachPath
    <3> HIDE DEF e
    <3>2. NewOK(c, Step(do, e, e))
      BY <3>1 DEF NewOK, StepOK, Handles, Step
    <3> QED BY <3>2 DEF e
  <2>4. PICK d \in {"names", "newdir"} : GoesOn(c, Entries(tree, s.from, s.from, d, "newname"))
    BY <2>1
  <2>5. \A n \in Names : \A do \in {d, "newname"} :
          NewOK(c, Step(do, Append(s.from, n), Append(s.from, n)))
    BY <2>3
  <2>6. NewSteps(c)
    BY <2>4, <2>5, EntriesAdded
  <2> QED BY <2>1, <2>6 DEF Changes
<1>3. CASE RenameOne(c)
  <2>1. PICK do \in {"rename", "newname", "newdir"} :
          /\ s.do = do /\ out[c] = "run"
          /\ do # "rename" => Last(s.from) \in DOMAIN NewName
          /\ LET q == IF do = "rename" THEN s.to
                      ELSE Append(Front(s.from), NewName[Last(s.from)]) IN
             /\ CanRename(tree, s.from, q)
             /\ tree' = Rename(tree, s.from, q) /\ UNCHANGED data
             /\ GoesOn(c, IF do = "newdir" THEN <<Step("names", q, q)>> ELSE <<>>)
    BY <1>3 DEF RenameOne, Does, From, To
  <2> DEFINE q == IF do = "rename" THEN s.to ELSE Append(Front(s.from), NewName[Last(s.from)])
  <2>2. Reach(c, s.from) /\ Reach(c, q)
    <3>1. Reach(c, s.from) /\ (do = "rename" => Reach(c, s.to)) /\ (do # "rename" => Reach(c, Front(s.from)))
      BY <2>1, FirstStepOK DEF StepOK
    <3>2. do # "rename" => NewName[Last(s.from)] \in Names
      BY <2>1, TreesAssumption
    <3> QED BY <3>1, <3>2, ReachPath
  <2>3. /\ CanRename(tree, s.from, q) /\ tree' = Rename(tree, s.from, q) /\ UNCHANGED data
        /\ GoesOn(c, IF do = "newdir" THEN <<Step("names", q, q)>> ELSE <<>>)
    BY <2>1
  <2> HIDE DEF q
  <2>4. NewOK(c, Step("names", q, q))
    BY <2>2 DEF NewOK, StepOK, Handles, Step
  <2>5. NewSteps(c)
    BY <2>3, <2>4, StepsAdded
  <2> QED BY <2>2, <2>3, <2>5, RenameChanges DEF Changes
<1> QED BY <1>1, <1>2, <1>3

\* the making and removing of files and directories, and GetGoctlHome;
LEMMA MakeChanges ==
  ASSUME NEW c \in Calls, FilesInv, AllSeqs,
         LookUp(c) \/ Make(c) \/ Unlink(c) \/ Mkdir(c) \/ Home(c)
  PROVE  Changes(c) /\ NewSteps(c)
<1> DEFINE s == todo[c][1]
<1>1. CASE LookUp(c)
  <2>1. /\ s.do \in {"absent", "exists", "present"} /\ out[c] = "run" /\ UNCHANGED fs
        /\ \/ GoesOn(c, <<>>)
           \/ GoesOn(c, <<Step("make", c, s.to)>>)
           \/ s.do = "present" /\ GoesOn(c, <<Step("remove", c, s.to)>>)
    BY <1>1 DEF LookUp, Does, To
  <2>2. Reach(c, s.to) /\ (s.do = "present" => s.to # <<>>)
    BY <2>1, FirstStepOK DEF StepOK
  <2>3. /\ NewOK(c, Step("make", c, s.to))
        /\ s.do = "present" => NewOK(c, Step("remove", c, s.to))
    BY <2>2 DEF NewOK, StepOK, Handles, Step
  <2> QED BY <2>1, <2>3, StepsAdded DEF Changes
<1>2. CASE Make(c)
  <2>1. /\ s.do = "make" /\ out[c] = "run" /\ Create(c, s.to)
        /\ GoesOn(c, <<Step("write", <<"by", c>>, Opened(c, s.to))>>)
    BY <1>2 DEF Make, Does, To
  <2>2. Reach(c, s.to)
    BY <2>1, FirstStepOK DEF StepOK
  <2>3. NewOK(c, Step("write", <<"by", c>>, Opened(c, s.to)))
    BY <2>2, OpenedOK
  <2>4. Creates(c)
    BY <2>1, <2>2 DEF Creates, Reach
  <2> QED BY <2>1, <2>3, <2>4, StepsAdded DEF Changes
<1>3. CASE Unlink(c)
  <2>1. /\ s.do \in {"remove", "delete"} /\ out[c] = "run"
        /\ tree' = RemoveAll(tree, s.to) /\ UNCHANGED data /\ GoesOn(c, <<>>)
    BY <1>3 DEF Unlink, Does, To
  <2>2. Reach(c, s.to) /\ s.to # <<>>
    BY <2>1, FirstStepOK DEF StepOK
  <2>3. Removes(c)
    BY <2>1, <2>2 DEF Removes, Reach
  <2> QED BY <2>1, <2>3, StepsAdded DEF Changes
<1>4. CASE Mkdir(c)
  <2>1. s.do = "mkdir" /\ out[c] = "run" /\ Ensure(s.to) /\ GoesOn(c, <<>>)
    BY <1>4 DEF Mkdir, Does, To
  <2>2. Reach(c, s.to)
    BY <2>1, FirstStepOK DEF StepOK
  <2>3. UNCHANGED fs \/ Makes(c)
    BY <2>1, <2>2, ReachPath, EnsureChanges
  <2> QED BY <2>1, <2>3, StepsAdded DEF Changes
<1>5. CASE Home(c)
  <2>1. /\ s.do \in {"home", "old", "homedir"} /\ out[c] = "run"
        /\ \/ /\ s.do = "home" /\ UNCHANGED fs
              /\ \/ GoesOn(c, <<Step("old", s.from, s.to), Step("homedir", s.from, s.to)>>)
                 \/ GoesOn(c, <<>>)
           \/ /\ s.do = "old" /\ GoesOn(c, <<>>)
              /\ \/ /\ CanRename(tree, s.to, s.from)
                    /\ tree' = Rename(tree, s.to, s.from) /\ UNCHANGED data
                 \/ UNCHANGED fs
           \/ s.do = "homedir" /\ (Ensure(s.to) \/ UNCHANGED fs) /\ GoesOn(c, <<>>)
    BY <1>5 DEF Home, Does, From, To
  <2>2. Reach(c, s.to) /\ (s.do # "homedir" => Reach(c, s.from))
    BY <2>1, FirstStepOK DEF StepOK
  <2>3. s.do = "home" => NewOK(c, Step("old", s.from, s.to)) /\ NewOK(c, Step("homedir", s.from, s.to))
    BY <2>2 DEF NewOK, StepOK, Handles, Step
  <2>4. NewSteps(c)
    BY <2>1, <2>3, StepsAdded
  <2>5. Changes(c)
    <3>1. CASE s.do = "home"
      BY <2>1, <3>1 DEF Changes
    <3>2. CASE s.do = "old"
      BY <2>1, <2>2, <3>2, RenameChanges DEF Changes
    <3>3. CASE s.do = "homedir"
      <4>1. UNCHANGED fs \/ Makes(c)
        BY <2>1, <2>2, <3>3, ReachPath, EnsureChanges
      <4> QED BY <4>1 DEF Changes
    <3> QED BY <2>1, <3>1, <3>2, <3>3
  <2> QED BY <2>4, <2>5
<1> QED BY <1>1, <1>2, <1>3, <1>4, <1>5

\* insertions;
LEMMA EditChanges ==
  ASSUME NEW c \in Calls, FilesInv, AllSeqs,
         EditOpen(c) \/ EditTemp(c) \/ EditRead(c) \/ EditFlush(c) \/ EditCleanup(c)
  PROVE  Changes(c) /\ NewSteps(c)
<1> DEFINE s == todo[c][1]
<1>0. out[c] = "run" /\ s.do \in {"edit", "temp", "read", "flush", "cleanup"}
  BY DEF EditOpen, EditTemp, EditRead, EditFlush, EditCleanup, Does
<1>a. Insertion(job[c])
  BY <1>0, FirstStepOK DEF StepOK
<1>b. Reach(c, Temp) /\ Reach(c, TempFile) /\ Temp # <<>> /\ Temp \in Paths /\ TempFile \in Paths
  BY <1>a, WritesPaths, TempPath, ReachBelow
<1>1. CASE EditOpen(c)
  <2>1. /\ s.do = "edit" /\ UNCHANGED fs
        /\ GoesOn(c, <<Step("temp", <<>>, tree[s.to]), Step("move", TempFile, s.to),
                       Step("cleanup", <<>>, Temp)>>)
    BY <1>1 DEF EditOpen, Does, To
  <2>2. Reach(c, s.to)
    BY <1>0, <2>1, FirstStepOK DEF StepOK
  <2>3. /\ NewOK(c, Step("temp", <<>>, tree[s.to])) /\ NewOK(c, Step("move", TempFile, s.to))
        /\ NewOK(c, Step("cleanup", <<>>, Temp))
    BY <1>a, <1>b, <2>2 DEF NewOK, StepOK, Handles, Step
  <2> QED BY <2>1, <2>3, StepsAdded DEF Changes
<1>2. CASE EditTemp(c)
  <2>1. Create(c, TempFile) /\ GoesOn(c, <<Step("read", s.to, Opened(c, TempFile))>>)
    BY <1>2 DEF EditTemp, To
  <2>2. NewOK(c, Step("read", s.to, Opened(c, TempFile)))
    BY <1>a, <1>b, OpenedOK
  <2>3. Creates(c)
    BY <1>b, <2>1 DEF Creates
  <2> QED BY <2>1, <2>2, <2>3, StepsAdded DEF Changes
<1>3. CASE EditRead(c)
  <2> DEFINE new == Step("flush", Rewritten(data[From(c)], job[c]), To(c))
  <2>1. GoesOn(c, <<new>>) /\ UNCHANGED fs
    BY <1>3 DEF EditRead
  <2>2. NewOK(c, new)
    <3> DEFINE text == Rewritten(data[From(c)], job[c])
    <3>1. s.do = "read"
      BY <1>3 DEF EditRead, Does
    <3> HIDE DEF text
    <3> QED BY <1>a, <3>1 DEF NewOK, StepOK, Handles, Step, text
  <2> HIDE DEF new
  <2> QED BY <2>1, <2>2, StepsAdded DEF Changes
<1>4. CASE EditFlush(c)
  <2>1. s.do = "flush" /\ GoesOn(c, <<>>) /\ \E w : Write(To(c), w)
    BY <1>4 DEF EditFlush, Does
  <2>2. Fills(c)
    BY <2>1 DEF Fills, Write, Texts
  <2> QED BY <2>1, <2>2, StepsAdded DEF Changes
<1>5. CASE EditCleanup(c)
  <2>1. GoesOn(c, <<>>) /\ UNCHANGED data /\ (tree' = tree \/ tree' = RemoveAll(tree, Temp))
    BY <1>5 DEF EditCleanup
  <2>2. UNCHANGED fs \/ Removes(c)
    BY <1>b, <2>1 DEF Removes, fs
  <2> QED BY <2>1, <2>2, StepsAdded DEF Changes
<1> QED BY <1>1, <1>2, <1>3, <1>4, <1>5

\* and WriteFileString and WriteFileByte.
LEMMA WriteChanges ==
  ASSUME NEW c \in Calls, FilesInv, AllSeqs,
         WriteLook(c) \/ WriteMake(c) \/ WriteOpen(c) \/ WriteEnd(c)
  PROVE  Changes(c) /\ NewSteps(c)
<1> DEFINE s == todo[c][1]
<1>0. out[c] = "run" /\ s.do \in {"lstat", "makeString", "openString", "openByte", "append"}
  BY DEF WriteLook, WriteMake, WriteOpen, WriteEnd, Does
<1>a. s.do # "append" => Reach(c, s.to)
  BY <1>0, FirstStepOK DEF StepOK
<1>1. CASE WriteLook(c)
  <2>1. /\ s.do = "lstat" /\ UNCHANGED fs
        /\ \E d \in {"openString", "makeString"} : GoesOn(c, <<Step(d, s.from, s.to)>>)
    BY <1>1 DEF WriteLook, Does, From, To
  <2>2. \A d \in {"openString", "makeString"} : NewOK(c, Step(d, s.from, s.to))
    BY <1>a, <2>1 DEF NewOK, StepOK, Handles, Step
  <2> QED BY <2>1, <2>2, StepsAdded DEF Changes
<1>2. CASE WriteMake(c)
  <2>1. /\ s.do = "makeString" /\ Create(c, s.to)
        /\ GoesOn(c, <<Step("write", s.from, Opened(c, s.to))>>)
    BY <1>2 DEF WriteMake, Does, From, To
  <2>2. NewOK(c, Step("write", s.from, Opened(c, s.to)))
    BY <1>a, <2>1, OpenedOK
  <2>3. Creates(c)
    BY <1>a, <2>1 DEF Creates, Reach
  <2> QED BY <2>1, <2>2, <2>3, StepsAdded DEF Changes
<1>3. CASE WriteOpen(c)
  <2>1. /\ s.do # "append" /\ (UNCHANGED fs \/ Create(c, s.to))
        /\ \E d \in {"append", "write"} : GoesOn(c, <<Step(d, s.from, Opened(c, s.to))>>)
    BY <1>3 DEF WriteOpen, Does, From, To
  <2>2. \A d \in {"append", "write"} : NewOK(c, Step(d, s.from, Opened(c, s.to)))
    BY <1>a, <2>1, OpenedOK
  <2>3. UNCHANGED fs \/ Creates(c)
    BY <1>a, <2>1 DEF Creates, Reach
  <2> QED BY <2>1, <2>2, <2>3, StepsAdded DEF Changes
<1>4. CASE WriteEnd(c)
  <2>1. s.do = "append" /\ GoesOn(c, <<>>) /\ UNCHANGED tree /\ \E text : data' = [data EXCEPT ![To(c)] = text]
    BY <1>4 DEF WriteEnd, Does
  <2>2. Fills(c)
    BY <2>1 DEF Fills, Texts
  <2> QED BY <2>1, <2>2, StepsAdded DEF Changes
<1> QED BY <1>1, <1>2, <1>3, <1>4

\* What the actions of a call are, each of one.
Acts(c) ==
  \/ Refused(c) /\ UNCHANGED history
  \/ CopyNext(c) /\ UNCHANGED history
  \/ (Move(c) \/ RenameEntries(c) \/ RenameOne(c)) /\ UNCHANGED history
  \/ (LookUp(c) \/ Make(c) \/ Unlink(c) \/ Mkdir(c) \/ Home(c)) /\ UNCHANGED history
  \/ EditOpen(c) \/ EditTemp(c) \/ EditRead(c) \/ EditFlush(c) \/ EditCleanup(c)
  \/ WriteLook(c) \/ WriteMake(c) \/ WriteOpen(c) \/ WriteEnd(c)

\* Every step of the system is one of some call.
LEMMA NextActs ==
  ASSUME EditsNext
  PROVE  \E c \in Calls : Acts(c)
BY DEF EditsNext, TreesNext, Acts

\* A step of a call changes the files in one of a few ways, only where the call
\* may write, and leaves the other calls alone.
LEMMA ActChanges ==
  ASSUME NEW c \in Calls, FilesInv, AllSeqs, Acts(c)
  PROVE  /\ Changes(c) /\ NewSteps(c) /\ out[c] = "run" /\ job' = job
         /\ \A k \in Calls \ {c} : todo'[k] = todo[k] /\ out'[k] = out[k]
<1>1. Changes(c) /\ NewSteps(c)
  <2>1. CASE Refused(c)
    BY <2>1 DEF Refused, Changes, NewSteps
  <2>2. CASE CopyNext(c)
    BY <2>2, CopyChanges, CopyDirChanges DEF CopyNext
  <2>3. CASE Move(c) \/ RenameEntries(c) \/ RenameOne(c)
    BY <2>3, MoveChanges
  <2>4. CASE LookUp(c) \/ Make(c) \/ Unlink(c) \/ Mkdir(c) \/ Home(c)
    BY <2>4, MakeChanges
  <2>5. CASE EditOpen(c) \/ EditTemp(c) \/ EditRead(c) \/ EditFlush(c) \/ EditCleanup(c)
    BY <2>5, EditChanges
  <2>6. CASE WriteLook(c) \/ WriteMake(c) \/ WriteOpen(c) \/ WriteEnd(c)
    BY <2>6, WriteChanges
  <2> QED BY <2>1, <2>2, <2>3, <2>4, <2>5, <2>6 DEF Acts
<1>2. out[c] = "run"
  BY DEF Acts, Refused, CopyNext, CopyOpen, CopyFolder, CopyCreate, CopyData, CopyCheck, CopyDir,
         CopyEntries, CopyTpl, CopyFsDir, CopyFsFolder, CopyFsFile, WriteContent, Move,
         RenameEntries, RenameOne, LookUp, Make, Unlink, Mkdir, Home, EditOpen, EditTemp,
         EditRead, EditFlush, EditCleanup, WriteLook, WriteMake, WriteOpen, WriteEnd, Does
<1>3. job' = job /\ \A k \in Calls \ {c} : todo'[k] = todo[k] /\ out'[k] = out[k]
  <2>1. CASE Refused(c)
    BY <2>1, RefusedTodo DEF FilesInv
  <2>2. CASE ~Refused(c)
    <3>1. PICK steps : AnySeq(steps) /\ GoesOn(c, steps)
      BY <1>1, <2>2 DEF NewSteps
    <3> QED BY <1>2, <3>1, FirstStepOK, GoesOnTodo
  <2> QED BY <2>1, <2>2
<1> QED BY <1>1, <1>2, <1>3

\* os.Create: the file at the path has its node, or a new one, and is empty.
LEMMA CreateIs ==
  ASSUME NEW c \in Calls, NEW q \in Paths, Create(c, q)
  PROVE  /\ CanCreate(tree, q) /\ Opened(c, q) # Dir /\ tree' = Place(tree, q, Opened(c, q))
         /\ Opened(c, q) = IF HasFile(tree, q) THEN tree[q] ELSE <<c, q>>
         /\ DOMAIN data' = DOMAIN data \cup {Opened(c, q)} /\ data'[Opened(c, q)] = <<>>
         /\ \A n \in DOMAIN data : n # Opened(c, q) => data'[n] = data[n]
<1>1. /\ CanCreate(tree, q) /\ tree' = Place(tree, q, Opened(c, q))
      /\ data' = [m \in DOMAIN data \cup {Opened(c, q)} |-> IF m = Opened(c, q) THEN <<>> ELSE data[m]]
  BY DEF Create, Opened
<1>2. Opened(c, q) # Dir
  <2>1. <<c, q>> # Dir
    BY TreesAssumption
  <2> QED BY <2>1 DEF Opened, HasFile
<1> QED BY <1>1, <1>2 DEF Opened

\* The tree stays rooted, and every file has its data.
LEMMA TreeStep ==
  ASSUME NEW c \in Calls, FilesInv, Changes(c)
  PROVE  /\ Rooted(tree') /\ \A p \in DOMAIN tree' : tree'[p] # Dir => tree'[p] \in DOMAIN data'
         /\ DOMAIN data \subseteq DOMAIN data'
<1>0. Rooted(tree) /\ \A p \in DOMAIN tree : tree[p] # Dir => tree[p] \in DOMAIN data
  BY DEF FilesInv, Files
<1>1. CASE UNCHANGED fs
  BY <1>0, <1>1 DEF fs
<1>2. CASE Makes(c)
  <2>1. PICK q \in Paths : CanMkdirAll(tree, q) /\ tree' = MkdirAll(tree, q) /\ data' = data
    BY <1>2 DEF Makes
  <2>2. /\ Rooted(tree') /\ \A p \in DOMAIN tree : tree'[p] = tree[p]
        /\ \A p \in DOMAIN tree' \ DOMAIN tree : tree'[p] = Dir
    BY <1>0, <2>1, MkdirAllTree DEF Grown
  <2> QED BY <1>0, <2>1, <2>2
<1>3. CASE Creates(c)
  <2>1. PICK q \in Paths : Create(c, q)
    BY <1>3 DEF Creates
  <2>2. /\ Rooted(tree') /\ DOMAIN tree' = DOMAIN tree \cup {q} /\ tree'[q] = Opened(c, q)
        /\ \A p \in DOMAIN tree \ {q} : tree'[p] = tree[p]
    <3> DEFINE n == Opened(c, q)
    <3>1. CanCreate(tree, q) /\ n # Dir /\ tree' = Place(tree, q, n)
      BY <2>1, CreateIs
    <3> HIDE DEF n
    <3>2. /\ Rooted(tree') /\ DOMAIN tree' = DOMAIN tree \cup {q} /\ tree'[q] = n
          /\ \A p \in DOMAIN tree \ {q} : tree'[p] = tree[p]
      <4>1. Rooted(tree') /\ With(tree, tree', q, n)
        BY <1>0, <3>1, PlaceTree
      <4> QED BY <4>1 DEF With
    <3> QED BY <3>2 DEF n
  <2>3. DOMAIN data' = DOMAIN data \cup {Opened(c, q)}
    BY <2>1, CreateIs
  <2> QED BY <1>0, <2>2, <2>3
<1>4. CASE Removes(c)
  <2>1. PICK q \in Paths : q # <<>> /\ tree' = RemoveAll(tree, q) /\ data' = data
    BY <1>4 DEF Removes
  <2>2. Rooted(tree') /\ DOMAIN tree' \subseteq DOMAIN tree /\ \A p \in DOMAIN tree' : tree'[p] = tree[p]
    BY <1>0, <2>1, RemoveAllTree DEF Without
  <2> QED BY <1>0, <2>1, <2>2
<1>5. CASE Moves(c)
  <2>1. PICK p, q \in Paths : CanRename(tree, p, q) /\ tree' = Rename(tree, p, q) /\ data' = data
    BY <1>5 DEF Moves
  <2>2. CASE p = q
    BY <1>0, <2>1, <2>2 DEF Rename
  <2>3. CASE p # q
    <3>1. /\ Rooted(tree')
          /\ \A r \in DOMAIN tree' : \E s \in DOMAIN tree : tree'[r] = tree[s]
      <4> DEFINE Stay == {r \in DOMAIN tree : ~IsPrefix(p, r) /\ r # q}
                 New == {Shift(p, q, s) : s \in Under(tree, p)}
      <4>1. /\ Rooted(tree') /\ DOMAIN tree' = Stay \cup New
            /\ \A r \in Stay : tree'[r] = tree[r]
            /\ \A s \in Under(tree, p) : tree'[Shift(p, q, s)] = tree[s]
        <5>1. Rooted(tree') /\ Renamed(tree, tree', p, q)
          BY <1>0, <2>1, <2>3, RenameTree
        <5> QED BY <5>1 DEF Renamed
      <4>2. \A r \in Stay : \E s \in DOMAIN tree : tree'[r] = tree[s]
        BY <4>1
      <4>3. \A r \in New : \E s \in DOMAIN tree : tree'[r] = tree[s]
        BY <4>1 DEF Under
      <4> QED BY <4>1, <4>2, <4>3
    <3> QED BY <1>0, <2>1, <3>1
  <2> QED BY <2>2, <2>3
<1>6. CASE Fills(c)
  BY <1>0, <1>6 DEF Fills
<1> QED BY <1>1, <1>2, <1>3, <1>4, <1>5, <1>6 DEF Changes

\* At the start every directory is there, and every call has its first step.
LEMMA FilesInvInit ==
  ASSUME EditsInit
  PROVE  FilesInv /\ AllSeqs
<1>1. /\ tree = InitTree /\ data = InitText /\ job \in [Calls -> Jobs]
      /\ todo = [c \in Calls |-> <<FirstStep(job[c])>>] /\ out = [c \in Calls |-> "run"]
  BY DEF EditsInit
<1>2. Rooted(tree) /\ \A p \in Files(tree) : tree[p] \in DOMAIN data
  BY <1>1, TreesAssumption
<1>3. \A c \in Calls : /\ AnySeq(todo[c]) /\ Len(todo[c]) = 1 /\ todo[c][1] = FirstStep(job[c])
                       /\ todo[c] # <<>>
  <2> SUFFICES ASSUME NEW c \in Calls
               PROVE  /\ AnySeq(todo[c]) /\ Len(todo[c]) = 1 /\ todo[c][1] = FirstStep(job[c])
                      /\ todo[c] # <<>>
    OBVIOUS
  <2> DEFINE s == FirstStep(job[c])
  <2>1. todo[c] = <<s>>
    BY <1>1
  <2> HIDE DEF s
  <2>2. AnySeq(<<s>>) /\ Len(<<s>>) = 1 /\ <<s>>[1] = s /\ Len(<<>>) = 0
    BY Short
  <2> QED BY <2>1, <2>2 DEF s
<1>4. ASSUME NEW c \in Calls PROVE StepOK(c, FirstStep(job[c]))
  <2> DEFINE j == job[c]
  <2>1. /\ j \in Jobs /\ j.to \in Paths /\ (j.op \in Operations => j.from \in Paths)
        /\ j.op \in {"RemoveIfExist", "DeLFile"} => j.to # <<>>
        /\ Insertion(j) \/ Writing(j) \/ j.op \in Operations
    BY <1>1, TreesAssumption, EditsAssumption
  <2>2. \A p \in Paths : p \in Writes(j) => Reach(c, p)
    BY PrefixOrder DEF Reach
  <2>3. CASE Insertion(j)
    <3>1. j.to \in Writes(j) /\ FirstStep(j) = Step("edit", j.from, j.to)
      BY <2>3 DEF Insertion, Writes, FirstStep
    <3> QED BY <2>1, <2>2, <2>3, <3>1 DEF StepOK, Step
  <2>4. CASE Writing(j)
    <3>1. /\ j.to \in Writes(j)
          /\ FirstStep(j) \in {Step("lstat", j.from, j.to), Step("openByte", j.from, j.to)}
      BY <2>4 DEF Writing, Insertion, Writes, FirstStep
    <3> QED BY <2>1, <2>2, <3>1 DEF StepOK, Step
  <2>5. CASE j.op \in Operations
    <3>0. FirstStep(j) = First(j)
      BY <2>5 DEF FirstStep, Insertion, Writing, Operations
    <3>1. CASE j.op \in {"RenameFiles", "RenameFilesAndDir"}
      <4>1. j.from \in Writes(j) /\ First(j) \in {Step("names", j.from, j.to), Step("namesAndDirs", j.from, j.to)}
        BY <3>1 DEF Writes, First
      <4> QED BY <2>1, <2>2, <2>5, <3>0, <4>1 DEF StepOK, Step
    <3>2. CASE j.op \in {"FileMove", "GetGoctlHome"}
      <4>1. /\ j.from \in Writes(j) /\ j.to \in Writes(j)
            /\ First(j) \in {Step("move", j.from, j.to), Step("home", j.from, j.to)}
        BY <3>2 DEF Writes, First
      <4> QED BY <2>1, <2>2, <2>5, <3>0, <4>1 DEF StepOK, Step
    <3>3. CASE j.op \in {"CopyFile", "Copy", "CopyDir", "CopyTpl"}
      <4>1. /\ j.to \in Writes(j)
            /\ First(j) \in {Step(d, j.from, j.to) : d \in {"open", "dir", "template"}}
        BY <3>3 DEF Writes, First
      <4> QED BY <2>1, <2>2, <2>5, <3>0, <4>1 DEF StepOK, Step
    <3>4. CASE j.op \in {"CreateIfNotExist", "CreateFile", "CreateFileForce", "CreateDir"}
      <4>1. /\ j.to \in Writes(j)
            /\ First(j) \in {Step(d, j.from, j.to) : d \in {"absent", "exists", "make", "mkdir"}}
        BY <3>4 DEF Writes, First
      <4> QED BY <2>1, <2>2, <2>5, <3>0, <4>1 DEF StepOK, Step
    <3>5. CASE j.op \in {"RemoveIfExist", "DeLFile"}
      <4>1. /\ j.to \in Writes(j)
            /\ First(j) \in {Step(d, j.from, j.to) : d \in {"present", "delete"}}
        BY <3>5 DEF Writes, First
      <4> QED BY <2>1, <2>2, <2>5, <3>0, <3>5, <4>1 DEF StepOK, Step
    <3> QED BY <2>5, <3>1, <3>2, <3>3, <3>4, <3>5 DEF Operations
  <2> QED BY <2>1, <2>3, <2>4, <2>5
<1>5. \A c \in Calls : \A i \in 1..Len(todo[c]) : StepOK(c, todo[c][i])
  BY <1>3, <1>4
<1>6. FilesInv
  BY <1>1, <1>2, <1>3, <1>5 DEF FilesInv
<1> QED BY <1>3, <1>6 DEF AllSeqs

\* What a step may hold depends on what the call is, and that never changes.
LEMMA SameJobs ==
  ASSUME job' = job
  PROVE  \A c, s : StepOK(c, s)' <=> StepOK(c, s)
<1> SUFFICES ASSUME NEW c, NEW s PROVE StepOK(c, s)' <=> StepOK(c, s)
  OBVIOUS
<1>1. \A p : Reach(c, p)' <=> Reach(c, p)
  BY DEF Reach
<1>2. Insertion(job[c])' <=> Insertion(job[c])
  BY DEF Insertion
<1> QED BY <1>1, <1>2 DEF StepOK

\* No step of any call breaks the invariant of the tree and of the steps.
LEMMA FilesInvNext ==
  ASSUME FilesInv, AllSeqs, [EditsNext]_editVars
  PROVE  FilesInv' /\ AllSeqs'
<1>1. CASE UNCHANGED editVars
  <2>1. UNCHANGED <<tree, data, job, todo, out>>
    BY <1>1 DEF editVars, treeVars
  <2>2. AllSeqs'
    BY <2>1 DEF AllSeqs
  <2>3. FilesInv'
    <3>1. \A c \in Calls : \A i \in 1..Len(todo'[c]) : StepOK(c, todo'[c][i])
      BY <2>1 DEF FilesInv
    <3>2. \A c \in Calls : \A i \in 1..Len(todo'[c]) : StepOK(c, todo[c][i])'
      BY <2>1, <3>1, SameJobs
    <3>3. Rooted(tree') /\ \A p \in Files(tree') : tree'[p] \in DOMAIN data'
      BY <2>1 DEF FilesInv
    <3>4. /\ job' \in [Calls -> Jobs] /\ DOMAIN todo' = Calls
          /\ out' \in [Calls -> {"run", "nil", "error"}]
          /\ \A c \in Calls : out'[c] = "run" <=> todo'[c] # <<>>
      BY <2>1 DEF FilesInv
    <3> QED BY <3>2, <3>3, <3>4 DEF FilesInv
  <2> QED BY <2>2, <2>3
<1>2. CASE EditsNext
  <2>1. PICK c \in Calls : Acts(c)
    BY <1>2, NextActs
  <2>2. /\ Changes(c) /\ NewSteps(c) /\ out[c] = "run" /\ job' = job
        /\ \A k \in Calls \ {c} : todo'[k] = todo[k] /\ out'[k] = out[k]
    BY <2>1, ActChanges
  <2>3. Rooted(tree') /\ \A p \in DOMAIN tree' : tree'[p] # Dir => tree'[p] \in DOMAIN data'
    BY <2>2, TreeStep
  <2>4. /\ DOMAIN todo' = Calls /\ out' \in [Calls -> {"run", "nil", "error"}]
        /\ AnySeq(todo'[c]) /\ (out'[c] = "run" <=> todo'[c] # <<>>)
        /\ \A i \in 1..Len(todo'[c]) : StepOK(c, todo'[c][i])
    <3>1. CASE Refused(c)
      <4>1. /\ DOMAIN todo' = Calls /\ out' \in [Calls -> {"run", "nil", "error"}]
            /\ todo'[c] = <<>> /\ out'[c] = "error"
        BY <3>1, RefusedTodo DEF FilesInv
      <4> QED BY <4>1, Short
    <3>2. CASE ~Refused(c)
      <4>1. PICK steps : /\ AnySeq(steps) /\ GoesOn(c, steps)
                         /\ \A i \in 1..Len(steps) : StepOK(c, steps[i])
        BY <2>2, <3>2 DEF NewSteps, NewOK
      <4>2. /\ DOMAIN todo' = Calls /\ out' \in [Calls -> {"run", "nil", "error"}]
            /\ AnySeq(todo'[c]) /\ out'[c] = (IF todo'[c] = <<>> THEN "nil" ELSE "run")
            /\ Len(todo[c]) \in Nat /\ Len(steps) \in Nat /\ Len(todo[c]) > 0
            /\ Len(todo'[c]) = Len(steps) + Len(todo[c]) - 1
            /\ \A i \in 1..Len(todo'[c]) :
                 todo'[c][i] = IF i <= Len(steps) THEN steps[i] ELSE todo[c][i - Len(steps) + 1]
        BY <2>2, <4>1, FirstStepOK, GoesOnTodo
      <4>3. \A i \in 1..Len(todo[c]) : StepOK(c, todo[c][i])
        BY DEF FilesInv
      <4>4. ASSUME NEW i \in 1..Len(todo'[c]) PROVE StepOK(c, todo'[c][i])
        <5>1. CASE i <= Len(steps)
          <6>1. i \in 1..Len(steps) /\ todo'[c][i] = steps[i]
            BY <4>2, <5>1
          <6> QED BY <4>1, <6>1
        <5>2. CASE ~(i <= Len(steps))
          <6>1. i - Len(steps) + 1 \in 1..Len(todo[c]) /\ todo'[c][i] = todo[c][i - Len(steps) + 1]
            BY <4>2, <5>2
          <6> QED BY <4>3, <6>1
        <5> QED BY <5>1, <5>2
      <4> QED BY <4>2, <4>4
    <3> QED BY <3>1, <3>2
  <2>5. \A k \in Calls : AnySeq(todo'[k])
    BY <2>2, <2>4 DEF AllSeqs
  <2>6. \A k \in Calls : out'[k] = "run" <=> todo'[k] # <<>>
    <3>1. \A k \in Calls : out[k] = "run" <=> todo[k] # <<>>
      BY DEF FilesInv
    <3> QED BY <2>2, <2>4, <3>1
  <2>7. \A k \in Calls : \A i \in 1..Len(todo'[k]) : StepOK(k, todo'[k][i])
    <3>1. \A k \in Calls : \A i \in 1..Len(todo[k]) : StepOK(k, todo[k][i])
      BY DEF FilesInv
    <3> QED BY <2>2, <2>4, <3>1
  <2>8. \A k \in Calls : \A i \in 1..Len(todo'[k]) : StepOK(k, todo[k][i])'
    BY <2>2, <2>7, SameJobs
  <2>9. job' \in [Calls -> Jobs]
    BY <2>2 DEF FilesInv
  <2>10. FilesInv'
    BY <2>3, <2>4, <2>6, <2>8, <2>9 DEF FilesInv, Files
  <2>11. AllSeqs'
    BY <2>5 DEF AllSeqs
  <2> QED BY <2>10, <2>11
<1> QED BY <1>1, <1>2

\* No path that the call c may write at is above or below p.
LEMMA ReachApart ==
  ASSUME NEW c \in Calls, FilesInv, NEW p \in Paths, ~Meets(Writes(job[c]), {p}),
         NEW q, Reach(c, q)
  PROVE  /\ q \in Paths /\ ~IsPrefix(q, p) /\ q # p
         /\ \A r \in Paths : IsPrefix(q, r) => r # p
         /\ \A r \in Paths : IsPrefix(r, q) => r # p
<1>1. PICK w \in Writes(job[c]) : IsPrefix(w, q)
  BY DEF Reach
<1>2. w \in Paths /\ q \in Paths /\ ~IsPrefix(w, p) /\ ~IsPrefix(p, w)
  BY <1>1, WritesPaths DEF Reach, Meets
<1>3. ~IsPrefix(q, p)
  BY <1>1, <1>2, PrefixOrder
<1>4. ASSUME NEW r \in Paths, IsPrefix(r, q) PROVE r # p
  BY <1>1, <1>2, <1>4, PrefixOrder
<1> QED BY <1>2, <1>3, <1>4, PrefixOrder

\* Where a call may not write, the tree stays, and what stands there gets no
\* other place.
LEMMA TreeFrame ==
  ASSUME NEW c \in Calls, FilesInv, Changes(c), NEW p \in Paths, ~Meets(Writes(job[c]), {p})
  PROVE  /\ p \in DOMAIN tree' <=> p \in DOMAIN tree
         /\ p \in DOMAIN tree => tree'[p] = tree[p]
         /\ \A q \in DOMAIN tree' : q # p =>
              \/ tree'[q] = Dir
              \/ \E r \in DOMAIN tree : r # p /\ tree'[q] = tree[r]
              \/ \E r \in Paths : Reach(c, r) /\ tree'[q] = <<c, r>>
<1> DEFINE Same == (p \in DOMAIN tree' <=> p \in DOMAIN tree) /\ (p \in DOMAIN tree => tree'[p] = tree[p])
           Old(q) == \E r \in DOMAIN tree : r # p /\ tree'[q] = tree[r]
           New(q) == \E r \in Paths : Reach(c, r) /\ tree'[q] = <<c, r>>
           Rest1 == \A q \in DOMAIN tree' : q # p => tree'[q] = Dir \/ Old(q) \/ New(q)
<1>0. Rooted(tree) /\ DOMAIN tree \subseteq Paths
  BY DEF FilesInv, Rooted
<1>1. CASE UNCHANGED fs
  BY <1>1 DEF fs
<1>2. CASE Makes(c)
  <2>1. PICK q, r \in Paths : /\ Reach(c, r) /\ IsPrefix(q, r) /\ CanMkdirAll(tree, q)
                              /\ tree' = MkdirAll(tree, q)
    BY <1>2 DEF Makes
  <2>2. Rooted(tree') /\ Grown(tree, tree', q)
    BY <1>0, <2>1, MkdirAllTree
  <2>3. /\ DOMAIN tree \subseteq DOMAIN tree' /\ DOMAIN tree' \subseteq Paths
        /\ \A s \in DOMAIN tree : tree'[s] = tree[s]
        /\ \A s \in DOMAIN tree' \ DOMAIN tree : tree'[s] = Dir /\ IsPrefix(s, q)
    BY <2>2 DEF Grown, Rooted
  <2>4. \A s \in DOMAIN tree' \ DOMAIN tree : s # p
    BY <2>1, <2>3, PrefixOrder, ReachApart
  <2>5. Same
    BY <2>3, <2>4
  <2>6. Rest1
    BY <2>3
  <2> QED BY <2>5, <2>6
<1>3. CASE Creates(c)
  <2>1. PICK q \in Paths : Reach(c, q) /\ Create(c, q)
    BY <1>3 DEF Creates
  <2> DEFINE n == Opened(c, q)
  <2>2. /\ CanCreate(tree, q) /\ n # Dir /\ tree' = Place(tree, q, n)
        /\ n = IF HasFile(tree, q) THEN tree[q] ELSE <<c, q>>
    BY <2>1, CreateIs
  <2> HIDE DEF n
  <2>3. With(tree, tree', q, n)
    BY <1>0, <2>2, PlaceTree
  <2>4. /\ DOMAIN tree' = DOMAIN tree \cup {q} /\ tree'[q] = n
        /\ \A s \in DOMAIN tree \ {q} : tree'[s] = tree[s]
    BY <2>3 DEF With
  <2>5. q # p
    BY <2>1, ReachApart
  <2>6. Same
    BY <2>4, <2>5
  <2>7. Old(q) \/ New(q)
    BY <2>1, <2>2, <2>4, <2>5 DEF HasFile
  <2>8. Rest1
    BY <2>4, <2>7
  <2> QED BY <2>6, <2>8
<1>4. CASE Removes(c)
  <2>1. PICK q \in Paths : Reach(c, q) /\ q # <<>> /\ tree' = RemoveAll(tree, q)
    BY <1>4 DEF Removes
  <2>2. Rooted(tree') /\ Without(tree, tree', q)
    BY <1>0, <2>1, RemoveAllTree
  <2>3. ~IsPrefix(q, p)
    BY <2>1, ReachApart
  <2>4. Same
    BY <2>2, <2>3 DEF Without
  <2>5. Rest1
    BY <2>2 DEF Without
  <2> QED BY <2>4, <2>5
<1>5. CASE Moves(c)
  <2>1. PICK a, b \in Paths : /\ Reach(c, a) /\ Reach(c, b) /\ CanRename(tree, a, b)
                              /\ tree' = Rename(tree, a, b)
    BY <1>5 DEF Moves
  <2>2. CASE a = b
    BY <2>1, <2>2 DEF Rename
  <2>3. CASE a # b
    <3> DEFINE Stay == {r \in DOMAIN tree : ~IsPrefix(a, r) /\ r # b}
    <3>1. Rooted(tree') /\ Renamed(tree, tree', a, b)
      BY <1>0, <2>1, <2>3, RenameTree
    <3>2. /\ DOMAIN tree' = Stay \cup {Shift(a, b, s) : s \in Under(tree, a)}
          /\ \A r \in Stay : tree'[r] = tree[r]
          /\ \A s \in Under(tree, a) : tree'[Shift(a, b, s)] = tree[s]
      BY <3>1 DEF Renamed
    <3>3. \A s \in Under(tree, a) : s \in DOMAIN tree /\ s \in Paths /\ IsPrefix(a, s) /\ s # p
      BY <1>0, <2>1, ReachApart DEF Under
    <3>4. \A s \in Under(tree, a) : Shift(a, b, s) # p
      <4> SUFFICES ASSUME NEW s \in Under(tree, a) PROVE Shift(a, b, s) # p
        OBVIOUS
      <4>1. Shift(a, b, s) \in Paths /\ IsPrefix(b, Shift(a, b, s))
        BY <2>1, <3>3, ShiftPath, ShiftBack
      <4> QED BY <2>1, <4>1, ReachApart
    <3>5. ~IsPrefix(a, p) /\ b # p
      BY <2>1, ReachApart
    <3>6. Same
      BY <3>2, <3>4, <3>5
    <3>7. \A q \in DOMAIN tree' : q # p => Old(q)
      <4> SUFFICES ASSUME NEW q \in DOMAIN tree', q # p PROVE Old(q)
        OBVIOUS
      <4>1. CASE q \in Stay
        BY <3>2, <4>1
      <4>2. CASE q \in {Shift(a, b, s) : s \in Under(tree, a)}
        <5>1. PICK s \in Under(tree, a) : q = Shift(a, b, s)
          BY <4>2
        <5> QED BY <3>2, <3>3, <5>1
      <4> QED BY <3>2, <4>1, <4>2
    <3> QED BY <3>6, <3>7
  <2> QED BY <2>2, <2>3
<1>6. CASE Fills(c)
  BY <1>6 DEF Fills
<1> QED BY <1>1, <1>2, <1>3, <1>4, <1>5, <1>6 DEF Changes

\* The data that a step changes are those of a file that the call may write, or
\* of a node that it holds.
LEMMA DataFrame ==
  ASSUME NEW c \in Calls, FilesInv, Changes(c), NEW n \in DOMAIN data,
         \A q \in Paths : Reach(c, q) => n # Opened(c, q),
         todo[c][1].do \in Texts => n # To(c)
  PROVE  n \in DOMAIN data' /\ data'[n] = data[n]
<1>1. CASE UNCHANGED fs \/ Makes(c) \/ Removes(c) \/ Moves(c)
  BY <1>1 DEF fs, Makes, Removes, Moves
<1>2. CASE Creates(c)
  <2>1. PICK q \in Paths : Reach(c, q) /\ Create(c, q)
    BY <1>2 DEF Creates
  <2> QED BY <2>1, CreateIs
<1>3. CASE Fills(c)
  BY <1>3 DEF Fills
<1> QED BY <1>1, <1>2, <1>3 DEF Changes

\* The steps of a call behind an action: new ones, or some of those before.
LEMMA StepsAfter ==
  ASSUME NEW c \in Calls, FilesInv, AllSeqs, Acts(c), NEW i \in 1..Len(todo'[c])
  PROVE  \/ NewOK(c, todo'[c][i])
         \/ \E h \in 2..Len(todo[c]) : todo'[c][i] = todo[c][h]
<1>1. NewSteps(c) /\ out[c] = "run"
  BY ActChanges
<1>2. CASE Refused(c)
  <2>1. todo'[c] = <<>>
    BY <1>2, RefusedTodo DEF FilesInv
  <2> QED BY <2>1, Short
<1>3. CASE ~Refused(c)
  <2>1. PICK steps : /\ AnySeq(steps) /\ GoesOn(c, steps)
                     /\ \A h \in 1..Len(steps) : NewOK(c, steps[h])
    BY <1>1, <1>3 DEF NewSteps
  <2>2. /\ Len(todo[c]) \in Nat /\ Len(steps) \in Nat /\ Len(todo[c]) > 0
        /\ Len(todo'[c]) = Len(steps) + Len(todo[c]) - 1
        /\ todo'[c][i] = IF i <= Len(steps) THEN steps[i] ELSE todo[c][i - Len(steps) + 1]
    BY <1>1, <2>1, FirstStepOK, GoesOnTodo
  <2>3. CASE i <= Len(steps)
    <3>1. i \in 1..Len(steps) /\ todo'[c][i] = steps[i]
      BY <2>2, <2>3
    <3> QED BY <2>1, <3>1
  <2>4. CASE ~(i <= Len(steps))
    <3>1. i - Len(steps) + 1 \in 2..Len(todo[c]) /\ todo'[c][i] = todo[c][i - Len(steps) + 1]
      BY <2>2, <2>4
    <3> QED BY <3>1
  <2> QED BY <2>3, <2>4
<1> QED BY <1>2, <1>3

\* A text is a sequence of words.
LEMMA TextSeq ==
  ASSUME NEW t
  PROVE  IsText(t) <=> AnySeq(t)
<1>1. IsText(t) => AnySeq(t)
  BY DEF IsText, AnySeq
<1>2. ASSUME NEW S, t \in Seq(S) PROVE t \in Seq(Range(t))
  <2>1. Len(t) \in Nat /\ t \in [1..Len(t) -> S] /\ DOMAIN t = 1..Len(t)
    BY <1>2, LenProperties
  <2>2. t \in [1..Len(t) -> Range(t)]
    BY <2>1 DEF Range
  <2> QED BY <2>1, <2>2
<1> QED BY <1>1, <1>2 DEF IsText, AnySeq

\* What a text holds it holds with more behind it, and that too.
LEMMA HoldsMore ==
  ASSUME NEW t, NEW u, IsText(t), IsText(u)
  PROVE  /\ IsText(t \o u) /\ Holds(t \o u, u)
         /\ \A w : IsText(w) /\ Holds(t, w) => Holds(t \o u, w)
<1> DEFINE v == t \o u
           n == Len(t)
           m == Len(u)
<1>1. /\ AnySeq(v) /\ n \in Nat /\ m \in Nat /\ Len(v) = n + m
      /\ \A i \in 1..n + m : v[i] = IF i <= n THEN t[i] ELSE u[i - n]
  BY TextSeq, Joined
<1>2. PICK S : v \in Seq(S)
  BY <1>1 DEF AnySeq
<1>3. PICK T : t \in Seq(T)
  BY TextSeq DEF AnySeq
<1>4. PICK U : u \in Seq(U)
  BY TextSeq DEF AnySeq
<1> HIDE DEF v
<1>5. Holds(v, u)
  <2> DEFINE x == SubSeq(v, n + 1, n + m)
  <2>1. \A i \in n + 1..n + m : v[i] \in S
    BY <1>1, <1>2, LenProperties
  <2>2. /\ x \in Seq(S) /\ Len(x) = IF n + 1 <= n + m THEN n + m - (n + 1) + 1 ELSE 0
        /\ \A i \in 1..n + m - (n + 1) + 1 : x[i] = v[n + 1 + i - 1]
    BY <1>1, <2>1, SubSeqProperties
  <2> HIDE DEF x, n, m
  <2>3. Len(x) = m /\ \A i \in 1..m : x[i] = v[n + i]
    BY <1>1, <2>2
  <2>4. \A i \in 1..m : x[i] = u[i]
    BY <1>1, <2>3
  <2>5. x = u
    BY <1>4, <2>2, <2>3, <2>4, SeqEqual DEF m
  <2>6. n \in 0..(Len(v) - m)
    BY <1>1
  <2> QED BY <2>5, <2>6 DEF Holds, x, m
<1>6. ASSUME NEW w, IsText(w), Holds(t, w) PROVE Holds(v, w)
  <2> DEFINE k == Len(w)
  <2>1. PICK i \in 0..(n - k) : SubSeq(t, i + 1, i + k) = w
    BY <1>6 DEF Holds
  <2>2. k \in Nat
    BY <1>6, TextSeq, Rest
  <2> HIDE DEF n, k, m
  <2>3. \A h \in i + 1..i + k : h \in 1..n /\ h \in 1..n + m /\ v[h] = t[h]
    BY <1>1, <2>1, <2>2
  <2>4. (\A h \in 1..n : t[h] \in T) /\ (\A h \in 1..n + m : v[h] \in S)
    BY <1>1, <1>2, <1>3, LenProperties DEF n
  <2>5. \A h \in i + 1..i + k : t[h] \in T /\ v[h] \in S
    BY <2>3, <2>4
  <2>6. i \in Int /\ i + 1 \in Int /\ i + k \in Int
    BY <2>1, <2>2
  <2>7. SubSeq(v, i + 1, i + k) = SubSeq(t, i + 1, i + k)
    <3> DEFINE a == i + 1
               b == i + k
               x == SubSeq(v, a, b)
               y == SubSeq(t, a, b)
    <3>0. a \in Int /\ b \in Int /\ (\A h \in a..b : v[h] \in S) /\ (\A h \in a..b : t[h] \in T)
      BY <2>5, <2>6
    <3> HIDE DEF a, b
    <3>1. /\ x \in Seq(S) /\ Len(x) = IF a <= b THEN b - a + 1 ELSE 0
          /\ \A h \in 1..b - a + 1 : x[h] = v[a + h - 1]
      BY <3>0, SubSeqProperties
    <3>2. /\ y \in Seq(T) /\ Len(y) = IF a <= b THEN b - a + 1 ELSE 0
          /\ \A h \in 1..b - a + 1 : y[h] = t[a + h - 1]
      BY <3>0, SubSeqProperties
    <3> HIDE DEF x, y
    <3>3. Len(x) = k /\ Len(y) = k
      BY <2>2, <2>6, <3>1, <3>2 DEF a, b
    <3>4. \A h \in 1..k : x[h] = v[i + h] /\ y[h] = t[i + h]
      BY <2>2, <2>6, <3>1, <3>2 DEF a, b
    <3>5. \A h \in 1..k : x[h] = y[h]
      <4>1. \A h \in 1..k : i + h \in i + 1..i + k
        BY <2>2, <2>6
      <4> QED BY <2>3, <3>4, <4>1
    <3> QED BY <3>1, <3>2, <3>3, <3>5, SeqEqual DEF x, y, a, b
  <2>8. i \in 0..(Len(v) - k)
    BY <1>1, <2>1, <2>2
  <2> QED BY <2>1, <2>7, <2>8 DEF Holds, k
<1> QED BY <1>1, <1>5, <1>6, TextSeq DEF v

\* A call that may not write at p opens no node that p has by its own.
LEMMA OpenedApart ==
  ASSUME NEW c \in Calls, FilesInv, NEW p \in Paths, ~Meets(Writes(job[c]), {p}),
         \A q \in DOMAIN tree : q # p => tree[q] \notin Own(p),
         NEW q \in Paths, Reach(c, q)
  PROVE  Opened(c, q) \notin Own(p)
<1>1. q # p
  BY ReachApart
<1>2. CASE HasFile(tree, q)
  BY <1>1, <1>2 DEF Opened, HasFile
<1>3. CASE ~HasFile(tree, q)
  <2>1. Opened(c, q) = <<c, q>> /\ <<c, q>> \in Calls \X Paths /\ <<c, q>> \notin Calls \X {p}
    BY <1>1, <1>3 DEF Opened
  <2> QED BY <2>1, TreesAssumption DEF Own
<1> QED BY <1>2, <1>3

\* Calls that do not write at a file that is appended to leave it alone.
LEMMA AppendOther ==
  ASSUME NEW c \in Calls, FilesInv, AllSeqs, Acts(c), NEW p \in Paths,
         ~Meets(Writes(job[c]), {p}), AppendAt(p)
  PROVE  AppendAt(p)'
<1>1. /\ Changes(c) /\ job' = job
      /\ \A k \in Calls \ {c} : todo'[k] = todo[k] /\ out'[k] = out[k]
  BY ActChanges
<1>2. /\ p \in DOMAIN tree' <=> p \in DOMAIN tree
      /\ p \in DOMAIN tree => tree'[p] = tree[p]
      /\ \A q \in DOMAIN tree' : q # p =>
           \/ tree'[q] = Dir
           \/ \E r \in DOMAIN tree : r # p /\ tree'[q] = tree[r]
           \/ \E r \in Paths : Reach(c, r) /\ tree'[q] = <<c, r>>
  BY <1>1, TreeFrame
<1>3. /\ \A q \in DOMAIN tree : q # p => tree[q] \notin Own(p)
      /\ p \in Files(InitTree) => HasFile(tree, p)
      /\ HasFile(tree, p) => tree[p] \in Own(p) /\ IsText(data[tree[p]])
      /\ \A i \in 1..Len(todo[c]) : todo[c][i].do \in Handles => todo[c][i].to \notin Own(p)
  BY DEF AppendAt
<1>4. HasFile(tree', p) <=> HasFile(tree, p)
  BY <1>2 DEF HasFile
<1>5. todo[c][1].do \in Handles => To(c) \notin Own(p)
  <2>1. 1 \in 1..Len(todo[c])
    BY <1>1, ActChanges, FirstStepOK
  <2> QED BY <1>3, <2>1 DEF To
<1>6. \A q \in Paths : Reach(c, q) => Opened(c, q) \notin Own(p)
  BY <1>3, OpenedApart
<1>7. HasFile(tree, p) => /\ tree'[p] = tree[p] /\ tree[p] \in DOMAIN data
                          /\ data'[tree[p]] = data[tree[p]]
  <2> SUFFICES ASSUME HasFile(tree, p)
               PROVE  /\ tree'[p] = tree[p] /\ tree[p] \in DOMAIN data
                      /\ data'[tree[p]] = data[tree[p]]
    OBVIOUS
  <2>1. tree'[p] = tree[p] /\ tree[p] \in DOMAIN data /\ tree[p] \in Own(p)
    BY <1>2, <1>3 DEF HasFile, FilesInv, Files
  <2> DEFINE n == tree[p]
  <2>2. /\ \A q \in Paths : Reach(c, q) => n # Opened(c, q)
        /\ todo[c][1].do \in Texts => n # To(c)
    BY <1>5, <1>6, <2>1 DEF Texts, Handles
  <2> QED BY <1>1, <2>1, <2>2, DataFrame
<1>8. \A q \in DOMAIN tree' : q # p => tree'[q] \notin Own(p)
  <2> SUFFICES ASSUME NEW q \in DOMAIN tree', q # p PROVE tree'[q] \notin Own(p)
    OBVIOUS
  <2>1. CASE tree'[q] = Dir
    <3>1. Dir \notin Calls \X {p} /\ Dir \notin {p} \cap Files(InitTree)
      BY TreesAssumption DEF Files
    <3> QED BY <2>1, <3>1 DEF Own
  <2>2. CASE \E r \in DOMAIN tree : r # p /\ tree'[q] = tree[r]
    BY <1>3, <2>2
  <2>3. CASE \E r \in Paths : Reach(c, r) /\ tree'[q] = <<c, r>>
    <3>1. PICK r \in Paths : Reach(c, r) /\ tree'[q] = <<c, r>>
      BY <2>3
    <3>2. r # p
      BY <3>1, ReachApart
    <3>3. <<c, r>> \in Calls \X Paths /\ <<c, r>> \notin Calls \X {p}
      BY <3>2
    <3> QED BY <3>1, <3>3, TreesAssumption DEF Own
  <2> QED BY <1>2, <2>1, <2>2, <2>3
<1>9. ASSUME NEW k \in Calls, Meets(Writes(job[k]), {p})
      PROVE  /\ todo'[k] # <<>> => Len(todo'[k]) = 1 /\ Appending(k, p, todo[k][1])'
             /\ out'[k] = "nil" => HasFile(tree', p) /\ Holds(data'[tree'[p]], job'[k].from)
  <2>1. k # c
    BY <1>9
  <2>2. todo'[k] = todo[k] /\ out'[k] = out[k]
    BY <1>1, <2>1
  <2>3. /\ todo[k] # <<>> => Len(todo[k]) = 1 /\ Appending(k, p, todo[k][1])
        /\ out[k] = "nil" => HasFile(tree, p) /\ Holds(data[tree[p]], job[k].from)
    BY <1>9 DEF AppendAt
  <2>4. Appending(k, p, todo[k][1]) => Appending(k, p, todo[k][1])'
    BY <1>1, <1>4, <1>7, <2>2 DEF Appending
  <2> QED BY <1>1, <1>4, <1>7, <2>2, <2>3, <2>4
<1>10. ASSUME NEW k \in Calls, ~Meets(Writes(job[k]), {p}), NEW i \in 1..Len(todo'[k]),
              todo'[k][i].do \in Handles
       PROVE  todo'[k][i].to \notin Own(p)
  <2>1. CASE k # c
    BY <1>1, <1>10, <2>1 DEF AppendAt
  <2>2. CASE k = c
    <3>1. CASE NewOK(c, todo'[c][i])
      BY <1>5, <1>6, <1>10, <2>2, <3>1 DEF NewOK
    <3>2. CASE \E h \in 2..Len(todo[c]) : todo'[c][i] = todo[c][h]
      <4>1. PICK h \in 2..Len(todo[c]) : todo'[c][i] = todo[c][h]
        BY <3>2
      <4>2. h \in 1..Len(todo[c])
        OBVIOUS
      <4> QED BY <1>3, <1>10, <2>2, <4>1, <4>2
    <3> QED BY <2>2, <3>1, <3>2, StepsAfter
  <2> QED BY <2>1, <2>2
<1>11. /\ p \in Files(InitTree) => HasFile(tree', p)
       /\ HasFile(tree', p) => tree'[p] \in Own(p) /\ IsText(data'[tree'[p]])
  BY <1>3, <1>4, <1>7
<1>12. \A k \in Calls : Meets(Writes(job'[k]), {p}) <=> Meets(Writes(job[k]), {p})
  BY <1>1
<1> QED BY <1>1, <1>8, <1>9, <1>10, <1>11, <1>12 DEF AppendAt

\* A call that has one step left.
LEMMA LastStep ==
  ASSUME NEW c \in Calls, FilesInv, AllSeqs, out[c] = "run", Len(todo[c]) = 1
  PROVE  /\ GoesOn(c, <<>>) => todo'[c] = <<>> /\ out'[c] = "nil"
         /\ \A s : GoesOn(c, <<s>>) => todo'[c] = <<s>> /\ out'[c] = "run" /\ todo'[c] # <<>>
                                       /\ Len(todo'[c]) = 1 /\ todo'[c][1] = s
<1>1. /\ todo[c] # <<>> /\ AnySeq(todo[c]) /\ DOMAIN todo = Calls
      /\ out \in [Calls -> {"run", "nil", "error"}]
  BY FirstStepOK
<1>2. Tail(todo[c]) = <<>>
  <2>1. AnySeq(Tail(todo[c])) /\ Len(Tail(todo[c])) = 0
    BY <1>1, Rest
  <2> QED BY <2>1, EmptySeq DEF AnySeq
<1>3. GoesOn(c, <<>>) => todo'[c] = <<>> /\ out'[c] = "nil"
  <2>1. GoesOn(c, <<>>) => /\ todo'[c] = <<>> \o <<>>
                           /\ out'[c] = (IF todo'[c] = <<>> THEN "nil" ELSE "run")
    BY <1>1, <1>2, Short, GoesOnTodo
  <2>2. <<>> \o <<>> = <<>>
    BY Short, EmptySeq, Joined DEF AnySeq
  <2> QED BY <2>1, <2>2
<1>4. ASSUME NEW s, GoesOn(c, <<s>>)
      PROVE  todo'[c] = <<s>> /\ out'[c] = "run"
  <2>1. /\ todo'[c] = <<s>> \o <<>>
        /\ out'[c] = (IF todo'[c] = <<>> THEN "nil" ELSE "run")
    BY <1>1, <1>2, <1>4, Short, GoesOnTodo
  <2>2. <<s>> \o <<>> = <<s>>
    BY Pair
  <2>3. <<s>> # <<>>
    BY Short
  <2> QED BY <2>1, <2>2, <2>3
<1> QED BY <1>3, <1>4, Short

\* What the call does that appends at p.
LEMMA AppendActs ==
  ASSUME NEW c \in Calls, FilesInv, Acts(c), NEW p, Appending(c, p, todo[c][1])
  PROVE  (Refused(c) \/ WriteLook(c) \/ WriteOpen(c) \/ WriteEnd(c)) /\ out[c] = "run"
<1>1. todo[c][1].do \in {"lstat", "openString", "openByte", "append"}
  BY DEF Appending
<1> QED BY <1>1 DEF Acts, Refused, CopyNext, CopyOpen, CopyFolder, CopyCreate, CopyData, CopyCheck,
         CopyDir, CopyEntries, CopyTpl, CopyFsDir, CopyFsFolder, CopyFsFile, WriteContent, Move,
         RenameEntries, RenameOne, LookUp, Make, Unlink, Mkdir, Home, EditOpen, EditTemp,
         EditRead, EditFlush, EditCleanup, WriteLook, WriteMake, WriteOpen, WriteEnd, Does

\* The file is kept, or made when there is none, or written to.
LEMMA AppendStep ==
  ASSUME NEW c \in Calls, FilesInv, AllSeqs, Acts(c), NEW p \in Paths, AppendTo(p),
         Meets(Writes(job[c]), {p}), AppendAt(p)
  PROVE  AppendAt(p)'
<1> DEFINE s == todo[c][1]
<1>1. /\ NewSteps(c) /\ job' = job /\ out[c] = "run"
      /\ \A k \in Calls \ {c} : todo'[k] = todo[k] /\ out'[k] = out[k]
  BY ActChanges
<1>2. /\ job[c].to = p
      /\ job[c].op = "AppendByte" \/ (job[c].op = "AppendString" /\ p \in Files(InitTree))
  BY DEF AppendTo
<1>3. todo[c] # <<>> /\ StepOK(c, s)
  BY <1>1, FirstStepOK
<1>4. Len(todo[c]) = 1 /\ Appending(c, p, s)
  BY <1>3 DEF AppendAt
<1>5. IsText(job[c].from)
  BY <1>2, EditsAssumption, WritesPaths DEF Writing
<1>6. /\ p \in Files(InitTree) => HasFile(tree, p)
      /\ HasFile(tree, p) => /\ tree[p] \in Own(p) /\ IsText(data[tree[p]])
                             /\ tree[p] \in DOMAIN data
      /\ \A q \in DOMAIN tree : q # p => tree[q] \notin Own(p)
  BY DEF AppendAt, HasFile, FilesInv, Files
<1> DEFINE Done(k) == HasFile(tree, p) /\ Holds(data[tree[p]], job[k].from)
<1>7. \A k \in Calls : Meets(Writes(job[k]), {p}) =>
        /\ todo[k] # <<>> => Len(todo[k]) = 1 /\ Appending(k, p, todo[k][1])
        /\ out[k] = "nil" => Done(k)
  BY DEF AppendAt
<1>8. \A k \in Calls : ~Meets(Writes(job[k]), {p}) =>
        \A i \in 1..Len(todo[k]) : todo[k][i].do \in Handles => todo[k][i].to \notin Own(p)
  BY DEF AppendAt
<1>9. \A k \in Calls : Meets(Writes(job[k]), {p}) /\ out[k] = "nil" => IsText(job[k].from)
  <2> SUFFICES ASSUME NEW k \in Calls, Meets(Writes(job[k]), {p}) PROVE IsText(job[k].from)
    OBVIOUS
  <2>1. Writing(job[k])
    BY DEF AppendTo, Writing
  <2> QED BY <2>1, EditsAssumption, WritesPaths
<1>10. \A k \in Calls \ {c} : ~Meets(Writes(job[k]), {p}) => k # c
  OBVIOUS
<1>11. Refused(c) \/ WriteLook(c) \/ WriteOpen(c) \/ WriteEnd(c)
  BY <1>4, AppendActs
\* What is left to prove: the file, and the steps of the calls that append.
<1>12. ASSUME HasFile(tree, p) => HasFile(tree', p) /\ tree'[p] = tree[p],
              HasFile(tree', p) => tree'[p] \in Own(p) /\ IsText(data'[tree'[p]]),
              \A q \in DOMAIN tree' : q # p => q \in DOMAIN tree /\ tree'[q] = tree[q],
              todo'[c] # <<>> => Len(todo'[c]) = 1 /\ Appending(c, p, todo[c][1])',
              out'[c] = "nil" => HasFile(tree', p) /\ Holds(data'[tree'[p]], job[c].from),
              HasFile(tree, p) => \A w : IsText(w) /\ Holds(data[tree[p]], w)
                                         => Holds(data'[tree[p]], w)
       PROVE  AppendAt(p)'
  <2>1. \A q \in DOMAIN tree' : q # p => tree'[q] \notin Own(p)
    BY <1>6, <1>12
  <2>2. ASSUME NEW k \in Calls, Meets(Writes(job[k]), {p}), k # c
        PROVE  /\ todo'[k] # <<>> => Len(todo'[k]) = 1 /\ Appending(k, p, todo[k][1])'
               /\ out'[k] = "nil" => HasFile(tree', p) /\ Holds(data'[tree'[p]], job[k].from)
    <3>1. todo'[k] = todo[k] /\ out'[k] = out[k]
      BY <1>1, <2>2
    <3>2. Appending(k, p, todo[k][1]) => Appending(k, p, todo[k][1])'
      BY <1>1, <1>12, <3>1 DEF Appending
    <3> QED BY <1>7, <1>9, <1>12, <2>2, <3>1, <3>2
  <2>3. \A k \in Calls : ~Meets(Writes(job[k]), {p}) =>
          \A i \in 1..Len(todo'[k]) : todo'[k][i].do \in Handles => todo'[k][i].to \notin Own(p)
    BY <1>1, <1>8
  <2>4. p \in Files(InitTree) => HasFile(tree', p)
    BY <1>6, <1>12
  <2>5. \A k \in Calls : Meets(Writes(job'[k]), {p}) =>
          /\ todo'[k] # <<>> => Len(todo'[k]) = 1 /\ Appending(k, p, todo[k][1])'
          /\ out'[k] = "nil" => HasFile(tree', p) /\ Holds(data'[tree'[p]], job'[k].from)
    <3> SUFFICES ASSUME NEW k \in Calls, Meets(Writes(job[k]), {p})
                 PROVE  /\ todo'[k] # <<>> => Len(todo'[k]) = 1 /\ Appending(k, p, todo[k][1])'
                        /\ out'[k] = "nil" => HasFile(tree', p) /\ Holds(data'[tree'[p]], job[k].from)
      BY <1>1
    <3>1. CASE k = c
      BY <1>12, <3>1
    <3>2. CASE k # c
      BY <2>2, <3>2
    <3> QED BY <3>1, <3>2
  <2> QED BY <1>1, <1>12, <2>1, <2>3, <2>4, <2>5 DEF AppendAt
<1>13. CASE Refused(c)
  <2>1. todo'[c] = <<>> /\ out'[c] = "error" /\ tree' = tree /\ data' = data
    BY <1>13, RefusedTodo DEF FilesInv, fs
  <2> QED BY <1>6, <1>12, <2>1
<1>14. CASE WriteLook(c)
  <2> DEFINE t == Step("openString", s.from, s.to)
  <2>1. s.do = "lstat" /\ tree' = tree /\ data' = data
    BY <1>14 DEF WriteLook, Does, fs
  <2>2. s.to = p /\ s.from = job[c].from /\ job[c].op = "AppendString" /\ HasFile(tree, p)
    BY <1>2, <1>4, <1>6, <2>1 DEF Appending
  <2>3. GoesOn(c, <<t>>)
    BY <1>14, <2>2 DEF WriteLook, From, To
  <2>4. t.do = "openString" /\ t.from = job[c].from /\ t.to = p
    BY <2>2 DEF Step
  <2> HIDE DEF t
  <2>5. todo'[c] # <<>> /\ Len(todo'[c]) = 1 /\ todo'[c][1] = t /\ out'[c] = "run"
    BY <1>1, <1>4, <2>3, LastStep
  <2>6. Appending(c, p, todo[c][1])'
    BY <1>1, <2>2, <2>4, <2>5 DEF Appending
  <2> QED BY <1>6, <1>12, <2>1, <2>5, <2>6
<1>15. CASE WriteOpen(c)
  <2> DEFINE n == Opened(c, p)
             t == Step("append", s.from, n)
  <2>1. s.do \in {"openString", "openByte"} /\ (s.do = "openString" => HasFile(tree, s.to))
    BY <1>15 DEF WriteOpen, Does, To
  <2>2. s.to = p /\ s.from = job[c].from
    BY <1>4, <2>1 DEF Appending
  <2>3. /\ HasFile(tree, p) => tree' = tree /\ data' = data
        /\ ~HasFile(tree, p) => Create(c, p)
        /\ GoesOn(c, <<t>>)
    BY <1>2, <1>15, <2>2 DEF WriteOpen, From, To, fs
  <2>4. t.do = "append" /\ t.from = job[c].from /\ t.to = n
    BY <2>2 DEF Step
  <2> HIDE DEF t
  <2>5. todo'[c] # <<>> /\ Len(todo'[c]) = 1 /\ todo'[c][1] = t /\ out'[c] = "run"
    BY <1>1, <1>4, <2>3, LastStep
  <2>6. CASE HasFile(tree, p)
    <3>1. n = tree[p] /\ tree' = tree /\ data' = data
      BY <2>3, <2>6 DEF Opened
    <3>2. Appending(c, p, todo[c][1])'
      BY <1>1, <2>4, <2>5, <2>6, <3>1 DEF Appending
    <3> QED BY <1>6, <1>12, <2>5, <3>1, <3>2
  <2>7. CASE ~HasFile(tree, p)
    <3>1. /\ CanCreate(tree, p) /\ n # Dir /\ tree' = Place(tree, p, n) /\ n = <<c, p>>
          /\ data'[n] = <<>>
      BY <2>3, <2>7, CreateIs
    <3> HIDE DEF n
    <3>2. With(tree, tree', p, n)
      <4>1. Rooted(tree)
        BY DEF FilesInv
      <4> QED BY <3>1, <4>1, PlaceTree
    <3>3. /\ DOMAIN tree' = DOMAIN tree \cup {p} /\ tree'[p] = n
          /\ \A q \in DOMAIN tree \ {p} : tree'[q] = tree[q]
      BY <3>2 DEF With
    <3>4. HasFile(tree', p) /\ tree'[p] \in Own(p)
      BY <3>1, <3>3 DEF HasFile, Own
    <3>5. IsText(data'[tree'[p]])
      BY <3>1, <3>3, Short, TextSeq
    <3>6. Appending(c, p, todo[c][1])'
      BY <1>1, <2>4, <2>5, <3>3, <3>4 DEF Appending
    <3> QED BY <1>12, <2>5, <2>7, <3>3, <3>4, <3>5, <3>6
  <2> QED BY <2>6, <2>7
<1>16. CASE WriteEnd(c)
  <2> DEFINE n == tree[p]
             new == data[n] \o job[c].from
  <2>1. s.do = "append"
    BY <1>16 DEF WriteEnd, Does
  <2>2. s.to = n /\ HasFile(tree, p) /\ s.from = job[c].from
    BY <1>4, <2>1 DEF Appending
  <2>3. n \in DOMAIN data /\ IsText(data[n])
    BY <1>6, <2>2
  <2>4. /\ tree' = tree /\ data' = [data EXCEPT ![n] = new] /\ GoesOn(c, <<>>)
    BY <1>16, <2>2 DEF WriteEnd, From, To
  <2> HIDE DEF n, new
  <2>5. data'[n] = new
    BY <2>3, <2>4
  <2>6. /\ IsText(new) /\ Holds(new, job[c].from)
        /\ \A w : IsText(w) /\ Holds(data[n], w) => Holds(new, w)
    BY <1>5, <2>3, HoldsMore DEF new
  <2>7. todo'[c] = <<>> /\ out'[c] = "nil"
    BY <1>1, <1>4, <2>4, LastStep
  <2>8. tree[p] = n /\ tree'[p] = n
    BY <2>4 DEF n
  <2> QED BY <1>6, <1>12, <2>2, <2>4, <2>5, <2>6, <2>7, <2>8
<1> QED BY <1>11, <1>13, <1>14, <1>15, <1>16

-----------------------------------------------------------------------------

\* At the start every file has its own path for its node, and no call holds any.
LEMMA AtStart ==
  ASSUME EditsInit
  PROVE  /\ \A q \in DOMAIN tree : \/ tree[q] = Dir
                                  \/ /\ tree[q] = q /\ q \in Files(InitTree)
                                     /\ q \in DOMAIN InitText /\ q \notin Calls \X Paths
         /\ \A k \in Calls : /\ Len(todo[k]) = 1 /\ todo[k][1] = FirstStep(job[k])
                             /\ out[k] = "run" /\ todo[k][1].do \notin Handles
         /\ \A k \in Calls : \A i \in 1..Len(todo[k]) : i = 1
<1>1. /\ tree = InitTree /\ data = InitText /\ job \in [Calls -> Jobs]
      /\ todo = [c \in Calls |-> <<FirstStep(job[c])>>] /\ out = [c \in Calls |-> "run"]
  BY DEF EditsInit
<1>2. \A q \in DOMAIN tree : tree[q] # Dir => q \in Files(InitTree)
  BY <1>1 DEF Files
<1>3. \A q \in DOMAIN tree : \/ tree[q] = Dir
                            \/ /\ tree[q] = q /\ q \in Files(InitTree)
                               /\ q \in DOMAIN InitText /\ q \notin Calls \X Paths
  BY <1>1, <1>2, TreesAssumption
<1>4. \A k \in Calls : Len(todo[k]) = 1 /\ todo[k][1] = FirstStep(job[k]) /\ out[k] = "run"
  <2> SUFFICES ASSUME NEW k \in Calls PROVE Len(todo[k]) = 1 /\ todo[k][1] = FirstStep(job[k]) /\ out[k] = "run"
    OBVIOUS
  <2> DEFINE s == FirstStep(job[k])
  <2>1. todo[k] = <<s>> /\ out[k] = "run"
    BY <1>1
  <2> HIDE DEF s
  <2> QED BY <2>1, Short DEF s
<1>5. \A k \in Calls : FirstStep(job[k]).do \notin Handles
  <2> SUFFICES ASSUME NEW k \in Calls PROVE FirstStep(job[k]).do \notin Handles
    OBVIOUS
  <2> DEFINE j == job[k]
  <2>1. j \in Jobs /\ (Insertion(j) \/ Writing(j) \/ j.op \in Operations)
    BY <1>1, EditsAssumption
  <2>2. CASE Insertion(j) \/ Writing(j)
    BY <2>2 DEF FirstStep, Writing, Insertion, Handles, Step
  <2>3. CASE j.op \in Operations
    <3>1. FirstStep(j) = First(j)
      BY <2>3 DEF FirstStep, Insertion, Writing, Operations
    <3>2. First(j).do \notin Handles
      BY <2>3 DEF First, Operations, Handles, Step
    <3> QED BY <3>1, <3>2
  <2> QED BY <2>1, <2>2, <2>3
<1>6. \A k \in Calls : \A i \in 1..Len(todo[k]) : i = 1
  <2>1. \A k \in Calls : Len(todo[k]) = 1
    BY <1>4
  <2> SUFFICES ASSUME NEW k \in Calls, NEW i \in 1..Len(todo[k]) PROVE i = 1
    OBVIOUS
  <2> DEFINE n == Len(todo[k])
  <2>2. n = 1 /\ i \in 1..n
    BY <2>1
  <2> HIDE DEF n
  <2> QED BY <2>2
<1> QED BY <1>3, <1>4, <1>5, <1>6

\* The files that are appended to are as described at the start,
LEMMA AppendInit ==
  ASSUME EditsInit
  PROVE  AppendInv
<1> SUFFICES ASSUME NEW e \in Calls, AppendTo(job[e].to)
             PROVE  AppendAt(job[e].to)
  BY DEF AppendInv
<1> DEFINE p == job[e].to
<1>1. /\ tree = InitTree /\ data = InitText /\ job \in [Calls -> Jobs]
      /\ todo = [c \in Calls |-> <<FirstStep(job[c])>>] /\ out = [c \in Calls |-> "run"]
  BY DEF EditsInit
<1>2. p \in Paths
  BY <1>1, TreesAssumption
<1>3. \A q \in DOMAIN tree : \/ tree[q] = Dir
                            \/ /\ tree[q] = q /\ q \in Files(InitTree)
                               /\ q \in DOMAIN InitText /\ q \notin Calls \X Paths
  BY AtStart
<1>4. HasFile(tree, p) => tree[p] \in Own(p) /\ IsText(data[tree[p]])
  <2> SUFFICES ASSUME HasFile(tree, p) PROVE tree[p] \in Own(p) /\ IsText(data[tree[p]])
    OBVIOUS
  <2>1. p \in Files(InitTree) /\ tree[p] = p
    BY <1>1, <1>3 DEF HasFile, Files
  <2>2. p \in DOMAIN InitText
    BY <2>1, TreesAssumption
  <2> QED BY <1>1, <2>1, <2>2, EditsAssumption DEF Own
<1>5. \A q \in DOMAIN tree : q # p => tree[q] \notin Own(p)
  <2> SUFFICES ASSUME NEW q \in DOMAIN tree, q # p PROVE tree[q] \notin Own(p)
    OBVIOUS
  <2>1. CASE tree[q] = Dir
    <3>1. Dir \notin Calls \X {p} /\ Dir \notin {p} \cap Files(InitTree)
      BY <1>2, TreesAssumption DEF Files
    <3> QED BY <2>1, <3>1 DEF Own
  <2>2. CASE tree[q] # Dir
    <3>1. tree[q] = q /\ q \in Files(InitTree)
      BY <1>1, <1>3, <2>2 DEF Files
    <3>2. q \notin Calls \X Paths
      BY <3>1, TreesAssumption
    <3>3. q \notin Calls \X {p}
      BY <1>2, <3>2
    <3> QED BY <3>1, <3>3 DEF Own
  <2> QED BY <2>1, <2>2
<1>6. /\ \A k \in Calls : /\ Len(todo[k]) = 1 /\ todo[k][1] = FirstStep(job[k])
                          /\ out[k] = "run" /\ todo[k][1].do \notin Handles
      /\ \A k \in Calls : \A i \in 1..Len(todo[k]) : i = 1
  BY AtStart
<1>7. \A k \in Calls : Meets(Writes(job[k]), {p}) => Appending(k, p, FirstStep(job[k]))
  <2> SUFFICES ASSUME NEW k \in Calls, Meets(Writes(job[k]), {p})
               PROVE  Appending(k, p, FirstStep(job[k]))
    OBVIOUS
  <2> DEFINE j == job[k]
  <2>1. j.to = p /\ j.op \in {"AppendByte", "AppendString"}
    BY DEF AppendTo
  <2>2. FirstStep(j) = IF j.op = "AppendString" THEN Step("lstat", j.from, p) ELSE Step("openByte", j.from, p)
    BY <2>1 DEF FirstStep, Insertion, Writing
  <2> QED BY <2>1, <2>2 DEF Appending, Step
<1>8. p \in Files(InitTree) => HasFile(tree, p)
  BY <1>1 DEF Files, HasFile
<1> HIDE DEF p
<1>9. AppendAt(p)
  BY <1>4, <1>5, <1>6, <1>7, <1>8 DEF AppendAt
<1> QED BY <1>9 DEF p

\* and stay so whatever call takes a step,
LEMMA AppendNext ==
  ASSUME FilesInv, AllSeqs, AppendInv, [EditsNext]_editVars
  PROVE  AppendInv'
<1>1. CASE UNCHANGED editVars
  <2>1. UNCHANGED <<tree, data, job, todo, out>>
    BY <1>1 DEF editVars, treeVars
  <2>2. \A p : (AppendTo(p)' <=> AppendTo(p)) /\ (AppendAt(p) => AppendAt(p)')
    <3> SUFFICES ASSUME NEW p PROVE (AppendTo(p)' <=> AppendTo(p)) /\ (AppendAt(p) => AppendAt(p)')
      OBVIOUS
    <3>1. AppendTo(p)' <=> AppendTo(p)
      BY <2>1 DEF AppendTo
    <3>2. \A k : Appending(k, p, todo[k][1]) => Appending(k, p, todo[k][1])'
      BY <2>1 DEF Appending
    <3>3. AppendAt(p) => AppendAt(p)'
      BY <2>1, <3>2 DEF AppendAt
    <3> QED BY <3>1, <3>3
  <2> QED BY <2>1, <2>2 DEF AppendInv
<1>2. CASE EditsNext
  <2>1. PICK c \in Calls : Acts(c)
    BY <1>2, NextActs
  <2>2. job' = job
    BY <2>1, ActChanges
  <2>3. ASSUME NEW p \in {job[e].to : e \in Calls}, AppendTo(p)'
        PROVE  AppendAt(p)'
    <3>1. AppendTo(p)
      BY <2>2, <2>3 DEF AppendTo
    <3>2. AppendAt(p)
      BY <3>1 DEF AppendInv
    <3>3. p \in Paths
      BY WritesPaths, TreesAssumption
    <3>4. CASE Meets(Writes(job[c]), {p})
      BY <2>1, <3>1, <3>2, <3>3, <3>4, AppendStep
    <3>5. CASE ~Meets(Writes(job[c]), {p})
      BY <2>1, <3>2, <3>3, <3>5, AppendOther
    <3> QED BY <3>4, <3>5
  <2>4. {job'[e].to : e \in Calls} = {job[e].to : e \in Calls}
    BY <2>2
  <2> QED BY <2>3, <2>4 DEF AppendInv
<1> QED BY <1>1, <1>2

\* and then hold what was appended.
LEMMA AppendKept ==
  ASSUME FilesInv, AppendInv
  PROVE  AppendsKept
<1> SUFFICES ASSUME NEW c \in Calls, out[c] = "nil", job[c].op \in {"AppendString", "AppendByte"},
                    AppendTo(job[c].to)
             PROVE  Holds(data[tree[job[c].to]], job[c].from)
  BY DEF AppendsKept, AppendTo, Holds
<1> DEFINE p == job[c].to
<1>1. AppendAt(p)
  BY DEF AppendInv
<1>2. p \in Writes(job[c])
  BY DEF Writes
<1>3. IsPrefix(p, p)
  BY <1>2, WritesPaths, PrefixOrder
<1>4. Meets(Writes(job[c]), {p})
  BY <1>2, <1>3 DEF Meets
<1> QED BY <1>1, <1>4 DEF AppendAt

\* Whatever calls of filex, pathx and toolx run at the same time, and whatever
\* use of the file system fails: every directory above a file is there, every
\* file has its data, and a call runs as long as it has steps left.
THEOREM FilesTypeOK == EditsSpec => []TreesTypeOK
<1>1. EditsInit => FilesInv /\ AllSeqs
  BY FilesInvInit
<1>2. (FilesInv /\ AllSeqs) /\ [EditsNext]_editVars => (FilesInv /\ AllSeqs)'
  BY FilesInvNext
<1>3. FilesInv => TreesTypeOK
  <2> SUFFICES ASSUME FilesInv PROVE TreesTypeOK
    OBVIOUS
  <2>1. Rooted(tree)
    BY DEF FilesInv
  <2>2. tree[<<>>] = Dir /\ DOMAIN tree \subseteq Paths
    BY <2>1 DEF Rooted, HasDir
  <2>3. ASSUME NEW p \in DOMAIN tree \ {<<>>} PROVE HasDir(tree, Front(p))
    <3>1. Front(p) \in Paths /\ IsPrefix(Front(p), p) /\ Front(p) # p
      BY <2>2, <2>3, FrontPath
    <3> QED BY <2>1, <2>3, <3>1, RootedAbove DEF HasDir
  <2> QED BY <2>2, <2>3 DEF FilesInv, TreesTypeOK
<1> QED BY <1>1, <1>2, <1>3, PTL DEF EditsSpec

\* What WriteFileString and WriteFileByte append without an error is in the file
\* from then on, however many calls append to it at the same time.
THEOREM AppendsAreKept == EditsSpec => []AppendsKept
<1> DEFINE Inv == FilesInv /\ AllSeqs /\ AppendInv
<1>1. EditsInit => Inv
  BY FilesInvInit, AppendInit
<1>2. Inv /\ [EditsNext]_editVars => Inv'
  BY FilesInvNext, AppendNext
<1>3. Inv => AppendsKept
  BY AppendKept
<1> QED BY <1>1, <1>2, <1>3, PTL DEF EditsSpec

\* The steps of an insertion, by what it does next.
InsStep(k) ==
  LET s == todo[k][1]
      f == job[k].to
      Next(do) == out'[k] = "run" /\ todo'[k] # <<>> /\ todo'[k][1].do = do
  IN
  \/ /\ s.do \notin {"flush", "cleanup"} /\ todo'[k] = <<>> /\ out'[k] = "error"
     /\ UNCHANGED <<tree, data, spoilt>>
  \/ /\ s.do = "edit" /\ Next("temp") /\ HasFile(tree, f) /\ todo'[k][1].to = tree[f]
     /\ UNCHANGED <<tree, data, spoilt>>
  \/ /\ s.do = "temp" /\ Next("read") /\ Create(k, TempFile)
     /\ todo'[k][1].from = s.to /\ todo'[k][1].to = Opened(k, TempFile)
     /\ spoilt' = IF Using = {} THEN spoilt ELSE spoilt \cup Using \cup {k}
  \/ /\ s.do = "read" /\ Next("flush") /\ todo'[k][1].to = s.to
     /\ todo'[k][1].from = Rewritten(data[s.from], job[k])
     /\ UNCHANGED <<tree, data, spoilt>>
  \/ /\ s.do = "flush" /\ Next("move") /\ UNCHANGED <<tree, spoilt>>
     /\ \E w : /\ Write(s.to, w)
               /\ w = s.from \/ (k \in unflushed' /\ w \in Beginnings(s.from))
  \/ /\ s.do \in {"move", "again"} /\ (Next("again") \/ Next("rename"))
     /\ Ensure(Front(f)) /\ spoilt' = spoilt
  \/ /\ s.do = "rename" /\ Next("cleanup") /\ CanRename(tree, TempFile, f)
     /\ tree' = Rename(tree, TempFile, f) /\ UNCHANGED <<data, spoilt>>
  \/ /\ s.do = "cleanup" /\ todo'[k] = <<>> /\ out'[k] = "nil"
     /\ tree' \in {tree, RemoveAll(tree, Temp)} /\ UNCHANGED <<data, spoilt>>

\* The first step is done, and one takes its place, or none.
LEMMA NextStep ==
  ASSUME NEW c \in Calls, FilesInv, AllSeqs, out[c] = "run"
  PROVE  /\ todo[c] # <<>> /\ Len(todo[c]) \in Nat
         /\ \A s : GoesOn(c, <<s>>) =>
              /\ todo'[c] # <<>> /\ out'[c] = "run" /\ Len(todo'[c]) = Len(todo[c])
              /\ todo'[c][1] = s /\ \A i \in 2..Len(todo[c]) : todo'[c][i] = todo[c][i]
         /\ GoesOn(c, <<>>) =>
              /\ Len(todo'[c]) = Len(todo[c]) - 1
              /\ \A i \in 1..Len(todo[c]) - 1 : todo'[c][i] = todo[c][i + 1]
              /\ IF Len(todo[c]) = 1 THEN todo'[c] = <<>> /\ out'[c] = "nil"
                 ELSE todo'[c] # <<>> /\ out'[c] = "run"
<1>1. /\ todo[c] # <<>> /\ AnySeq(todo[c]) /\ DOMAIN todo = Calls
      /\ out \in [Calls -> {"run", "nil", "error"}]
  BY FirstStepOK
<1>2. ASSUME NEW s, GoesOn(c, <<s>>)
      PROVE  /\ todo'[c] # <<>> /\ out'[c] = "run" /\ Len(todo'[c]) = Len(todo[c])
             /\ todo'[c][1] = s /\ \A i \in 2..Len(todo[c]) : todo'[c][i] = todo[c][i]
  <2> DEFINE l == <<s>>
  <2>1. AnySeq(l) /\ Len(l) = 1 /\ l[1] = s /\ GoesOn(c, l)
    BY <1>2, Short
  <2> HIDE DEF l
  <2>2. /\ AnySeq(todo'[c]) /\ Len(todo[c]) \in Nat /\ Len(todo[c]) > 0
        /\ Len(todo'[c]) = Len(l) + Len(todo[c]) - 1
        /\ \A i \in 1..Len(todo'[c]) :
             todo'[c][i] = IF i <= Len(l) THEN l[i] ELSE todo[c][i - Len(l) + 1]
        /\ out'[c] = (IF todo'[c] = <<>> THEN "nil" ELSE "run")
    BY <1>1, <2>1, GoesOnTodo
  <2>3. Len(todo'[c]) = Len(todo[c]) /\ todo'[c] # <<>>
    BY <2>1, <2>2, Short
  <2>4. todo'[c][1] = s
    BY <2>1, <2>2, <2>3
  <2>5. \A i \in 2..Len(todo[c]) : i \in 1..Len(todo'[c]) /\ ~(i <= 1) /\ i - 1 + 1 = i
    BY <2>2, <2>3
  <2>6. \A i \in 2..Len(todo[c]) : todo'[c][i] = todo[c][i]
    BY <2>1, <2>2, <2>5
  <2> QED BY <2>2, <2>3, <2>4, <2>6
<1>3. ASSUME GoesOn(c, <<>>)
      PROVE  /\ Len(todo'[c]) = Len(todo[c]) - 1
             /\ \A i \in 1..Len(todo[c]) - 1 : todo'[c][i] = todo[c][i + 1]
             /\ IF Len(todo[c]) = 1 THEN todo'[c] = <<>> /\ out'[c] = "nil"
                ELSE todo'[c] # <<>> /\ out'[c] = "run"
  <2>1. AnySeq(<<>>) /\ Len(<<>>) = 0
    BY Short
  <2>2. /\ AnySeq(todo'[c]) /\ Len(todo[c]) \in Nat /\ Len(todo[c]) > 0
        /\ Len(todo'[c]) = 0 + Len(todo[c]) - 1
        /\ \A i \in 1..Len(todo'[c]) :
             todo'[c][i] = IF i <= 0 THEN <<>>[i] ELSE todo[c][i - 0 + 1]
        /\ out'[c] = (IF todo'[c] = <<>> THEN "nil" ELSE "run")
    BY <1>1, <1>3, <2>1, GoesOnTodo
  <2>3. Len(todo'[c]) = Len(todo[c]) - 1
    BY <2>2
  <2>4. \A i \in 1..Len(todo[c]) - 1 : i \in 1..Len(todo'[c]) /\ ~(i <= 0) /\ i - 0 + 1 = i + 1
    BY <2>2
  <2>5. todo'[c] = <<>> <=> Len(todo'[c]) = 0
    BY <2>2, EmptySeq DEF AnySeq
  <2>6. IF Len(todo[c]) = 1 THEN todo'[c] = <<>> /\ out'[c] = "nil"
        ELSE todo'[c] # <<>> /\ out'[c] = "run"
    BY <2>2, <2>3, <2>5
  <2> QED BY <2>2, <2>3, <2>4, <2>6
<1> QED BY <1>1, <1>2, <1>3, Rest

\* FileInsertInfoSeek and FileInsertInfoLine do one step after the other, in
\* this order.
LEMMA InsertionStep ==
  ASSUME NEW k \in Calls, Insertion(job[k]), FilesInv, AllSeqs, Shape(k), Acts(k)
  PROVE  InsStep(k) /\ Shape(k)'
<1> DEFINE s == todo[k][1]
           n == Len(todo[k])
<1>1. out[k] = "run" /\ job' = job
  BY ActChanges
<1>2. todo[k] # <<>> /\ n \in Nat
  BY <1>1, FirstStepOK
<1>3. \/ n = 1 /\ s.do = "edit" /\ s.to = job[k].to
      \/ /\ n = 3 /\ s.do \in {"temp", "read", "flush"} /\ todo[k][3].do = "cleanup"
         /\ todo[k][2].do = "move" /\ todo[k][2].from = TempFile /\ todo[k][2].to = job[k].to
      \/ /\ n = 2 /\ s.do \in {"move", "again", "rename"} /\ todo[k][2].do = "cleanup"
         /\ s.from = TempFile /\ s.to = job[k].to
      \/ n = 1 /\ s.do = "cleanup"
  BY <1>2 DEF Shape
<1>4. \/ Refused(k) /\ spoilt' = spoilt
      \/ EditOpen(k) \/ EditTemp(k) \/ EditRead(k) \/ EditFlush(k) \/ EditCleanup(k)
      \/ Move(k) /\ spoilt' = spoilt
      \/ RenameOne(k) /\ spoilt' = spoilt
  <2>1. s.do \in {"edit", "temp", "read", "flush", "move", "again", "rename", "cleanup"}
    BY <1>3
  <2> QED BY <2>1 DEF Acts, Refused, CopyNext, CopyOpen, CopyFolder, CopyCreate, CopyData, CopyCheck,
         CopyDir, CopyEntries, CopyTpl, CopyFsDir, CopyFsFolder, CopyFsFile, WriteContent,
         RenameEntries, LookUp, Make, Unlink, Mkdir, Home, 
         WriteLook, WriteMake, WriteOpen, WriteEnd, Does, history
<1>5. CASE Refused(k) /\ spoilt' = spoilt
  <2>1. todo'[k] = <<>> /\ out'[k] = "error" /\ UNCHANGED fs
    BY <1>5, RefusedTodo DEF FilesInv
  <2>2. s.do \notin {"flush", "cleanup"}
    BY <1>5 DEF Refused
  <2>3. Shape(k)'
    BY <2>1 DEF Shape
  <2> QED BY <1>5, <2>1, <2>2, <2>3 DEF InsStep, fs
<1>6. CASE EditOpen(k)
  <2> DEFINE a == Step("temp", <<>>, tree[To(k)])
             b == Step("move", TempFile, To(k))
             e == Step("cleanup", <<>>, Temp)
  <2>1. s.do = "edit" /\ HasFile(tree, s.to) /\ GoesOn(k, <<a, b, e>>) /\ UNCHANGED <<tree, data, spoilt>>
    BY <1>6 DEF EditOpen, Does, To, fs, history
  <2>2. n = 1 /\ s.to = job[k].to
    BY <1>3, <2>1
  <2>3. /\ a.do = "temp" /\ a.to = tree[job[k].to]
        /\ b.do = "move" /\ b.from = TempFile /\ b.to = job[k].to /\ e.do = "cleanup"
    BY <2>2 DEF Step, To
  <2> HIDE DEF a, b, e
  <2> DEFINE l == <<a, b, e>>
  <2>4. AnySeq(l) /\ Len(l) = 3 /\ l[1] = a /\ l[2] = b /\ l[3] = e /\ GoesOn(k, l)
    BY <2>1, Short
  <2> HIDE DEF l
  <2>5. /\ AnySeq(todo'[k]) /\ Len(todo'[k]) = Len(l) + Len(todo[k]) - 1
        /\ \A i \in 1..Len(todo'[k]) :
             todo'[k][i] = IF i <= Len(l) THEN l[i] ELSE todo[k][i - Len(l) + 1]
        /\ out'[k] = (IF todo'[k] = <<>> THEN "nil" ELSE "run")
    <3>1. /\ todo[k] # <<>> /\ AnySeq(todo[k]) /\ DOMAIN todo = Calls
          /\ out \in [Calls -> {"run", "nil", "error"}]
      BY <1>1, FirstStepOK
    <3> QED BY <1>1, <2>4, <3>1, GoesOnTodo
  <2>6. Len(todo'[k]) = 3
    BY <2>2, <2>4, <2>5
  <2>7. todo'[k][1] = a /\ todo'[k][2] = b /\ todo'[k][3] = e
    BY <2>4, <2>5, <2>6
  <2>8. todo'[k] # <<>> /\ out'[k] = "run"
    <3>1. todo'[k] # <<>>
      BY <2>6, Short
    <3> QED BY <2>5, <3>1
  <2>9. Shape(k)'
    BY <1>1, <2>3, <2>6, <2>7 DEF Shape
  <2> QED BY <2>1, <2>2, <2>3, <2>7, <2>8, <2>9 DEF InsStep
<1>7. CASE EditTemp(k)
  <2> DEFINE a == Step("read", s.to, Opened(k, TempFile))
  <2>1. /\ s.do = "temp" /\ Create(k, TempFile) /\ GoesOn(k, <<a>>)
        /\ spoilt' = IF Using = {} THEN spoilt ELSE spoilt \cup Using \cup {k}
    BY <1>7 DEF EditTemp, Does, To
  <2>2. a.do = "read" /\ a.from = s.to /\ a.to = Opened(k, TempFile)
    BY DEF Step
  <2> HIDE DEF a
  <2>3. /\ todo'[k] # <<>> /\ out'[k] = "run" /\ Len(todo'[k]) = n
        /\ todo'[k][1] = a /\ \A i \in 2..n : todo'[k][i] = todo[k][i]
    BY <1>1, <2>1, NextStep
  <2>4. Shape(k)'
    BY <1>1, <1>3, <2>1, <2>2, <2>3 DEF Shape
  <2> QED BY <2>1, <2>2, <2>3, <2>4 DEF InsStep
<1>8. CASE EditRead(k)
  <2> DEFINE a == Step("flush", Rewritten(data[s.from], job[k]), s.to)
  <2>1. s.do = "read" /\ GoesOn(k, <<a>>) /\ UNCHANGED <<tree, data, spoilt>>
    BY <1>8 DEF EditRead, Does, From, To, fs, history
  <2>2. a.do = "flush" /\ a.from = Rewritten(data[s.from], job[k]) /\ a.to = s.to
    BY DEF Step
  <2> HIDE DEF a
  <2>3. /\ todo'[k] # <<>> /\ out'[k] = "run" /\ Len(todo'[k]) = n
        /\ todo'[k][1] = a /\ \A i \in 2..n : todo'[k][i] = todo[k][i]
    BY <1>1, <2>1, NextStep
  <2>4. Shape(k)'
    BY <1>1, <1>3, <2>1, <2>2, <2>3 DEF Shape
  <2> QED BY <2>1, <2>2, <2>3, <2>4 DEF InsStep
<1>9. CASE EditFlush(k)
  <2>1. s.do = "flush" /\ GoesOn(k, <<>>) /\ spoilt' = spoilt
    BY <1>9 DEF EditFlush, Does
  <2>a. \E w : /\ Write(s.to, w)
               /\ w = s.from \/ (k \in unflushed' /\ w \in Beginnings(s.from))
    <3>1. CASE Write(s.to, s.from)
      BY <3>1
    <3>2. CASE \E i \in 0..Len(s.from) - 1 :
                 Write(s.to, SubSeq(s.from, 1, i)) /\ unflushed' = unflushed \cup {k}
      <4>1. PICK i \in 0..Len(s.from) - 1 :
              Write(s.to, SubSeq(s.from, 1, i)) /\ unflushed' = unflushed \cup {k}
        BY <3>2
      <4>2. SubSeq(s.from, 1, i) \in Beginnings(s.from)
        BY DEF Beginnings
      <4> QED BY <4>1, <4>2
    <3> QED BY <1>9, <3>1, <3>2 DEF EditFlush, From, To
  <2>2. n = 3
    BY <1>3, <2>1
  <2>3. /\ Len(todo'[k]) = n - 1 /\ todo'[k] # <<>> /\ out'[k] = "run"
        /\ \A i \in 1..n - 1 : todo'[k][i] = todo[k][i + 1]
    <3>1. Len(todo[k]) # 1
      BY <2>2
    <3> QED BY <1>1, <2>1, <3>1, NextStep
  <2> HIDE DEF n
  <2>4. Len(todo'[k]) = 2 /\ todo'[k][1] = todo[k][2] /\ todo'[k][2] = todo[k][3]
    BY <2>2, <2>3
  <2>5. UNCHANGED tree
    BY <2>a DEF Write
  <2>6. Shape(k)'
    BY <1>1, <1>3, <2>1, <2>2, <2>4 DEF Shape
  <2> QED BY <1>3, <2>1, <2>a, <2>2, <2>3, <2>4, <2>5, <2>6 DEF InsStep
<1>10. CASE EditCleanup(k)
  <2>1. /\ s.do = "cleanup" /\ GoesOn(k, <<>>)
        /\ tree' \in {tree, RemoveAll(tree, Temp)} /\ UNCHANGED <<data, spoilt>>
    BY <1>10 DEF EditCleanup, Does, history
  <2>2. n = 1
    BY <1>3, <2>1
  <2>3. todo'[k] = <<>> /\ out'[k] = "nil"
    BY <1>1, <2>1, <2>2, NextStep
  <2>4. Shape(k)'
    BY <2>3 DEF Shape
  <2> QED BY <2>1, <2>3, <2>4 DEF InsStep
<1>11. CASE Move(k) /\ spoilt' = spoilt
  <2>1. PICK do \in {"move", "again"} :
          /\ s.do = do /\ Ensure(Front(s.to))
          /\ GoesOn(k, <<Step(IF do = "move" /\ Front(s.to) \notin DOMAIN tree
                              THEN "again" ELSE "rename", s.from, s.to)>>)
    BY <1>11 DEF Move, Does, From, To
  <2> DEFINE a == Step(IF do = "move" /\ Front(s.to) \notin DOMAIN tree
                       THEN "again" ELSE "rename", s.from, s.to)
  <2>2. a.do \in {"again", "rename"} /\ a.from = s.from /\ a.to = s.to
    BY DEF Step
  <2>3. GoesOn(k, <<a>>)
    BY <2>1
  <2> HIDE DEF a
  <2>4. /\ todo'[k] # <<>> /\ out'[k] = "run" /\ Len(todo'[k]) = n
        /\ todo'[k][1] = a /\ \A i \in 2..n : todo'[k][i] = todo[k][i]
    BY <1>1, <2>3, NextStep
  <2>5. Shape(k)'
    BY <1>1, <1>3, <2>1, <2>2, <2>4 DEF Shape
  <2>6. s.to = job[k].to
    BY <1>3, <2>1
  <2> QED BY <1>11, <2>1, <2>2, <2>4, <2>5, <2>6 DEF InsStep
<1>12. CASE RenameOne(k) /\ spoilt' = spoilt
  <2>1. PICK do \in {"rename", "newname", "newdir"} :
          /\ s.do = do
          /\ LET q == IF do = "rename" THEN s.to
                      ELSE Append(Front(s.from), NewName[Last(s.from)]) IN
             /\ CanRename(tree, s.from, q)
             /\ tree' = Rename(tree, s.from, q) /\ UNCHANGED data
             /\ GoesOn(k, IF do = "newdir" THEN <<Step("names", q, q)>> ELSE <<>>)
    BY <1>12 DEF RenameOne, Does, From, To
  <2>2. do = "rename" /\ n = 2 /\ s.from = TempFile /\ s.to = job[k].to
    BY <1>3, <2>1
  <2>3. /\ s.do = "rename" /\ CanRename(tree, TempFile, job[k].to)
        /\ tree' = Rename(tree, TempFile, job[k].to) /\ data' = data /\ GoesOn(k, <<>>)
    BY <2>1, <2>2
  <2>4. /\ Len(todo'[k]) = n - 1 /\ todo'[k] # <<>> /\ out'[k] = "run"
        /\ \A i \in 1..n - 1 : todo'[k][i] = todo[k][i + 1]
    <3>1. Len(todo[k]) # 1
      BY <2>2
    <3> QED BY <1>1, <2>3, <3>1, NextStep
  <2> HIDE DEF n
  <2>5. Len(todo'[k]) = 1 /\ todo'[k][1] = todo[k][2]
    BY <2>2, <2>4
  <2>6. Shape(k)'
    BY <1>1, <1>3, <2>2, <2>3, <2>5 DEF Shape
  <2> QED BY <1>3, <1>12, <2>2, <2>3, <2>4, <2>5, <2>6 DEF InsStep
<1> QED BY <1>4, <1>5, <1>6, <1>7, <1>8, <1>9, <1>10, <1>11, <1>12

\* An insertion begins with opening its file,
LEMMA ShapeInit ==
  ASSUME EditsInit
  PROVE  ShapeInv
<1> SUFFICES ASSUME NEW k \in Calls, Insertion(job[k]) PROVE Shape(k)
  BY DEF ShapeInv
<1> DEFINE s == FirstStep(job[k])
<1>1. todo[k] = <<s>>
  BY DEF EditsInit
<1>2. s.do = "edit" /\ s.to = job[k].to
  BY DEF FirstStep, Step
<1> HIDE DEF s
<1>3. Len(todo[k]) = 1 /\ todo[k][1] = s
  BY <1>1, Short
<1> QED BY <1>2, <1>3 DEF Shape

\* and has the steps of its code left whatever others do.
LEMMA ShapeNext ==
  ASSUME FilesInv, AllSeqs, ShapeInv, [EditsNext]_editVars
  PROVE  ShapeInv'
<1>1. CASE UNCHANGED editVars
  <2>1. UNCHANGED <<job, todo>>
    BY <1>1 DEF editVars, treeVars
  <2>2. \A k : Shape(k) => Shape(k)'
    BY <2>1 DEF Shape
  <2> QED BY <2>1, <2>2 DEF ShapeInv
<1>2. CASE EditsNext
  <2>1. PICK c \in Calls : Acts(c)
    BY <1>2, NextActs
  <2>2. job' = job /\ \A k \in Calls \ {c} : todo'[k] = todo[k]
    BY <2>1, ActChanges
  <2>3. \A k \in Calls \ {c} : Shape(k) => Shape(k)'
    BY <2>2 DEF Shape
  <2>4. Insertion(job[c]) => Shape(c)'
    BY <2>1, InsertionStep DEF ShapeInv
  <2> QED BY <2>2, <2>3, <2>4 DEF ShapeInv
<1> QED BY <1>1, <1>2

-----------------------------------------------------------------------------
(* Where an insertion leaves the tree alone *)

\* The file f stays where it is when an insertion of another file takes a step,
\* and no file that is there gets a second place.
LEMMA InsertFrame ==
  ASSUME NEW k \in Calls, Insertion(job[k]), FilesInv, InsStep(k), out[k] = "run",
         NEW f \in Paths, HasFile(tree, f), ~Meets({f}, {Temp}), job[k].to # f
  PROVE  /\ f \in DOMAIN tree' /\ tree'[f] = tree[f]
         /\ \A q \in DOMAIN tree' : q # f =>
              \/ tree'[q] = Dir
              \/ \E r \in DOMAIN tree : r # f /\ tree'[q] = tree[r]
              \/ Early(k) /\ q = TempFile /\ tree'[q] = <<k, TempFile>>
<1> DEFINE to == job[k].to
           T == TempFile
           Same == f \in DOMAIN tree' /\ tree'[f] = tree[f]
           Old(q) == \E r \in DOMAIN tree : r # f /\ tree'[q] = tree[r]
           Rest1 == \A q \in DOMAIN tree' : q # f => tree'[q] = Dir \/ Old(q)
<1>0. Rooted(tree) /\ DOMAIN tree \subseteq Paths /\ f \in DOMAIN tree /\ tree[f] # Dir
  BY DEF FilesInv, Rooted, HasFile
<1>1. /\ to \in Paths /\ Front(to) \in Paths
      /\ ~IsPrefix(Temp, f) /\ ~IsPrefix(f, Temp)
  BY WritesPaths, TreesAssumption, FrontPath DEF Meets
<1>2. /\ T \in Paths /\ Temp \in Paths /\ Temp # <<>> /\ IsPrefix(Temp, T)
      /\ ~IsPrefix(T, f) /\ T # f /\ ~IsPrefix(f, T)
  BY <1>1, TempPath, PrefixOrder
<1>3. CASE tree' = tree
  BY <1>0, <1>3
<1>4. CASE todo[k][1].do = "temp" /\ Create(k, T)
  <2> DEFINE n == Opened(k, T)
  <2>1. /\ CanCreate(tree, T) /\ n # Dir /\ tree' = Place(tree, T, n)
        /\ n = IF HasFile(tree, T) THEN tree[T] ELSE <<k, T>>
    BY <1>2, <1>4, CreateIs
  <2> HIDE DEF n
  <2>2. With(tree, tree', T, n)
    BY <1>0, <1>2, <2>1, PlaceTree
  <2>3. /\ DOMAIN tree' = DOMAIN tree \cup {T} /\ tree'[T] = n
        /\ \A s \in DOMAIN tree \ {T} : tree'[s] = tree[s]
    BY <2>2 DEF With
  <2>4. Early(k)
    BY <1>4 DEF Early, Runs
  <2>5. n = <<k, T>> \/ (T \in DOMAIN tree /\ n = tree[T])
    BY <2>1 DEF HasFile
  <2> QED BY <1>0, <1>2, <2>3, <2>4, <2>5
<1>5. CASE Ensure(Front(to))
  <2>1. tree' = tree \/ (CanMkdirAll(tree, Front(to)) /\ tree' = MkdirAll(tree, Front(to)))
    BY <1>5 DEF Ensure
  <2>2. CASE tree' = MkdirAll(tree, Front(to)) /\ CanMkdirAll(tree, Front(to))
    <3>1. Grown(tree, tree', Front(to))
      BY <1>0, <1>1, <2>2, MkdirAllTree
    <3> QED BY <1>0, <3>1 DEF Grown
  <2> QED BY <1>3, <2>1, <2>2
<1>6. CASE CanRename(tree, T, to) /\ tree' = Rename(tree, T, to)
  <2>1. CASE T = to
    BY <1>3, <1>6, <2>1 DEF Rename
  <2>2. CASE T # to
    <3> DEFINE Stay == {r \in DOMAIN tree : ~IsPrefix(T, r) /\ r # to}
    <3>1. Renamed(tree, tree', T, to)
      BY <1>0, <1>1, <1>2, <1>6, <2>2, RenameTree
    <3>2. /\ DOMAIN tree' = Stay \cup {Shift(T, to, s) : s \in Under(tree, T)}
          /\ \A r \in Stay : tree'[r] = tree[r] /\ ~IsPrefix(to, r)
          /\ \A s \in Under(tree, T) : tree'[Shift(T, to, s)] = tree[s]
      BY <3>1 DEF Renamed
    <3>3. \A s \in Under(tree, T) : s \in DOMAIN tree /\ s \in Paths /\ IsPrefix(T, s) /\ s # f
      BY <1>0, <1>2 DEF Under
    <3>4. f \in Stay
      BY <1>0, <1>2
    <3>5. Same
      BY <3>2, <3>4
    <3>6. \A q \in DOMAIN tree' : q # f => Old(q)
      <4> SUFFICES ASSUME NEW q \in DOMAIN tree', q # f PROVE Old(q)
        OBVIOUS
      <4>1. CASE q \in Stay
        BY <3>2, <4>1
      <4>2. CASE q \in {Shift(T, to, s) : s \in Under(tree, T)}
        <5>1. PICK s \in Under(tree, T) : q = Shift(T, to, s)
          BY <4>2
        <5> QED BY <3>2, <3>3, <5>1
      <4> QED BY <3>2, <4>1, <4>2
    <3> QED BY <3>5, <3>6
  <2> QED BY <2>1, <2>2
<1>7. CASE tree' = RemoveAll(tree, Temp)
  <2>1. Without(tree, tree', Temp)
    BY <1>0, <1>2, <1>7, RemoveAllTree
  <2> QED BY <1>0, <1>1, <2>1 DEF Without
<1> QED BY <1>3, <1>4, <1>5, <1>6, <1>7 DEF InsStep

\* The file and the temporary file of an insertion that is on its own.
LEMMA EditFacts ==
  ASSUME NEW c \in Calls, FilesInv, Own1(c)
  PROVE  LET f == job[c].to
             T == TempFile
         IN
         /\ f \in Paths /\ T \in Paths /\ f # T /\ f # Dir
         /\ ~Meets({f}, {Temp}) /\ f \in Files(InitTree)
         /\ f \notin Calls \X Paths /\ f \notin Own(T) /\ Dir \notin Own(T)
         /\ \A k \in Calls \ {c} : Insertion(job[k]) => job[k].to # f
         /\ \A k \in Calls : ~Insertion(job[k]) =>
              k # c /\ ~Meets(Writes(job[k]), {f}) /\ ~Meets(Writes(job[k]), {T})
         /\ \A k \in Calls : Insertion(job[k]) => ~Meets({job[k].to}, {Temp})
<1> DEFINE f == job[c].to
           T == TempFile
<1>1. Insertion(job[c]) /\ Alone(c) /\ f \in Files(InitTree)
  BY DEF Own1
<1>2. \A k \in Calls : job[k] \in Jobs /\ job[k].to \in Paths
  BY WritesPaths, TreesAssumption
<1>3. \A k \in Calls : Insertion(job[k]) => ~Meets({job[k].to}, {Temp})
  BY <1>2, EditsAssumption
<1>4. /\ Temp \in Paths /\ T \in Paths /\ IsPrefix(Temp, T)
      /\ \A q \in Paths : IsPrefix(q, T) => q = T \/ IsPrefix(q, Temp)
  <2>1. Temp \in Paths /\ "temp.temp" \in Names
    BY TreesAssumption, EditsAssumption
  <2> QED BY <2>1, EntryPath DEF TempFile
<1>5. ~IsPrefix(Temp, f) /\ ~IsPrefix(f, Temp)
  BY <1>1, <1>3 DEF Meets
<1>6. f # T
  BY <1>4, <1>5
<1>7. InitTree[f] = f /\ f # Dir /\ f \notin Calls \X Paths
  BY <1>1, TreesAssumption DEF Files
<1>8. f \notin Own(T)
  BY <1>4, <1>6, <1>7 DEF Own
<1>9. Dir \notin Own(T)
  <2>1. T \in Files(InitTree) => InitTree[T] = T /\ T # Dir
    BY TreesAssumption DEF Files
  <2> QED BY <1>4, <2>1, TreesAssumption DEF Own
<1>10. \A k \in Calls \ {c} : Insertion(job[k]) => job[k].to # f
  BY <1>1 DEF Alone
<1>11. ASSUME NEW k \in Calls, ~Insertion(job[k])
       PROVE  k # c /\ ~Meets(Writes(job[k]), {f}) /\ ~Meets(Writes(job[k]), {T})
  <2>1. k # c
    BY <1>1, <1>11
  <2>2. ~Meets(Writes(job[k]), {f, Temp})
    BY <1>1, <1>11, <2>1 DEF Alone
  <2>3. \A w \in Writes(job[k]) : /\ w \in Paths /\ ~IsPrefix(w, f) /\ ~IsPrefix(f, w)
                                 /\ ~IsPrefix(w, Temp) /\ ~IsPrefix(Temp, w)
    BY <2>2, WritesPaths DEF Meets
  <2>4. \A w \in Writes(job[k]) : ~IsPrefix(w, T) /\ ~IsPrefix(T, w)
    BY <1>4, <2>3, PrefixOrder
  <2> QED BY <2>1, <2>3, <2>4 DEF Meets
<1> QED BY <1>1, <1>2, <1>3, <1>4, <1>6, <1>7, <1>8, <1>9, <1>10, <1>11

\* A node that stands at p at most, and that a call does not hold, is left alone
\* by the call if it may not write at p.
LEMMA NodeAlone ==
  ASSUME NEW k \in Calls, FilesInv, AllSeqs, Acts(k),
         NEW p \in Paths, ~Meets(Writes(job[k]), {p}), NEW n, n # Dir, Only(tree, n, p),
         Apart(todo[k], n), \A r \in Paths : Reach(k, r) => n # <<k, r>>
  PROVE  /\ Only(tree', n, p) /\ Apart(todo'[k], n)
         /\ n \in DOMAIN data => n \in DOMAIN data' /\ data'[n] = data[n]
         /\ p \in DOMAIN tree' <=> p \in DOMAIN tree
         /\ p \in DOMAIN tree => tree'[p] = tree[p]
<1>1. /\ Changes(k) /\ out[k] = "run" /\ job' = job
      /\ \A i \in Calls \ {k} : todo'[i] = todo[i]
  BY ActChanges
<1>2. /\ p \in DOMAIN tree' <=> p \in DOMAIN tree
      /\ p \in DOMAIN tree => tree'[p] = tree[p]
      /\ \A q \in DOMAIN tree' : q # p =>
           \/ tree'[q] = Dir
           \/ \E r \in DOMAIN tree : r # p /\ tree'[q] = tree[r]
           \/ \E r \in Paths : Reach(k, r) /\ tree'[q] = <<k, r>>
  BY <1>1, TreeFrame
<1>3. Only(tree', n, p)
  BY <1>2 DEF Only
<1>4. \A q \in Paths : Reach(k, q) => n # Opened(k, q)
  <2> SUFFICES ASSUME NEW q \in Paths, Reach(k, q) PROVE n # Opened(k, q)
    OBVIOUS
  <2>1. q # p
    BY ReachApart
  <2>2. CASE HasFile(tree, q)
    BY <2>1, <2>2 DEF Opened, HasFile, Only
  <2>3. CASE ~HasFile(tree, q)
    BY <2>3 DEF Opened
  <2> QED BY <2>2, <2>3
<1>5. \A i \in 1..Len(todo[k]) : todo[k][i].do \in Handles => todo[k][i].to # n
  BY DEF Apart
<1>6. todo[k][1].do \in Handles => To(k) # n
  <2>1. 1 \in 1..Len(todo[k])
    BY <1>1, FirstStepOK
  <2> QED BY <1>5, <2>1 DEF To
<1>7. n \in DOMAIN data => n \in DOMAIN data' /\ data'[n] = data[n]
  <2>1. todo[k][1].do \in Texts => n # To(k)
    BY <1>6 DEF Texts, Handles
  <2> QED BY <1>1, <1>4, <2>1, DataFrame
<1>8. ASSUME NEW i \in 1..Len(todo'[k]), todo'[k][i].do \in Handles
      PROVE  todo'[k][i].to # n
  <2>1. CASE NewOK(k, todo'[k][i])
    BY <1>4, <1>6, <1>8, <2>1 DEF NewOK
  <2>2. CASE \E h \in 2..Len(todo[k]) : todo'[k][i] = todo[k][h]
    <3>1. PICK h \in 2..Len(todo[k]) : todo'[k][i] = todo[k][h]
      BY <2>2
    <3>2. h \in 1..Len(todo[k])
      OBVIOUS
    <3> QED BY <1>5, <1>8, <3>1, <3>2
  <2> QED BY <2>1, <2>2, StepsAfter
<1>9. Apart(todo'[k], n)
  BY <1>8 DEF Apart
<1> QED BY <1>2, <1>3, <1>7, <1>9

\* The same for a node that all calls but insertions do not hold.
LEMMA NodeKept ==
  ASSUME NEW k \in Calls, ~Insertion(job[k]), FilesInv, AllSeqs, Acts(k),
         NEW p \in Paths, ~Meets(Writes(job[k]), {p}),
         NEW n, n # Dir, Only(tree, n, p), Unheld(todo, n),
         \A r \in Paths : Reach(k, r) => n # <<k, r>>
  PROVE  /\ Only(tree', n, p) /\ Unheld(todo', n)
         /\ n \in DOMAIN data => n \in DOMAIN data' /\ data'[n] = data[n]
         /\ p \in DOMAIN tree' <=> p \in DOMAIN tree
         /\ p \in DOMAIN tree => tree'[p] = tree[p]
<1>1. job' = job /\ \A i \in Calls \ {k} : todo'[i] = todo[i]
  BY ActChanges
<1>2. Apart(todo[k], n)
  BY DEF Unheld
<1>3. /\ Only(tree', n, p) /\ Apart(todo'[k], n)
      /\ n \in DOMAIN data => n \in DOMAIN data' /\ data'[n] = data[n]
      /\ p \in DOMAIN tree' <=> p \in DOMAIN tree
      /\ p \in DOMAIN tree => tree'[p] = tree[p]
  BY <1>2, NodeAlone
<1>4. Unheld(todo', n)
  BY <1>1, <1>3 DEF Unheld
<1> QED BY <1>3, <1>4

\* Calls that are not insertions leave the files of the insertions alone.
LEMMA OtherStep ==
  ASSUME NEW c \in Calls, NEW k \in Calls, ~Insertion(job[k]), FilesInv, AllSeqs, Acts(k),
         unflushed \subseteq unflushed', Own1(c), TempNodes, FileNode(c), TempNode(c), Phase(c)
  PROVE  TempNodes' /\ FileNode(c)' /\ TempNode(c)' /\ Phase(c)'
<1> DEFINE f == job[c].to
           T == TempFile
           new == Rewritten(InitText[f], job[c])
<1>1. /\ f \in Paths /\ T \in Paths /\ f # T /\ f \notin Calls \X Paths /\ Dir \notin Own(T)
      /\ k # c /\ ~Meets(Writes(job[k]), {f}) /\ ~Meets(Writes(job[k]), {T})
  BY EditFacts
<1>2. /\ job' = job /\ \A i \in Calls \ {k} : todo'[i] = todo[i] /\ out'[i] = out[i]
  BY ActChanges
<1>3. \A i \in Calls : \A dos : i # k => (Runs(i, dos)' <=> Runs(i, dos))
  BY <1>2 DEF Runs
<1>4. \A i \in Calls : Insertion(job[i]) => i # k
  OBVIOUS
<1>5. \A r \in Paths : Reach(k, r) => r # T
  BY <1>1, ReachApart
<1>6. ASSUME NEW n \in {f} \cup Own(T) PROVE n # Dir /\ \A r \in Paths : Reach(k, r) => n # <<k, r>>
  <2>1. n # Dir
    BY <1>1, EditFacts
  <2>2. ASSUME NEW r \in Paths, Reach(k, r) PROVE n # <<k, r>>
    <3>1. r # T /\ <<k, r>> \in Calls \X Paths /\ <<k, r>> \notin Calls \X {T}
      BY <1>5, <2>2
    <3>2. T \in Files(InitTree) => T \notin Calls \X Paths
      BY TreesAssumption
    <3> QED BY <1>1, <3>1, <3>2 DEF Own
  <2> QED BY <2>1, <2>2
<1>7. ASSUME NEW n \in Own(T), Only(tree, n, T), Unheld(todo, n)
      PROVE  /\ Only(tree', n, T) /\ Unheld(todo', n)
             /\ n \in DOMAIN data => n \in DOMAIN data' /\ data'[n] = data[n]
  BY <1>1, <1>6, <1>7, NodeKept
<1>8. ASSUME NEW n \in {f} \cup Own(T), Only(tree, n, f), Unheld(todo, n)
      PROVE  /\ Only(tree', n, f) /\ Unheld(todo', n)
             /\ n \in DOMAIN data => n \in DOMAIN data' /\ data'[n] = data[n]
  BY <1>1, <1>6, <1>8, NodeKept
<1>9. /\ T \in DOMAIN tree' <=> T \in DOMAIN tree
      /\ T \in DOMAIN tree => tree'[T] = tree[T]
      /\ f \in DOMAIN tree' <=> f \in DOMAIN tree
      /\ f \in DOMAIN tree => tree'[f] = tree[f]
  BY <1>1, ActChanges, TreeFrame
<1>10. \A p : HasFile(tree, p) => tree[p] \in DOMAIN data
  BY DEF FilesInv, Files, HasFile
<1>16. new' = new /\ Reached(c, new) \subseteq Reached(c, new)'
  BY <1>2 DEF Reached
<1>11. TempNodes'
  <2>1. HasFile(tree', T) =>
          /\ tree'[T] \in Own(T) /\ Only(tree', tree'[T], T) /\ Unheld(todo', tree'[T])
    <3>1. HasFile(tree', T) => HasFile(tree, T) /\ tree'[T] = tree[T]
      BY <1>9 DEF HasFile
    <3> QED BY <1>7, <3>1 DEF TempNodes
  <2>2. ASSUME NEW i \in Calls, Early(i)'
        PROVE  (\A r \in DOMAIN tree' : tree'[r] # <<i, T>>) /\ Unheld(todo', <<i, T>>)
    <3>1. Early(i) /\ i # k
      BY <1>2, <1>3, <2>2 DEF Early
    <3> DEFINE n == <<i, T>>
    <3>2. n \in Own(T) /\ (\A r \in DOMAIN tree : tree[r] # n) /\ Unheld(todo, n)
      BY <3>1 DEF TempNodes, Own
    <3> HIDE DEF n
    <3>3. Only(tree', n, T) /\ Unheld(todo', n)
      BY <1>7, <3>2 DEF Only
    <3>4. \A r \in DOMAIN tree' : tree'[r] # n
      BY <1>9, <3>2, <3>3 DEF Only
    <3> QED BY <3>3, <3>4 DEF n
  <2>3. \A p \in Paths : Own(p)' = Own(p)
    BY DEF Own
  <2>4. \A steps, n : Unheld(steps, n)' <=> Unheld(steps, n)
    BY <1>2 DEF Unheld
  <2> QED BY <1>2, <2>1, <2>2 DEF TempNodes, Unheld, Only
<1>12. FileNode(c)'
  <2>1. /\ HasFile(tree, f) /\ tree[f] \in {f} \cup Own(T)
        /\ Only(tree, tree[f], f) /\ Unheld(todo, tree[f])
        /\ \A i \in Calls \ {c} : Insertion(job[i]) /\ Runs(i, {"read", "flush"})
                                  => todo[i][1].to # tree[f]
    BY DEF FileNode
  <2>2. HasFile(tree', f) /\ tree'[f] = tree[f]
    BY <1>9, <2>1 DEF HasFile
  <2>3. Only(tree', tree'[f], f) /\ Unheld(todo', tree'[f])
    BY <1>8, <2>1, <2>2
  <2>4. \A i \in Calls \ {c} : Insertion(job[i]) /\ Runs(i, {"read", "flush"})'
                               => todo'[i][1].to # tree'[f]
    BY <1>2, <1>3, <2>1, <2>2
  <2> QED BY <1>2, <2>1, <2>2, <2>3, <2>4 DEF FileNode, Unheld, Only
<1>13. Using' = Using
  BY <1>2 DEF Using
<1>14. TempNode(c)'
  <2>1. Runs(c, {"read", "flush"})' =>
          LET n == todo'[c][1].to IN
          /\ n \in Own(T) /\ n \in DOMAIN data' /\ data'[n] = <<>>
          /\ Only(tree', n, T) /\ Unheld(todo', n)
          /\ (T \in DOMAIN tree' => tree'[T] = n)
    <3> SUFFICES ASSUME Runs(c, {"read", "flush"})
                 PROVE  LET n == todo[c][1].to IN
                        /\ n \in Own(T) /\ n \in DOMAIN data' /\ data'[n] = <<>>
                        /\ Only(tree', n, T) /\ Unheld(todo', n)
                        /\ (T \in DOMAIN tree' => tree'[T] = n)
      BY <1>1, <1>2, <1>3
    <3> DEFINE n == todo[c][1].to
    <3>1. /\ n \in Own(T) /\ n \in DOMAIN data /\ data[n] = <<>>
          /\ Only(tree, n, T) /\ Unheld(todo, n)
          /\ (T \in DOMAIN tree => tree[T] = n)
      BY DEF TempNode
    <3> HIDE DEF n
    <3>2. Only(tree', n, T) /\ Unheld(todo', n) /\ n \in DOMAIN data' /\ data'[n] = data[n]
      BY <1>7, <3>1
    <3> QED BY <1>9, <3>1, <3>2 DEF n
  <2>2. Runs(c, {"move", "again", "rename"})' /\ T \in DOMAIN tree' =>
          HasFile(tree', T) /\ data'[tree'[T]] \in Reached(c, new)'
    <3> SUFFICES ASSUME Runs(c, {"move", "again", "rename"}), T \in DOMAIN tree
                 PROVE  HasFile(tree', T) /\ data'[tree'[T]] \in Reached(c, new)'
      BY <1>1, <1>3, <1>9
    <3>1. HasFile(tree, T) /\ data[tree[T]] \in Reached(c, new)
      BY DEF TempNode
    <3>2. tree'[T] = tree[T] /\ HasFile(tree', T)
      BY <1>9, <3>1 DEF HasFile
    <3>3. tree[T] \in Own(T) /\ Only(tree, tree[T], T) /\ Unheld(todo, tree[T])
      BY <3>1 DEF TempNodes
    <3>4. data'[tree[T]] = data[tree[T]]
      BY <1>7, <1>10, <3>1, <3>3
    <3> QED BY <1>16, <3>1, <3>2, <3>4
  <2>3. c \in Using' => Using' = {c}
    BY <1>13 DEF TempNode
  <2> QED BY <1>2, <2>1, <2>2, <2>3 DEF TempNode, Unheld, Only
<1>15. Phase(c)'
  <2>1. HasFile(tree, f) /\ tree[f] \in {f} \cup Own(T) /\ Only(tree, tree[f], f) /\ Unheld(todo, tree[f])
    BY DEF FileNode
  <2>2. tree'[f] = tree[f] /\ data'[tree[f]] = data[tree[f]]
    BY <1>8, <1>9, <1>10, <2>1 DEF HasFile
  <2>3. todo'[c] = todo[c] /\ out'[c] = out[c] /\ job' = job
    BY <1>1, <1>2
  <2> QED BY <1>16, <2>2, <2>3 DEF Phase, Runs
<1> QED BY <1>11, <1>12, <1>14, <1>15

\* How an insertion changes the tree, seen from the temporary file.
LEMMA InsertTree ==
  ASSUME NEW k \in Calls, Insertion(job[k]), FilesInv, InsStep(k),
         ~Meets({job[k].to}, {Temp})
  PROVE  \/ tree' = tree
         \/ /\ todo[k][1].do = "temp" /\ Create(k, TempFile)
            /\ DOMAIN tree' = DOMAIN tree \cup {TempFile}
            /\ tree'[TempFile] = Opened(k, TempFile) /\ Opened(k, TempFile) # Dir
            /\ \A q \in DOMAIN tree \ {TempFile} : tree'[q] = tree[q]
         \/ /\ DOMAIN tree \subseteq DOMAIN tree' /\ \A q \in DOMAIN tree : tree'[q] = tree[q]
            /\ \A q \in DOMAIN tree' \ DOMAIN tree : tree'[q] = Dir
         \/ /\ TempFile \notin DOMAIN tree' /\ todo[k][1].do \in {"rename", "cleanup"}
            /\ \A q \in DOMAIN tree' : \E r \in DOMAIN tree : tree'[q] = tree[r]
<1> DEFINE to == job[k].to
           T == TempFile
<1>0. Rooted(tree) /\ DOMAIN tree \subseteq Paths
  BY DEF FilesInv, Rooted
<1>1. /\ to \in Paths /\ Front(to) \in Paths
      /\ ~IsPrefix(Temp, to) /\ ~IsPrefix(to, Temp)
  BY WritesPaths, TreesAssumption, FrontPath DEF Meets
<1>2. /\ T \in Paths /\ Temp \in Paths /\ Temp # <<>> /\ IsPrefix(Temp, T)
      /\ ~IsPrefix(to, T) /\ T # to
  BY <1>1, TempPath, PrefixOrder
<1>3. CASE todo[k][1].do = "temp" /\ Create(k, T)
  <2> DEFINE n == Opened(k, T)
  <2>1. CanCreate(tree, T) /\ n # Dir /\ tree' = Place(tree, T, n)
    BY <1>2, <1>3, CreateIs
  <2> HIDE DEF n
  <2>2. With(tree, tree', T, n)
    BY <1>0, <1>2, <2>1, PlaceTree
  <2>3. /\ DOMAIN tree' = DOMAIN tree \cup {T} /\ tree'[T] = n
        /\ \A s \in DOMAIN tree \ {T} : tree'[s] = tree[s]
    BY <2>2 DEF With
  <2> QED BY <1>3, <2>1, <2>3 DEF n
<1>4. CASE Ensure(Front(to))
  <2>1. tree' = tree \/ (CanMkdirAll(tree, Front(to)) /\ tree' = MkdirAll(tree, Front(to)))
    BY <1>4 DEF Ensure
  <2>2. CASE tree' = MkdirAll(tree, Front(to)) /\ CanMkdirAll(tree, Front(to))
    <3>1. Grown(tree, tree', Front(to))
      BY <1>0, <1>1, <2>2, MkdirAllTree
    <3> QED BY <3>1 DEF Grown
  <2> QED BY <2>1, <2>2
<1>5. CASE /\ todo[k][1].do = "rename" /\ CanRename(tree, T, to)
           /\ tree' = Rename(tree, T, to)
  <2> DEFINE Stay == {r \in DOMAIN tree : ~IsPrefix(T, r) /\ r # to}
  <2>1. Renamed(tree, tree', T, to)
    BY <1>0, <1>1, <1>2, <1>5, RenameTree
  <2>2. /\ DOMAIN tree' = Stay \cup {Shift(T, to, s) : s \in Under(tree, T)}
        /\ \A r \in Stay : tree'[r] = tree[r]
        /\ \A s \in Under(tree, T) : tree'[Shift(T, to, s)] = tree[s]
    BY <2>1 DEF Renamed
  <2>3. T \notin Stay
    BY <1>2, PrefixOrder
  <2>4. ASSUME NEW s \in Under(tree, T) PROVE Shift(T, to, s) # T /\ s \in DOMAIN tree
    <3>1. s \in Paths /\ IsPrefix(T, s) /\ s \in DOMAIN tree
      BY <1>0 DEF Under
    <3>2. IsPrefix(to, Shift(T, to, s))
      BY <1>1, <1>2, <3>1, ShiftBack
    <3> QED BY <1>2, <3>1, <3>2
  <2>5. T \notin DOMAIN tree'
    BY <2>2, <2>3, <2>4
  <2>6. \A q \in DOMAIN tree' : \E r \in DOMAIN tree : tree'[q] = tree[r]
    <3> SUFFICES ASSUME NEW q \in DOMAIN tree' PROVE \E r \in DOMAIN tree : tree'[q] = tree[r]
      OBVIOUS
    <3>1. CASE q \in Stay
      BY <2>2, <3>1
    <3>2. CASE q \in {Shift(T, to, s) : s \in Under(tree, T)}
      <4>1. PICK s \in Under(tree, T) : q = Shift(T, to, s)
        BY <3>2
      <4> QED BY <2>2, <2>4, <4>1
    <3> QED BY <2>2, <3>1, <3>2
  <2> QED BY <1>5, <2>5, <2>6
<1>6. CASE todo[k][1].do = "cleanup" /\ tree' = RemoveAll(tree, Temp)
  <2>1. Without(tree, tree', Temp)
    BY <1>0, <1>2, <1>6, RemoveAllTree
  <2>2. T \notin DOMAIN tree' /\ \A q \in DOMAIN tree' : q \in DOMAIN tree /\ tree'[q] = tree[q]
    BY <1>2, <2>1 DEF Without
  <2> QED BY <1>6, <2>2
<1> QED BY <1>3, <1>4, <1>5, <1>6 DEF InsStep

\* What the insertions have of the temporary file in common stays as it is.
LEMMA InsertTempNodes ==
  ASSUME NEW k \in Calls, Insertion(job[k]), FilesInv, AllSeqs, Acts(k), InsStep(k),
         ~Meets({job[k].to}, {Temp}), Dir \notin Own(TempFile), TempNodes
  PROVE  TempNodes'
<1> DEFINE T == TempFile
           t == tree'
<1>1. job' = job /\ out[k] = "run" /\ \A i \in Calls \ {k} : todo'[i] = todo[i] /\ out'[i] = out[i]
  BY ActChanges
<1>2. \A n : Unheld(todo, n) => Unheld(todo', n)
  BY <1>1 DEF Unheld
<1>3. \A i \in Calls : Early(i)' => Early(i)
  <2>1. \A i \in Calls : i # k => (Early(i)' <=> Early(i))
    BY <1>1 DEF Early, Runs
  <2>2. Early(k)' => Early(k)
    <3>1. Early(k)' => /\ out'[k] = "run"
                       /\ todo'[k][1].do = "edit" \/ todo'[k][1].do = "temp"
      BY DEF Early, Runs
    <3>2. Early(k)' => todo[k][1].do = "edit"
      BY <3>1 DEF InsStep
    <3> QED BY <1>1, <3>2 DEF Early, Runs
  <2> QED BY <2>1, <2>2
<1>4. /\ HasFile(tree, T) => /\ tree[T] \in Own(T) /\ Only(tree, tree[T], T)
                             /\ Unheld(todo, tree[T])
      /\ \A i \in Calls : Early(i) => /\ \A r \in DOMAIN tree : tree[r] # <<i, T>>
                                      /\ Unheld(todo, <<i, T>>)
  BY DEF TempNodes
<1>5. \A i \in Calls : <<i, T>> # Dir
  BY DEF Own
\* What is left to prove: the tree.
<1>6. ASSUME HasFile(tree', T) => /\ tree'[T] \in Own(T) /\ Only(tree', tree'[T], T)
                                  /\ Unheld(todo, tree'[T]),
             \A i \in Calls : Early(i)' => \A r \in DOMAIN tree' : tree'[r] # <<i, T>>
      PROVE  TempNodes'
  <2>1. HasFile(tree', T) => /\ tree'[T] \in Own(T) /\ Only(tree', tree'[T], T)
                             /\ Unheld(todo', tree'[T])
    BY <1>2, <1>6
  <2>2. \A i \in Calls : Early(i)' => /\ \A r \in DOMAIN tree' : tree'[r] # <<i, T>>
                                      /\ Unheld(todo', <<i, T>>)
    BY <1>2, <1>3, <1>4, <1>6
  <2> QED BY <1>1, <2>1, <2>2 DEF TempNodes, Unheld, Only, Own
<1>7. CASE tree' = tree
  BY <1>3, <1>4, <1>6, <1>7
<1>8. CASE /\ todo[k][1].do = "temp"
           /\ DOMAIN t = DOMAIN tree \cup {T}
           /\ t[T] = Opened(k, T) /\ Opened(k, T) # Dir
           /\ \A q \in DOMAIN tree \ {T} : t[q] = tree[q]
  <2> DEFINE n == Opened(k, T)
  <2>1. Early(k) /\ ~Early(k)'
    <3>1. \/ out'[k] = "error"
          \/ out'[k] = "run" /\ todo'[k][1].do = "read"
      BY <1>8 DEF InsStep
    <3> QED BY <1>1, <1>8, <3>1 DEF Early, Runs
  <2>2. n \in Own(T) /\ Only(tree, n, T) /\ Unheld(todo, n)
    <3>1. CASE HasFile(tree, T)
      BY <1>4, <3>1 DEF Opened
    <3>2. CASE ~HasFile(tree, T)
      <4>1. n = <<k, T>> /\ n \in Own(T)
        BY <3>2 DEF Opened, Own
      <4>2. (\A r \in DOMAIN tree : tree[r] # <<k, T>>) /\ Unheld(todo, <<k, T>>)
        BY <1>4, <2>1
      <4> QED BY <4>1, <4>2 DEF Only
    <3> QED BY <3>1, <3>2
  <2>3. \A i \in Calls : Early(i)' => n # <<i, T>>
    <3> SUFFICES ASSUME NEW i \in Calls, Early(i)' PROVE n # <<i, T>>
      OBVIOUS
    <3>1. Early(i) /\ i # k
      BY <1>3, <2>1
    <3>2. CASE HasFile(tree, T)
      <4>1. n = tree[T] /\ T \in DOMAIN tree
        BY <3>2 DEF Opened, HasFile
      <4> QED BY <1>4, <3>1, <4>1
    <3>3. CASE ~HasFile(tree, T)
      BY <3>1, <3>3 DEF Opened
    <3> QED BY <3>2, <3>3
  <2> HIDE DEF n
  <2>4. DOMAIN t = DOMAIN tree \cup {T} /\ t[T] = n /\ \A q \in DOMAIN tree \ {T} : t[q] = tree[q]
    BY <1>8 DEF n
  <2>5. Only(t, n, T)
    BY <2>2, <2>4 DEF Only
  <2>6. \A i \in Calls : Early(i)' => \A r \in DOMAIN t : t[r] # <<i, T>>
    BY <1>3, <1>4, <2>3, <2>4
  <2> QED BY <1>6, <2>2, <2>4, <2>5, <2>6
<1>9. CASE /\ DOMAIN tree \subseteq DOMAIN t /\ \A q \in DOMAIN tree : t[q] = tree[q]
           /\ \A q \in DOMAIN t \ DOMAIN tree : t[q] = Dir
  <2>1. HasFile(t, T) => HasFile(tree, T) /\ t[T] = tree[T]
    BY <1>9 DEF HasFile
  <2>2. HasFile(t, T) => Only(t, t[T], T)
    BY <1>4, <1>9, <2>1 DEF Only, HasFile
  <2>3. \A i \in Calls : Early(i)' => \A r \in DOMAIN t : t[r] # <<i, T>>
    BY <1>3, <1>4, <1>5, <1>9
  <2> QED BY <1>4, <1>6, <2>1, <2>2, <2>3
<1>10. CASE T \notin DOMAIN t /\ \A q \in DOMAIN t : \E r \in DOMAIN tree : t[q] = tree[r]
  <2>1. ~HasFile(t, T)
    BY <1>10 DEF HasFile
  <2>2. \A i \in Calls : Early(i)' => \A r \in DOMAIN t : t[r] # <<i, T>>
    BY <1>3, <1>4, <1>10
  <2> QED BY <1>6, <2>1, <2>2
<1> QED BY <1>7, <1>8, <1>9, <1>10, InsertTree

\* The data that an insertion changes are those of the temporary file that it
\* makes, or of the node that it has written to.
LEMMA InsertData ==
  ASSUME NEW k \in Calls, FilesInv, InsStep(k), NEW n \in DOMAIN data,
         todo[k][1].do = "temp" => n # Opened(k, TempFile),
         todo[k][1].do = "flush" => n # todo[k][1].to
  PROVE  n \in DOMAIN data' /\ data'[n] = data[n]
<1>1. TempFile \in Paths
  BY TempPath
<1>2. CASE todo[k][1].do = "temp" /\ Create(k, TempFile)
  BY <1>1, <1>2, CreateIs
<1>3. CASE todo[k][1].do = "flush" /\ \E w : Write(todo[k][1].to, w)
  BY <1>3 DEF Write
<1>4. CASE data' = data
  BY <1>4
<1> QED BY <1>2, <1>3, <1>4 DEF InsStep, Ensure

\* Another insertion leaves the file of c alone, and the temporary file when c
\* is using it, if it does not spoil it.
LEMMA InsertOther ==
  ASSUME NEW c \in Calls, NEW k \in Calls \ {c}, Insertion(job[k]), FilesInv, AllSeqs, Acts(k),
         InsStep(k), unflushed \subseteq unflushed', Own1(c), c \notin spoilt', TempNodes, FileNode(c), TempNode(c), Phase(c)
  PROVE  FileNode(c)' /\ TempNode(c)' /\ Phase(c)'
<1> DEFINE f == job[c].to
           T == TempFile
           s == todo[k][1]
           new == Rewritten(InitText[f], job[c])
<1>1. /\ f \in Paths /\ T \in Paths /\ f # T /\ f \notin Calls \X Paths
      /\ f \notin Own(T) /\ Dir \notin Own(T) /\ job[k].to # f
      /\ ~Meets({f}, {Temp}) /\ ~Meets({job[k].to}, {Temp})
  BY EditFacts
<1>2. /\ job' = job /\ out[k] = "run"
      /\ \A i \in Calls \ {k} : todo'[i] = todo[i] /\ out'[i] = out[i]
  BY ActChanges
<1>3. \A i \in Calls : \A dos : i # k => (Runs(i, dos)' <=> Runs(i, dos))
  BY <1>2 DEF Runs
<1>4. \A n : Unheld(todo, n) => Unheld(todo', n)
  BY <1>2 DEF Unheld
<1>5. /\ HasFile(tree, f) /\ tree[f] \in {f} \cup Own(T)
      /\ Only(tree, tree[f], f) /\ Unheld(todo, tree[f])
      /\ \A i \in Calls \ {c} : Insertion(job[i]) /\ Runs(i, {"read", "flush"})
                                => todo[i][1].to # tree[f]
  BY DEF FileNode
<1>6. s.do = "temp" => tree[f] # Opened(k, T)
  <2> SUFFICES ASSUME s.do = "temp" PROVE tree[f] # Opened(k, T)
    OBVIOUS
  <2>1. Early(k)
    BY <1>2 DEF Early, Runs
  <2>2. CASE HasFile(tree, T)
    BY <1>1, <1>5, <2>2 DEF Opened, HasFile, Only
  <2>3. CASE ~HasFile(tree, T)
    BY <1>5, <2>1, <2>3 DEF Opened, HasFile, TempNodes
  <2> QED BY <2>2, <2>3
<1>7. /\ f \in DOMAIN tree' /\ tree'[f] = tree[f]
      /\ \A q \in DOMAIN tree' : q # f =>
           \/ tree'[q] = Dir
           \/ \E r \in DOMAIN tree : r # f /\ tree'[q] = tree[r]
           \/ Early(k) /\ q = T /\ tree'[q] = <<k, T>>
  BY <1>1, <1>2, <1>5, InsertFrame
<1>8. data'[tree[f]] = data[tree[f]]
  <2>1. tree[f] \in DOMAIN data
    BY <1>5 DEF FilesInv, Files, HasFile
  <2>2. s.do = "flush" => tree[f] # s.to
    <3>1. s.do = "flush" => Runs(k, {"read", "flush"})
      BY <1>2 DEF Runs
    <3> QED BY <1>5, <3>1
  <2> QED BY <1>6, <2>1, <2>2, InsertData
<1>9. FileNode(c)'
  <2>1. HasFile(tree', f) /\ tree'[f] = tree[f]
    BY <1>5, <1>7 DEF HasFile
  <2>2. Only(tree', tree'[f], f)
    <3>1. tree[f] # Dir
      BY <1>5 DEF HasFile
    <3>2. Early(k) => tree[f] # <<k, T>>
      BY <1>5 DEF HasFile, TempNodes
    <3> QED BY <1>5, <1>7, <3>1, <3>2 DEF Only
  <2>3. ASSUME NEW i \in Calls \ {c}, Insertion(job[i]), Runs(i, {"read", "flush"})'
        PROVE  todo'[i][1].to # tree[f]
    <3>1. CASE i # k
      BY <1>2, <1>3, <1>5, <2>3, <3>1
    <3>2. CASE i = k
      <4>1. out'[k] = "run" /\ todo'[k][1].do \in {"read", "flush"}
        BY <2>3, <3>2 DEF Runs
      <4>2. CASE s.do = "temp"
        <5>1. todo'[k][1].to = Opened(k, T)
          BY <4>1, <4>2 DEF InsStep
        <5> QED BY <1>6, <3>2, <4>2, <5>1
      <4>3. CASE s.do = "read"
        <5>1. todo'[k][1].to = s.to
          BY <4>1, <4>3 DEF InsStep
        <5>2. Runs(k, {"read", "flush"})
          BY <1>2, <4>3 DEF Runs
        <5> QED BY <1>5, <3>2, <5>1, <5>2
      <4> QED BY <4>1, <4>2, <4>3 DEF InsStep
    <3> QED BY <3>1, <3>2
  <2> QED BY <1>2, <1>4, <1>5, <2>1, <2>2, <2>3 DEF FileNode, Unheld, Only, Own
<1>15. new' = new /\ Reached(c, new) \subseteq Reached(c, new)'
  BY <1>2 DEF Reached
<1>10. Phase(c)'
  <2>1. todo'[c] = todo[c] /\ out'[c] = out[c] /\ job' = job
    BY <1>2
  <2> QED BY <1>7, <1>8, <1>15, <2>1 DEF Phase, Runs
\* When c has the temporary file, no other insertion has it.
<1>11. \A dos : dos \subseteq {"read", "flush", "move", "again", "rename"} /\ Runs(c, dos) => c \in Using
  BY DEF Runs, Using, Own1
<1>12. c \in Using => /\ Using = {c} /\ Using' = {c} /\ data' = data
                      /\ tree' = tree \/ tree' = RemoveAll(tree, Temp)
  <2> SUFFICES ASSUME c \in Using
               PROVE  /\ Using = {c} /\ Using' = {c} /\ data' = data
                      /\ tree' = tree \/ tree' = RemoveAll(tree, Temp)
    OBVIOUS
  <2>1. Using = {c}
    BY DEF TempNode
  <2>2. s.do \notin {"read", "flush", "move", "again", "rename"}
    BY <1>2, <2>1 DEF Using
  <2>3. ~(s.do = "temp" /\ out'[k] = "run")
    <3>1. s.do = "temp" /\ out'[k] = "run" => spoilt' = spoilt \cup Using \cup {k}
      <4>1. Using # {}
        BY <2>1
      <4> QED BY <4>1 DEF InsStep
    <3> QED BY <2>1, <3>1
  <2>4. /\ data' = data /\ (tree' = tree \/ tree' = RemoveAll(tree, Temp))
        /\ out'[k] # "run" \/ todo'[k][1].do = "temp"
    BY <2>2, <2>3 DEF InsStep
  <2>5. k \notin Using'
    BY <2>4 DEF Using
  <2>6. \A i \in Calls \ {k} : i \in Using' <=> i \in Using
    BY <1>2 DEF Using
  <2>7. Using' \subseteq Calls /\ Using \subseteq Calls
    BY DEF Using
  <2>8. Using' = {c}
    BY <2>1, <2>5, <2>6, <2>7
  <2> QED BY <2>1, <2>4, <2>8
<1>13. c \in Using => /\ DOMAIN tree' \subseteq DOMAIN tree
                      /\ \A q \in DOMAIN tree' : tree'[q] = tree[q]
  <2>1. Temp \in Paths /\ Temp # <<>> /\ Rooted(tree)
    BY TempPath DEF FilesInv
  <2>2. tree' = RemoveAll(tree, Temp) => Without(tree, tree', Temp)
    BY <2>1, RemoveAllTree
  <2>3. tree' = RemoveAll(tree, Temp) =>
          /\ DOMAIN tree' \subseteq DOMAIN tree
          /\ \A q \in DOMAIN tree' : tree'[q] = tree[q]
    BY <2>2 DEF Without
  <2> QED BY <1>12, <2>3
<1>14. TempNode(c)'
  <2>1. Runs(c, {"read", "flush"})' =>
          LET n == todo'[c][1].to IN
          /\ n \in Own(T) /\ n \in DOMAIN data' /\ data'[n] = <<>>
          /\ Only(tree', n, T) /\ Unheld(todo', n)
          /\ (T \in DOMAIN tree' => tree'[T] = n)
    <3> SUFFICES ASSUME Runs(c, {"read", "flush"})
                 PROVE  LET n == todo[c][1].to IN
                        /\ n \in Own(T) /\ n \in DOMAIN data' /\ data'[n] = <<>>
                        /\ Only(tree', n, T) /\ Unheld(todo', n)
                        /\ (T \in DOMAIN tree' => tree'[T] = n)
      BY <1>2, <1>3
    <3> DEFINE n == todo[c][1].to
    <3>1. /\ n \in Own(T) /\ n \in DOMAIN data /\ data[n] = <<>>
          /\ Only(tree, n, T) /\ Unheld(todo, n)
          /\ (T \in DOMAIN tree => tree[T] = n)
      BY DEF TempNode
    <3>2. c \in Using
      BY <1>11
    <3> HIDE DEF n
    <3>3. Only(tree', n, T)
      BY <1>13, <3>1, <3>2 DEF Only
    <3> QED BY <1>4, <1>12, <1>13, <3>1, <3>2, <3>3 DEF n
  <2>2. Runs(c, {"move", "again", "rename"})' /\ T \in DOMAIN tree' =>
          HasFile(tree', T) /\ data'[tree'[T]] \in Reached(c, new)'
    <3> SUFFICES ASSUME Runs(c, {"move", "again", "rename"}), T \in DOMAIN tree'
                 PROVE  HasFile(tree', T) /\ data'[tree'[T]] \in Reached(c, new)'
      BY <1>2, <1>3
    <3>1. c \in Using
      BY <1>11
    <3>2. T \in DOMAIN tree /\ tree'[T] = tree[T]
      BY <1>13, <3>1
    <3>3. HasFile(tree, T) /\ data[tree[T]] \in Reached(c, new)
      BY <3>2 DEF TempNode
    <3> QED BY <1>12, <1>15, <3>1, <3>2, <3>3 DEF HasFile
  <2>3. c \in Using' => Using' = {c}
    <3>1. c \in Using' => c \in Using
      BY <1>2 DEF Using
    <3> QED BY <1>12, <3>1
  <2> QED BY <1>2, <2>1, <2>2, <2>3 DEF TempNode, Unheld, Only, Own
<1> QED BY <1>9, <1>10, <1>14

\* A file that is renamed: nothing is below it, and what is elsewhere stays.
Replaced(t, u, p, q) ==
  /\ DOMAIN u = (DOMAIN t \ {p}) \cup {q} /\ u[q] = t[p]
  /\ \A r \in DOMAIN t \ {p, q} : u[r] = t[r]

\* os.Rename of a file: the file is at the new path, in the place of what was
\* there.
LEMMA RenameFile ==
  ASSUME NEW t, Rooted(t), NEW p \in Paths, NEW q \in Paths, p # q, CanRename(t, p, q), t[p] # Dir
  PROVE  Replaced(t, Rename(t, p, q), p, q)
<1> DEFINE u == Rename(t, p, q)
<1>1. p \in DOMAIN t /\ DOMAIN t \subseteq Paths
  BY DEF CanRename, Rooted
<1>2. Under(t, p) = {p}
  <2>1. \A r \in DOMAIN t : IsPrefix(p, r) => r = p
    BY <1>1, RootedAbove
  <2> QED BY <1>1, <2>1, PrefixOrder DEF Under
<1>3. Renamed(t, u, p, q)
  BY RenameTree
<1> HIDE DEF u
<1>4. Shift(p, q, p) = q
  BY ShiftBack, PrefixOrder
<1>5. \A r \in DOMAIN t : IsPrefix(p, r) <=> r = p
  BY <1>1, <1>2 DEF Under
<1>6. /\ DOMAIN u = {r \in DOMAIN t : ~IsPrefix(p, r) /\ r # q} \cup {Shift(p, q, s) : s \in {p}}
      /\ \A r \in {x \in DOMAIN t : ~IsPrefix(p, x) /\ x # q} : u[r] = t[r]
      /\ u[Shift(p, q, p)] = t[p]
  BY <1>2, <1>3 DEF Renamed
<1>7. Replaced(t, u, p, q)
  BY <1>4, <1>5, <1>6 DEF Replaced
<1> QED BY <1>7 DEF u

\* What c does itself: the file is as it was until the temporary one, with the
\* new text, takes its place.
LEMMA InsertSelf ==
  ASSUME NEW c \in Calls, FilesInv, AllSeqs, Acts(c), InsStep(c), Shape(c), Own1(c),
         c \notin spoilt', unflushed \subseteq unflushed', TempNodes, FileNode(c), TempNode(c), Phase(c),
         AnySeq(Rewritten(InitText[job[c].to], job[c]))
  PROVE  FileNode(c)' /\ TempNode(c)' /\ Phase(c)'
<1> DEFINE f == job[c].to
           T == TempFile
           s == todo[c][1]
           t == todo'[c][1]
           old == InitText[f]
           new == Rewritten(InitText[f], job[c])
<1>1. /\ f \in Paths /\ T \in Paths /\ f # T /\ f \notin Calls \X Paths
      /\ f \notin Own(T) /\ Dir \notin Own(T)
      /\ ~Meets({f}, {Temp}) /\ Insertion(job[c])
  BY EditFacts DEF Own1
<1>2. /\ job' = job /\ out[c] = "run"
      /\ \A i \in Calls \ {c} : todo'[i] = todo[i] /\ out'[i] = out[i]
  BY ActChanges
<1>3. \A i \in Calls : \A dos : i # c => (Runs(i, dos)' <=> Runs(i, dos))
  BY <1>2 DEF Runs
<1>4. \A n : Unheld(todo, n) => Unheld(todo', n)
  BY <1>1, <1>2 DEF Unheld
<1>5. /\ HasFile(tree, f) /\ tree[f] \in {f} \cup Own(T)
      /\ Only(tree, tree[f], f) /\ Unheld(todo, tree[f])
      /\ \A i \in Calls \ {c} : Insertion(job[i]) /\ Runs(i, {"read", "flush"})
                                => todo[i][1].to # tree[f]
      /\ f \in DOMAIN tree /\ tree[f] # Dir /\ tree[f] \in DOMAIN data
  BY DEF FileNode, HasFile, FilesInv, Files
<1>6. \A i \in Calls \ {c} : i \in Using' <=> i \in Using
  BY <1>2 DEF Using
<1>7. c \in Using <=> s.do \in {"read", "flush", "move", "again", "rename"}
  BY <1>1, <1>2 DEF Using
<1>8. c \in Using' <=> out'[c] = "run" /\ t.do \in {"read", "flush", "move", "again", "rename"}
  BY <1>1, <1>2 DEF Using
<1>9. Using \subseteq Calls /\ Using' \subseteq Calls /\ (c \in Using => Using = {c})
  BY DEF Using, TempNode
\* The file stays, as long as it is the file that was there.
<1>10. ASSUME f \in DOMAIN tree', tree'[f] = tree[f], Only(tree', tree[f], f)
       PROVE  FileNode(c)'
  <2>1. HasFile(tree', f)
    BY <1>5, <1>10 DEF HasFile
  <2>2. \A i \in Calls \ {c} : Insertion(job[i]) /\ Runs(i, {"read", "flush"})'
                               => todo'[i][1].to # tree[f]
    BY <1>2, <1>3, <1>5
  <2>3. Unheld(todo', tree'[f]) /\ tree'[f] \in {f} \cup Own(T) /\ Only(tree', tree'[f], f)
    BY <1>4, <1>5, <1>10
  <2> QED BY <1>2, <1>10, <2>1, <2>2, <2>3 DEF FileNode, Unheld, Only, Own
<1>11. ASSUME tree' = tree PROVE FileNode(c)'
  BY <1>5, <1>10, <1>11
<1>12. ASSUME c \in Using, c \in Using' PROVE Using' = {c}
  BY <1>6, <1>9, <1>12
<1>13. /\ s.do \in {"edit", "temp", "read", "flush", "move", "again", "rename"} => data[tree[f]] = old
       /\ s.do = "temp" => s.to = tree[f]
       /\ s.do = "read" => s.from = tree[f]
       /\ s.do = "flush" => s.from = new
       /\ s.do = "cleanup" => data[tree[f]] \in Reached(c, new)
  BY <1>2 DEF Phase, Runs
<1>14. /\ s.do \in {"read", "flush"} =>
            /\ s.to \in Own(T) /\ s.to \in DOMAIN data /\ data[s.to] = <<>>
            /\ Only(tree, s.to, T) /\ Unheld(todo, s.to)
            /\ (T \in DOMAIN tree => tree[T] = s.to)
       /\ s.do \in {"move", "again", "rename"} /\ T \in DOMAIN tree =>
            HasFile(tree, T) /\ data[tree[T]] \in Reached(c, new)
  BY <1>2 DEF TempNode, Runs
<1>27. new' = new /\ Reached(c, new) \subseteq Reached(c, new)'
  BY <1>2 DEF Reached
\* What is left to prove of the temporary file and of what c carries.
<1>15. ASSUME c \notin Using \/ c \notin Using' \/ Using' = {c},
              c \notin Using => (c \in Using' => Using' = {c}),
              Runs(c, {"read", "flush"})' =>
                /\ t.to \in Own(T) /\ t.to \in DOMAIN data' /\ data'[t.to] = <<>>
                /\ Only(tree', t.to, T) /\ Unheld(todo', t.to)
                /\ (T \in DOMAIN tree' => tree'[T] = t.to),
              Runs(c, {"move", "again", "rename"})' /\ T \in DOMAIN tree' =>
                HasFile(tree', T) /\ data'[tree'[T]] \in Reached(c, new)'
       PROVE  TempNode(c)'
  <2>1. c \in Using' => Using' = {c}
    BY <1>15
  <2> QED BY <1>2, <1>15, <1>27, <2>1 DEF TempNode, Unheld, Only, Own
<1>16. \A dos : Runs(c, dos)' <=> out'[c] = "run" /\ t.do \in dos
  BY DEF Runs
<1>17. /\ s.do \in {"edit", "temp", "read", "flush", "move", "again", "rename", "cleanup"}
       /\ todo[c] # <<>>
  <2>1. todo[c] # <<>>
    BY <1>2, FirstStepOK
  <2> QED BY <2>1 DEF Shape
<1>18. CASE /\ s.do \notin {"flush", "cleanup"} /\ todo'[c] = <<>> /\ out'[c] = "error"
            /\ UNCHANGED <<tree, data, spoilt>>
  <2>1. FileNode(c)'
    BY <1>11, <1>18
  <2>2. TempNode(c)'
    BY <1>8, <1>15, <1>16, <1>18
  <2>3. Phase(c)'
    <3>1. data'[tree'[f]] = old
      BY <1>13, <1>17, <1>18
    <3> QED BY <1>2, <1>16, <1>18, <3>1 DEF Phase
  <2> QED BY <2>1, <2>2, <2>3
<1>19. CASE /\ s.do = "edit" /\ out'[c] = "run" /\ t.do = "temp" /\ t.to = tree[f]
            /\ UNCHANGED <<tree, data, spoilt>>
  <2>1. FileNode(c)'
    BY <1>11, <1>19
  <2>2. TempNode(c)'
    BY <1>7, <1>8, <1>15, <1>16, <1>19
  <2>3. Phase(c)'
    <3>1. data'[tree'[f]] = old
      BY <1>13, <1>17, <1>19
    <3> QED BY <1>2, <1>16, <1>19, <3>1 DEF Phase
  <2> QED BY <2>1, <2>2, <2>3
<1>21. CASE /\ s.do = "temp" /\ out'[c] = "run" /\ t.do = "read" /\ Create(c, T)
            /\ t.from = s.to /\ t.to = Opened(c, T)
            /\ spoilt' = IF Using = {} THEN spoilt ELSE spoilt \cup Using \cup {c}
  <2> DEFINE n == Opened(c, T)
  <2>1. Using = {}
    BY <1>21
  <2>2. Early(c)
    BY <1>1, <1>2, <1>21 DEF Early, Runs
  <2>3. n \in Own(T) /\ tree[f] # n /\ Unheld(todo, n) /\ \A r \in DOMAIN tree : tree[r] = n => r = T
    <3>1. CASE HasFile(tree, T)
      <4>1. n = tree[T] /\ n \in Own(T) /\ Only(tree, n, T) /\ Unheld(todo, n)
        BY <3>1 DEF Opened, TempNodes
      <4> QED BY <1>1, <1>5, <4>1 DEF Only
    <3>2. CASE ~HasFile(tree, T)
      <4>1. n = <<c, T>> /\ Unheld(todo, n) /\ \A r \in DOMAIN tree : tree[r] # n
        BY <2>2, <3>2 DEF Opened, TempNodes
      <4> QED BY <1>5, <4>1 DEF Own
    <3> QED BY <3>1, <3>2
  <2>4. /\ CanCreate(tree, T) /\ n # Dir /\ tree' = Place(tree, T, n)
        /\ DOMAIN data' = DOMAIN data \cup {n} /\ data'[n] = <<>>
        /\ \A m \in DOMAIN data : m # n => data'[m] = data[m]
    BY <1>1, <1>21, CreateIs
  <2>5. t.to = n /\ t.from = tree[f]
    BY <1>13, <1>21
  <2> HIDE DEF n
  <2>6. With(tree, tree', T, n)
    BY <1>1, <2>4, PlaceTree DEF FilesInv
  <2>7. /\ DOMAIN tree' = DOMAIN tree \cup {T} /\ tree'[T] = n
        /\ \A r \in DOMAIN tree \ {T} : tree'[r] = tree[r]
    BY <2>6 DEF With
  <2>8. FileNode(c)'
    <3>1. Only(tree', tree[f], f)
      BY <1>5, <2>3, <2>7 DEF Only
    <3> QED BY <1>1, <1>5, <1>10, <2>7, <3>1
  <2>9. Only(tree', n, T)
    BY <2>3, <2>7 DEF Only
  <2>10. TempNode(c)'
    <3>1. c \in Using' => Using' = {c}
      BY <1>6, <1>9, <2>1
    <3> QED BY <1>4, <1>15, <1>16, <1>21, <2>3, <2>4, <2>5, <2>7, <2>9, <3>1
  <2>11. Phase(c)'
    <3>1. data'[tree'[f]] = old /\ tree'[f] = tree[f]
      BY <1>1, <1>5, <1>13, <1>21, <2>3, <2>4, <2>7
    <3> QED BY <1>2, <1>16, <1>21, <2>5, <3>1 DEF Phase
  <2> QED BY <2>8, <2>10, <2>11
<1>22. CASE /\ s.do = "read" /\ out'[c] = "run" /\ t.do = "flush" /\ t.to = s.to
            /\ t.from = Rewritten(data[s.from], job[c]) /\ UNCHANGED <<tree, data, spoilt>>
  <2>1. FileNode(c)'
    BY <1>11, <1>22
  <2>2. TempNode(c)'
    <3>1. Using' = {c}
      BY <1>7, <1>8, <1>12, <1>22
    <3> QED BY <1>4, <1>14, <1>15, <1>16, <1>22, <3>1
  <2>3. Phase(c)'
    <3>1. data'[tree'[f]] = old /\ t.from = new
      BY <1>13, <1>22
    <3> QED BY <1>2, <1>16, <1>22, <3>1 DEF Phase
  <2> QED BY <2>1, <2>2, <2>3
<1>23. CASE /\ s.do = "flush" /\ out'[c] = "run" /\ t.do = "move" /\ UNCHANGED <<tree, spoilt>>
            /\ \E w : /\ Write(s.to, w)
                      /\ w = s.from \/ (c \in unflushed' /\ w \in Beginnings(s.from))
  <2>1. PICK w : Write(s.to, w) /\ (w = s.from \/ (c \in unflushed' /\ w \in Beginnings(s.from)))
    BY <1>23
  <2>2. s.from = new /\ tree[f] # s.to /\ s.to \in DOMAIN data /\ data[s.to] = <<>>
    BY <1>1, <1>5, <1>13, <1>14, <1>23 DEF Only
  <2>3. PICK S : w \in Seq(S)
    <3>1. PICK S : new \in Seq(S)
      BY DEF AnySeq
    <3> HIDE DEF new
    <3>2. ASSUME NEW i \in 0..Len(new) PROVE SubSeq(new, 1, i) \in Seq(S)
      BY <3>1, <3>2
    <3>3. w \in Seq(S)
      BY <2>1, <2>2, <3>1, <3>2 DEF Beginnings
    <3> QED BY <3>3
  <2> HIDE DEF new
  <2>4. data'[s.to] = w /\ data'[tree[f]] = data[tree[f]]
    <3>1. Len(w) \in Nat /\ Len(<<>>) = 0
      BY <2>3
    <3>2. SubSeq(<<>>, Len(w) + 1, Len(<<>>)) = <<>>
      BY <3>1
    <3>3. w \o <<>> = w
      BY <2>3
    <3>4. data' = [data EXCEPT ![s.to] = w \o SubSeq(@, Len(w) + 1, Len(@))]
      BY <2>1 DEF Write
    <3>5. data' = [data EXCEPT ![s.to] = w]
      BY <2>2, <3>2, <3>3, <3>4
    <3> QED BY <1>5, <2>2, <3>5
  <2>5. FileNode(c)'
    BY <1>11, <1>23
  <2>6. TempNode(c)'
    <3>1. Using' = {c}
      BY <1>7, <1>8, <1>12, <1>23
    <3>2. T \in DOMAIN tree => tree[T] = s.to /\ s.to # Dir
      BY <1>1, <1>14, <1>23
    <3>3. w \in Reached(c, new)'
      BY <1>27, <2>1, <2>2 DEF Reached
    <3>4. T \in DOMAIN tree' => HasFile(tree', T) /\ data'[tree'[T]] \in Reached(c, new)'
      BY <1>23, <2>4, <3>2, <3>3 DEF HasFile
    <3>5. t.do \notin {"read", "flush"}
      BY <1>23
    <3> QED BY <1>15, <1>16, <3>1, <3>4, <3>5
  <2>7. Phase(c)'
    <3>1. data'[tree'[f]] = old
      BY <1>13, <1>23, <2>4
    <3> QED BY <1>2, <1>16, <1>23, <3>1 DEF Phase
  <2> QED BY <2>5, <2>6, <2>7
<1>24. CASE /\ s.do \in {"move", "again"} /\ out'[c] = "run" /\ t.do \in {"again", "rename"}
            /\ Ensure(Front(f))
  <2>1. Front(f) \in DOMAIN tree
    BY <1>1, <1>5, FrontPath, RootedAbove DEF FilesInv
  <2>2. tree' = tree /\ data' = data
    BY <1>24, <2>1 DEF Ensure
  <2>3. FileNode(c)'
    BY <1>11, <2>2
  <2>4. TempNode(c)'
    <3>1. Using' = {c}
      BY <1>7, <1>8, <1>12, <1>24
    <3>2. T \in DOMAIN tree' => HasFile(tree', T) /\ data'[tree'[T]] \in Reached(c, new)'
      BY <1>14, <1>24, <1>27, <2>2
    <3> QED BY <1>15, <1>16, <1>24, <3>1, <3>2
  <2>5. Phase(c)'
    <3>1. data'[tree'[f]] = old
      BY <1>13, <1>24, <2>2
    <3> QED BY <1>2, <1>16, <1>24, <3>1 DEF Phase
  <2> QED BY <2>3, <2>4, <2>5
\* The temporary file takes the place of the file.
<1>25. CASE /\ s.do = "rename" /\ out'[c] = "run" /\ t.do = "cleanup" /\ CanRename(tree, T, f)
            /\ tree' = Rename(tree, T, f) /\ UNCHANGED <<data, spoilt>>
  <2> DEFINE n == tree[T]
  <2>1. T \in DOMAIN tree /\ HasFile(tree, T) /\ data[n] \in Reached(c, new)
    BY <1>14, <1>25 DEF CanRename
  <2>2. n # Dir /\ n \in Own(T) /\ Only(tree, n, T) /\ Unheld(todo, n)
    BY <2>1 DEF TempNodes, HasFile
  <2> HIDE DEF n
  <2>3. /\ DOMAIN tree' = (DOMAIN tree \ {T}) \cup {f} /\ tree'[f] = n
        /\ \A r \in DOMAIN tree \ {T, f} : tree'[r] = tree[r]
    <3>1. Rooted(tree) /\ tree[T] # Dir /\ n = tree[T] /\ CanRename(tree, T, f)
      BY <1>25, <2>2 DEF FilesInv, n
    <3>2. Replaced(tree, tree', T, f)
      BY <1>1, <1>25, <3>1, RenameFile
    <3>3. /\ DOMAIN tree' = (DOMAIN tree \ {T}) \cup {f} /\ tree'[f] = tree[T]
          /\ \A r \in DOMAIN tree \ {T, f} : tree'[r] = tree[r]
      BY <3>2 DEF Replaced
    <3> QED BY <3>1, <3>3
  <2>4. FileNode(c)'
    <3>1. Only(tree', n, f)
      BY <2>2, <2>3 DEF Only
    <3>2. HasFile(tree', f)
      BY <2>2, <2>3 DEF HasFile
    <3>3. ASSUME NEW i \in Calls \ {c}, Insertion(job[i]), Runs(i, {"read", "flush"})'
          PROVE  FALSE
      <4>1. i \in Using
        BY <1>3, <3>3 DEF Runs, Using
      <4> QED BY <1>7, <1>9, <1>25, <4>1
    <3>4. Unheld(todo', tree'[f]) /\ tree'[f] \in {f} \cup Own(T) /\ Only(tree', tree'[f], f)
      BY <1>4, <2>2, <2>3, <3>1
    <3> QED BY <1>2, <3>2, <3>3, <3>4 DEF FileNode, Unheld, Only, Own
  <2>5. TempNode(c)'
    BY <1>8, <1>15, <1>16, <1>25
  <2>6. Phase(c)'
    <3>1. data'[tree'[f]] \in Reached(c, new)'
      BY <1>25, <1>27, <2>1, <2>3 DEF n
    <3> QED BY <1>2, <1>16, <1>25, <1>27, <3>1 DEF Phase
  <2> QED BY <2>4, <2>5, <2>6
<1>26. CASE /\ s.do = "cleanup" /\ todo'[c] = <<>> /\ out'[c] = "nil"
            /\ tree' \in {tree, RemoveAll(tree, Temp)} /\ UNCHANGED <<data, spoilt>>
  <2>1. /\ DOMAIN tree' \subseteq DOMAIN tree /\ \A q \in DOMAIN tree' : tree'[q] = tree[q]
        /\ f \in DOMAIN tree'
    <3>1. CASE tree' = RemoveAll(tree, Temp)
      <4>1. Without(tree, tree', Temp)
        BY <3>1, TempPath, RemoveAllTree DEF FilesInv
      <4>2. ~IsPrefix(Temp, f)
        BY <1>1 DEF Meets
      <4> QED BY <1>5, <4>1, <4>2 DEF Without
    <3>2. CASE tree' = tree
      BY <1>5, <3>2
    <3> QED BY <1>26, <3>1, <3>2
  <2>2. FileNode(c)'
    <3>1. Only(tree', tree[f], f)
      BY <1>5, <2>1 DEF Only
    <3> QED BY <1>10, <2>1, <3>1
  <2>3. TempNode(c)'
    BY <1>8, <1>15, <1>16, <1>26
  <2>4. Phase(c)'
    <3>1. data'[tree'[f]] \in Reached(c, new)'
      BY <1>13, <1>26, <1>27, <2>1
    <3> QED BY <1>2, <1>16, <1>26, <1>27, <3>1 DEF Phase
  <2> QED BY <2>2, <2>3, <2>4
<1> QED BY <1>18, <1>19, <1>21, <1>22, <1>23, <1>24, <1>25, <1>26 DEF InsStep

-----------------------------------------------------------------------------
(* What an insertion writes *)

\* A set of numbers has a least one: this is what induction is done with here.
LEMMA Least ==
  ASSUME NEW S, S \subseteq Nat, S # {}
  PROVE  \E x \in S : \A y \in S : x <= y
<1> DEFINE R == {ss \in Nat \X Nat : ss[1] < ss[2]}
<1>1. IsWellFoundedOn(R, Nat)
  BY NatLessThanWellFounded DEF OpToRel
<1>2. \A a, b \in Nat : a < b => <<a, b>> \in R
  OBVIOUS
<1> HIDE DEF R
<1>3. PICK x \in S : \A y \in S : ~(<<y, x>> \in R)
  BY <1>1, WFMin
<1>4. \A y \in S : ~(y < x)
  BY <1>2, <1>3
<1> QED BY <1>3, <1>4

\* The order in which three sequences are joined does not matter.
LEMMA JoinedJoined ==
  ASSUME NEW s, AnySeq(s), NEW t, AnySeq(t), NEW u, AnySeq(u)
  PROVE  (s \o t) \o u = s \o (t \o u)
<1>1. PICK S, T, U : s \in Seq(S) /\ t \in Seq(T) /\ u \in Seq(U)
  BY DEF AnySeq
<1> DEFINE V == S \cup T \cup U
<1>2. s \in Seq(V) /\ t \in Seq(V) /\ u \in Seq(V)
  BY <1>1
<1> HIDE DEF V
<1> QED BY <1>2, ConcatAssociative

\* The sequences s[1], ..., s[n], joined one after the other.
Joins(f, s, n) ==
  /\ DOMAIN f = 1..n /\ \A i \in 1..n : f[i] = IF i = 1 THEN s[i] ELSE f[i - 1] \o s[i]

\* They can be joined, however many they are: FlattenSeq is defined by a function
\* that must exist for this.
LEMMA JoinsExist ==
  ASSUME NEW s, NEW n \in Nat
  PROVE  \E f : f = [i \in 1..n |-> IF i = 1 THEN s[i] ELSE f[i - 1] \o s[i]]
<1> DEFINE F(m) == \E f : f = [i \in 1..m |-> IF i = 1 THEN s[i] ELSE f[i - 1] \o s[i]]
           Bad == {m \in Nat : ~F(m)}
<1>1. F(0)
  <2> DEFINE f == [i \in 1..0 |-> s[i]]
  <2>1. f = [i \in 1..0 |-> IF i = 1 THEN s[i] ELSE f[i - 1] \o s[i]]
    OBVIOUS
  <2> QED BY <2>1
<1>2. ASSUME NEW m \in Nat, F(m) PROVE F(m + 1)
  <2>1. PICK f : f = [i \in 1..m |-> IF i = 1 THEN s[i] ELSE f[i - 1] \o s[i]]
    BY <1>2
  <2> DEFINE g == [i \in 1..m + 1 |-> IF i <= m THEN f[i]
                                      ELSE IF i = 1 THEN s[i] ELSE f[i - 1] \o s[i]]
  <2>2. \A i \in 1..m + 1 : g[i] = IF i = 1 THEN s[i] ELSE g[i - 1] \o s[i]
    <3> SUFFICES ASSUME NEW i \in 1..m + 1 PROVE g[i] = IF i = 1 THEN s[i] ELSE g[i - 1] \o s[i]
      OBVIOUS
    <3>1. i # 1 => i - 1 \in 1..m + 1 /\ i - 1 <= m
      OBVIOUS
    <3>2. i # 1 => g[i - 1] = f[i - 1]
      BY <3>1
    <3>3. CASE i <= m
      <4>1. i \in 1..m
        BY <3>3
      <4>2. f[i] = IF i = 1 THEN s[i] ELSE f[i - 1] \o s[i]
        BY <2>1, <4>1
      <4> QED BY <3>2, <3>3, <4>2
    <3>4. CASE ~(i <= m)
      BY <3>2, <3>4
    <3> QED BY <3>3, <3>4
  <2>3. g = [i \in 1..m + 1 |-> g[i]]
    OBVIOUS
  <2> HIDE DEF g
  <2>4. g = [i \in 1..m + 1 |-> IF i = 1 THEN s[i] ELSE g[i - 1] \o s[i]]
    BY <2>2, <2>3
  <2> QED BY <2>4
<1>3. Bad = {}
  <2> SUFFICES ASSUME Bad # {} PROVE FALSE
    OBVIOUS
  <2>1. PICK m \in Bad : \A k \in Bad : m <= k
    BY Least
  <2>2. m \in Nat /\ ~F(m)
    OBVIOUS
  <2> HIDE DEF F
  <2>3. m # 0
    BY <1>1, <2>2
  <2>4. m - 1 \in Nat /\ m - 1 + 1 = m
    BY <2>2, <2>3
  <2>5. F(m - 1)
    BY <2>1, <2>4
  <2>6. F(m - 1 + 1)
    BY <1>2, <2>4, <2>5
  <2> QED BY <2>2, <2>4, <2>6
<1> QED BY <1>3

\* Flattening joins them all.
LEMMA FlattenIs ==
  ASSUME NEW s, NEW n \in Nat, n > 0, Len(s) = n
  PROVE  \E f : Joins(f, s, n) /\ FlattenSeq(s) = f[n]
<1> DEFINE f == CHOOSE g : g = [i \in 1..Len(s) |-> IF i = 1 THEN s[i] ELSE g[i - 1] \o s[i]]
<1>1. FlattenSeq(s) = f[n]
  BY DEF FlattenSeq
<1>2. \E g : g = [i \in 1..Len(s) |-> IF i = 1 THEN s[i] ELSE g[i - 1] \o s[i]]
  BY JoinsExist
<1>3. f = [i \in 1..Len(s) |-> IF i = 1 THEN s[i] ELSE f[i - 1] \o s[i]]
  BY <1>2
<1> HIDE DEF f
<1>4. Joins(f, s, n)
  BY <1>3 DEF Joins
<1> QED BY <1>1, <1>4

\* What is joined of sequences is a sequence.
LEMMA JoinsSeq ==
  ASSUME NEW f, NEW s, NEW n \in Nat, Joins(f, s, n), \A i \in 1..n : AnySeq(s[i])
  PROVE  \A i \in 1..n : AnySeq(f[i])
<1> DEFINE Bad == {i \in 1..n : ~AnySeq(f[i])}
<1> SUFFICES ASSUME Bad # {} PROVE FALSE
  OBVIOUS
<1>1. PICK m \in Bad : \A k \in Bad : m <= k
  <2>1. Bad \subseteq Nat
    OBVIOUS
  <2> QED BY <2>1, Least
<1>2. m \in 1..n /\ ~AnySeq(f[m])
  OBVIOUS
<1>3. f[m] = IF m = 1 THEN s[m] ELSE f[m - 1] \o s[m]
  BY <1>2 DEF Joins
<1>4. CASE m = 1
  BY <1>2, <1>3, <1>4
<1>5. CASE m # 1
  <2>1. m - 1 \in 1..n /\ m - 1 \notin Bad
    BY <1>1, <1>2, <1>5
  <2>2. AnySeq(f[m - 1]) /\ AnySeq(s[m])
    BY <1>2, <2>1
  <2> QED BY <1>2, <1>3, <1>5, <2>2, Joined
<1> QED BY <1>4, <1>5

\* A sequence of n sequences.
Parts(s, n) == s = [i \in 1..n |-> s[i]] /\ \A i \in 1..n : AnySeq(s[i])

\* Flattening sequences of words gives a sequence of words.
LEMMA FlattenText ==
  ASSUME NEW n \in Nat, NEW s, Parts(s, n)
  PROVE  AnySeq(FlattenSeq(s))
<1>1. Len(s) = n /\ \A i \in 1..n : AnySeq(s[i])
  BY DEF Parts
<1>2. CASE n = 0
  <2>1. s = <<>>
    BY <1>2 DEF Parts
  <2>2. FlattenSeq(s) = s
    BY <1>1, <1>2 DEF FlattenSeq
  <2> QED BY <2>1, <2>2, Short
<1>3. CASE n # 0
  <2>1. PICK f : Joins(f, s, n) /\ FlattenSeq(s) = f[n]
    BY <1>1, <1>3, FlattenIs
  <2>2. AnySeq(f[n])
    BY <1>1, <1>3, <2>1, JoinsSeq
  <2> QED BY <2>1, <2>2
<1> QED BY <1>2, <1>3

\* Two and two of one sequence are one each of the other: both flatten to the
\* same.
Pairs(s, t, n) == \A i \in 1..n : t[i] = s[2 * i - 1] \o s[2 * i]

\* Flattening lines of their words is flattening the lines: what FileInsertInfoLine
\* writes is the same word by word and line by line.
LEMMA FlattenPairs ==
  ASSUME NEW n \in Nat, NEW m \in Nat, m = 2 * n, NEW s, Parts(s, m), NEW t, Parts(t, n),
         Pairs(s, t, n)
  PROVE  FlattenSeq(s) = FlattenSeq(t)
<1>1. Len(s) = m /\ Len(t) = n /\ \A i \in 1..m : AnySeq(s[i])
  BY DEF Parts
<1>2. CASE n = 0
  <2>1. s = <<>> /\ t = <<>>
    BY <1>2 DEF Parts
  <2> QED BY <2>1
<1>3. CASE n # 0
  <2>0. m > 0 /\ n > 0
    BY <1>3
  <2>1. PICK f : Joins(f, s, m) /\ FlattenSeq(s) = f[m]
    BY <1>1, <2>0, FlattenIs
  <2>2. PICK g : Joins(g, t, n) /\ FlattenSeq(t) = g[n]
    BY <1>1, <2>0, FlattenIs
  <2>3. \A i \in 1..m : AnySeq(f[i])
    BY <1>1, <2>1, JoinsSeq
  <2> DEFINE Bad == {i \in 1..n : g[i] # f[2 * i]}
  <2>4. Bad = {}
    <3> SUFFICES ASSUME Bad # {} PROVE FALSE
      OBVIOUS
    <3>1. PICK k \in Bad : \A h \in Bad : k <= h
      <4>1. Bad \subseteq Nat
        OBVIOUS
      <4> QED BY <4>1, Least
    <3> DEFINE e == 2 * k
               o == 2 * k - 1
    <3>2. /\ k \in 1..n /\ g[k] # f[e] /\ e \in 1..m /\ o \in 1..m /\ e # 1 /\ e - 1 = o
          /\ (o = 1 <=> k = 1)
      OBVIOUS
    <3>3. t[k] = s[o] \o s[e] /\ AnySeq(s[o]) /\ AnySeq(s[e])
      BY <1>1, <3>2 DEF Pairs
    <3>4. k # 1 => /\ k - 1 \in 1..n /\ o - 1 = 2 * (k - 1) /\ o - 1 \in 1..m
                   /\ g[k - 1] = f[o - 1]
      <4>1. k # 1 => k - 1 \in 1..n /\ k - 1 \notin Bad
        BY <3>1, <3>2
      <4>2. k # 1 => o - 1 = 2 * (k - 1) /\ o - 1 \in 1..m
        BY <3>2
      <4> QED BY <4>1, <4>2
    <3> HIDE DEF e, o, Bad
    <3>5. f[e] = f[o] \o s[e] /\ f[o] = IF o = 1 THEN s[o] ELSE f[o - 1] \o s[o]
      BY <2>1, <3>2 DEF Joins
    <3>6. g[k] = IF k = 1 THEN t[k] ELSE g[k - 1] \o t[k]
      BY <2>2, <3>2 DEF Joins
    <3>7. CASE k = 1
      BY <3>2, <3>3, <3>5, <3>6, <3>7
    <3>8. CASE k # 1
      <4> DEFINE u == f[o - 1]
                 v == s[o]
                 w == s[e]
      <4>1. AnySeq(u) /\ AnySeq(v) /\ AnySeq(w)
        BY <2>3, <3>3, <3>4, <3>8
      <4>2. f[e] = (u \o v) \o w /\ g[k] = u \o (v \o w)
        BY <3>2, <3>3, <3>4, <3>5, <3>6, <3>8
      <4> HIDE DEF u, v, w
      <4>3. (u \o v) \o w = u \o (v \o w)
        BY <4>1, JoinedJoined
      <4> QED BY <3>2, <4>2, <4>3
    <3> QED BY <3>7, <3>8
  <2>5. g[n] = f[m]
    BY <2>0, <2>4
  <2> QED BY <2>1, <2>2, <2>5
<1> QED BY <1>2, <1>3

\* The largest of some numbers, of which 0 is one and none is above n.
LEMMA LargestIs ==
  ASSUME NEW n \in Nat, NEW S, S \subseteq 0..n, 0 \in S
  PROVE  Max(S) \in S /\ \A i \in S : i <= Max(S)
<1> DEFINE U == {u \in Nat : \A i \in S : i <= u}
<1>1. n \in U
  OBVIOUS
<1>2. PICK u \in U : \A v \in U : u <= v
  BY <1>1, Least
<1>3. u \in S
  <2> SUFFICES ASSUME u \notin S PROVE FALSE
    OBVIOUS
  <2>1. u # 0 /\ u - 1 \in Nat
    OBVIOUS
  <2>2. \A i \in S : i <= u - 1
    OBVIOUS
  <2> QED BY <1>2, <2>1, <2>2
<1>4. \E x \in S : \A y \in S : x >= y
  BY <1>3
<1>5. Max(S) \in S /\ \A y \in S : Max(S) >= y
  BY <1>4 DEF Max
<1> QED BY <1>5

\* Twice i is in the i-th place of the even numbers.
LEMMA EvenPlace ==
  ASSUME NEW n \in Nat, NEW S, S = {i \in 1..2 * n : i % 2 = 0}, NEW h \in 1..n
  PROVE  Cardinality({k \in S : k < 2 * h}) = h - 1
<1> DEFINE B == {k \in S : k < 2 * h}
           f == [k \in 1..h - 1 |-> 2 * k]
<1>1. \A k \in 1..h - 1 : 2 * k \in B
  OBVIOUS
<1>2. \A k \in B : \E i \in 1..h - 1 : k = 2 * i
  <2> SUFFICES ASSUME NEW k \in B PROVE \E i \in 1..h - 1 : k = 2 * i
    OBVIOUS
  <2>1. k \in 1..2 * n /\ k % 2 = 0 /\ k < 2 * h
    OBVIOUS
  <2>2. k = 2 * (k \div 2) /\ k \div 2 \in 1..h - 1
    BY <2>1
  <2> QED BY <2>2
<1> HIDE DEF B
<1>3. f \in [1..h - 1 -> B]
  BY <1>1
<1>4. \A a, b \in 1..h - 1 : f[a] = f[b] => a = b
  OBVIOUS
<1>5. \A k \in B : \E i \in 1..h - 1 : f[i] = k
  BY <1>2
<1>6. f \in Bijection(1..h - 1, B)
  BY <1>3, <1>4, <1>5 DEF Bijection, Injection, Surjection, IsInjective
<1>7. ExistsBijection(1..h - 1, B)
  BY <1>6 DEF ExistsBijection
<1>8. h - 1 \in Nat
  OBVIOUS
<1>9. Cardinality(B) = h - 1
  BY <1>7, <1>8, FS_CountingElements
<1> QED BY <1>9 DEF B

\* Flattening depends on the elements alone.
LEMMA SameSeq ==
  ASSUME NEW s, AnySeq(s), NEW t, AnySeq(t), Len(s) = Len(t), \A i \in 1..Len(s) : s[i] = t[i]
  PROVE  s = t
<1>1. PICK S : s \in Seq(S)
  BY DEF AnySeq
<1>2. PICK T : t \in Seq(T)
  BY DEF AnySeq
<1> DEFINE V == S \cup T
<1>3. s \in Seq(V) /\ t \in Seq(V)
  BY <1>1, <1>2
<1> HIDE DEF V
<1> QED BY <1>3, SeqEqual

\* The words that an insertion writes for a line of the file.
LEMMA Words ==
  /\ \A a, b : <<a>> \o <<b>> = <<a, b>>
  /\ \A a, b, d, e : <<a>> \o <<b, d, e>> = <<a, b, d, e>>
  /\ \A a, b, d, e : AnySeq(<<a, b, d, e>>)
<1>1. ASSUME NEW a, NEW b PROVE <<a>> \o <<b>> = <<a, b>>
  <2> DEFINE s == <<a>>
             t == <<b>>
             u == <<a, b>>
  <2>1. /\ AnySeq(s) /\ AnySeq(t) /\ AnySeq(u) /\ Len(s) = 1 /\ Len(t) = 1 /\ Len(u) = 2
        /\ s[1] = a /\ t[1] = b /\ u[1] = a /\ u[2] = b
    BY Short
  <2> HIDE DEF s, t, u
  <2>2. /\ AnySeq(s \o t) /\ Len(s \o t) = 2
        /\ \A i \in 1..2 : (s \o t)[i] = IF i <= 1 THEN s[i] ELSE t[i - 1]
    <3>1. /\ AnySeq(s \o t) /\ Len(s \o t) = Len(s) + Len(t)
          /\ \A i \in 1..Len(s) + Len(t) : (s \o t)[i] = IF i <= Len(s) THEN s[i] ELSE t[i - Len(s)]
      BY <2>1, Joined
    <3>2. Len(s) + Len(t) = 2
      BY <2>1
    <3> QED BY <2>1, <3>1, <3>2
  <2>3. \A i \in 1..2 : (s \o t)[i] = u[i]
    BY <2>1, <2>2
  <2>4. s \o t = u
    BY <2>1, <2>2, <2>3, SameSeq
  <2> QED BY <2>4 DEF s, t, u
<1>2. ASSUME NEW a, NEW b, NEW d, NEW e
      PROVE  <<a>> \o <<b, d, e>> = <<a, b, d, e>> /\ AnySeq(<<a, b, d, e>>)
  <2> DEFINE s == <<a>>
             t == <<b, d, e>>
             u == <<a, b, d, e>>
  <2>1. /\ AnySeq(s) /\ AnySeq(t) /\ Len(s) = 1 /\ Len(t) = 3
        /\ s[1] = a /\ t[1] = b /\ t[2] = d /\ t[3] = e
    BY Short
  <2>2. /\ u \in Seq({a, b, d, e}) /\ Len(u) = 4
        /\ u[1] = a /\ u[2] = b /\ u[3] = d /\ u[4] = e
    OBVIOUS
  <2>3. AnySeq(u)
    BY <2>2 DEF AnySeq
  <2> HIDE DEF s, t, u
  <2>4. /\ AnySeq(s \o t) /\ Len(s \o t) = 4
        /\ \A i \in 1..4 : (s \o t)[i] = IF i <= 1 THEN s[i] ELSE t[i - 1]
    <3>1. /\ AnySeq(s \o t) /\ Len(s \o t) = Len(s) + Len(t)
          /\ \A i \in 1..Len(s) + Len(t) : (s \o t)[i] = IF i <= Len(s) THEN s[i] ELSE t[i - Len(s)]
      BY <2>1, Joined
    <3>2. Len(s) + Len(t) = 4
      BY <2>1
    <3> QED BY <2>1, <3>1, <3>2
  <2>5. \A i \in 1..4 : (s \o t)[i] = u[i]
    <3>1. (s \o t)[1] = u[1] /\ (s \o t)[2] = u[2] /\ (s \o t)[3] = u[3] /\ (s \o t)[4] = u[4]
      BY <2>1, <2>2, <2>4
    <3>2. \A i \in 1..4 : i = 1 \/ i = 2 \/ i = 3 \/ i = 4
      OBVIOUS
    <3> HIDE DEF u
    <3> QED BY <3>1, <3>2
  <2>6. s \o t = u
    BY <2>2, <2>3, <2>4, <2>5, SameSeq
  <2> QED BY <2>3, <2>6 DEF s, t, u
<1> QED BY <1>1, <1>2

\* What an insertion writes is a text.
LEMMA RewrittenText ==
  ASSUME NEW text, IsText(text), NEW j
  PROVE  AnySeq(Rewritten(text, j))
<1> DEFINE ends == {i \in 1..Len(text) : text[i] = NL}
           Matches(i) ==
             IF j.op = "FileInsertInfoLine" THEN Cardinality({k \in ends : k < i}) = j.from[1]
             ELSE i > 1 /\ text[i - 1] = j.from[1] /\ i - 2 \in ends \cup {0}
           m == Max(ends \cup {0})
           s == [i \in 1..m |-> IF i \in ends /\ Matches(i) THEN <<NL, j.from[2], NL>> ELSE <<text[i]>>]
<1>1. Rewritten(text, j) = FlattenSeq(s)
  BY DEF Rewritten
<1>2. Len(text) \in Nat
  BY DEF IsText
<1>3. ends \cup {0} \subseteq 0..Len(text) /\ 0 \in ends \cup {0}
  BY <1>2
<1>4. m \in Nat
  BY <1>2, <1>3, LargestIs
<1> HIDE DEF m, ends, Matches
<1>5. \A i \in 1..m : AnySeq(s[i])
  BY Short
<1>6. Parts(s, m)
  BY <1>5 DEF Parts
<1> QED BY <1>1, <1>4, <1>6, FlattenText

\* With lines of one word, the last one complete, it is the file with the new
\* line in its places.
THEOREM RewrittenLines ==
  ASSUME NEW text, IsText(text), IsLines(text), Last(text) = NL, NEW j
  PROVE  Rewritten(text, j) = Inserted(text, j)
<1> DEFINE ends == {i \in 1..Len(text) : text[i] = NL}
           Matches(i) ==
             IF j.op = "FileInsertInfoLine" THEN Cardinality({k \in ends : k < i}) = j.from[1]
             ELSE i > 1 /\ text[i - 1] = j.from[1] /\ i - 2 \in ends \cup {0}
           m == Max(ends \cup {0})
           s == [i \in 1..m |-> IF i \in ends /\ Matches(i) THEN <<NL, j.from[2], NL>> ELSE <<text[i]>>]
           n == Len(text) \div 2
           Here(h) == j.from[1] = (IF j.op = "FileInsertInfoLine" THEN h - 1 ELSE text[2 * h - 1])
           t == [h \in 1..n |-> IF Here(h) THEN <<text[2 * h - 1], NL, j.from[2], NL>>
                                ELSE <<text[2 * h - 1], NL>>]
<1>1. Rewritten(text, j) = FlattenSeq(s) /\ Inserted(text, j) = FlattenSeq(t)
  BY DEF Rewritten, Inserted
<1>2. /\ Len(text) \in Nat /\ n \in Nat /\ Len(text) = 2 * n
      /\ \A i \in 1..Len(text) : text[i] = NL <=> i % 2 = 0
  <2>1. Len(text) \in Nat
    BY DEF IsText
  <2>2. \A i \in 1..Len(text) : text[i] = NL <=> i % 2 = 0
    BY DEF IsLines
  <2>3. Len(text) > 0 => text[Len(text)] = NL
    BY DEF Last
  <2>4. Len(text) % 2 = 0
    BY <2>1, <2>2, <2>3
  <2> QED BY <2>1, <2>2, <2>4
<1>3. ends = {i \in 1..2 * n : i % 2 = 0}
  BY <1>2
<1> HIDE DEF n
<1>4. m = 2 * n
  <2>1. ends \cup {0} \subseteq 0..2 * n /\ 0 \in ends \cup {0} /\ 2 * n \in Nat
    BY <1>2, <1>3
  <2>2. m \in ends \cup {0} /\ \A i \in ends \cup {0} : i <= m
    BY <2>1, LargestIs
  <2>3. 2 * n \in ends \cup {0}
    BY <1>2, <1>3
  <2> HIDE DEF m
  <2> QED BY <2>1, <2>2, <2>3
<1>5. \A h \in 1..n : /\ 2 * h \in 1..m /\ 2 * h - 1 \in 1..m /\ 2 * h \in ends /\ 2 * h - 1 \notin ends
                      /\ text[2 * h] = NL /\ 2 * h - 1 \in 1..Len(text)
  BY <1>2, <1>3, <1>4
<1>6. \A h \in 1..n : Matches(2 * h) <=> Here(h)
  <2> SUFFICES ASSUME NEW h \in 1..n PROVE Matches(2 * h) <=> Here(h)
    OBVIOUS
  <2>1. Cardinality({k \in ends : k < 2 * h}) = h - 1
    BY <1>2, <1>3, EvenPlace
  <2>2. 2 * h > 1 /\ 2 * h - 2 \in ends \cup {0}
    BY <1>2, <1>3
  <2> HIDE DEF ends
  <2> QED BY <2>1, <2>2
<1> HIDE DEF m, Matches, Here
<1>7. /\ \A i \in 1..m : AnySeq(s[i])
      /\ \A h \in 1..n : AnySeq(t[h])
  BY Short, Words
<1>8. \A h \in 1..n : t[h] = s[2 * h - 1] \o s[2 * h]
  <2> SUFFICES ASSUME NEW h \in 1..n PROVE t[h] = s[2 * h - 1] \o s[2 * h]
    OBVIOUS
  <2> DEFINE a == text[2 * h - 1]
  <2>1. s[2 * h - 1] = <<a>>
    BY <1>5
  <2>2. CASE Here(h)
    <3>1. s[2 * h] = <<NL, j.from[2], NL>> /\ t[h] = <<a, NL, j.from[2], NL>>
      BY <1>5, <1>6, <2>2
    <3>2. <<a>> \o <<NL, j.from[2], NL>> = <<a, NL, j.from[2], NL>>
      BY Words
    <3> QED BY <2>1, <3>1, <3>2
  <2>3. CASE ~Here(h)
    <3>1. s[2 * h] = <<NL>> /\ t[h] = <<a, NL>>
      BY <1>5, <1>6, <2>3
    <3>2. <<a>> \o <<NL>> = <<a, NL>>
      BY Words
    <3> QED BY <2>1, <3>1, <3>2
  <2> QED BY <2>2, <2>3
<1>9. s = [i \in 1..m |-> s[i]] /\ t = [h \in 1..n |-> t[h]]
  OBVIOUS
<1> HIDE DEF s, t
<1>10. Parts(s, m) /\ Parts(t, n)
  BY <1>7, <1>9 DEF Parts
<1>11. FlattenSeq(s) = FlattenSeq(t)
  <2>1. m \in Nat
    BY <1>2, <1>4
  <2>2. Pairs(s, t, n)
    BY <1>8 DEF Pairs
  <2> QED BY <1>2, <1>4, <1>10, <2>1, <2>2, FlattenPairs
<1> QED BY <1>1, <1>11

\* The files that are edited are as they were at the start,
LEMMA CommitInit ==
  ASSUME EditsInit, FilesInv
  PROVE  CommitInv
<1> SUFFICES ASSUME NEW c \in Calls, Own1(c)
             PROVE  TempNodes /\ FileNode(c) /\ TempNode(c) /\ Phase(c)
  BY DEF CommitInv
<1> DEFINE f == job[c].to
           T == TempFile
<1>1. /\ \A q \in DOMAIN tree : \/ tree[q] = Dir
                                \/ /\ tree[q] = q /\ q \in Files(InitTree)
                                   /\ q \in DOMAIN InitText /\ q \notin Calls \X Paths
      /\ \A k \in Calls : /\ Len(todo[k]) = 1 /\ todo[k][1] = FirstStep(job[k])
                          /\ out[k] = "run" /\ todo[k][1].do \notin Handles
      /\ \A k \in Calls : \A i \in 1..Len(todo[k]) : i = 1
  BY AtStart
<1>2. \A n : Unheld(todo, n)
  BY <1>1 DEF Unheld, Apart
<1>3. /\ f \in Paths /\ T \in Paths /\ f # T /\ f \in Files(InitTree) /\ f \notin Calls \X Paths
      /\ Dir \notin Own(T)
  BY EditFacts
<1>4. \A k \in Calls : ~Runs(k, {"read", "flush"})
  BY <1>1 DEF Runs, Handles
<1>5. Insertion(job[c]) /\ todo[c][1].do = "edit"
  <2>1. Insertion(job[c])
    BY DEF Own1
  <2>2. FirstStep(job[c]).do = "edit"
    BY <2>1 DEF FirstStep, Step
  <2> QED BY <1>1, <2>1, <2>2
<1>6. TempNodes
  <2>1. ASSUME HasFile(tree, T)
        PROVE  tree[T] \in Own(T) /\ Only(tree, tree[T], T) /\ Unheld(todo, tree[T])
    <3>1. tree[T] = T /\ T \in Files(InitTree) /\ T # Dir
      BY <1>1, <2>1 DEF HasFile
    <3>2. Only(tree, T, T)
      BY <1>1, <3>1 DEF Only
    <3> QED BY <1>2, <3>1, <3>2 DEF Own
  <2>2. ASSUME NEW k \in Calls PROVE \A r \in DOMAIN tree : tree[r] # <<k, T>>
    <3>1. <<k, T>> \in Calls \X Paths /\ <<k, T>> # Dir
      BY <1>3 DEF Own
    <3> QED BY <1>1, <3>1
  <2> QED BY <1>2, <2>1, <2>2 DEF TempNodes
<1>7. tree = InitTree /\ data = InitText /\ tree[f] = f /\ f # Dir /\ f \in DOMAIN tree
  <2>1. tree = InitTree /\ data = InitText
    BY DEF EditsInit
  <2>2. f \in DOMAIN tree /\ tree[f] # Dir
    BY <1>3, <2>1 DEF Files
  <2> QED BY <1>1, <2>1, <2>2
<1>8. FileNode(c)
  <2>1. HasFile(tree, f) /\ tree[f] \in {f} \cup Own(T)
    BY <1>7 DEF HasFile
  <2>2. Only(tree, tree[f], f)
    BY <1>1, <1>7 DEF Only
  <2> QED BY <1>2, <1>4, <2>1, <2>2 DEF FileNode
<1>9. TempNode(c)
  BY <1>5 DEF TempNode, Runs, Using
<1>10. Phase(c)
  <2>1. out[c] = "run"
    BY <1>1
  <2> QED BY <1>5, <1>7, <2>1 DEF Phase, Runs
<1> QED BY <1>6, <1>8, <1>9, <1>10

\* and in the state that the steps of the insertion say, whatever call takes a
\* step,
LEMMA CommitNext ==
  ASSUME FilesInv, AllSeqs, ShapeInv, CommitInv, [EditsNext]_editVars
  PROVE  CommitInv'
<1>1. CASE UNCHANGED editVars
  <2>1. UNCHANGED <<tree, data, job, todo, out, spoilt, unflushed>>
    BY <1>1 DEF editVars, treeVars, history
  <2>2. \A c : Own1(c)' <=> Own1(c)
    BY <2>1 DEF Own1, Alone
  <2>3. TempNodes' <=> TempNodes
    BY Zenon, <2>1 DEF TempNodes, Early, Runs, Unheld
  <2>4. ASSUME NEW c PROVE FileNode(c)' <=> FileNode(c)
    BY Zenon, <2>1 DEF FileNode, Runs, Unheld
  <2>5. Using' = Using
    BY <2>1 DEF Using
  <2>6. ASSUME NEW c PROVE TempNode(c)' <=> TempNode(c)
    BY Zenon, <2>1, <2>5 DEF TempNode, Runs, Unheld, Reached
  <2>7. ASSUME NEW c PROVE Phase(c)' <=> Phase(c)
    BY Zenon, <2>1 DEF Phase, Runs, Reached
  <2> QED BY <2>1, <2>2, <2>3, <2>4, <2>6, <2>7 DEF CommitInv
<1>2. CASE EditsNext
  <2>1. PICK k \in Calls : Acts(k)
    BY <1>2, NextActs
  <2>2. job' = job
    BY <2>1, ActChanges
  <2>3. spoilt \subseteq spoilt' /\ unflushed \subseteq unflushed'
    BY <2>1 DEF Acts, EditOpen, EditTemp, EditRead, EditFlush, EditCleanup, WriteLook, WriteMake,
         WriteOpen, WriteEnd, history
  <2> SUFFICES ASSUME NEW c \in Calls, Own1(c)'
               PROVE  (TempNodes /\ FileNode(c) /\ TempNode(c) /\ Phase(c))'
    BY DEF CommitInv
  <2>4. Own1(c) /\ c \notin spoilt'
    BY <2>2, <2>3 DEF Own1, Alone
  <2>5. TempNodes /\ FileNode(c) /\ TempNode(c) /\ Phase(c)
    BY <2>4 DEF CommitInv
  <2>6. CASE ~Insertion(job[k])
    BY <2>1, <2>3, <2>4, <2>5, <2>6, OtherStep
  <2>7. CASE Insertion(job[k])
    <3>1. Shape(k) /\ InsStep(k)
      BY <2>1, <2>7, InsertionStep DEF ShapeInv
    <3>2. Dir \notin Own(TempFile) /\ ~Meets({job[k].to}, {Temp}) /\ job[c].to \in Files(InitTree)
      BY <2>4, <2>7, EditFacts
    <3>3. TempNodes'
      BY <2>1, <2>5, <2>7, <3>1, <3>2, InsertTempNodes
    <3>4. CASE k = c
      <4>1. IsText(InitText[job[c].to])
        BY <3>2, TreesAssumption, EditsAssumption
      <4>2. AnySeq(Rewritten(InitText[job[c].to], job[c]))
        BY <4>1, RewrittenText
      <4> QED BY <2>1, <2>3, <2>4, <2>5, <3>1, <3>3, <3>4, <4>2, InsertSelf
    <3>5. CASE k # c
      BY <2>1, <2>3, <2>4, <2>5, <2>7, <3>1, <3>3, <3>5, InsertOther
    <3> QED BY <3>4, <3>5
  <2> QED BY <2>6, <2>7
<1> QED BY <1>1, <1>2

\* and at the end as they should be.
LEMMA CommitKept ==
  ASSUME FilesInv, CommitInv
  PROVE  EditsCommit
<1> SUFFICES ASSUME NEW c \in Calls, out[c] # "run", Own1(c), Last(InitText[job[c].to]) = NL
             PROVE  /\ HasFile(tree, job[c].to)
                    /\ data[tree[job[c].to]] \in
                         IF out[c] = "nil" THEN Reached(c, Inserted(InitText[job[c].to], job[c]))
                         ELSE {InitText[job[c].to]}
  BY DEF EditsCommit, Own1
<1> DEFINE f == job[c].to
<1>1. FileNode(c) /\ Phase(c)
  BY DEF CommitInv
<1>2. HasFile(tree, f)
  BY <1>1 DEF FileNode
<1>3. out[c] \in {"nil", "error"}
  BY DEF FilesInv
<1>4. Insertion(job[c]) /\ job[c] \in Jobs /\ f \in Files(InitTree)
  BY DEF Own1, FilesInv
<1>5. IsText(InitText[f]) /\ IsLines(InitText[f])
  BY <1>4, TreesAssumption, EditsAssumption
<1>6. Rewritten(InitText[f], job[c]) = Inserted(InitText[f], job[c])
  BY <1>5, RewrittenLines
<1>7. CASE out[c] = "nil"
  BY <1>1, <1>2, <1>6, <1>7 DEF Phase
<1>8. CASE out[c] = "error"
  BY <1>1, <1>2, <1>8 DEF Phase
<1> QED BY <1>3, <1>7, <1>8

\* Of an insertion that shares its temporary file with no other one, for any
\* number of calls, any files and complete lines: with an error the file is as it
\* was, and without one the new line is behind every line it belongs to, unless
\* the last Flush failed, of which the code does not look at the error
\* (toolx/file.go:50, 103): then the file is cut off (FileInsertInfoSeek,
\* FileInsertInfoLine).
THEOREM InsertionsCommit == EditsSpec => []EditsCommit
<1> DEFINE Inv == FilesInv /\ AllSeqs /\ ShapeInv /\ CommitInv
<1>1. EditsInit => Inv
  BY FilesInvInit, ShapeInit, CommitInit
<1>2. Inv /\ [EditsNext]_editVars => Inv'
  BY FilesInvNext, ShapeNext, CommitNext
<1>3. Inv => EditsCommit
  BY CommitKept
<1> QED BY <1>1, <1>2, <1>3, PTL DEF EditsSpec

-----------------------------------------------------------------------------
(* The paths of renamed files *)

\* To be below an entry of a directory is to have its name at that place.
LEMMA EntryAbove ==
  ASSUME NEW b \in Paths, NEW x \in Names, NEW p \in Paths
  PROVE  IsPrefix(Append(b, x), p) <=> (IsPrefix(b, p) /\ Len(p) > Len(b) /\ p[Len(b) + 1] = x)
<1> DEFINE r == Append(b, x)
<1>1. Len(b) \in Nat /\ Len(p) \in Nat
  BY PathLen
<1>2. /\ r \in Paths /\ Len(r) = Len(b) + 1
      /\ \A i \in 1..Len(b) : r[i] = b[i]
      /\ r[Len(b) + 1] = x
  BY EntryPath, AppendProperties DEF Paths
<1> HIDE DEF r
<1>3. IsPrefix(r, p) <=> (Len(r) <= Len(p) /\ \A i \in 1..Len(r) : r[i] = p[i])
  BY <1>2, PrefixIs
<1>4. IsPrefix(b, p) <=> (Len(b) <= Len(p) /\ \A i \in 1..Len(b) : b[i] = p[i])
  BY PrefixIs
<1> QED BY <1>1, <1>2, <1>3, <1>4 DEF r

\* What is below a directory is below one of its entries.
LEMMA ChildIs ==
  ASSUME NEW b \in Paths, NEW p \in Paths, IsPrefix(b, p), b # p
  PROVE  /\ Len(b) \in Nat /\ Len(p) > Len(b) /\ p[Len(b) + 1] \in Names
         /\ Append(b, p[Len(b) + 1]) \in Paths /\ IsPrefix(Append(b, p[Len(b) + 1]), p)
         /\ Len(Append(b, p[Len(b) + 1])) = Len(b) + 1
         /\ p # <<>> /\ Last(p) = p[Len(p)] /\ Last(p) \in Names
<1>1. Len(b) \in Nat /\ Len(p) \in Nat /\ Len(p) > Len(b)
  BY PathLen, PrefixCut
<1>2. p[Len(b) + 1] \in Names
  BY <1>1, PathLen
<1>3. p # <<>>
  BY <1>1, NotRoot
<1> QED BY <1>1, <1>2, <1>3, EntryPath, EntryAbove, FrontPath DEF Last

\* Only the name of the directory right below the first one is another one.
LEMMA MovedIs ==
  ASSUME NEW j, j.from \in Paths, NEW p \in Paths, IsPrefix(j.from, p), j.from # p
  PROVE  LET m == Moved(j, p)
             l == Len(j.from) + 1
         IN
         /\ m \in Paths /\ Len(m) = Len(p) /\ IsPrefix(j.from, m) /\ j.from # m
         /\ m[Len(p)] = p[Len(p)] /\ Last(m) = Last(p)
         /\ \A i \in 1..Len(p) : i # l => m[i] = p[i]
         /\ m[l] = IF j.op = "RenameFilesAndDir" /\ Len(p) > l /\ p[l] \in DOMAIN NewName
                   THEN NewName[p[l]] ELSE p[l]
         /\ j.op # "RenameFilesAndDir" \/ Len(p) = l => m = p
<1> DEFINE m == Moved(j, p)
           l == Len(j.from) + 1
<1>1. /\ Len(j.from) \in Nat /\ Len(p) \in Nat /\ Len(p) > Len(j.from)
      /\ \A i \in 1..Len(p) : p[i] \in Names
  BY PathLen, ChildIs
<1>2. NewName \in [DOMAIN NewName -> Names]
  BY TreesAssumption
<1>3. l \in 1..Len(p) /\ Len(p) \in 1..Len(p) /\ (l # Len(p) <=> Len(p) > l)
  BY <1>1
<1>4. /\ DOMAIN m = 1..Len(p)
      /\ \A i \in 1..Len(p) :
           m[i] = IF /\ j.op = "RenameFilesAndDir" /\ i = l /\ i # Len(p) /\ p[i] \in DOMAIN NewName
                  THEN NewName[p[i]] ELSE p[i]
      /\ m = [i \in 1..Len(p) |-> m[i]]
  BY DEF Moved
<1> HIDE DEF m, l
<1>5. \A i \in 1..Len(p) : m[i] \in Names
  BY <1>1, <1>2, <1>4
<1>6. m \in Paths /\ Len(m) = Len(p)
  <2>1. m \in [1..Len(p) -> Names]
    BY <1>4, <1>5
  <2>2. m \in Seq(Names)
    BY <1>1, <2>1, SeqDef
  <2> QED BY <1>1, <1>4, <2>2, LenProperties DEF Paths
<1>7. \A i \in 1..Len(p) : i # l => m[i] = p[i]
  BY <1>4
<1>8. m[l] = IF j.op = "RenameFilesAndDir" /\ Len(p) > l /\ p[l] \in DOMAIN NewName
             THEN NewName[p[l]] ELSE p[l]
  BY <1>3, <1>4
<1>9. m[Len(p)] = p[Len(p)]
  BY <1>3, <1>4
<1>10. IsPrefix(j.from, m)
  <2>1. Len(j.from) <= Len(m) /\ \A i \in 1..Len(j.from) : i \in 1..Len(p) /\ i # l
    BY <1>1, <1>6 DEF l
  <2>2. \A i \in 1..Len(j.from) : j.from[i] = p[i]
    BY PrefixIs
  <2>3. \A i \in 1..Len(j.from) : j.from[i] = m[i]
    BY <1>7, <2>1, <2>2
  <2> QED BY <1>6, <2>1, <2>3, PrefixIs
<1>11. j.from # m
  BY <1>1, <1>6
<1>12. Last(m) = Last(p)
  BY <1>6, <1>9 DEF Last
<1>13. j.op # "RenameFilesAndDir" \/ Len(p) = l => m = p
  <2> SUFFICES ASSUME j.op # "RenameFilesAndDir" \/ Len(p) = l PROVE m = p
    OBVIOUS
  <2>1. \A i \in 1..Len(m) : m[i] = p[i]
    BY <1>3, <1>4, <1>6
  <2> QED BY <1>6, <2>1, PathEqual
<1> QED BY <1>6, <1>7, <1>8, <1>9, <1>10, <1>11, <1>12, <1>13 DEF m, l

\* A file gets its new path when it is renamed where its directory has taken it.
LEMMA NewPathIs ==
  ASSUME NEW j, j.from \in Paths, NEW p \in Paths, IsPrefix(j.from, p), j.from # p,
         Known(j, p), Last(p) \in DOMAIN NewName
  PROVE  LET q == NewPath(j, p)
             l == Len(j.from) + 1
         IN
         /\ q \in Paths /\ Len(q) = Len(p) /\ IsPrefix(j.from, q) /\ j.from # q
         /\ q = Append(Front(Moved(j, p)), NewName[Last(p)])
         /\ q[Len(p)] = NewName[p[Len(p)]]
         /\ j.op = "RenameFilesAndDir" => p[l] \in DOMAIN NewName /\ q[l] = NewName[p[l]]
         /\ \A i \in 1..Len(p) - 1 : q[i] = Moved(j, p)[i]
<1> DEFINE q == NewPath(j, p)
           l == Len(j.from) + 1
           m == Moved(j, p)
           n == NewName[Last(p)]
           r == Append(Front(m), n)
<1>1. /\ Len(j.from) \in Nat /\ Len(p) \in Nat /\ Len(p) > Len(j.from) /\ Last(p) = p[Len(p)]
      /\ l \in 1..Len(p)
  BY PathLen, ChildIs
<1>2. n \in Names
  BY TreesAssumption
<1>3. /\ m \in Paths /\ Len(m) = Len(p) /\ IsPrefix(j.from, m) /\ j.from # m
      /\ \A i \in 1..Len(p) : i # l => m[i] = p[i]
      /\ m[l] = IF j.op = "RenameFilesAndDir" /\ Len(p) > l /\ p[l] \in DOMAIN NewName
                THEN NewName[p[l]] ELSE p[l]
  BY MovedIs
<1>4. /\ DOMAIN q = 1..Len(p)
      /\ \A i \in 1..Len(p) :
           q[i] = IF i = Len(p) \/ (j.op = "RenameFilesAndDir" /\ i = l)
                  THEN NewName[p[i]] ELSE p[i]
      /\ q = [i \in 1..Len(p) |-> q[i]]
  BY DEF NewPath
<1>5. j.op = "RenameFilesAndDir" => p[l] \in DOMAIN NewName
  <2>1. Len(p) = l \/ Len(p) > l
    BY <1>1
  <2> QED BY <1>1, <2>1 DEF Known
<1> HIDE DEF q, m, n, l
<1>6. /\ Front(m) \in Paths /\ Len(Front(m)) = Len(p) - 1 /\ IsPrefix(j.from, Front(m))
      /\ \A i \in 1..Len(p) - 1 : Front(m)[i] = m[i]
  <2>1. m # <<>>
    BY <1>1, <1>3, NotRoot
  <2>2. Front(m) \in Paths /\ Len(Front(m)) = Len(p) - 1 /\ IsPrefix(Front(m), m)
        /\ IsPrefix(j.from, Front(m))
    BY <1>3, <2>1, FrontPath
  <2>3. \A i \in 1..Len(Front(m)) : Front(m)[i] = m[i]
    BY <1>3, <2>2, PrefixIs
  <2> QED BY <2>2, <2>3
<1> DEFINE o == Front(m)
<1>7. /\ r \in Paths /\ Len(r) = Len(p) /\ r[Len(p)] = n
      /\ \A i \in 1..Len(p) - 1 : r[i] = m[i]
  <2>1. o \in Seq(Names) /\ Len(o) = Len(p) - 1
    BY <1>6 DEF Paths
  <2> HIDE DEF o
  <2>2. /\ Append(o, n) \in Seq(Names) /\ Len(Append(o, n)) = Len(o) + 1
        /\ \A i \in 1..Len(o) : Append(o, n)[i] = o[i]
        /\ Append(o, n)[Len(o) + 1] = n
    BY <1>2, <2>1, AppendProperties
  <2>3. Len(o) + 1 = Len(p)
    BY <1>1, <2>1
  <2> QED BY <1>6, <2>1, <2>2, <2>3 DEF Paths, o
<1> HIDE DEF r, o
<1>8. \A i \in 1..Len(p) : q[i] = r[i]
  <2> SUFFICES ASSUME NEW i \in 1..Len(p) PROVE q[i] = r[i]
    OBVIOUS
  <2>1. CASE i = Len(p)
    BY <1>1, <1>4, <1>7, <2>1 DEF n
  <2>2. CASE i # Len(p)
    <3>1. i \in 1..Len(p) - 1
      BY <1>1, <2>2
    <3>2. r[i] = m[i]
      BY <1>7, <3>1
    <3>3. CASE i # l
      BY <1>3, <1>4, <2>2, <3>2, <3>3
    <3>4. CASE i = l
      <4>1. Len(p) > l
        BY <1>1, <2>2, <3>4
      <4> QED BY <1>3, <1>4, <1>5, <2>2, <3>2, <3>4, <4>1
    <3> QED BY <3>3, <3>4
  <2> QED BY <2>1, <2>2
<1>9. q = r
  <2>1. q \in Paths /\ Len(q) = Len(p)
    <3>1. q \in [1..Len(p) -> Names]
      BY <1>1, <1>4, <1>7, <1>8, PathLen
    <3>2. q \in Seq(Names)
      BY <1>1, <3>1, SeqDef
    <3> QED BY <1>1, <1>4, <3>2, LenProperties DEF Paths
  <2> QED BY <1>7, <1>8, <2>1, PathEqual
<1>10. IsPrefix(j.from, r) /\ j.from # r
  BY <1>1, <1>2, <1>6, <1>7, EntryPath, PrefixOrder DEF r
<1>11. j.op = "RenameFilesAndDir" => q[l] = NewName[p[l]]
  BY <1>1, <1>4
<1>12. q[Len(p)] = NewName[p[Len(p)]]
  BY <1>1, <1>4
<1>13. \A i \in 1..Len(p) - 1 : q[i] = m[i]
  BY <1>7, <1>9
<1> QED BY <1>5, <1>7, <1>9, <1>10, <1>11, <1>12, <1>13 DEF q, m, n, l, r

\* The files below the directory at the start.
LEMMA BelowIs ==
  ASSUME NEW j, Fit(j), NEW p \in Below(j.from)
  PROVE  /\ j.from \in Paths /\ p \in Paths /\ p \in DOMAIN InitTree /\ InitTree[p] # Dir /\ p # Dir
         /\ IsPrefix(j.from, p) /\ j.from # p
         /\ Append(j.from, p[Len(j.from) + 1]) \in DOMAIN InitTree
         /\ p[Len(j.from) + 1] \in Names
<1>1. /\ j.from \in Paths /\ HasDir(InitTree, j.from) /\ Rooted(InitTree)
      /\ p \in Files(InitTree) /\ IsPrefix(j.from, p)
  BY TreesAssumption DEF Fit, Below
<1>2. p \in DOMAIN InitTree /\ InitTree[p] # Dir /\ InitTree[p] = p /\ p \in Paths
  BY <1>1, TreesAssumption DEF Files, Rooted
<1>3. j.from # p
  BY <1>1, <1>2 DEF HasDir
<1>4. /\ Append(j.from, p[Len(j.from) + 1]) \in Paths /\ p[Len(j.from) + 1] \in Names
      /\ IsPrefix(Append(j.from, p[Len(j.from) + 1]), p)
  BY <1>1, <1>2, <1>3, ChildIs
<1>5. Append(j.from, p[Len(j.from) + 1]) \in DOMAIN InitTree
  BY <1>1, <1>2, <1>4, RootedAbove
<1> QED BY <1>1, <1>2, <1>3, <1>4, <1>5

\* No new name is one that something below the directory had at the start.
LEMMA NotTaken ==
  ASSUME NEW j, Fit(j), NEW x \in DOMAIN NewName, x \in Names, Append(j.from, x) \in DOMAIN InitTree
  PROVE  Append(j.from, NewName[x]) \notin DOMAIN InitTree
<1>1. j.from \in Paths /\ NoClash(j.from)
  BY DEF Fit
<1>2. /\ Append(j.from, x) # j.from /\ IsPrefix(j.from, Append(j.from, x))
      /\ Last(Append(j.from, x)) = x /\ Front(Append(j.from, x)) = j.from
  BY <1>1, EntryPath, PrefixOrder
<1> QED BY <1>1, <1>2 DEF NoClash

\* So the directories that have a new name hold none of the files that are where
\* they were.
LEMMA NamesApart ==
  ASSUME NEW j, Fit(j), NEW x \in DOMAIN NewName, x \in Names, Append(j.from, x) \in DOMAIN InitTree,
         NEW p \in DOMAIN InitTree
  PROVE  ~IsPrefix(Append(j.from, NewName[x]), p)
<1>1. Append(j.from, NewName[x]) \notin DOMAIN InitTree
  BY NotTaken
<1>2. j.from \in Paths /\ NewName[x] \in Names /\ Rooted(InitTree)
  BY TreesAssumption DEF Fit
<1>3. Append(j.from, NewName[x]) \in Paths
  BY <1>2, EntryPath
<1> QED BY <1>1, <1>2, <1>3, RootedAbove

\* The new path of a file is not the path of another one, as long as that has
\* its old name.
LEMMA NewPathFree ==
  ASSUME NEW j, Fit(j), NEW p \in Below(j.from), Known(j, p), Last(p) \in DOMAIN NewName,
         NEW r \in Below(j.from), Known(j, r)
  PROVE  NewPath(j, p) # Moved(j, r)
<1> DEFINE b == j.from
           l == Len(b) + 1
           q == NewPath(j, p)
           m == Moved(j, r)
           n == NewName[Last(p)]
           o == Append(Front(p), n)
<1> SUFFICES ASSUME q = m PROVE FALSE
  OBVIOUS
<1>1. /\ b \in Paths /\ p \in Paths /\ r \in Paths /\ IsPrefix(b, p) /\ b # p /\ IsPrefix(b, r) /\ b # r
      /\ p \in DOMAIN InitTree /\ r \in DOMAIN InitTree /\ NoClash(b)
  BY BelowIs DEF Fit
<1>2. /\ Len(b) \in Nat /\ Len(p) > Len(b) /\ Len(r) > Len(b) /\ Len(p) \in Nat /\ Len(r) \in Nat
      /\ Last(p) = p[Len(p)] /\ p # <<>>
  BY <1>1, ChildIs, PathLen
<1>3. /\ Len(q) = Len(p) /\ q[Len(p)] = n /\ \A i \in 1..Len(p) - 1 : q[i] = Moved(j, p)[i]
      /\ j.op = "RenameFilesAndDir" => p[l] \in DOMAIN NewName
  BY <1>1, <1>2, NewPathIs
<1>4. /\ Len(m) = Len(r) /\ m[Len(r)] = r[Len(r)]
      /\ \A i \in 1..Len(r) : i # l => m[i] = r[i]
      /\ m[l] = IF j.op = "RenameFilesAndDir" /\ Len(r) > l /\ r[l] \in DOMAIN NewName
                THEN NewName[r[l]] ELSE r[l]
  BY <1>1, MovedIs
<1>5. /\ \A i \in 1..Len(p) : i # l => Moved(j, p)[i] = p[i]
      /\ Moved(j, p)[l] = IF j.op = "RenameFilesAndDir" /\ Len(p) > l /\ p[l] \in DOMAIN NewName
                THEN NewName[p[l]] ELSE p[l]
  BY <1>1, MovedIs
<1>6. Len(r) = Len(p) /\ r[Len(p)] = n
  BY <1>3, <1>4
<1>7. \A x, y \in DOMAIN NewName : NewName[x] = NewName[y] => x = y
  BY TreesAssumption
<1>8. j.op = "RenameFilesAndDir" /\ Len(r) > l => r[l] \in DOMAIN NewName
  BY DEF Known
<1> HIDE DEF q, m, l
<1>9. \A i \in 1..Len(p) - 1 : r[i] = p[i]
  <2> SUFFICES ASSUME NEW i \in 1..Len(p) - 1 PROVE r[i] = p[i]
    OBVIOUS
  <2>1. i \in 1..Len(p) /\ m[i] = Moved(j, p)[i] /\ i < Len(p)
    BY <1>2, <1>3
  <2>2. CASE i # l
    BY <1>4, <1>5, <1>6, <2>1, <2>2
  <2>3. CASE i = l /\ j.op = "RenameFilesAndDir"
    <3>1. Len(r) > l /\ Len(p) > l
      BY <1>2, <1>6, <2>1, <2>3
    <3>2. NewName[r[l]] = NewName[p[l]] /\ r[l] \in DOMAIN NewName /\ p[l] \in DOMAIN NewName
      BY <1>3, <1>4, <1>5, <1>8, <2>1, <2>3, <3>1
    <3> QED BY <1>7, <2>3, <3>2
  <2>4. CASE i = l /\ j.op # "RenameFilesAndDir"
    BY <1>4, <1>5, <2>1, <2>4
  <2> QED BY <2>2, <2>3, <2>4
<1>10. /\ Front(p) \in Paths /\ Len(Front(p)) = Len(p) - 1
       /\ \A i \in 1..Len(p) - 1 : Front(p)[i] = p[i]
  <2>1. Front(p) \in Paths /\ Len(Front(p)) = Len(p) - 1 /\ IsPrefix(Front(p), p)
    BY <1>1, <1>2, FrontPath
  <2> QED BY <1>1, <2>1, PrefixIs
<1>11. n \in Names
  BY TreesAssumption
<1> DEFINE u == Front(p)
<1>12. Append(u, n) \in Paths /\ Len(Append(u, n)) = Len(p) /\ Append(u, n)[Len(p)] = n
       /\ \A i \in 1..Len(p) - 1 : Append(u, n)[i] = p[i]
  <2>1. u \in Seq(Names) /\ Len(u) = Len(p) - 1
    BY <1>10 DEF Paths
  <2> HIDE DEF u
  <2>2. /\ Append(u, n) \in Seq(Names) /\ Len(Append(u, n)) = Len(u) + 1
        /\ \A i \in 1..Len(u) : Append(u, n)[i] = u[i]
        /\ Append(u, n)[Len(u) + 1] = n
    BY <1>11, <2>1, AppendProperties
  <2>3. Len(u) + 1 = Len(p)
    BY <1>2, <2>1
  <2> QED BY <1>10, <2>1, <2>2, <2>3 DEF Paths, u
<1>13. o = r
  <2>1. \A i \in 1..Len(p) : i = Len(p) \/ i \in 1..Len(p) - 1
    BY <1>2
  <2> DEFINE e == Append(u, n)
  <2>2. e \in Paths /\ Len(e) = Len(r) /\ r \in Paths /\ Len(e) = Len(p)
    BY <1>1, <1>6, <1>12
  <2>3. \A i \in 1..Len(p) : e[i] = r[i]
    BY <1>6, <1>9, <1>12, <2>1
  <2> HIDE DEF e
  <2>4. \A i \in 1..Len(e) : e[i] = r[i]
    BY <2>2, <2>3
  <2>5. e = r
    BY <2>2, <2>4, PathEqual
  <2> QED BY <2>5 DEF e
<1>14. o \notin DOMAIN InitTree
  BY <1>1 DEF NoClash
<1> QED BY <1>1, <1>13, <1>14

\* Files have new paths of their own.
LEMMA NewPathsApart ==
  ASSUME NEW j, Fit(j), NEW p \in Below(j.from), Known(j, p), Last(p) \in DOMAIN NewName,
         NEW r \in Below(j.from), Known(j, r), Last(r) \in DOMAIN NewName,
         NewPath(j, p) = NewPath(j, r)
  PROVE  p = r
<1> DEFINE b == j.from
           l == Len(b) + 1
           q == NewPath(j, p)
           s == NewPath(j, r)
<1>1. /\ b \in Paths /\ p \in Paths /\ r \in Paths /\ IsPrefix(b, p) /\ b # p /\ IsPrefix(b, r) /\ b # r
  BY BelowIs
<1>2. /\ Len(b) \in Nat /\ Len(p) > Len(b) /\ Len(r) > Len(b) /\ Len(p) \in Nat /\ Len(r) \in Nat
      /\ Last(p) = p[Len(p)] /\ Last(r) = r[Len(r)]
  BY <1>1, ChildIs, PathLen
<1>3. /\ Len(q) = Len(p) /\ q[Len(p)] = NewName[p[Len(p)]]
      /\ \A i \in 1..Len(p) - 1 : q[i] = Moved(j, p)[i]
      /\ j.op = "RenameFilesAndDir" => p[l] \in DOMAIN NewName /\ q[l] = NewName[p[l]]
  BY <1>1, NewPathIs
<1>4. /\ Len(s) = Len(r) /\ s[Len(r)] = NewName[r[Len(r)]]
      /\ \A i \in 1..Len(r) - 1 : s[i] = Moved(j, r)[i]
      /\ j.op = "RenameFilesAndDir" => r[l] \in DOMAIN NewName /\ s[l] = NewName[r[l]]
  BY <1>1, NewPathIs
<1>5. /\ \A i \in 1..Len(p) : i # l => Moved(j, p)[i] = p[i]
      /\ j.op # "RenameFilesAndDir" => Moved(j, p)[l] = p[l]
  BY <1>1, MovedIs
<1>6. /\ \A i \in 1..Len(r) : i # l => Moved(j, r)[i] = r[i]
      /\ j.op # "RenameFilesAndDir" => Moved(j, r)[l] = r[l]
  BY <1>1, MovedIs
<1>7. \A x, y \in DOMAIN NewName : NewName[x] = NewName[y] => x = y
  BY TreesAssumption
<1>8. Len(p) = Len(r) /\ q = s
  BY <1>3, <1>4
<1> HIDE DEF q, s, l
<1>9. ASSUME NEW i \in 1..Len(p) PROVE p[i] = r[i]
  <2>1. CASE i = Len(p)
    BY <1>2, <1>3, <1>4, <1>7, <1>8, <2>1
  <2>2. CASE i # Len(p)
    <3>1. i \in 1..Len(p) - 1 /\ i \in 1..Len(r)
      BY <1>2, <1>8, <2>2
    <3>2. Moved(j, p)[i] = Moved(j, r)[i]
      BY <1>3, <1>4, <1>8, <3>1
    <3>3. CASE i # l
      BY <1>5, <1>6, <3>1, <3>2, <3>3
    <3>4. CASE i = l
      BY <1>3, <1>4, <1>5, <1>6, <1>7, <1>8, <3>2, <3>4
    <3> QED BY <3>3, <3>4
  <2> QED BY <2>1, <2>2
<1> QED BY <1>1, <1>8, <1>9, PathEqual

-----------------------------------------------------------------------------
(* The steps of a renaming *)

\* The steps w are those of s without the first one, behind those of e.
Follows(s, e, w) ==
  /\ Len(s) \in Nat /\ Len(s) > 0 /\ Len(e) \in Nat
  /\ \A i \in 1..Len(w) :
       \/ i \in 1..Len(e) /\ w[i] = e[i]
       \/ \E h \in 2..Len(s) : i = Len(e) + h - 1 /\ w[i] = s[h]
  /\ \A i \in 1..Len(e) : i \in 1..Len(w) /\ w[i] = e[i]
  /\ \A h \in 2..Len(s) : Len(e) + h - 1 \in 1..Len(w) /\ w[Len(e) + h - 1] = s[h]

\* This is what a call goes on with.
LEMMA GoesOnFollows ==
  ASSUME NEW c \in Calls, FilesInv, AllSeqs, out[c] = "run", NEW e, AnySeq(e), GoesOn(c, e)
  PROVE  Follows(todo[c], e, todo'[c])
<1>1. /\ todo[c] # <<>> /\ AnySeq(todo[c]) /\ DOMAIN todo = Calls
      /\ out \in [Calls -> {"run", "nil", "error"}]
  BY FirstStepOK
<1>2. /\ Len(todo[c]) \in Nat /\ Len(e) \in Nat /\ Len(todo[c]) > 0
      /\ Len(todo'[c]) = Len(e) + Len(todo[c]) - 1
      /\ \A i \in 1..Len(todo'[c]) :
           todo'[c][i] = IF i <= Len(e) THEN e[i] ELSE todo[c][i - Len(e) + 1]
  BY <1>1, GoesOnTodo
<1> DEFINE s == todo[c]
           w == todo'[c]
           n == Len(e)
           m == Len(s)
<1>3. /\ m \in Nat /\ n \in Nat /\ m > 0 /\ Len(w) = n + m - 1
      /\ \A i \in 1..Len(w) : w[i] = IF i <= n THEN e[i] ELSE s[i - n + 1]
  BY <1>2
<1> HIDE DEF s, w, m, n
<1>4. ASSUME NEW i \in 1..Len(w)
      PROVE  \/ i \in 1..n /\ w[i] = e[i]
             \/ \E h \in 2..m : i = n + h - 1 /\ w[i] = s[h]
  <2>1. CASE i <= n
    BY <1>3, <2>1
  <2>2. CASE ~(i <= n)
    <3>1. i - n + 1 \in 2..m /\ i = n + (i - n + 1) - 1
      BY <1>3, <2>2
    <3> QED BY <1>3, <2>2, <3>1
  <2> QED BY <2>1, <2>2
<1>5. \A i \in 1..n : i \in 1..Len(w) /\ w[i] = e[i]
  BY <1>3
<1>6. ASSUME NEW h \in 2..m PROVE n + h - 1 \in 1..Len(w) /\ w[n + h - 1] = s[h]
  <2>1. n + h - 1 \in 1..Len(w) /\ ~(n + h - 1 <= n) /\ (n + h - 1) - n + 1 = h
    BY <1>3
  <2> QED BY <1>3, <2>1
<1> QED BY <1>3, <1>4, <1>5, <1>6 DEF Follows, s, w, m, n

\* When the first step makes way for steps of which one at most is in C if it
\* was itself, at most one step is.
LEMMA OnlyOne ==
  ASSUME NEW s, NEW e, NEW w, Follows(s, e, w), NEW C,
         \A i, h \in 1..Len(s) : s[i] \in C /\ s[h] \in C => i = h,
         \A i, h \in 1..Len(e) : e[i] \in C /\ e[h] \in C => i = h,
         \A i \in 1..Len(e) : e[i] \in C => s[1] \in C
  PROVE  \A i, h \in 1..Len(w) : w[i] \in C /\ w[h] \in C => i = h
<1>1. /\ 1 \in 1..Len(s) /\ \A h \in 2..Len(s) : h \in 1..Len(s) /\ h # 1
  BY DEF Follows
<1>2. ASSUME NEW i \in 1..Len(w), NEW h \in 1..Len(w), w[i] \in C, w[h] \in C,
             i \in 1..Len(e), w[i] = e[i]
      PROVE  i = h
  <2>1. s[1] \in C
    BY <1>2
  <2>2. ~\E g \in 2..Len(s) : w[h] = s[g]
    BY <1>1, <1>2, <2>1
  <2>3. h \in 1..Len(e) /\ w[h] = e[h]
    BY <2>2 DEF Follows
  <2> QED BY <1>2, <2>3
<1>3. ASSUME NEW i \in 1..Len(w), NEW h \in 1..Len(w), w[i] \in C, w[h] \in C,
             NEW g \in 2..Len(s), i = Len(e) + g - 1, w[i] = s[g],
             NEW k \in 2..Len(s), h = Len(e) + k - 1, w[h] = s[k]
      PROVE  i = h
  <2>1. g = k
    BY <1>1, <1>3
  <2> QED BY <1>3, <2>1
<1>4. SUFFICES ASSUME NEW i \in 1..Len(w), NEW h \in 1..Len(w), w[i] \in C, w[h] \in C
               PROVE  i = h
  OBVIOUS
<1>5. CASE i \in 1..Len(e) /\ w[i] = e[i]
  BY <1>2, <1>4, <1>5
<1>6. CASE h \in 1..Len(e) /\ w[h] = e[h]
  BY <1>2, <1>4, <1>6
<1>7. CASE /\ \E g \in 2..Len(s) : i = Len(e) + g - 1 /\ w[i] = s[g]
           /\ \E k \in 2..Len(s) : h = Len(e) + k - 1 /\ w[h] = s[k]
  BY <1>3, <1>4, <1>7
<1> QED BY <1>4, <1>5, <1>6, <1>7 DEF Follows

\* Where the file is.
LEMMA WhereIs ==
  ASSUME NEW j, NEW t, NEW s, NEW p, Ways(j, t, s, p)
  PROVE  /\ \E q : Stands(t, p, q)
         /\ \A q \in DOMAIN t : t[q] = p =>
              /\ Stands(t, p, q)
              /\ \/ q = p /\ \E i \in 1..Len(s) : Behind(s[i], p)
                 \/ q = Moved(j, p) /\ Known(j, p) /\ \E i \in 1..Len(s) : Ahead(j, s[i], p)
                 \/ /\ q = NewPath(j, p) /\ Known(j, p) /\ Last(p) \in DOMAIN NewName
                    /\ \A i \in 1..Len(s) : ~Covers(j, s[i], p)
<1>1. \A x, y : Stands(t, p, x) /\ y \in DOMAIN t /\ t[y] = p => y = x
  BY DEF Stands, Only
<1>2. CASE \E i \in 1..Len(s) : Behind(s[i], p)
  BY <1>1, <1>2 DEF Ways
<1>3. CASE \E i \in 1..Len(s) : Ahead(j, s[i], p)
  BY <1>1, <1>3 DEF Ways
<1>4. CASE \A i \in 1..Len(s) : ~Covers(j, s[i], p)
  BY <1>1, <1>4 DEF Ways
<1> QED BY <1>2, <1>3, <1>4 DEF Covers

\* The file is where it was.
Carried(t, u, p) == \A q : Stands(t, p, q) => Stands(u, p, q)

\* A step that does not rename a file makes none that does.
LEMMA WaysKept ==
  ASSUME NEW j, NEW t, NEW u, NEW s, NEW e, NEW w, NEW p, Ways(j, t, s, p), Follows(s, e, w),
         Carried(t, u, p), ~Covers(j, s[1], p), \A i \in 1..Len(e) : ~Covers(j, e[i], p)
  PROVE  Ways(j, u, w, p)
<1> DEFINE C == {x \in {s[i] : i \in 1..Len(s)} \cup {e[i] : i \in 1..Len(e)}
                       \cup {w[i] : i \in 1..Len(w)} : Covers(j, x, p)}
<1>1. /\ \A i \in 1..Len(s) : s[i] \in C <=> Covers(j, s[i], p)
      /\ \A i \in 1..Len(e) : e[i] \in C <=> Covers(j, e[i], p)
      /\ \A i \in 1..Len(w) : w[i] \in C <=> Covers(j, w[i], p)
  OBVIOUS
<1> HIDE DEF C
<1>2. \A i, h \in 1..Len(w) : Covers(j, w[i], p) /\ Covers(j, w[h], p) => i = h
  <2>1. \A i, h \in 1..Len(s) : s[i] \in C /\ s[h] \in C => i = h
    BY <1>1 DEF Ways
  <2>2. \A i \in 1..Len(e) : e[i] \notin C
    BY <1>1
  <2>3. \A i, h \in 1..Len(w) : w[i] \in C /\ w[h] \in C => i = h
    BY <2>1, <2>2, OnlyOne
  <2> QED BY <1>1, <2>3
<1>3. \A i \in 1..Len(s) : i = 1 \/ i \in 2..Len(s)
  BY DEF Follows
<1>4. ASSUME NEW i \in 1..Len(w)
      PROVE  /\ Behind(w[i], p) => Stands(u, p, p)
             /\ Ahead(j, w[i], p) => Stands(u, p, Moved(j, p)) /\ Known(j, p)
  <2>1. CASE i \in 1..Len(e) /\ w[i] = e[i]
    BY <2>1 DEF Covers
  <2>2. CASE \E h \in 2..Len(s) : w[i] = s[h]
    <3>1. PICK h \in 1..Len(s) : w[i] = s[h]
      BY <2>2
    <3> QED BY <3>1 DEF Ways, Carried
  <2> QED BY <2>1, <2>2 DEF Follows
<1>5. (\A i \in 1..Len(w) : ~Covers(j, w[i], p)) => \A i \in 1..Len(s) : ~Covers(j, s[i], p)
  <2> SUFFICES ASSUME \A i \in 1..Len(w) : ~Covers(j, w[i], p), NEW i \in 2..Len(s)
               PROVE  ~Covers(j, s[i], p)
    BY <1>3
  <2>1. Len(e) + i - 1 \in 1..Len(w) /\ w[Len(e) + i - 1] = s[i]
    BY DEF Follows
  <2> QED BY <2>1
<1> QED BY <1>2, <1>4, <1>5 DEF Ways, Carried

\* A step that renames a file goes on with one that does;
LEMMA WaysOne ==
  ASSUME NEW j, NEW t, NEW u, NEW s, NEW e, NEW w, NEW p, Ways(j, t, s, p), Follows(s, e, w),
         Covers(j, s[1], p), \A i, h \in 1..Len(e) : Covers(j, e[i], p) /\ Covers(j, e[h], p) => i = h,
         \E i \in 1..Len(e) : Covers(j, e[i], p),
         \A i \in 1..Len(e) :
           /\ Behind(e[i], p) => Stands(u, p, p)
           /\ Ahead(j, e[i], p) => Stands(u, p, Moved(j, p)) /\ Known(j, p)
  PROVE  Ways(j, u, w, p)
<1> DEFINE C == {x \in {s[i] : i \in 1..Len(s)} \cup {e[i] : i \in 1..Len(e)}
                       \cup {w[i] : i \in 1..Len(w)} : Covers(j, x, p)}
<1>1. /\ \A i \in 1..Len(s) : s[i] \in C <=> Covers(j, s[i], p)
      /\ \A i \in 1..Len(e) : e[i] \in C <=> Covers(j, e[i], p)
      /\ \A i \in 1..Len(w) : w[i] \in C <=> Covers(j, w[i], p)
  OBVIOUS
<1>2. 1 \in 1..Len(s) /\ \A i \in 2..Len(s) : i \in 1..Len(s) /\ i # 1
  BY DEF Follows
<1> HIDE DEF C
<1>3. \A i, h \in 1..Len(w) : Covers(j, w[i], p) /\ Covers(j, w[h], p) => i = h
  <2>1. \A i, h \in 1..Len(s) : s[i] \in C /\ s[h] \in C => i = h
    BY <1>1 DEF Ways
  <2>2. /\ \A i, h \in 1..Len(e) : e[i] \in C /\ e[h] \in C => i = h
        /\ s[1] \in C
    BY <1>1, <1>2
  <2>3. \A i, h \in 1..Len(w) : w[i] \in C /\ w[h] \in C => i = h
    BY <2>1, <2>2, OnlyOne
  <2> QED BY <1>1, <2>3
<1>4. \A i \in 2..Len(s) : ~Covers(j, s[i], p)
  BY <1>2 DEF Ways
<1>5. ASSUME NEW i \in 1..Len(w)
      PROVE  /\ Behind(w[i], p) => Stands(u, p, p)
             /\ Ahead(j, w[i], p) => Stands(u, p, Moved(j, p)) /\ Known(j, p)
  <2>1. CASE i \in 1..Len(e) /\ w[i] = e[i]
    BY <2>1
  <2>2. CASE \E h \in 2..Len(s) : w[i] = s[h]
    BY <1>4, <2>2 DEF Covers
  <2> QED BY <2>1, <2>2 DEF Follows
<1>6. \E i \in 1..Len(w) : Covers(j, w[i], p)
  BY DEF Follows
<1> QED BY <1>3, <1>5, <1>6 DEF Ways

\* or is the last one that does.
LEMMA WaysDone ==
  ASSUME NEW j, NEW t, NEW u, NEW s, NEW e, NEW w, NEW p, Ways(j, t, s, p), Follows(s, e, w),
         Covers(j, s[1], p), Len(e) = 0,
         Stands(u, p, NewPath(j, p)), Last(p) \in DOMAIN NewName, Known(j, p)
  PROVE  Ways(j, u, w, p)
<1>1. 1 \in 1..Len(s) /\ \A i \in 2..Len(s) : i \in 1..Len(s) /\ i # 1
  BY DEF Follows
<1>2. \A i \in 2..Len(s) : ~Covers(j, s[i], p)
  BY <1>1 DEF Ways
<1>3. \A i \in 1..Len(w) : ~Covers(j, w[i], p)
  <2>1. ASSUME NEW i \in 1..Len(w) PROVE \E h \in 2..Len(s) : w[i] = s[h]
    <3>1. ~(i \in 1..Len(e))
      OBVIOUS
    <3> QED BY <3>1 DEF Follows
  <2> QED BY <1>2, <2>1
<1> QED BY <1>3 DEF Ways, Covers

\* The steps e are one for every entry of the directory m of tree t.
Listed(t, m, e, dir) ==
  /\ Len(e) \in Nat /\ AnySeq(e)
  /\ \A i \in 1..Len(e) : \E n \in Names :
       /\ Append(m, n) \in DOMAIN t /\ e[i].from = Append(m, n)
       /\ e[i].do = IF HasDir(t, Append(m, n)) THEN dir ELSE "newname"
  /\ \A n \in Names : Append(m, n) \in DOMAIN t => \E i \in 1..Len(e) : e[i].from = Append(m, n)
  /\ \A i, h \in 1..Len(e) : e[i].from = e[h].from => i = h

\* RenameFilesAndDirWithPrefixAndSuffix and RenameFilesWithPrefixAndSuffix go
\* through all entries of a directory, each once.
LEMMA EntriesListed ==
  ASSUME NEW t, NEW m \in Paths, NEW dir
  PROVE  Listed(t, m, Entries(t, m, m, dir, "newname"), dir)
<1> DEFINE names == ReadDir(t, m)
           e == Entries(t, m, m, dir, "newname")
<1>1. /\ AnySeq(e) /\ Len(e) = Len(names) /\ Len(e) \in Nat
      /\ \A i \in 1..Len(e) :
           /\ names[i] \in Names /\ Append(m, names[i]) \in DOMAIN t
           /\ e[i] = Step(IF HasDir(t, Append(m, names[i])) THEN dir ELSE "newname",
                          Append(m, names[i]), Append(m, names[i]))
  BY EntriesAre
<1>2. /\ \A n \in Names : Append(m, n) \in DOMAIN t => \E k \in 1..Len(names) : names[k] = n
      /\ \A k, l \in 1..Len(names) : names[k] = names[l] => k = l
  BY ReadDirNames
<1> HIDE DEF e, names
<1>3. \A i \in 1..Len(e) :
        /\ e[i].from = Append(m, names[i])
        /\ e[i].do = IF HasDir(t, Append(m, names[i])) THEN dir ELSE "newname"
  <2> SUFFICES ASSUME NEW i \in 1..Len(e)
               PROVE  /\ e[i].from = Append(m, names[i])
                      /\ e[i].do = IF HasDir(t, Append(m, names[i])) THEN dir ELSE "newname"
    OBVIOUS
  <2> DEFINE d == IF HasDir(t, Append(m, names[i])) THEN dir ELSE "newname"
             r == Append(m, names[i])
  <2>1. e[i] = Step(d, r, r)
    BY <1>1
  <2> HIDE DEF d, r
  <2>2. e[i].from = r /\ e[i].do = d
    BY <2>1 DEF Step
  <2> QED BY <2>2 DEF d, r
<1>4. \A n \in Names : Last(Append(m, n)) = n
  BY EntryPath
<1>5. \A i, h \in 1..Len(e) : e[i].from = e[h].from => i = h
  BY <1>1, <1>2, <1>3, <1>4
<1>6. ASSUME NEW n \in Names, Append(m, n) \in DOMAIN t
      PROVE  \E i \in 1..Len(e) : e[i].from = Append(m, n)
  BY <1>1, <1>2, <1>3, <1>6
<1>7. \A i \in 1..Len(e) : \E n \in Names :
       /\ Append(m, n) \in DOMAIN t /\ e[i].from = Append(m, n)
       /\ e[i].do = IF HasDir(t, Append(m, n)) THEN dir ELSE "newname"
  BY <1>1, <1>3
<1> QED BY <1>1, <1>5, <1>6, <1>7 DEF Listed, e

\* Steps that rename no directories do not make a directory be renamed twice.
LEMMA NoMoreDirs ==
  ASSUME NEW s, NEW e, NEW w, Follows(s, e, w), DirsOnce(s),
         \A i \in 1..Len(e) : e[i].do # "newdir"
  PROVE  DirsOnce(w)
<1> SUFFICES ASSUME NEW d
             PROVE  \A i, h \in 1..Len(w) : /\ w[i].do = "newdir" /\ w[i].from = d
                                           /\ w[h].do = "newdir" /\ w[h].from = d => i = h
  BY DEF DirsOnce
<1> DEFINE C == {x \in {s[i] : i \in 1..Len(s)} \cup {e[i] : i \in 1..Len(e)}
                     \cup {w[i] : i \in 1..Len(w)} : x.do = "newdir" /\ x.from = d}
<1>1. /\ \A i \in 1..Len(s) : s[i] \in C <=> s[i].do = "newdir" /\ s[i].from = d
      /\ \A i \in 1..Len(e) : e[i] \in C <=> e[i].do = "newdir" /\ e[i].from = d
      /\ \A i \in 1..Len(w) : w[i] \in C <=> w[i].do = "newdir" /\ w[i].from = d
  OBVIOUS
<1> HIDE DEF C
<1>2. \A i \in 1..Len(e) : e[i] \notin C
  BY <1>1
<1>3. \A i, h \in 1..Len(s) : s[i] \in C /\ s[h] \in C => i = h
  BY <1>1 DEF DirsOnce
<1>4. /\ \A i, h \in 1..Len(e) : e[i] \in C /\ e[h] \in C => i = h
      /\ \A i \in 1..Len(e) : e[i] \in C => s[1] \in C
  BY <1>2
<1>5. Follows(s, e, w)
  OBVIOUS
<1>6. \A i, h \in 1..Len(w) : w[i] \in C /\ w[h] \in C => i = h
  BY ONLY <1>3, <1>4, <1>5, OnlyOne
<1> QED BY <1>1, <1>6

\* All names of the directory are read, and nothing is renamed yet.
LEMMA NamesListed ==
  ASSUME NEW j, Fit(j), NEW t, Rooted(t), NEW s, NEW e, NEW w, Renaming(j, t, s), Follows(s, e, w),
         s[1].do = "names", HasDir(t, s[1].from), Listed(t, s[1].from, e, "names")
  PROVE  Renaming(j, t, w)
<1> DEFINE b == j.from
           m == s[1].from
<1>1. 1 \in 1..Len(s) /\ \A i \in 2..Len(s) : i \in 1..Len(s) /\ i # 1 /\ Len(s) > 1
  BY DEF Follows
<1>2. /\ m \in Paths /\ IsPrefix(b, m) /\ b \in Paths
      /\ (j.op = "RenameFilesAndDir" => \E n \in DOMAIN NewName \cap Names :
           Append(b, n) \in DOMAIN InitTree /\ IsPrefix(Append(b, NewName[n]), m))
  BY <1>1 DEF Renaming, RenameStep, Fit
<1>3. \A i \in 1..Len(e) : \E n \in Names :
        /\ Append(m, n) \in DOMAIN t /\ e[i].from = Append(m, n)
        /\ e[i].do = IF HasDir(t, Append(m, n)) THEN "names" ELSE "newname"
  BY DEF Listed
<1>4. \A n \in Names : Append(m, n) \in Paths /\ IsPrefix(m, Append(m, n)) /\ m # Append(m, n)
  BY <1>2, EntryPath, PrefixOrder
<1>5. \A i \in 1..Len(s) : s[i].do # "namesAndDirs" \/ i = 1
  <2> SUFFICES ASSUME NEW i \in 1..Len(s), s[i].do = "namesAndDirs" PROVE i = 1
    OBVIOUS
  <2>1. Len(s) = 1
    BY DEF Renaming, RenameStep
  <2> QED BY <2>1
\* A file in the directory is one that has its old name still.
<1>6. ASSUME NEW n \in Names, Append(m, n) \in DOMAIN t, ~HasDir(t, Append(m, n))
      PROVE  \E p \in Below(b) : Moved(j, p) = Append(m, n)
  <2> DEFINE r == Append(m, n)
  <2>1. r \in Files(t) /\ IsPrefix(b, r) /\ r \in Paths /\ Front(r) = m
    BY <1>2, <1>4, <1>6, EntryPath, PrefixOrder DEF Files, HasDir
  <2> DEFINE p == t[r]
  <2>2. p \in Below(b)
    BY <2>1 DEF Renaming
  <2>3. Ways(j, t, s, p)
    BY <2>2 DEF Renaming
  <2>4. /\ p \in Paths /\ IsPrefix(b, p) /\ b # p /\ p \in DOMAIN InitTree
    BY <2>2, BelowIs
  <2> HIDE DEF p
  <2>5. p = t[r] /\ r \in DOMAIN t
    BY <1>6 DEF p
  <2> HIDE DEF r
  <2>6. CASE r = p /\ \E i \in 1..Len(s) : Behind(s[i], p)
    <3>1. PICK i \in 1..Len(s) : Behind(s[i], p)
      BY <2>6
    <3>2. s[i].do = "newdir" /\ IsPrefix(s[i].from, p)
      BY <1>5, <3>1 DEF Behind
    <3>3. j.op = "RenameFilesAndDir"
      BY <3>2 DEF Renaming, RenameStep
    <3>4. PICK x \in DOMAIN NewName \cap Names :
            Append(b, x) \in DOMAIN InitTree /\ IsPrefix(Append(b, NewName[x]), m)
      BY <1>2, <3>3
    <3>5. NewName[x] \in Names
      BY TreesAssumption
    <3>6. IsPrefix(Append(b, NewName[x]), r)
      <4> DEFINE y == Append(b, NewName[x])
      <4>1. y \in Paths /\ IsPrefix(y, m)
        BY <1>2, <3>4, <3>5, EntryPath
      <4> HIDE DEF y
      <4>2. IsPrefix(m, r) /\ m \in Paths
        BY <1>2, <1>4 DEF r
      <4>3. IsPrefix(y, r)
        BY <2>1, <4>1, <4>2, PrefixOrder
      <4> QED BY <4>3 DEF y
    <3>7. ~IsPrefix(Append(b, NewName[x]), p)
      BY <2>4, <3>4, NamesApart
    <3> QED BY <2>6, <3>6, <3>7
  <2>7. CASE r = Moved(j, p)
    BY <2>2, <2>7 DEF r
  <2>8. CASE /\ r = NewPath(j, p) /\ Known(j, p) /\ Last(p) \in DOMAIN NewName
             /\ \A i \in 1..Len(s) : ~Covers(j, s[i], p)
    <3>1. r = Append(Front(Moved(j, p)), NewName[Last(p)])
      BY <1>2, <2>4, <2>8, NewPathIs
    <3>2. Moved(j, p) \in Paths /\ IsPrefix(b, Moved(j, p)) /\ b # Moved(j, p) /\ NewName[Last(p)] \in Names
      BY <1>2, <2>4, <2>8, MovedIs, TreesAssumption
    <3>3. Moved(j, p) # <<>>
      BY <1>2, <3>2, PrefixOrder, RootPath
    <3>4. Front(Moved(j, p)) \in Paths /\ IsPrefix(Front(Moved(j, p)), Moved(j, p)) /\ Front(Moved(j, p)) # Moved(j, p)
      BY <3>2, <3>3, FrontPath
    <3>5. Front(r) = Front(Moved(j, p))
      BY <3>1, <3>2, <3>4, EntryPath
    <3>6. Ahead(j, s[1], p)
      BY <2>1, <3>4, <3>5 DEF Ahead
    <3> QED BY <1>1, <2>8, <3>6 DEF Covers
  <2> QED BY <2>3, <2>5, <2>6, <2>7, <2>8, WhereIs
\* Every step is one of a renaming.
<1>7. ASSUME NEW i \in 1..Len(w) PROVE RenameStep(j, t, w, w[i])
  <2>1. CASE i \in 1..Len(e) /\ w[i] = e[i]
    <3>1. PICK n \in Names :
            /\ Append(m, n) \in DOMAIN t /\ e[i].from = Append(m, n)
            /\ e[i].do = IF HasDir(t, Append(m, n)) THEN "names" ELSE "newname"
      BY <1>3, <2>1
    <3>2. CASE HasDir(t, Append(m, n))
      <4>1. e[i].do = "names" /\ e[i].from \in Paths /\ IsPrefix(b, e[i].from)
        BY <1>2, <1>4, <3>1, <3>2, PrefixOrder
      <4>2. j.op = "RenameFilesAndDir" => \E x \in DOMAIN NewName \cap Names :
              Append(b, x) \in DOMAIN InitTree /\ IsPrefix(Append(b, NewName[x]), e[i].from)
        <5> SUFFICES ASSUME j.op = "RenameFilesAndDir"
                     PROVE  \E x \in DOMAIN NewName \cap Names :
                       Append(b, x) \in DOMAIN InitTree /\ IsPrefix(Append(b, NewName[x]), e[i].from)
          OBVIOUS
        <5>1. PICK x \in DOMAIN NewName \cap Names :
                Append(b, x) \in DOMAIN InitTree /\ IsPrefix(Append(b, NewName[x]), m)
          BY <1>2
        <5>2. NewName[x] \in Names
          BY TreesAssumption
        <5>3. IsPrefix(Append(b, NewName[x]), Append(m, n))
          <6> DEFINE y == Append(b, NewName[x])
                     z == Append(m, n)
          <6>1. y \in Paths /\ IsPrefix(y, m)
            BY <1>2, <5>1, <5>2, EntryPath
          <6>2. z \in Paths /\ IsPrefix(m, z) /\ m \in Paths
            BY <1>2, <1>4
          <6> HIDE DEF y, z, m
          <6>3. IsPrefix(y, z)
            BY <6>1, <6>2, PrefixOrder
          <6> QED BY <6>3 DEF y, z
        <5> QED BY <3>1, <5>1, <5>3
      <4> QED BY <2>1, <4>1, <4>2 DEF RenameStep
    <3>3. CASE ~HasDir(t, Append(m, n))
      BY <1>6, <2>1, <3>1, <3>3 DEF RenameStep
    <3> QED BY <3>2, <3>3
  <2>2. CASE \E h \in 2..Len(s) : w[i] = s[h]
    <3>1. PICK h \in 2..Len(s) : w[i] = s[h]
      BY <2>2
    <3>2. RenameStep(j, t, s, s[h]) /\ s[h].do # "namesAndDirs"
      BY <1>1, <1>5 DEF Renaming
    <3> QED BY <3>1, <3>2 DEF RenameStep
  <2> QED BY <2>1, <2>2 DEF Follows
\* No two rename the same directory.
<1>8. DirsOnce(w)
  BY <1>3, NoMoreDirs DEF Renaming
\* Every file below the directory is below one entry, or is one.
<1>9. ASSUME NEW p \in Below(b) PROVE Ways(j, t, w, p)
  <2> DEFINE q == Moved(j, p)
  <2>1. Ways(j, t, s, p) /\ q \in Paths
    BY <1>2, BelowIs, MovedIs DEF Renaming
  <2> HIDE DEF q
  <2>2. \A i \in 1..Len(e) : ~Behind(e[i], p)
    BY <1>3 DEF Behind
  <2>3. ASSUME NEW i \in 1..Len(e), Covers(j, e[i], p)
        PROVE  /\ Ahead(j, e[i], p) /\ IsPrefix(e[i].from, q) /\ e[i].from \in Paths
               /\ Len(e[i].from) = Len(m) + 1 /\ IsPrefix(m, q) /\ m # q
    <3>1. Ahead(j, e[i], p) /\ e[i].from \in Paths /\ Len(e[i].from) = Len(m) + 1
          /\ IsPrefix(m, e[i].from) /\ m # e[i].from
      <4>1. PICK n \in Names : e[i].from = Append(m, n)
        BY <1>3
      <4>2. Len(Append(m, n)) = Len(m) + 1
        BY <1>2, EntryPath
      <4> QED BY <1>4, <2>2, <2>3, <4>1, <4>2 DEF Covers
    <3>2. IsPrefix(e[i].from, q)
      BY <2>1, <3>1, PrefixOrder DEF Ahead, q
    <3> QED BY <1>2, <2>1, <3>1, <3>2, PrefixOrder
  <2>4. \A i \in 1..Len(e) : Covers(j, e[i], p) => Ahead(j, s[1], p)
    BY <2>3 DEF Ahead, q
  <2>5. ASSUME NEW i \in 1..Len(e), NEW h \in 1..Len(e), Covers(j, e[i], p), Covers(j, e[h], p)
        PROVE  i = h
    <3>1. /\ IsPrefix(e[i].from, q) /\ e[i].from \in Paths /\ Len(e[i].from) = Len(m) + 1
          /\ IsPrefix(e[h].from, q) /\ e[h].from \in Paths /\ Len(e[h].from) = Len(m) + 1
      BY <2>3, <2>5
    <3>2. e[i].from = e[h].from
      <4> DEFINE f == e[i].from
                 g == e[h].from
      <4>1. /\ IsPrefix(f, q) /\ f \in Paths /\ Len(f) = Len(m) + 1
            /\ IsPrefix(g, q) /\ g \in Paths /\ Len(g) = Len(m) + 1
        BY <3>1
      <4> HIDE DEF f, g
      <4>2. f = SubSeq(q, 1, Len(f)) /\ g = SubSeq(q, 1, Len(g))
        BY <2>1, <4>1, PrefixCut
      <4>3. f = g
        BY <4>1, <4>2
      <4> QED BY <4>3 DEF f, g
    <3> QED BY <3>2 DEF Listed
  <2>6. CASE ~Covers(j, s[1], p)
    <3>1. \A i \in 1..Len(e) : ~Covers(j, e[i], p)
      BY <2>4, <2>6 DEF Covers
    <3> QED BY <2>1, <2>6, <3>1, WaysKept DEF Carried
  <2>7. CASE Covers(j, s[1], p)
    <3>1. IsPrefix(m, q) /\ m # q /\ Ahead(j, s[1], p)
      BY <2>7 DEF Covers, Behind, Ahead, q
    <3>2. Stands(t, p, q) /\ Known(j, p)
      BY <1>1, <2>1, <3>1 DEF Ways, q
    <3> DEFINE x == q[Len(m) + 1]
    <3>3. x \in Names /\ Append(m, x) \in Paths /\ IsPrefix(Append(m, x), q)
      BY <1>2, <2>1, <3>1, ChildIs
    <3> HIDE DEF x
    <3>4. q \in DOMAIN t /\ t[q] # Dir
      BY <3>2 DEF Stands, HasFile
    <3>5. Append(m, x) \in DOMAIN t /\ (Append(m, x) # q => t[Append(m, x)] = Dir)
      BY <3>3, <3>4, RootedAbove
    <3>6. PICK i \in 1..Len(e) : e[i].from = Append(m, x)
      BY <3>3, <3>5 DEF Listed
    <3>7. e[i].do = IF HasDir(t, Append(m, x)) THEN "names" ELSE "newname"
      BY <1>3, <3>6
    <3>8. Covers(j, e[i], p)
      BY <3>3, <3>4, <3>5, <3>6, <3>7 DEF Covers, Ahead, q, HasDir
    <3> QED BY <2>1, <2>2, <2>5, <2>7, <3>2, <3>8, WaysOne DEF q
  <2> QED BY <2>6, <2>7
<1> QED BY <1>7, <1>8, <1>9 DEF Renaming

\* The names of the first directory are read: what is below is as it was.
LEMMA DirsListed ==
  ASSUME NEW j, Fit(j), NEW t, Rooted(t), NEW s, NEW e, NEW w, Renaming(j, t, s), Follows(s, e, w),
         s[1].do = "namesAndDirs", HasDir(t, s[1].from), Listed(t, s[1].from, e, "newdir")
  PROVE  Renaming(j, t, w)
<1> DEFINE b == j.from
<1>1. 1 \in 1..Len(s)
  BY DEF Follows
<1>2. /\ s[1].from = b /\ Len(s) = 1 /\ j.op = "RenameFilesAndDir" /\ b \in Paths
      /\ \A q \in DOMAIN t : IsPrefix(b, q) => q \in DOMAIN InitTree
  BY <1>1 DEF Renaming, RenameStep, Fit
<1>3. \A i \in 1..Len(w) : i \in 1..Len(e) /\ w[i] = e[i]
  <2>1. ~\E h \in 2..Len(s) : TRUE
    BY <1>2
  <2> QED BY <2>1 DEF Follows
<1>4. \A i \in 1..Len(e) : \E n \in Names :
        /\ Append(b, n) \in DOMAIN t /\ e[i].from = Append(b, n)
        /\ e[i].do = IF HasDir(t, Append(b, n)) THEN "newdir" ELSE "newname"
  BY <1>2 DEF Listed
<1>5. \A n \in Names : /\ Append(b, n) \in Paths /\ IsPrefix(b, Append(b, n)) /\ b # Append(b, n)
                       /\ Len(Append(b, n)) = Len(b) + 1
  BY <1>2, EntryPath, PrefixOrder
<1>6. \A p \in Below(b) : Stands(t, p, p) /\ Covers(j, s[1], p) /\ Ways(j, t, s, p)
  BY <1>1 DEF Renaming, Ways, Behind, Covers
<1>7. ASSUME NEW i \in 1..Len(w) PROVE RenameStep(j, t, w, w[i])
  <2>1. i \in 1..Len(e) /\ w[i] = e[i]
    BY <1>3
  <2>2. PICK n \in Names :
          /\ Append(b, n) \in DOMAIN t /\ e[i].from = Append(b, n)
          /\ e[i].do = IF HasDir(t, Append(b, n)) THEN "newdir" ELSE "newname"
    BY <1>4, <2>1
  <2>3. CASE HasDir(t, Append(b, n))
    BY <1>2, <1>5, <2>1, <2>2, <2>3 DEF RenameStep
  <2>4. CASE ~HasDir(t, Append(b, n))
    <3> DEFINE r == Append(b, n)
    <3>1. r \in Files(t) /\ IsPrefix(b, r) /\ r \in Paths /\ b # r /\ Len(r) = Len(b) + 1
      BY <1>5, <2>2, <2>4 DEF Files, HasDir
    <3>2. t[r] \in Below(b)
      BY <3>1 DEF Renaming
    <3>3. r = t[r]
      BY <1>6, <3>1, <3>2 DEF Stands, Only, Files
    <3> HIDE DEF r
    <3>4. Moved(j, r) = r
      BY <1>2, <3>1, MovedIs
    <3>5. w[i].do = "newname" /\ w[i].from = r
      BY <2>1, <2>2, <2>4 DEF r
    <3> QED BY <3>2, <3>3, <3>4, <3>5 DEF RenameStep
  <2> QED BY <2>3, <2>4
<1>8. DirsOnce(w)
  BY <1>3 DEF DirsOnce, Listed
<1>9. ASSUME NEW p \in Below(b) PROVE Ways(j, t, w, p)
  <2>1. /\ p \in Paths /\ IsPrefix(b, p) /\ b # p
    BY BelowIs
  <2>2. ASSUME NEW i \in 1..Len(e), Covers(j, e[i], p)
        PROVE  /\ IsPrefix(e[i].from, p) /\ e[i].from \in Paths /\ Len(e[i].from) = Len(b) + 1
               /\ (Ahead(j, e[i], p) => Moved(j, p) = p /\ Known(j, p))
    <3>1. PICK n \in Names :
            /\ Append(b, n) \in DOMAIN t /\ e[i].from = Append(b, n)
            /\ e[i].do = IF HasDir(t, Append(b, n)) THEN "newdir" ELSE "newname"
      BY <1>4
    <3> DEFINE r == e[i].from
    <3>2. r \in Paths /\ Len(r) = Len(b) + 1 /\ e[i].do \in {"newdir", "newname"}
      BY <1>5, <3>1
    <3>3. Len(b) \in Nat /\ Len(p) \in Nat /\ Len(p) > Len(b)
      BY <1>2, <2>1, PathLen, ChildIs
    <3> HIDE DEF r
    <3>4. CASE e[i].do = "newdir"
      BY <2>2, <3>2, <3>4 DEF Covers, Behind, Ahead, r
    <3>5. CASE e[i].do = "newname"
      <4>1. r = Moved(j, p)
        BY <2>2, <3>5 DEF Covers, Behind, Ahead, r
      <4>2. Len(p) = Len(b) + 1
        BY <1>2, <2>1, <3>2, <4>1, MovedIs
      <4>3. Moved(j, p) = p
        BY <1>2, <2>1, <4>2, MovedIs
      <4>4. Known(j, p)
        BY <3>3, <4>2 DEF Known
      <4> QED BY <2>1, <3>2, <4>1, <4>3, <4>4, PrefixOrder DEF r
    <3> QED BY <3>2, <3>4, <3>5
  <2>3. ASSUME NEW i \in 1..Len(e), NEW h \in 1..Len(e), Covers(j, e[i], p), Covers(j, e[h], p)
        PROVE  i = h
    <3> DEFINE f == e[i].from
               g == e[h].from
    <3>1. /\ IsPrefix(f, p) /\ f \in Paths /\ Len(f) = Len(b) + 1
          /\ IsPrefix(g, p) /\ g \in Paths /\ Len(g) = Len(b) + 1
      BY <2>2, <2>3
    <3> HIDE DEF f, g
    <3>2. f = SubSeq(p, 1, Len(f)) /\ g = SubSeq(p, 1, Len(g))
      BY <2>1, <3>1, PrefixCut
    <3>3. f = g
      BY <3>1, <3>2
    <3> QED BY <3>3 DEF f, g, Listed
  <2>4. \E i \in 1..Len(e) : Covers(j, e[i], p)
    <3> DEFINE x == p[Len(b) + 1]
               r == Append(b, x)
    <3>1. x \in Names /\ r \in Paths /\ IsPrefix(r, p) /\ Len(r) = Len(b) + 1
      BY <1>2, <2>1, ChildIs
    <3> HIDE DEF x
    <3>2. p \in DOMAIN t /\ t[p] # Dir
      BY <1>6 DEF Stands, HasFile
    <3>3. r \in DOMAIN t /\ (r # p => t[r] = Dir)
      BY <3>1, <3>2, RootedAbove
    <3>4. PICK i \in 1..Len(e) : e[i].from = r
      BY <1>2, <3>1, <3>3 DEF Listed
    <3>5. e[i].do = IF HasDir(t, r) THEN "newdir" ELSE "newname"
      BY <1>4, <3>4
    <3>6. CASE r = p
      <4>1. Moved(j, p) = p
        BY <1>2, <2>1, <3>1, <3>6, MovedIs
      <4> QED BY <3>2, <3>4, <3>5, <3>6, <4>1 DEF Covers, Ahead, HasDir
    <3>7. CASE r # p
      BY <3>1, <3>3, <3>4, <3>5, <3>7 DEF Covers, Behind, HasDir
    <3> QED BY <3>6, <3>7
  <2>5. Stands(t, p, p) /\ Covers(j, s[1], p) /\ Ways(j, t, s, p)
    BY <1>6
  <2>6. \A i \in 1..Len(e) :
          /\ Behind(e[i], p) => Stands(t, p, p)
          /\ Ahead(j, e[i], p) => Stands(t, p, Moved(j, p)) /\ Known(j, p)
    BY <2>2, <2>5 DEF Covers
  <2> QED BY <2>3, <2>4, <2>5, <2>6, WaysOne
<1> QED BY <1>7, <1>8, <1>9 DEF Renaming

\* A step that adds none but for the names of a directory, and leaves the other
\* directories there, leaves steps of a renaming.
LEMMA StepsLeft ==
  ASSUME NEW j, NEW t, NEW u, NEW s, NEW e, NEW w, Renaming(j, t, s), Follows(s, e, w),
         s[1].do # "namesAndDirs",
         \A i \in 1..Len(e) : e[i].do = "names" /\ RenameStep(j, u, w, e[i]),
         \A i \in 2..Len(s) : s[i].do = "newdir" => HasDir(u, s[i].from)
  PROVE  DirsOnce(w) /\ \A i \in 1..Len(w) : RenameStep(j, u, w, w[i])
<1>1. 1 \in 1..Len(s) /\ \A i \in 2..Len(s) : i \in 1..Len(s) /\ i # 1 /\ Len(s) # 1
  BY DEF Follows
<1>2. DirsOnce(w)
  BY NoMoreDirs DEF Renaming
<1>3. ASSUME NEW i \in 1..Len(w) PROVE RenameStep(j, u, w, w[i])
  <2>1. CASE i \in 1..Len(e) /\ w[i] = e[i]
    BY <2>1
  <2>2. CASE \E h \in 2..Len(s) : w[i] = s[h]
    <3>1. PICK h \in 2..Len(s) : w[i] = s[h]
      BY <2>2
    <3>2. RenameStep(j, t, s, s[h])
      BY <1>1 DEF Renaming
    <3>3. s[h].do = "newdir" => HasDir(u, s[h].from)
      OBVIOUS
    <3> QED BY <1>1, <3>1, <3>2, <3>3 DEF RenameStep
  <2> QED BY <2>1, <2>2 DEF Follows
<1> QED BY <1>2, <1>3

\* A file has its new name.
LEMMA FileRenamed ==
  ASSUME NEW j, Fit(j), NEW t, Rooted(t), NEW s, NEW e, NEW w, Renaming(j, t, s), Follows(s, e, w),
         s[1].do = "newname", Last(s[1].from) \in DOMAIN NewName, Len(e) = 0,
         NEW q, q = Append(Front(s[1].from), NewName[Last(s[1].from)]), CanRename(t, s[1].from, q)
  PROVE  Renaming(j, Rename(t, s[1].from, q), w)
<1> DEFINE b == j.from
           m == s[1].from
           u == Rename(t, m, q)
<1>1. 1 \in 1..Len(s) /\ \A i \in 2..Len(s) : i \in 1..Len(s)
  BY DEF Follows
<1>2. PICK p \in Below(b) : Moved(j, p) = m
  BY <1>1 DEF Renaming, RenameStep
<1>3. /\ p \in Paths /\ IsPrefix(b, p) /\ b # p /\ p # Dir /\ p \in DOMAIN InitTree /\ b \in Paths
      /\ NoClash(b)
  BY BelowIs DEF Fit
<1>4. m \in Paths /\ Last(m) = Last(p) /\ Last(p) \in DOMAIN NewName
  <2>1. Moved(j, p) \in Paths /\ Last(Moved(j, p)) = Last(p)
    BY <1>3, MovedIs
  <2>2. Last(m) \in DOMAIN NewName
    OBVIOUS
  <2> HIDE DEF m
  <2> QED BY <1>2, <2>1, <2>2
<1>5. Ways(j, t, s, p) /\ Covers(j, s[1], p)
  BY <1>2 DEF Renaming, Covers, Ahead
<1>6. Stands(t, p, m) /\ Known(j, p)
  BY <1>1, <1>2, <1>5 DEF Ways, Ahead
<1>7. m \in DOMAIN t /\ t[m] = p
  BY <1>6 DEF Stands, HasFile
<1>8. q = NewPath(j, p) /\ q \in Paths /\ IsPrefix(b, q)
  <2>1. /\ NewPath(j, p) \in Paths /\ IsPrefix(b, NewPath(j, p))
        /\ NewPath(j, p) = Append(Front(Moved(j, p)), NewName[Last(p)])
    BY <1>3, <1>4, <1>6, NewPathIs
  <2>2. q = Append(Front(m), NewName[Last(m)])
    OBVIOUS
  <2> HIDE DEF m
  <2> QED BY <1>2, <1>4, <2>1, <2>2
\* Nothing has the new path: what is there would be a file of the start, too.
<1>9. q \notin DOMAIN t /\ m # q
  <2>1. m # q
    BY <1>2, <1>4, <1>6, <1>8, NewPathFree
  <2>2. ASSUME q \in DOMAIN t PROVE FALSE
    <3>1. t[q] # Dir
      BY <2>2 DEF CanRename, HasDir
    <3> DEFINE r == t[q]
    <3>2. r \in Below(b)
      BY <1>8, <2>2, <3>1 DEF Renaming, Files
    <3>3. Ways(j, t, s, r) /\ r \in DOMAIN InitTree /\ r \in Paths /\ IsPrefix(b, r) /\ b # r
      BY <3>2, BelowIs DEF Renaming
    <3> HIDE DEF r
    <3>4. t[q] = r
      BY DEF r
    <3>5. CASE q = r /\ \E i \in 1..Len(s) : Behind(s[i], r)
      <4>1. PICK i \in 1..Len(s) : Behind(s[i], r)
        BY <3>5
      <4>2. s[i].do = "namesAndDirs" => Len(s) = 1
        BY DEF Renaming, RenameStep
      <4>3. s[i].do = "newdir" /\ j.op = "RenameFilesAndDir"
        BY <1>1, <4>1, <4>2 DEF Behind, Renaming, RenameStep
      <4> DEFINE l == Len(b) + 1
                 x == p[l]
      <4>4. x \in DOMAIN NewName /\ q[l] = NewName[x]
        <5>1. p[l] \in DOMAIN NewName /\ NewPath(j, p)[l] = NewName[p[l]]
          BY <1>3, <1>4, <1>6, <4>3, NewPathIs
        <5> QED BY <1>8, <5>1
      <4>5. x \in Names /\ Append(b, x) \in DOMAIN InitTree
        BY BelowIs
      <4>6. Len(r) > Len(b) /\ r[l] \in Names
        BY <1>3, <3>3, ChildIs
      <4> HIDE DEF x, l
      <4>7. IsPrefix(Append(b, NewName[x]), r)
        BY <1>3, <3>3, <3>5, <4>4, <4>6, EntryAbove DEF l
      <4> QED BY <3>3, <4>4, <4>5, <4>7, NamesApart
    <3>6. CASE q = Moved(j, r) /\ Known(j, r)
      BY <1>4, <1>6, <1>8, <3>2, <3>6, NewPathFree
    <3>7. CASE q = NewPath(j, r) /\ Known(j, r) /\ Last(r) \in DOMAIN NewName
      <4>1. r = p
        BY <1>4, <1>6, <1>8, <3>2, <3>7, NewPathsApart
      <4> QED BY <1>6, <2>1, <2>2, <3>4, <4>1 DEF Stands, Only
    <3>8. \/ q = r /\ \E i \in 1..Len(s) : Behind(s[i], r)
          \/ q = Moved(j, r) /\ Known(j, r)
          \/ q = NewPath(j, r) /\ Known(j, r) /\ Last(r) \in DOMAIN NewName
      <4>1. Ways(j, t, s, r) /\ q \in DOMAIN t /\ t[q] = r
        BY <2>2, <3>3, <3>4
      <4>2. \A y \in DOMAIN t : t[y] = r =>
              \/ y = r /\ \E i \in 1..Len(s) : Behind(s[i], r)
              \/ y = Moved(j, r) /\ Known(j, r)
              \/ y = NewPath(j, r) /\ Known(j, r) /\ Last(r) \in DOMAIN NewName
        <5> SUFFICES ASSUME NEW y \in DOMAIN t, t[y] = r
                     PROVE  \/ y = r /\ \E i \in 1..Len(s) : Behind(s[i], r)
                            \/ y = Moved(j, r) /\ Known(j, r)
                            \/ y = NewPath(j, r) /\ Known(j, r) /\ Last(r) \in DOMAIN NewName
          OBVIOUS
        <5> QED BY ONLY <4>1, WhereIs, y \in DOMAIN t, t[y] = r
      <4> QED BY ONLY <4>1, <4>2
    <3> QED BY <3>5, <3>6, <3>7, <3>8
  <2> QED BY <2>1, <2>2
<1>10. Replaced(t, u, m, q)
  BY <1>3, <1>4, <1>7, <1>8, <1>9, RenameFile
<1> HIDE DEF u, m
<1>11. /\ DOMAIN u = (DOMAIN t \ {m}) \cup {q} /\ u[q] = p
       /\ \A r \in DOMAIN t \ {m} : u[r] = t[r]
  BY <1>7, <1>9, <1>10 DEF Replaced
<1>12. \A r \in Files(u) : IsPrefix(b, r) => u[r] \in Below(b)
  <2> SUFFICES ASSUME NEW r \in Files(u), IsPrefix(b, r) PROVE u[r] \in Below(b)
    OBVIOUS
  <2>1. CASE r = q
    BY <1>2, <1>11, <2>1
  <2>2. CASE r # q
    BY <1>11, <2>2 DEF Renaming, Files
  <2> QED BY <2>1, <2>2
<1>13. \A r \in Below(b) : Ways(j, u, w, r)
  <2> SUFFICES ASSUME NEW r \in Below(b) PROVE Ways(j, u, w, r)
    OBVIOUS
  <2>1. CASE r = p
    <3>1. Stands(u, p, q)
      BY <1>3, <1>6, <1>11 DEF Stands, HasFile, Only
    <3>2. Stands(u, p, NewPath(j, p))
      BY <1>8, <3>1
    <3>3. Ways(j, u, w, p)
      BY <1>4, <1>5, <1>6, <3>2, WaysDone
    <3> QED BY <2>1, <3>3
  <2>2. CASE r # p
    <3>1. Ways(j, t, s, r)
      BY DEF Renaming
    <3>2. ~Covers(j, s[1], r)
      <4>1. Ahead(j, s[1], r) => Stands(t, r, m)
        BY <1>1, <3>1 DEF Ways, Ahead, m
      <4> QED BY <1>7, <2>2, <4>1 DEF Covers, Behind, Stands
    <3>3. Carried(t, u, r)
      BY <1>7, <1>11, <2>2 DEF Carried, Stands, HasFile, Only
    <3>4. \A i \in 1..Len(e) : ~Covers(j, e[i], r)
      OBVIOUS
    <3> QED BY <3>1, <3>2, <3>3, <3>4, WaysKept
  <2> QED BY <2>1, <2>2
<1>14. DirsOnce(w) /\ \A i \in 1..Len(w) : RenameStep(j, u, w, w[i])
  <2>1. ASSUME NEW i \in 2..Len(s), s[i].do = "newdir" PROVE HasDir(u, s[i].from)
    <3>1. HasDir(t, s[i].from)
      BY <1>1, <2>1 DEF Renaming, RenameStep
    <3> QED BY <1>3, <1>7, <1>11, <3>1 DEF HasDir
  <2>2. \A i \in 1..Len(e) : e[i].do = "names" /\ RenameStep(j, u, w, e[i])
    OBVIOUS
  <2> QED BY <2>1, <2>2, StepsLeft
<1> QED BY <1>12, <1>13, <1>14 DEF Renaming, u, m

\* A directory has its new name: what is below it is at the path that it has
\* until it gets its own new name.
LEMMA DirRenamed ==
  ASSUME NEW j, Fit(j), NEW t, Rooted(t), NEW s, NEW e, NEW w, Renaming(j, t, s), Follows(s, e, w),
         s[1].do = "newdir", Last(s[1].from) \in DOMAIN NewName,
         NEW q, q = Append(Front(s[1].from), NewName[Last(s[1].from)]), CanRename(t, s[1].from, q),
         Len(e) = 1, e[1].do = "names", e[1].from = q
  PROVE  Renaming(j, Rename(t, s[1].from, q), w)
<1> DEFINE b == j.from
           m == s[1].from
           u == Rename(t, m, q)
           l == Len(b) + 1
<1>1. 1 \in 1..Len(s) /\ \A i \in 2..Len(s) : i \in 1..Len(s) /\ i # 1
  BY DEF Follows
<1>2. PICK n \in Names : m = Append(b, n) /\ m \in DOMAIN InitTree
  BY <1>1 DEF Renaming, RenameStep
<1>3. HasDir(t, m) /\ j.op = "RenameFilesAndDir" /\ b \in Paths
  BY <1>1 DEF Renaming, RenameStep, Fit
<1>4. /\ m \in Paths /\ Front(m) = b /\ Last(m) = n /\ Len(m) = l /\ IsPrefix(b, m)
      /\ n \in DOMAIN NewName /\ q = Append(b, NewName[n])
  <2>1. /\ m \in Paths /\ Front(m) = b /\ Last(m) = n /\ Len(m) = l /\ IsPrefix(b, m)
    BY <1>2, <1>3, EntryPath
  <2>2. Last(m) \in DOMAIN NewName /\ q = Append(Front(m), NewName[Last(m)])
    OBVIOUS
  <2> HIDE DEF m
  <2> QED BY <2>1, <2>2
<1>5. NewName[n] \in Names /\ q \notin DOMAIN InitTree
  BY <1>2, <1>4, NotTaken, TreesAssumption
<1>6. q \in Paths /\ IsPrefix(b, q) /\ Len(q) = l /\ m # q
  BY <1>2, <1>3, <1>4, <1>5, EntryPath
<1>7. /\ \A r \in Paths : IsPrefix(m, r) <=> IsPrefix(b, r) /\ Len(r) > Len(b) /\ r[l] = n
      /\ \A r \in Paths : IsPrefix(q, r) <=> IsPrefix(b, r) /\ Len(r) > Len(b) /\ r[l] = NewName[n]
  BY <1>2, <1>3, <1>4, <1>5, EntryAbove
<1>8. Len(b) \in Nat
  BY <1>3, PathLen
<1>9. q \notin DOMAIN t /\ ~IsPrefix(m, q) /\ DOMAIN t \subseteq Paths /\ m \in DOMAIN t /\ t[m] = Dir
  BY <1>3 DEF CanRename, HasDir, Rooted
<1>10. Renamed(t, u, m, q)
  BY <1>4, <1>6, RenameTree
<1> HIDE DEF u, m
<1>11. /\ \A r \in DOMAIN t : ~IsPrefix(m, r) => r \in DOMAIN u /\ u[r] = t[r]
       /\ \A r \in DOMAIN t : IsPrefix(m, r) => /\ Shift(m, q, r) \in DOMAIN u
                                                /\ u[Shift(m, q, r)] = t[r]
       /\ \A r \in DOMAIN u :
            \/ r \in DOMAIN t /\ ~IsPrefix(m, r) /\ u[r] = t[r]
            \/ \E x \in DOMAIN t : IsPrefix(m, x) /\ r = Shift(m, q, x) /\ u[r] = t[x]
  BY <1>9, <1>10 DEF Renamed, Under
<1>12. \A r \in Files(u) : IsPrefix(b, r) => u[r] \in Below(b)
  <2> SUFFICES ASSUME NEW r \in Files(u), IsPrefix(b, r) PROVE u[r] \in Below(b)
    OBVIOUS
  <2>1. \A x \in Files(t) : IsPrefix(b, x) => t[x] \in Below(b)
    BY DEF Renaming
  <2>2. CASE r \in DOMAIN t /\ u[r] = t[r]
    BY <2>1, <2>2 DEF Files
  <2>3. CASE \E x \in DOMAIN t : IsPrefix(m, x) /\ u[r] = t[x]
    <3>1. PICK x \in DOMAIN t : IsPrefix(m, x) /\ u[r] = t[x]
      BY <2>3
    <3>2. x \in Files(t) /\ IsPrefix(b, x)
      BY <1>7, <1>9, <3>1 DEF Files
    <3> QED BY <2>1, <3>1, <3>2
  <2> QED BY <1>11, <2>2, <2>3 DEF Files
<1>13. DirsOnce(w) /\ \A i \in 1..Len(w) : RenameStep(j, u, w, w[i])
  <2>1. ASSUME NEW i \in 2..Len(s), s[i].do = "newdir" PROVE HasDir(u, s[i].from)
    <3> DEFINE d == s[i].from
    <3>1. HasDir(t, d) /\ \E x \in Names : d = Append(b, x)
      BY <1>1, <2>1 DEF Renaming, RenameStep
    <3>2. d # m
      BY <1>1, <2>1 DEF Renaming, DirsOnce, m
    <3>3. d \in Paths /\ Len(d) = l
      BY <1>3, <3>1, EntryPath
    <3> HIDE DEF d
    <3>4. ~IsPrefix(m, d)
      BY <1>4, <1>8, <3>2, <3>3, PrefixCut
    <3>5. HasDir(u, d)
      BY <1>11, <3>1, <3>4 DEF HasDir
    <3> QED BY <3>5 DEF d
  <2>2. \A i \in 1..Len(e) : e[i].do = "names" /\ RenameStep(j, u, w, e[i])
    <3>1. IsPrefix(q, q)
      BY <1>6, PrefixOrder
    <3>2. n \in DOMAIN NewName \cap Names /\ Append(b, n) \in DOMAIN InitTree
          /\ IsPrefix(Append(b, NewName[n]), q)
      BY <1>2, <1>4, <3>1
    <3>3. RenameStep(j, u, w, e[1])
      BY <1>6, <3>2 DEF RenameStep
    <3> QED BY <3>3
  <2> QED BY <2>1, <2>2, StepsLeft
<1>14. \A r \in Below(b) : Ways(j, u, w, r)
  <2> SUFFICES ASSUME NEW r \in Below(b) PROVE Ways(j, u, w, r)
    OBVIOUS
  <2> DEFINE o == Moved(j, r)
  <2>1. /\ r \in Paths /\ IsPrefix(b, r) /\ b # r /\ r \in DOMAIN InitTree /\ r # Dir
        /\ r[l] \in Names /\ Append(b, r[l]) \in DOMAIN InitTree
    BY BelowIs
  <2>2. Len(r) > Len(b) /\ Len(r) \in Nat
    BY <1>3, <2>1, ChildIs, PathLen
  <2>3. /\ o \in Paths /\ Len(o) = Len(r) /\ IsPrefix(b, o)
        /\ \A i \in 1..Len(r) : i # l => o[i] = r[i]
        /\ o[l] = IF Len(r) > l /\ r[l] \in DOMAIN NewName THEN NewName[r[l]] ELSE r[l]
    BY <1>3, <2>1, MovedIs
  <2>4. Ways(j, t, s, r)
    BY DEF Renaming
  <2> HIDE DEF o, l
  <2>5. CASE IsPrefix(m, r)
    <3>1. Behind(s[1], r)
      BY <2>5 DEF Behind, m
    <3>2. Stands(t, r, r)
      BY <1>1, <2>4, <3>1 DEF Ways
    <3>3. r \in DOMAIN t /\ t[r] = r /\ r # m /\ r[l] = n
      BY <1>7, <1>9, <2>1, <2>5, <3>2 DEF Stands, HasFile
    <3>4. Len(r) > l
      BY <1>4, <2>1, <2>5, <3>3, PrefixCut
    <3>5. Shift(m, q, r) = o
      <4> DEFINE z == Shift(m, q, r)
      <4>1. /\ z \in Paths /\ Len(z) = Len(q) + Len(r) - Len(m)
            /\ \A i \in 1..Len(q) : z[i] = q[i]
            /\ \A i \in Len(q) + 1..Len(q) + Len(r) - Len(m) : z[i] = r[i - Len(q) + Len(m)]
        BY <1>4, <1>6, <2>1, <2>5, ShiftPath
      <4> HIDE DEF z
      <4>2. \A i \in 1..Len(b) : q[i] = b[i] /\ r[i] = b[i]
        BY <1>3, <1>6, <2>1, PrefixIs
      <4>3. q[l] = NewName[n] /\ o[l] = NewName[n]
        <5>1. IsPrefix(q, q)
          BY <1>6, PrefixOrder
        <5> QED BY <1>4, <1>6, <1>7, <2>3, <3>3, <3>4, <5>1
      <4>4. Len(q) = l /\ Len(m) = l /\ l \in Nat
        BY <1>4, <1>6, <1>8 DEF l
      <4>5. ASSUME NEW i \in 1..Len(r) PROVE z[i] = o[i]
        <5>1. CASE i <= Len(b)
          <6>1. i \in 1..Len(b) /\ i \in 1..Len(q) /\ i # l
            BY <1>8, <2>2, <4>4, <5>1 DEF l
          <6>2. z[i] = q[i] /\ q[i] = b[i] /\ r[i] = b[i] /\ o[i] = r[i]
            BY <2>3, <4>1, <4>2, <6>1
          <6> QED BY <6>2
        <5>2. CASE i = l
          <6>1. i \in 1..Len(q)
            BY <1>8, <4>4, <5>2 DEF l
          <6>2. z[i] = q[i]
            BY <4>1, <6>1
          <6> QED BY <4>3, <5>2, <6>2
        <5>3. CASE i > l
          <6>1. i \in Len(q) + 1..Len(q) + Len(r) - Len(m) /\ i - Len(q) + Len(m) = i /\ i # l
            BY ONLY <2>2, <4>4, <5>3, i \in 1..Len(r)
          <6> QED BY <2>3, <4>1, <6>1
        <5>4. i <= Len(b) \/ i = l \/ i > l
          <6>1. Len(b) \in Nat /\ l = Len(b) + 1 /\ Len(r) \in Nat
            BY <1>8, <2>2 DEF l
          <6> QED BY ONLY <6>1, i \in 1..Len(r)
        <5> QED BY <5>1, <5>2, <5>3, <5>4
      <4>6. Len(z) = Len(r)
        <5>1. Len(z) = Len(q) + Len(r) - Len(m)
          BY <4>1
        <5> QED BY ONLY <2>2, <4>4, <5>1
      <4>7. z = o
        <5>1. /\ z \in Paths /\ o \in Paths /\ Len(z) = Len(o)
              /\ \A i \in 1..Len(z) : z[i] = o[i]
          BY <2>3, <4>1, <4>5, <4>6
        <5> QED BY ONLY <5>1, PathEqual
      <4> QED BY <4>7 DEF z
    <3>6. Stands(u, r, o)
      <4>1. o \in DOMAIN u /\ u[o] = r
        BY <1>11, <2>5, <3>3, <3>5
      <4>2. ASSUME NEW x \in DOMAIN u, u[x] = r PROVE x = o
        <5>1. \A y \in DOMAIN t : t[y] = r => y = r
          BY <3>2 DEF Stands, Only
        <5> QED BY <1>11, <2>5, <3>5, <4>2, <5>1
      <4> QED BY <2>1, <4>1, <4>2 DEF Stands, HasFile, Only
    <3>7. Known(j, r)
      BY <1>4, <3>3 DEF Known, l
    <3>8. IsPrefix(q, o) /\ q # o
      <4> DEFINE z == Shift(m, q, r)
      <4>1. IsPrefix(q, z) /\ (r = m <=> z = q)
        BY <1>4, <1>6, <2>1, <2>5, ShiftBack
      <4> HIDE DEF z
      <4>2. z = o
        BY <3>5 DEF z
      <4> QED BY <3>3, <4>1, <4>2
    <3>9. Ahead(j, e[1], r) /\ ~Behind(e[1], r)
      BY <3>8 DEF Ahead, Behind, o
    <3>10. /\ Covers(j, s[1], r) /\ \E i \in 1..Len(e) : Covers(j, e[i], r)
           /\ \A i, h \in 1..Len(e) : Covers(j, e[i], r) /\ Covers(j, e[h], r) => i = h
           /\ \A i \in 1..Len(e) :
                /\ Behind(e[i], r) => Stands(u, r, r)
                /\ Ahead(j, e[i], r) => Stands(u, r, Moved(j, r)) /\ Known(j, r)
      BY <3>1, <3>6, <3>7, <3>9 DEF Covers, o
    <3>11. Follows(s, e, w)
      OBVIOUS
    <3> QED BY ONLY <2>4, <3>10, <3>11, WaysOne
  <2>6. CASE ~IsPrefix(m, r)
    <3>1. ~Covers(j, s[1], r)
      BY <2>6 DEF Covers, Behind, Ahead, m
    <3>2. r[l] # n
      BY <1>7, <2>1, <2>2, <2>6
    <3>3. ~Covers(j, e[1], r)
      <4>1. ~Behind(e[1], r)
        BY DEF Behind
      <4>2. ASSUME IsPrefix(q, o), q # o PROVE FALSE
        <5>1. o[l] = NewName[n]
          BY <1>7, <2>3, <4>2
        <5>2. CASE Len(r) > l /\ r[l] \in DOMAIN NewName
          BY <1>4, <2>3, <3>2, <5>1, <5>2, TreesAssumption
        <5>3. CASE ~(Len(r) > l /\ r[l] \in DOMAIN NewName)
          <6>1. r[l] = NewName[n]
            BY <2>3, <5>1, <5>3
          <6>2. IsPrefix(q, r)
            BY <1>7, <2>1, <2>2, <6>1
          <6> QED BY <1>2, <1>4, <2>1, <6>2, NamesApart
        <5> QED BY <5>2, <5>3
      <4>3. ~Ahead(j, e[1], r)
        BY <4>2 DEF Ahead, o
      <4> QED BY <4>1, <4>3 DEF Covers
    <3>4. ASSUME NEW y, Stands(t, r, y) PROVE ~IsPrefix(m, y)
      <4>1. y \in DOMAIN t /\ t[y] = r /\ y \in Paths
        BY <1>9, <3>4 DEF Stands, HasFile
      <4>2. \/ y = r
            \/ y = o
            \/ y = NewPath(j, r) /\ Known(j, r) /\ Last(r) \in DOMAIN NewName
        <5>1. \A x \in DOMAIN t : t[x] = r =>
                \/ x = r
                \/ x = o
                \/ x = NewPath(j, r) /\ Known(j, r) /\ Last(r) \in DOMAIN NewName
          <6> SUFFICES ASSUME NEW x \in DOMAIN t, t[x] = r
                       PROVE  \/ x = r
                              \/ x = o
                              \/ x = NewPath(j, r) /\ Known(j, r) /\ Last(r) \in DOMAIN NewName
            OBVIOUS
          <6> QED BY ONLY <2>4, WhereIs, x \in DOMAIN t, t[x] = r DEF o
        <5> QED BY <4>1, <5>1
      <4>3. r[l] \in DOMAIN NewName => NewName[r[l]] # n
        BY <1>2, <2>1, NotTaken DEF m, l
      <4>4. y[l] # n
        <5>1. CASE y = r
          BY <3>2, <5>1
        <5>2. CASE y = o
          BY <2>3, <3>2, <4>3, <5>2
        <5>3. CASE y = NewPath(j, r) /\ Known(j, r) /\ Last(r) \in DOMAIN NewName
          <6>1. r[l] \in DOMAIN NewName /\ NewPath(j, r)[l] = NewName[r[l]]
            BY <1>3, <2>1, <5>3, NewPathIs DEF l
          <6> QED BY <4>3, <5>3, <6>1
        <5> QED BY <4>2, <5>1, <5>2, <5>3
      <4> QED BY <1>7, <4>1, <4>4
    <3>5. ASSUME NEW y, Stands(t, r, y) PROVE Stands(u, r, y)
      <4>1. y \in DOMAIN t /\ t[y] = r /\ r # Dir /\ \A z \in DOMAIN t : t[z] = r => z = y
        BY <3>5 DEF Stands, HasFile, Only
      <4>2. ~IsPrefix(m, y)
        BY <3>4, <3>5
      <4>3. y \in DOMAIN u /\ u[y] = r
        BY <1>11, <4>1, <4>2
      <4>4. ASSUME NEW x \in DOMAIN u, u[x] = r PROVE x = y
        BY <1>11, <4>1, <4>2, <4>4
      <4> QED BY <4>1, <4>3, <4>4 DEF Stands, HasFile, Only
    <3>6. Carried(t, u, r) /\ \A i \in 1..Len(e) : ~Covers(j, e[i], r)
      BY <3>3, <3>5 DEF Carried
    <3>7. Follows(s, e, w)
      OBVIOUS
    <3> QED BY ONLY <2>4, <3>1, <3>6, <3>7, WaysKept
  <2> QED BY <2>5, <2>6
<1> QED BY <1>12, <1>13, <1>14 DEF Renaming, u, m

\* What a renaming does: it reads a directory, or gives a new name.
LEMMA RenameActs ==
  ASSUME NEW c \in Calls, Acts(c), todo[c][1].do \in {"namesAndDirs", "names", "newname", "newdir"}
  PROVE  Refused(c) \/ RenameEntries(c) \/ RenameOne(c)
BY DEF Acts, Refused, CopyNext, CopyOpen, CopyFolder, CopyCreate, CopyData, CopyCheck,
       CopyDir, CopyEntries, CopyTpl, CopyFsDir, CopyFsFolder, CopyFsFile, WriteContent, Move,
       RenameEntries, RenameOne, LookUp, Make, Unlink, Mkdir, Home, EditOpen, EditTemp,
       EditRead, EditFlush, EditCleanup, WriteLook, WriteMake, WriteOpen, WriteEnd, Does

\* What RenamedOnce is about is settled by the calls, but for an error.
LEMMA StillOwn ==
  ASSUME NEW c \in Calls, Own2(c)', job' = job, out[c] # "error"
  PROVE  Own2(c)
BY DEF Own2, Quiet

\* Such a renaming writes below one directory only.
LEMMA OwnFits ==
  ASSUME NEW c \in Calls, FilesInv, Own2(c)
  PROVE  /\ job[c].from \in Paths /\ Writes(job[c]) = {job[c].from}
         /\ HasDir(InitTree, job[c].from) => Fit(job[c])
<1>1. job[c] \in Jobs /\ job[c].op \in {"RenameFiles", "RenameFilesAndDir"}
  BY WritesPaths DEF Own2, Renames
<1>2. job[c].from \in Paths
  BY <1>1, TreesAssumption DEF Operations
<1>3. Writes(job[c]) = {job[c].from}
  BY <1>1 DEF Writes
<1> QED BY <1>2, <1>3 DEF Fit, Own2

\* A step of the renaming itself.
LEMMA RenameOwn ==
  ASSUME NEW c \in Calls, FilesInv, AllSeqs, Acts(c), Own2(c), Own2(c)', RenameAt(c)
  PROVE  RenameAt(c)'
<1> DEFINE j == job[c]
           s == todo[c]
           w == todo'[c]
           b == job[c].from
           m == todo[c][1].from
<1>1. /\ NewSteps(c) /\ job' = job /\ out[c] = "run"
      /\ \A k \in Calls \ {c} : todo'[k] = todo[k] /\ out'[k] = out[k]
  BY ActChanges
<1>2. /\ s # <<>> /\ AnySeq(s) /\ StepOK(c, s[1]) /\ Len(s) \in Nat /\ Len(s) > 0
      /\ DOMAIN todo = Calls /\ out \in [Calls -> {"run", "nil", "error"}]
  BY <1>1, FirstStepOK
<1>3. ~Refused(c)
  BY <1>2, RefusedTodo DEF Own2
<1>4. Rooted(tree)
  BY DEF FilesInv
<1>5. b \in Paths
  BY OwnFits
<1>6. CASE HasDir(InitTree, b)
  <2>1. Fit(j) /\ Renaming(j, tree, s) /\ \A p \in Below(b) : Kept(c, p)
    BY <1>6, OwnFits DEF RenameAt
  <2>2. 1 \in 1..Len(s) /\ RenameStep(j, tree, s, s[1])
    BY <1>2, <2>1 DEF Renaming
  <2>3. s[1].do \in {"namesAndDirs", "names", "newname", "newdir"}
    BY <2>2 DEF RenameStep
  <2>4. RenameEntries(c) \/ RenameOne(c)
    BY <1>3, <2>3, RenameActs
  <2>5. m \in Paths
    BY <1>2, <2>3 DEF StepOK, Reach
\* What is left to prove.
  <2>6. ASSUME Renaming(j, tree', w), UNCHANGED data
        PROVE  RenameAt(c)'
    <3>1. \A p \in Below(b) : Kept(c, p)'
      BY <1>1, <2>1, <2>6 DEF Kept
    <3>2. job'[c] = j /\ job'[c].from = b
      BY <1>1
    <3> QED BY <1>6, <2>6, <3>1, <3>2 DEF RenameAt
  <2>7. CASE RenameEntries(c)
    <3>1. HasDir(tree, m) /\ UNCHANGED <<tree, data>>
      BY <2>7 DEF RenameEntries, From, fs
    <3>2. ASSUME NEW dir, GoesOn(c, Entries(tree, m, m, dir, "newname")),
                 \/ s[1].do = "names" /\ dir = "names"
                 \/ s[1].do = "namesAndDirs" /\ dir = "newdir"
          PROVE  Renaming(j, tree, w)
      <4> DEFINE e == Entries(tree, m, m, dir, "newname")
      <4>1. Listed(tree, m, e, dir)
        BY <2>5, EntriesListed
      <4>2. GoesOn(c, e)
        BY <3>2
      <4> HIDE DEF e
      <4>3. AnySeq(e)
        BY <4>1 DEF Listed
      <4>4. Follows(s, e, w)
        BY <1>1, <4>2, <4>3, GoesOnFollows
      <4>5. Fit(j) /\ Rooted(tree) /\ Renaming(j, tree, s) /\ HasDir(tree, s[1].from)
        BY <1>4, <2>1, <3>1
      <4>6. CASE s[1].do = "names" /\ dir = "names"
        <5>1. Listed(tree, s[1].from, e, "names")
          BY <4>1, <4>6
        <5> QED BY ONLY <4>4, <4>5, <4>6, <5>1, NamesListed
      <4>7. CASE s[1].do = "namesAndDirs" /\ dir = "newdir"
        <5>1. Listed(tree, s[1].from, e, "newdir")
          BY <4>1, <4>7
        <5> QED BY ONLY <4>4, <4>5, <4>7, <5>1, DirsListed
      <4> QED BY <3>2, <4>6, <4>7
    <3>3. CASE s[1].do = "names"
      <4>1. GoesOn(c, Entries(tree, m, m, "names", "newname"))
        BY <2>7, <3>3 DEF RenameEntries, From, Does
      <4>2. Renaming(j, tree, w)
        BY <3>2, <3>3, <4>1
      <4> QED BY <2>6, <3>1, <4>2
    <3>4. CASE s[1].do = "namesAndDirs"
      <4>1. GoesOn(c, Entries(tree, m, m, "newdir", "newname"))
        BY <2>7, <3>4 DEF RenameEntries, From, Does
      <4>2. Renaming(j, tree, w)
        BY <3>2, <3>4, <4>1
      <4> QED BY <2>6, <3>1, <4>2
    <3>5. s[1].do \in {"names", "namesAndDirs"}
      BY <2>7 DEF RenameEntries, Does
    <3> QED BY <3>3, <3>4, <3>5
  <2>8. CASE RenameOne(c)
    <3> DEFINE q == Append(Front(m), NewName[Last(m)])
    <3>1. /\ s[1].do \in {"newname", "newdir"} /\ Last(m) \in DOMAIN NewName
          /\ CanRename(tree, m, q) /\ tree' = Rename(tree, m, q) /\ UNCHANGED data
          /\ s[1].do = "newname" => GoesOn(c, <<>>)
          /\ s[1].do = "newdir" => GoesOn(c, <<Step("names", q, q)>>)
      BY <2>3, <2>8 DEF RenameOne, From, Does
    <3>2. q = Append(Front(s[1].from), NewName[Last(s[1].from)])
      OBVIOUS
    <3> HIDE DEF q
    <3>3. CASE s[1].do = "newname"
      <4> DEFINE e == <<>>
      <4>1. AnySeq(e) /\ Len(e) = 0 /\ GoesOn(c, e)
        BY <3>1, <3>3, Short
      <4> HIDE DEF e
      <4>2. Follows(s, e, w)
        BY <1>1, <4>1, GoesOnFollows
      <4>3. /\ Fit(j) /\ Rooted(tree) /\ Renaming(j, tree, s) /\ Last(s[1].from) \in DOMAIN NewName
            /\ CanRename(tree, s[1].from, q)
        BY <1>4, <2>1, <3>1
      <4>4. Renaming(j, Rename(tree, s[1].from, q), w)
        BY ONLY <3>2, <3>3, <4>1, <4>2, <4>3, FileRenamed
      <4>5. Renaming(j, tree', w)
        BY <3>1, <4>4
      <4> QED BY <2>6, <3>1, <4>5
    <3>4. CASE s[1].do = "newdir"
      <4> DEFINE e == <<Step("names", q, q)>>
      <4>1. AnySeq(e) /\ Len(e) = 1 /\ GoesOn(c, e) /\ e[1] = Step("names", q, q)
        BY <3>1, <3>4, Short
      <4> HIDE DEF e
      <4>2. e[1].do = "names" /\ e[1].from = q
        BY <4>1 DEF Step
      <4>3. Follows(s, e, w)
        BY <1>1, <4>1, GoesOnFollows, SMTT(30)
      <4>4. /\ Fit(j) /\ Rooted(tree) /\ Renaming(j, tree, s) /\ Last(s[1].from) \in DOMAIN NewName
            /\ CanRename(tree, s[1].from, q)
        BY <1>4, <2>1, <3>1
      <4>5. Renaming(j, Rename(tree, s[1].from, q), w)
        BY ONLY <3>2, <3>4, <4>1, <4>2, <4>3, <4>4, DirRenamed
      <4>6. Renaming(j, tree', w)
        BY <3>1, <4>5
      <4> QED BY <2>6, <3>1, <4>6
    <3> QED BY <3>1, <3>3, <3>4
  <2> QED BY <2>4, <2>7, <2>8
\* There is nothing to read.
<1>7. CASE ~HasDir(InitTree, b)
  <2>1. ~HasDir(tree, b) /\ s[1].do \in {"names", "namesAndDirs"} /\ m = b
    BY <1>7 DEF RenameAt
  <2>2. ~RenameEntries(c) /\ ~RenameOne(c)
    BY <2>1 DEF RenameEntries, RenameOne, From, Does
  <2> QED BY <1>3, <2>1, <2>2, RenameActs
<1> QED BY <1>6, <1>7

\* A file that is being renamed is below the directory.
LEMMA StandsBelow ==
  ASSUME NEW j, Fit(j), NEW t, NEW s, NEW p \in Below(j.from), Ways(j, t, s, p)
  PROVE  \E q \in Paths : IsPrefix(j.from, q) /\ Stands(t, p, q)
<1>1. /\ j.from \in Paths /\ p \in Paths /\ IsPrefix(j.from, p) /\ j.from # p
  BY BelowIs
<1>2. Moved(j, p) \in Paths /\ IsPrefix(j.from, Moved(j, p))
  BY <1>1, MovedIs
<1>3. Known(j, p) /\ Last(p) \in DOMAIN NewName =>
        NewPath(j, p) \in Paths /\ IsPrefix(j.from, NewPath(j, p))
  BY <1>1, NewPathIs
<1>4. CASE \E i \in 1..Len(s) : Behind(s[i], p)
  BY <1>1, <1>4 DEF Ways
<1>5. CASE \E i \in 1..Len(s) : Ahead(j, s[i], p)
  BY <1>2, <1>5 DEF Ways
<1>6. CASE \A i \in 1..Len(s) : ~Covers(j, s[i], p)
  BY <1>3, <1>6 DEF Ways
<1> QED BY <1>4, <1>5, <1>6 DEF Covers

\* A step of another call.
LEMMA RenameOther ==
  ASSUME NEW c \in Calls, NEW k \in Calls \ {c}, FilesInv, FilesInv', AllSeqs, Acts(k), Own2(c),
         RenameAt(c)
  PROVE  RenameAt(c)'
<1> DEFINE j == job[c]
           s == todo[c]
           b == job[c].from
<1>1. /\ Changes(k) /\ job' = job /\ out[k] = "run"
      /\ \A i \in Calls \ {k} : todo'[i] = todo[i] /\ out'[i] = out[i]
  BY ActChanges
<1>2. b \in Paths
  BY OwnFits
<1>3. ASSUME NEW p \in Paths, IsPrefix(b, p) PROVE ~Meets(Writes(job[k]), {p})
  <2>1. Writes(job[k]) \subseteq Paths
    BY WritesPaths
  <2>2. \A x \in Writes(job[k]) : ~IsPrefix(x, b) /\ ~IsPrefix(b, x)
    BY DEF Own2, Quiet, Meets
  <2>3. ASSUME NEW x \in Writes(job[k]) PROVE ~IsPrefix(x, p) /\ ~IsPrefix(p, x)
    BY <1>2, <1>3, <2>1, <2>2, PrefixOrder
  <2> QED BY <2>3 DEF Meets
<1>4. ASSUME NEW p \in Paths, IsPrefix(b, p)
      PROVE  (p \in DOMAIN tree' <=> p \in DOMAIN tree) /\ (p \in DOMAIN tree => tree'[p] = tree[p])
  BY <1>1, <1>3, <1>4, TreeFrame
<1>5. IsPrefix(b, b)
  BY <1>2, PrefixOrder
<1>6. CASE HasDir(InitTree, b)
  <2>1. Fit(j) /\ Renaming(j, tree, s) /\ \A p \in Below(b) : Kept(c, p)
    BY <1>6, OwnFits DEF RenameAt
  <2>2. ASSUME NEW p \in Below(b)
        PROVE  Carried(tree, tree', p) /\ Kept(c, p)'
    <3>1. Ways(j, tree, s, p)
      BY <2>1 DEF Renaming
    <3>2. PICK q \in Paths : IsPrefix(b, q) /\ Stands(tree, p, q)
      BY <2>1, <3>1, StandsBelow
    <3>3. /\ p \in Paths /\ p # Dir /\ InitTree[p] # Dir /\ p \in DOMAIN InitTree
      BY <2>1, BelowIs
    <3>4. p \notin Calls \X Paths
      BY <3>3, TreesAssumption DEF Files
    <3>5. ~Meets(Writes(job[k]), {q})
      BY <1>3, <3>2
    <3>6. Only(tree, p, q) /\ q \in DOMAIN tree /\ tree[q] = p
      BY <3>2 DEF Stands, HasFile
    <3>7. Apart(todo[k], p) /\ p \in DOMAIN data /\ data[p] = InitText[p]
      BY <2>1 DEF Kept
    <3>8. \A r \in Paths : Reach(k, r) => p # <<k, r>>
      BY <3>4
    <3>9. /\ Only(tree', p, q) /\ Apart(todo'[k], p)
          /\ p \in DOMAIN data' /\ data'[p] = data[p]
          /\ q \in DOMAIN tree' /\ tree'[q] = tree[q]
      BY <3>3, <3>5, <3>6, <3>7, <3>8, NodeAlone
    <3>10. Carried(tree, tree', p)
      <4>1. Stands(tree', p, q)
        BY <3>3, <3>6, <3>9 DEF Stands, HasFile
      <4>2. \A y : Stands(tree, p, y) => y = q
        BY <3>6 DEF Stands, HasFile, Only
      <4> QED BY <4>1, <4>2 DEF Carried
    <3>11. \A i \in Calls \ {c} : Apart(todo'[i], p)
      <4>1. \A i \in Calls \ {c} : i = k \/ Apart(todo'[i], p)
        <5> SUFFICES ASSUME NEW i \in Calls \ {c}, i # k PROVE Apart(todo'[i], p)
          OBVIOUS
        <5>1. todo'[i] = todo[i]
          BY <1>1
        <5>2. Apart(todo[i], p)
          BY <2>1 DEF Kept
        <5> QED BY <5>1, <5>2
      <4> QED BY <3>9, <4>1
    <3>12. Kept(c, p)'
      BY <3>7, <3>9, <3>11 DEF Kept
    <3> QED BY <3>10, <3>12
  <2>3. \A q \in Files(tree') : IsPrefix(b, q) => tree'[q] \in Below(b)
    <3> SUFFICES ASSUME NEW q \in Files(tree'), IsPrefix(b, q) PROVE tree'[q] \in Below(b)
      OBVIOUS
    <3>1. q \in DOMAIN tree' /\ tree'[q] # Dir /\ q \in Paths
      BY DEF Files, FilesInv, Rooted
    <3>2. q \in Files(tree) /\ tree'[q] = tree[q]
      BY <1>4, <3>1, SMTT(30) DEF Files
    <3> QED BY <2>1, <3>2 DEF Renaming
  <2>4. ASSUME NEW i \in 1..Len(s) PROVE RenameStep(j, tree', s, s[i])
    <3>1. RenameStep(j, tree, s, s[i])
      BY <2>1 DEF Renaming
    <3>2. (\A q \in DOMAIN tree : IsPrefix(b, q) => q \in DOMAIN InitTree)
            => \A q \in DOMAIN tree' : IsPrefix(b, q) => q \in DOMAIN InitTree
      <4>1. DOMAIN tree' \subseteq Paths
        BY DEF FilesInv, Rooted
      <4> QED BY <1>4, <4>1
    <3>3. ASSUME NEW n \in Names, HasDir(tree, Append(b, n)) PROVE HasDir(tree', Append(b, n))
      <4> DEFINE d == Append(b, n)
      <4>1. d \in Paths /\ IsPrefix(b, d)
        BY <1>2, EntryPath
      <4>2. HasDir(tree, d)
        BY <3>3
      <4> HIDE DEF d
      <4>3. HasDir(tree', d)
        BY <1>4, <4>1, <4>2 DEF HasDir
      <4> QED BY <4>3 DEF d
    <3> QED BY <3>1, <3>2, <3>3 DEF RenameStep
  <2>5. ASSUME NEW p \in Below(b) PROVE Ways(j, tree', s, p)
    <3>1. Ways(j, tree, s, p) /\ Carried(tree, tree', p)
      BY <2>1, <2>2 DEF Renaming
    <3> QED BY <3>1 DEF Ways, Carried
  <2>6. Renaming(j, tree', s)
    BY <2>1, <2>3, <2>4, <2>5 DEF Renaming
  <2>7. job'[c] = j /\ job'[c].from = b /\ todo'[c] = s
    BY <1>1
  <2> QED BY <1>6, <2>2, <2>6, <2>7 DEF RenameAt
<1>7. CASE ~HasDir(InitTree, b)
  <2>1. /\ ~HasDir(tree, b) /\ out[c] = "run"
        /\ s[1].do \in {"names", "namesAndDirs"} /\ s[1].from = b
    BY <1>7 DEF RenameAt
  <2>2. ~HasDir(tree', b)
    BY <1>2, <1>4, <1>5, <2>1 DEF HasDir
  <2>3. job'[c] = j /\ job'[c].from = b /\ todo'[c] = s /\ out'[c] = out[c]
    BY <1>1
  <2> QED BY <1>7, <2>1, <2>2, <2>3 DEF RenameAt
<1> QED BY <1>6, <1>7

\* Before the first step of a renaming all files are where they were,
LEMMA RenameInit ==
  ASSUME EditsInit, FilesInv
  PROVE  RenameInv
<1> SUFFICES ASSUME NEW c \in Calls, Own2(c) PROVE RenameAt(c)
  BY DEF RenameInv
<1> DEFINE j == job[c]
           s == todo[c]
           b == job[c].from
<1>1. tree = InitTree /\ data = InitText
  BY DEF EditsInit
<1>2. /\ \A k \in Calls : out[k] = "run" /\ todo[k][1].do \notin Handles
      /\ \A k \in Calls : \A i \in 1..Len(todo[k]) : i = 1
      /\ Len(s) = 1 /\ s[1] = FirstStep(j)
  BY AtStart
<1>3. j.op \in {"RenameFiles", "RenameFilesAndDir"}
  BY DEF Own2, Renames
<1>4. /\ s[1].do = (IF j.op = "RenameFilesAndDir" THEN "namesAndDirs" ELSE "names")
      /\ s[1].from = b
  <2>1. FirstStep(j) = First(j)
    BY <1>3 DEF FirstStep, Insertion, Writing
  <2>2. CASE j.op = "RenameFiles"
    <3>1. First(j) = Step("names", j.from, j.to)
      BY <2>2 DEF First
    <3> QED BY <1>2, <2>1, <2>2, <3>1 DEF Step
  <2>3. CASE j.op = "RenameFilesAndDir"
    <3>1. First(j) = Step("namesAndDirs", j.from, j.to)
      BY <2>3 DEF First
    <3> QED BY <1>2, <2>1, <2>3, <3>1 DEF Step
  <2> QED BY <1>3, <2>2, <2>3
<1>5. b \in Paths
  BY OwnFits
<1> HIDE DEF j, s, b
<1>6. CASE HasDir(InitTree, b)
  <2>1. Fit(j)
    BY <1>6, OwnFits DEF j, b
  <2>2. b = j.from
    BY DEF j, b
  <2>3. ASSUME NEW p \in Below(b)
        PROVE  /\ p \in DOMAIN tree /\ tree[p] = p /\ Stands(tree, p, p) /\ p \in Paths
               /\ IsPrefix(b, p) /\ b # p /\ p \in DOMAIN InitText /\ InitTree[p] # Dir
    <3>1. /\ p \in DOMAIN InitTree /\ p # Dir /\ p \in Paths /\ IsPrefix(b, p) /\ b # p
          /\ InitTree[p] # Dir
      BY <2>1, <2>2, BelowIs
    <3>2. InitTree[p] = p /\ p \in DOMAIN InitText
      BY <3>1, TreesAssumption DEF Files
    <3>3. \A q \in DOMAIN tree : tree[q] = p => q = p
      BY <3>1, AtStart
    <3> QED BY <1>1, <3>1, <3>2, <3>3 DEF Stands, HasFile, Only
  <2>4. \A q \in Files(tree) : IsPrefix(b, q) => tree[q] \in Below(b)
    BY <1>1, TreesAssumption DEF Below
  <2>5. RenameStep(j, tree, s, s[1])
    <3>1. IsPrefix(b, b) /\ \A q \in DOMAIN tree : q \in DOMAIN InitTree
      BY <1>1, <1>5, PrefixOrder
    <3> QED BY <1>2, <1>3, <1>4, <1>5, <2>2, <3>1 DEF RenameStep
  <2>6. ASSUME NEW p \in Below(b) PROVE Ways(j, tree, s, p)
    <3>1. Stands(tree, p, p) /\ p \in Paths /\ IsPrefix(b, p) /\ b # p
      BY <2>3
    <3>2. CASE j.op = "RenameFilesAndDir"
      <4>1. Behind(s[1], p) /\ ~Ahead(j, s[1], p)
        BY <1>4, <3>2 DEF Behind, Ahead
      <4> QED BY <1>2, <3>1, <4>1 DEF Ways, Covers, s
    <3>3. CASE j.op # "RenameFilesAndDir"
      <4>1. Moved(j, p) = p
        BY <1>5, <2>2, <3>1, <3>3, MovedIs
      <4>2. Ahead(j, s[1], p) /\ ~Behind(s[1], p)
        BY <1>4, <3>1, <3>3, <4>1 DEF Behind, Ahead
      <4>3. Known(j, p)
        BY <3>3 DEF Known
      <4> QED BY <1>2, <3>1, <4>1, <4>2, <4>3 DEF Ways, Covers, s
    <3> QED BY <3>2, <3>3
  <2>7. \A i \in 1..Len(s) : i = 1
    BY <1>2 DEF s
  <2>8. Renaming(j, tree, s)
    BY <2>2, <2>4, <2>5, <2>6, <2>7 DEF Renaming, DirsOnce
  <2>9. ASSUME NEW p \in Below(b) PROVE Kept(c, p)
    BY <1>1, <1>2, <2>3 DEF Kept, Apart
  <2> QED BY <1>6, <2>8, <2>9 DEF RenameAt, j, s, b
<1>7. CASE ~HasDir(InitTree, b)
  <2>1. s[1].do \in {"names", "namesAndDirs"}
    BY <1>4
  <2> QED BY <1>1, <1>2, <1>4, <1>7, <2>1 DEF RenameAt, s, b
<1> QED BY <1>6, <1>7

\* and then each is where the steps that are left say, whatever call takes a
\* step,
LEMMA RenameNext ==
  ASSUME FilesInv, FilesInv', AllSeqs, RenameInv, [EditsNext]_editVars
  PROVE  RenameInv'
<1>1. CASE UNCHANGED editVars
  <2>1. UNCHANGED <<tree, data, job, todo, out>>
    BY <1>1 DEF editVars, treeVars
  <2>2. ASSUME NEW c \in Calls, Own2(c)' PROVE RenameAt(c)'
    <3>1. Own2(c)
      BY <2>1, <2>2 DEF Own2, Quiet
    <3>2. RenameAt(c)
      BY <3>1 DEF RenameInv
    <3>3. \A p : Kept(c, p) => Kept(c, p)'
      BY <2>1 DEF Kept
    <3> QED BY <2>1, <3>2, <3>3 DEF RenameAt
  <2> QED BY <2>2 DEF RenameInv
<1>2. CASE EditsNext
  <2>1. PICK k \in Calls : Acts(k)
    BY <1>2, NextActs
  <2>2. /\ job' = job /\ out[k] = "run" /\ \A i \in Calls \ {k} : out'[i] = out[i]
    BY <2>1, ActChanges
  <2>3. ASSUME NEW c \in Calls, Own2(c)' PROVE RenameAt(c)'
    <3>1. out[c] # "error"
      BY <2>2, <2>3 DEF Own2
    <3>2. Own2(c) /\ RenameAt(c)
      BY <2>2, <2>3, <3>1, StillOwn DEF RenameInv
    <3>3. CASE c = k
      BY <2>1, <2>3, <3>2, <3>3, RenameOwn
    <3>4. CASE c # k
      BY <2>1, <3>2, <3>4, RenameOther
    <3> QED BY <3>3, <3>4
  <2> QED BY <2>3 DEF RenameInv
<1> QED BY <1>1, <1>2

\* so that with no step left all have their new names.
LEMMA RenameKept ==
  ASSUME FilesInv, RenameInv
  PROVE  RenamedOnce
<1> SUFFICES ASSUME NEW c \in Calls, out[c] = "nil", Renames(job[c]), Quiet(c, {job[c].from}),
                    NoClash(job[c].from)
             PROVE  /\ {p \in Files(tree) : IsPrefix(job[c].from, p)}
                         = {NewPath(job[c], p) : p \in Below(job[c].from)}
                    /\ \A p \in Below(job[c].from) :
                         data[tree[NewPath(job[c], p)]] = InitText[p]
  BY DEF RenamedOnce
<1> DEFINE j == job[c]
           b == job[c].from
<1>1. Own2(c)
  BY DEF Own2
<1>2. todo[c] = <<>>
  BY DEF FilesInv
<1>3. RenameAt(c)
  BY <1>1 DEF RenameInv
<1>4. HasDir(InitTree, b) /\ Renaming(j, tree, todo[c]) /\ \A p \in Below(b) : Kept(c, p)
  BY <1>3 DEF RenameAt
<1>5. Fit(j) /\ b \in Paths
  BY <1>1, <1>4, OwnFits
<1>6. ASSUME NEW p \in Below(b)
      PROVE  /\ Stands(tree, p, NewPath(j, p)) /\ IsPrefix(b, NewPath(j, p))
             /\ data[p] = InitText[p]
  <2>1. \A i \in 1..Len(todo[c]) : ~Covers(j, todo[c][i], p)
    BY <1>2, RootPath
  <2>2. Stands(tree, p, NewPath(j, p)) /\ Last(p) \in DOMAIN NewName /\ Known(j, p)
    BY <1>4, <2>1 DEF Renaming, Ways
  <2>3. p \in Paths /\ IsPrefix(b, p) /\ b # p
    BY <1>5, BelowIs
  <2>4. IsPrefix(b, NewPath(j, p))
    BY <1>5, <2>2, <2>3, NewPathIs
  <2> QED BY <1>4, <2>2, <2>4 DEF Kept
<1>7. ASSUME NEW p \in Below(b)
      PROVE  NewPath(j, p) \in Files(tree) /\ IsPrefix(b, NewPath(j, p))
             /\ data[tree[NewPath(j, p)]] = InitText[p]
  BY <1>6 DEF Stands, HasFile, Files
<1>8. ASSUME NEW q \in Files(tree), IsPrefix(b, q)
      PROVE  \E p \in Below(b) : q = NewPath(j, p)
  <2>1. tree[q] \in Below(b)
    BY <1>4, <1>8 DEF Renaming
  <2> QED BY <1>6, <2>1 DEF Stands, Only, Files
<1> HIDE DEF j, b
<1>9. {p \in Files(tree) : IsPrefix(b, p)} = {NewPath(j, p) : p \in Below(b)}
  BY <1>7, <1>8
<1> QED BY <1>7, <1>9 DEF j, b

\* RenamedOnce, for every number of calls: a renaming that nobody disturbs gives
\* each file below the directory its new name, once, with its text.
THEOREM FilesRenamedOnce == EditsSpec => []RenamedOnce
<1> DEFINE Inv == FilesInv /\ AllSeqs /\ RenameInv
<1>1. EditsInit => Inv
  BY FilesInvInit, RenameInit
<1>2. Inv /\ [EditsNext]_editVars => Inv'
  BY FilesInvNext, RenameNext
<1>3. Inv => RenamedOnce
  BY RenameKept
<1> QED BY <1>1, <1>2, <1>3, PTL DEF EditsSpec

-----------------------------------------------------------------------------
(* Names while there are renamings *)

\* A renaming that keeps to itself writes below one directory.
LEMMA SteadyIs ==
  ASSUME NEW k \in Calls, FilesInv, Steady(k)
  PROVE  job[k].from \in Paths /\ Writes(job[k]) = {job[k].from} /\ NoClash(job[k].from)
<1>1. job[k] \in Jobs /\ job[k].op \in {"RenameFiles", "RenameFilesAndDir"}
  BY WritesPaths DEF Steady, Renames
<1>2. job[k].from \in Paths
  BY <1>1, TreesAssumption DEF Operations
<1>3. Writes(job[k]) = {job[k].from}
  BY <1>1 DEF Writes
<1> QED BY <1>2, <1>3 DEF Steady

\* What the paths of the start are.
LEMMA StartPath ==
  ASSUME NEW x \in DOMAIN InitTree
  PROVE  /\ x \in Paths /\ Rooted(InitTree)
         /\ \A m \in 0..Len(x) : SubSeq(x, 1, m) \in DOMAIN InitTree
         /\ InitTree[x] # Dir => /\ InitTree[x] = x /\ x # Dir /\ x \in DOMAIN InitText
                                 /\ x \notin Calls \X Paths
<1>1. x \in Paths /\ Rooted(InitTree)
  BY TreesAssumption DEF Rooted
<1>2. ASSUME NEW m \in 0..Len(x) PROVE SubSeq(x, 1, m) \in DOMAIN InitTree
  <2>1. m \in Nat /\ m <= Len(x)
    BY <1>1, PathLen
  <2>2. SubSeq(x, 1, m) \in Paths /\ IsPrefix(SubSeq(x, 1, m), x)
    BY <1>1, <2>1, CutPath, CutPrefix
  <2> QED BY <1>1, <2>2, RootedAbove
<1>3. InitTree[x] # Dir => /\ InitTree[x] = x /\ x # Dir /\ x \in DOMAIN InitText
                           /\ x \notin Calls \X Paths
  BY TreesAssumption DEF Files
<1> QED BY <1>1, <1>2, <1>3

\* Nothing of the start has a name that is made.
LEMMA SlotFree ==
  ASSUME FilesInv, NEW x \in DOMAIN InitTree, NEW i \in Slots(x)
  PROVE  /\ i \in 1..Len(x) /\ x[i] \in DOMAIN NewName /\ NewName[x[i]] \in Names
         /\ SubSeq(x, 1, i - 1) \in Paths
         /\ Append(SubSeq(x, 1, i - 1), NewName[x[i]]) \notin DOMAIN InitTree
<1>1. x \in Paths /\ Len(x) \in Nat /\ \A h \in 1..Len(x) : x[h] \in Names
  BY StartPath, PathLen
<1>2. i \in 1..Len(x) /\ x[i] \in DOMAIN NewName
  BY DEF Slots
<1>3. NewName[x[i]] \in Names
  BY <1>2, TreesAssumption
<1>4. PICK k \in Calls : Steady(k) /\ IsPrefix(job[k].from, SubSeq(x, 1, i - 1))
  BY DEF Slots
<1> DEFINE b == job[k].from
           z == SubSeq(x, 1, i - 1)
           y == SubSeq(x, 1, i)
<1>5. b \in Paths /\ NoClash(b)
  BY <1>4, SteadyIs
<1>6. i - 1 \in Nat /\ i - 1 <= Len(x) /\ i \in Nat /\ i <= Len(x) /\ i \in 0..Len(x)
  BY <1>1, <1>2
<1>7. /\ z \in Paths /\ Len(z) = i - 1 /\ \A h \in 1..i - 1 : z[h] = x[h]
      /\ y \in Paths /\ Len(y) = i /\ \A h \in 1..i : y[h] = x[h]
  BY <1>1, <1>6, CutPath
<1>8. y \in DOMAIN InitTree
  BY <1>6, StartPath
<1>9. y # <<>> /\ Last(y) = x[i]
  BY <1>2, <1>7, NotRoot DEF Last
<1>10. Front(y) = z
  <2>1. /\ Front(y) \in Paths /\ IsPrefix(Front(y), y) /\ Len(Front(y)) = i - 1
    BY <1>7, <1>9, FrontPath
  <2>2. \A h \in 1..i - 1 : Front(y)[h] = y[h]
    BY <1>7, <2>1, PrefixIs
  <2>3. \A h \in 1..i - 1 : Front(y)[h] = z[h]
    BY <1>6, <1>7, <2>2
  <2> QED BY <1>7, <2>1, <2>3, PathEqual
<1>11. IsPrefix(z, y) /\ z # y
  BY <1>6, <1>7, <1>9, <1>10, FrontPath
<1>12. IsPrefix(b, z)
  BY <1>4
<1> HIDE DEF b, z, y
<1>13. IsPrefix(b, y) /\ b # y
  BY <1>5, <1>7, <1>11, <1>12, PrefixOrder
<1>14. Append(Front(y), NewName[Last(y)]) \notin DOMAIN InitTree
  BY <1>2, <1>5, <1>8, <1>9, <1>13 DEF NoClash
<1>15. Append(z, NewName[x[i]]) \notin DOMAIN InitTree
  BY <1>9, <1>10, <1>14
<1> QED BY <1>2, <1>3, <1>7, <1>15 DEF z

\* What begins with the same names and has one more.
LEMMA CutEntry ==
  ASSUME NEW x \in Paths, NEW z \in Paths, NEW i \in 1..Len(x), Len(z) = i - 1,
         \A h \in 1..i - 1 : z[h] = x[h]
  PROVE  Append(z, x[i]) = SubSeq(x, 1, i)
<1>1. x[i] \in Names /\ Len(x) \in Nat /\ i \in Nat /\ i <= Len(x)
  BY PathLen
<1>2. /\ SubSeq(x, 1, i) \in Paths /\ Len(SubSeq(x, 1, i)) = i
      /\ \A h \in 1..i : SubSeq(x, 1, i)[h] = x[h]
  BY <1>1, CutPath
<1> DEFINE e == Append(z, x[i])
           n == x[i]
<1>3. /\ e \in Paths /\ Len(e) = i
  BY <1>1, EntryPath
<1>4. \A h \in 1..i - 1 : e[h] = z[h]
  BY <1>1, AppendProperties DEF Paths
<1>5. e[i] = n
  BY <1>1, AppendProperties DEF Paths
<1> HIDE DEF e, n
<1>6. \A h \in 1..i : h = i \/ h \in 1..i - 1
  BY <1>1
<1>7. \A h \in 1..i : e[h] = x[h]
  BY <1>4, <1>5, <1>6 DEF n
<1>8. \A h \in 1..i : e[h] = SubSeq(x, 1, i)[h]
  BY <1>2, <1>7
<1>9. e = SubSeq(x, 1, i)
  BY <1>2, <1>3, <1>8, PathEqual
<1> QED BY <1>9 DEF e

\* A path is a path of one thing only.
LEMMA AliasOne ==
  ASSUME FilesInv, NEW q, NEW x \in DOMAIN InitTree, NEW y \in DOMAIN InitTree, Alias(q, x), Alias(q, y)
  PROVE  x = y
<1>1. /\ x \in Paths /\ y \in Paths /\ Len(x) \in Nat /\ Len(x) = Len(q) /\ Len(y) = Len(q)
      /\ q \in Paths
  BY StartPath, PathLen DEF Alias
<1> SUFFICES ASSUME x # y PROVE FALSE
  OBVIOUS
<1> DEFINE Bad == {i \in 1..Len(x) : x[i] # y[i]}
<1>2. Bad # {} /\ Bad \subseteq Nat
  BY <1>1, PathEqual
<1>3. PICK i \in Bad : \A h \in Bad : i <= h
  BY <1>2, Least
<1>4. i \in 1..Len(x) /\ x[i] # y[i] /\ i \in Nat /\ i - 1 \in Nat /\ i - 1 <= Len(x)
  BY <1>1, <1>3
<1>5. \A h \in 1..i - 1 : x[h] = y[h]
  <2> SUFFICES ASSUME NEW h \in 1..i - 1 PROVE x[h] = y[h]
    OBVIOUS
  <2>1. h \in 1..Len(x) /\ ~(i <= h)
    BY <1>1, <1>4
  <2> QED BY <1>3, <2>1
<1> HIDE DEF Bad
<1> DEFINE z == SubSeq(x, 1, i - 1)
<1>6. /\ z \in Paths /\ Len(z) = i - 1 /\ \A h \in 1..i - 1 : z[h] = x[h]
      /\ SubSeq(y, 1, i - 1) \in Paths /\ Len(SubSeq(y, 1, i - 1)) = i - 1
      /\ \A h \in 1..i - 1 : SubSeq(y, 1, i - 1)[h] = y[h]
  BY <1>1, <1>4, CutPath
<1>7. z = SubSeq(y, 1, i - 1)
  <2>1. \A h \in 1..Len(z) : z[h] = SubSeq(y, 1, i - 1)[h]
    BY <1>5, <1>6
  <2> HIDE DEF z
  <2> QED BY <1>6, <2>1, PathEqual
<1> HIDE DEF z
<1>8. i \in 1..Len(y) /\ i \in 0..Len(x) /\ i \in 0..Len(y)
  BY <1>1, <1>4
<1>9. Append(z, x[i]) \in DOMAIN InitTree /\ Append(z, y[i]) \in DOMAIN InitTree
  <2>1. Append(z, x[i]) = SubSeq(x, 1, i)
    BY <1>1, <1>4, <1>6, CutEntry
  <2>2. Append(z, y[i]) = SubSeq(y, 1, i)
    BY <1>1, <1>4, <1>5, <1>6, <1>8, CutEntry
  <2>3. SubSeq(x, 1, i) \in DOMAIN InitTree /\ SubSeq(y, 1, i) \in DOMAIN InitTree
    BY <1>8, StartPath
  <2> QED BY <2>1, <2>2, <2>3
<1>10. i \in Slots(x) => x[i] \in DOMAIN NewName /\ Append(z, NewName[x[i]]) \notin DOMAIN InitTree
  BY SlotFree DEF z
<1>11. i \in Slots(y) => y[i] \in DOMAIN NewName /\ Append(z, NewName[y[i]]) \notin DOMAIN InitTree
  BY <1>7, SlotFree
<1>12. /\ q[i] = x[i] \/ (i \in Slots(x) /\ q[i] = NewName[x[i]])
       /\ q[i] = y[i] \/ (i \in Slots(y) /\ q[i] = NewName[y[i]])
  BY <1>4, <1>8 DEF Alias
<1>13. \A m, n \in DOMAIN NewName : NewName[m] = NewName[n] => m = n
  BY TreesAssumption
<1> QED BY <1>4, <1>9, <1>10, <1>11, <1>12, <1>13

\* What has not been renamed is at its path.
LEMMA AliasSelf ==
  ASSUME NEW x \in Paths
  PROVE  Alias(x, x)
BY DEF Alias

\* What is above is where the names say.
LEMMA AliasCut ==
  ASSUME NEW x \in Paths, NEW q, Alias(q, x), NEW m \in Nat, m <= Len(x)
  PROVE  Alias(SubSeq(q, 1, m), SubSeq(x, 1, m))
<1>1. q \in Paths /\ Len(q) = Len(x) /\ Len(x) \in Nat
  BY PathLen DEF Alias
<1> DEFINE y == SubSeq(x, 1, m)
           r == SubSeq(q, 1, m)
<1>2. /\ y \in Paths /\ Len(y) = m /\ \A i \in 1..m : y[i] = x[i]
      /\ r \in Paths /\ Len(r) = m /\ \A i \in 1..m : r[i] = q[i]
  BY <1>1, CutPath
<1>3. ASSUME NEW i \in 1..m, i \in Slots(x) PROVE i \in Slots(y)
  <2>1. x[i] \in DOMAIN NewName
    BY <1>3 DEF Slots
  <2>2. PICK k \in Calls : Steady(k) /\ IsPrefix(job[k].from, SubSeq(x, 1, i - 1))
    BY <1>3 DEF Slots
  <2>3. i - 1 \in Nat /\ i - 1 <= m /\ i - 1 <= Len(x) /\ i \in 1..Len(y) /\ i \in 1..m
    BY <1>1, <1>2
  <2>4. SubSeq(y, 1, i - 1) = SubSeq(x, 1, i - 1)
    <3> DEFINE u == SubSeq(y, 1, i - 1)
               v == SubSeq(x, 1, i - 1)
    <3>1. /\ u \in Paths /\ Len(u) = i - 1 /\ \A h \in 1..i - 1 : u[h] = y[h]
          /\ v \in Paths /\ Len(v) = i - 1 /\ \A h \in 1..i - 1 : v[h] = x[h]
      BY <1>2, <2>3, CutPath
    <3> HIDE DEF u, v
    <3>2. \A h \in 1..i - 1 : h \in 1..m
      BY <2>3
    <3>3. \A h \in 1..Len(u) : u[h] = v[h]
      BY <1>2, <3>1, <3>2
    <3>4. u = v
      BY <3>1, <3>3, PathEqual
    <3> QED BY <3>4 DEF u, v
  <2>5. y[i] \in DOMAIN NewName
    BY <1>2, <2>1
  <2> HIDE DEF y
  <2> QED BY <2>2, <2>3, <2>4, <2>5 DEF Slots
<1> HIDE DEF y, r
<1>4. \A i \in 1..m : i \in 1..Len(x)
  BY <1>1
<1>5. \A i \in 1..Len(y) : r[i] = y[i] \/ (i \in Slots(y) /\ r[i] = NewName[y[i]])
  BY <1>2, <1>3, <1>4 DEF Alias
<1>6. Alias(r, y)
  BY <1>2, <1>5 DEF Alias
<1> QED BY <1>6 DEF r, y

\* What is below a place where only renamings take place stays below it.
LEMMA AliasBelow ==
  ASSUME FilesInv, NEW g \in Paths, Calm(g), NEW x \in Paths, IsPrefix(g, x), NEW q, Alias(q, x)
  PROVE  q \in Paths /\ IsPrefix(g, q)
<1>1. /\ q \in Paths /\ Len(q) = Len(x) /\ Len(x) \in Nat /\ Len(g) \in Nat /\ Len(g) <= Len(x)
      /\ \A i \in 1..Len(g) : g[i] = x[i]
  BY PathLen, PrefixIs DEF Alias
<1>2. ASSUME NEW i \in 1..Len(g), i \in Slots(x) PROVE FALSE
  <2>1. PICK k \in Calls : Steady(k) /\ IsPrefix(job[k].from, SubSeq(x, 1, i - 1))
    BY <1>2 DEF Slots
  <2> DEFINE b == job[k].from
             z == SubSeq(x, 1, i - 1)
  <2>2. b \in Paths /\ Writes(job[k]) = {b}
    BY <2>1, SteadyIs
  <2>3. i - 1 \in Nat /\ i - 1 <= Len(x) /\ i - 1 < Len(g)
    BY <1>1
  <2>4. z \in Paths /\ Len(z) = i - 1 /\ IsPrefix(z, x)
    BY <2>3, CutPath, CutPrefix
  <2>5. IsPrefix(b, x)
    BY <2>1, <2>2, <2>4, PrefixOrder
  <2>6. IsPrefix(b, g) \/ IsPrefix(g, b)
    BY <2>2, <2>5, PrefixOrder
  <2>7. Meets(Writes(job[k]), {g})
    BY <2>2, <2>6 DEF Meets
  <2>8. IsPrefix(g, b)
    BY <2>7 DEF Calm
  <2>9. IsPrefix(g, z)
    BY <2>1, <2>2, <2>4, <2>8, PrefixOrder
  <2>10. Len(g) <= Len(z)
    BY <2>4, <2>9, PrefixIs
  <2> HIDE DEF z, b
  <2> QED BY <1>1, <2>3, <2>4, <2>10
<1>3. \A i \in 1..Len(g) : i \in 1..Len(x)
  BY <1>1
<1>4. \A i \in 1..Len(g) : g[i] = q[i]
  BY <1>1, <1>2, <1>3 DEF Alias
<1> QED BY <1>1, <1>4, PrefixIs

\* Which renamings there are is settled by the calls.
LEMMA SameNames ==
  ASSUME job' = job
  PROVE  /\ \A k : Steady(k)' <=> Steady(k)
         /\ \A q, x : Alias(q, x)' <=> Alias(q, x)
         /\ \A g : Calm(g)' <=> Calm(g)
<1>1. \A k : Steady(k)' <=> Steady(k)
  BY DEF Steady, Quiet
<1>2. \A x : Slots(x)' = Slots(x)
  BY <1>1 DEF Slots
<1>3. \A q, x : Alias(q, x)' <=> Alias(q, x)
  BY <1>2 DEF Alias
<1>4. \A g : Calm(g)' <=> Calm(g)
  BY <1>1 DEF Calm
<1> QED BY <1>1, <1>3, <1>4

\* Where a renaming puts a new name.
LEMMA SlotOf ==
  ASSUME NEW k \in Calls, FilesInv, Steady(k), NEW x \in Paths, IsPrefix(job[k].from, x),
         job[k].from # x, Last(x) \in DOMAIN NewName
  PROVE  x # <<>> /\ Len(x) \in Slots(x) /\ Last(x) = x[Len(x)]
<1> DEFINE b == job[k].from
<1>1. b \in Paths
  BY SteadyIs
<1>2. x # <<>> /\ Len(x) \in Nat /\ Len(x) > 0
  <2>1. Len(b) \in Nat /\ Len(x) > Len(b) /\ x # <<>>
    BY <1>1, ChildIs
  <2> QED BY <2>1, PathLen
<1>3. Len(x) - 1 \in Nat /\ Len(x) - 1 <= Len(x)
  BY <1>2
<1> DEFINE z == SubSeq(x, 1, Len(x) - 1)
<1>4. z \in Paths /\ Len(z) = Len(x) - 1 /\ \A i \in 1..Len(x) - 1 : z[i] = x[i]
  BY <1>3, CutPath
<1>5. /\ Front(x) \in Paths /\ Len(Front(x)) = Len(x) - 1 /\ IsPrefix(Front(x), x)
      /\ IsPrefix(b, Front(x))
  BY <1>1, <1>2, FrontPath
<1>6. z = Front(x)
  <2>1. \A i \in 1..Len(x) - 1 : Front(x)[i] = x[i]
    BY <1>5, PrefixIs
  <2> HIDE DEF z
  <2>2. \A i \in 1..Len(z) : z[i] = Front(x)[i]
    BY <1>4, <2>1
  <2> QED BY <1>4, <1>5, <2>2, PathEqual
<1>7. Last(x) = x[Len(x)]
  BY DEF Last
<1>8. Len(x) \in 1..Len(x)
  BY <1>2
<1>9. IsPrefix(job[k].from, SubSeq(x, 1, Len(x) - 1))
  BY <1>5, <1>6
<1> HIDE DEF z, b
<1> QED BY <1>2, <1>7, <1>8, <1>9 DEF Slots

\* What is at y or below has a new name in its path when y has one.
LEMMA AliasNew ==
  ASSUME NEW x \in Paths, x # <<>>, Len(x) \in Slots(x), NEW y \in Paths, IsPrefix(x, y),
         NEW r, Alias(r, y), NEW q \in Paths, q = SubSeq(r, 1, Len(x)), q[Len(x)] = x[Len(x)],
         NEW u, u = Append(Front(q), NewName[Last(q)])
  PROVE  IsPrefix(q, r) /\ u \in Paths /\ Alias(Shift(q, u, r), y)
<1> DEFINE l == Len(x)
           v == Shift(q, u, r)
<1>1. /\ r \in Paths /\ Len(r) = Len(y) /\ Len(y) \in Nat /\ l \in Nat /\ l > 0 /\ l <= Len(y)
      /\ \A i \in 1..l : x[i] = y[i]
  BY PathLen, PrefixIs, NotRoot DEF Alias
<1>2. Len(q) = l /\ IsPrefix(q, r) /\ \A i \in 1..l : q[i] = r[i]
  BY <1>1, CutPath, CutPrefix
<1>3. x[l] \in DOMAIN NewName
  BY DEF Slots
<1>4. q # <<>> /\ Last(q) = x[l]
  BY <1>1, <1>2, NotRoot DEF Last
<1> DEFINE n == NewName[Last(q)]
           f == Front(q)
<1>5. n \in Names /\ n = NewName[x[l]]
  BY <1>3, <1>4, TreesAssumption
<1> HIDE DEF l
<1>6. f \in Paths /\ Len(f) = l - 1 /\ \A i \in 1..l - 1 : f[i] = q[i]
  <2>1. f \in Paths /\ Len(f) = l - 1 /\ IsPrefix(f, q)
    BY <1>2, <1>4, FrontPath
  <2> HIDE DEF f
  <2>2. \A i \in 1..Len(f) : f[i] = q[i]
    BY <2>1, PrefixIs
  <2> QED BY <2>1, <2>2
<1> HIDE DEF f, n
<1>7. /\ u \in Paths /\ Len(u) = l /\ u[l] = n /\ \A i \in 1..l - 1 : u[i] = q[i]
  <2>1. u = Append(f, n)
    BY DEF f, n
  <2>2. Append(f, n) \in Paths /\ Len(Append(f, n)) = Len(f) + 1
    BY <1>5, <1>6, EntryPath
  <2>3. \A i \in 1..Len(f) : Append(f, n)[i] = f[i]
    BY <1>5, <1>6, AppendProperties DEF Paths
  <2>4. Append(f, n)[Len(f) + 1] = n
    BY <1>5, <1>6, AppendProperties DEF Paths
  <2>5. Len(f) + 1 = l
    BY <1>1, <1>6
  <2> QED BY <1>6, <2>1, <2>2, <2>3, <2>4, <2>5
<1>8. /\ v \in Paths /\ Len(v) = Len(u) + Len(r) - Len(q)
      /\ \A i \in 1..Len(u) : v[i] = u[i]
      /\ \A i \in Len(u) + 1..Len(u) + Len(r) - Len(q) : v[i] = r[i - Len(u) + Len(q)]
  <2>1. q \in Paths /\ u \in Paths /\ r \in Paths /\ IsPrefix(q, r)
    BY <1>1, <1>2, <1>7
  <2> QED BY ONLY <2>1, ShiftPath
<1> HIDE DEF v
<1>9. Len(v) = Len(y) /\ \A i \in l + 1..Len(y) : v[i] = r[i]
  <2>1. Len(v) = Len(y)
    BY <1>1, <1>2, <1>7, <1>8
  <2>2. ASSUME NEW i \in l + 1..Len(y) PROVE v[i] = r[i]
    <3>1. /\ i \in Len(u) + 1..Len(u) + Len(r) - Len(q) /\ i - Len(u) + Len(q) = i
      <4>1. Len(u) = l /\ Len(q) = l /\ Len(r) = Len(y) /\ l \in Nat /\ Len(y) \in Nat /\ i \in Nat
        BY <1>1, <1>2, <1>7
      <4>2. l + 1 <= i /\ i <= Len(y)
        BY <1>1
      <4> QED BY ONLY <4>1, <4>2
    <3> QED BY <1>8, <3>1
  <2> QED BY <2>1, <2>2
<1>10. l \in Slots(y)
  <2>1. PICK k \in Calls : Steady(k) /\ IsPrefix(job[k].from, SubSeq(x, 1, l - 1))
    BY DEF Slots, l
  <2>2. l - 1 \in Nat /\ l - 1 <= Len(x) /\ l - 1 <= Len(y)
    BY <1>1 DEF l
  <2> DEFINE z == SubSeq(x, 1, l - 1)
             w == SubSeq(y, 1, l - 1)
  <2>3. /\ z \in Paths /\ Len(z) = l - 1 /\ \A i \in 1..l - 1 : z[i] = x[i]
        /\ w \in Paths /\ Len(w) = l - 1 /\ \A i \in 1..l - 1 : w[i] = y[i]
    BY <2>2, CutPath
  <2> HIDE DEF z, w
  <2>4. \A i \in 1..l - 1 : i \in 1..l
    BY <1>1
  <2>5. \A i \in 1..Len(z) : z[i] = w[i]
    BY <1>1, <2>3, <2>4
  <2>6. z = w
    BY <2>3, <2>5, PathEqual
  <2>7. l \in 1..Len(y) /\ y[l] = x[l]
    BY <1>1
  <2>8. IsPrefix(job[k].from, SubSeq(y, 1, l - 1))
    BY <2>1, <2>6 DEF z, w
  <2> QED BY <1>3, <2>1, <2>7, <2>8 DEF Slots
<1>11. ASSUME NEW i \in 1..Len(y) PROVE v[i] = y[i] \/ (i \in Slots(y) /\ v[i] = NewName[y[i]])
  <2>1. i \in 1..l - 1 \/ i = l \/ i \in l + 1..Len(y)
    BY <1>1
  <2>2. CASE i \in 1..l - 1
    <3>1. i \in 1..Len(u) /\ i \in 1..l
      BY <1>1, <1>7, <2>2
    <3>2. v[i] = r[i]
      BY <1>2, <1>7, <1>8, <2>2, <3>1
    <3> QED BY <3>2 DEF Alias
  <2>3. CASE i = l
    <3>1. i \in 1..Len(u) /\ i \in 1..l
      BY <1>1, <1>7, <2>3
    <3>2. v[i] = NewName[x[l]] /\ x[l] = y[l]
      BY <1>1, <1>5, <1>7, <1>8, <2>3, <3>1
    <3> QED BY <1>10, <2>3, <3>2
  <2>4. CASE i \in l + 1..Len(y)
    <3>1. v[i] = r[i]
      BY <1>9, <2>4
    <3> QED BY <3>1 DEF Alias
  <2> QED BY <2>1, <2>2, <2>3, <2>4
<1>12. Alias(v, y)
  BY <1>8, <1>9, <1>11 DEF Alias
<1> QED BY <1>2, <1>7, <1>12 DEF v

-----------------------------------------------------------------------------
(* Where renamings take place and nothing else *)

\* A thing of the start is where it is, and nowhere else.
LEMMA GroundAt ==
  ASSUME FilesInv, NEW g \in Paths, Calm(g), NEW at, Ground(g, at), NEW x \in Region(g),
         NEW q \in DOMAIN tree, Alias(q, x)
  PROVE  q = at[x]
<1>1. x \in DOMAIN InitTree /\ IsPrefix(g, x) /\ x \in Paths
  BY StartPath DEF Region
<1>2. IsPrefix(g, q)
  BY <1>1, AliasBelow
<1>3. PICK z \in Region(g) : q = at[z]
  BY <1>2 DEF Ground
<1>4. Alias(q, z) /\ z \in DOMAIN InitTree
  BY <1>3 DEF Ground, Region
<1>5. z = x
  BY <1>1, <1>4, AliasOne
<1> QED BY <1>3, <1>5

\* What was below it is below it.
LEMMA GroundCut ==
  ASSUME FilesInv, NEW g \in Paths, Calm(g), NEW at, Ground(g, at), NEW x \in Region(g),
         NEW y \in Region(g), IsPrefix(x, y)
  PROVE  /\ at[x] \in Paths /\ at[y] \in Paths /\ Len(at[x]) = Len(x) /\ Len(at[y]) = Len(y)
         /\ SubSeq(at[y], 1, Len(x)) = at[x] /\ IsPrefix(at[x], at[y])
<1>1. /\ x \in DOMAIN InitTree /\ IsPrefix(g, x) /\ x \in Paths
      /\ y \in DOMAIN InitTree /\ IsPrefix(g, y) /\ y \in Paths
  BY StartPath DEF Region
<1>2. /\ Alias(at[x], x) /\ Alias(at[y], y) /\ at[x] \in Paths /\ at[y] \in Paths
      /\ Len(at[x]) = Len(x) /\ Len(at[y]) = Len(y) /\ at[y] \in DOMAIN tree
  BY DEF Ground, Alias
<1>3. Len(x) \in Nat /\ Len(x) <= Len(y) /\ x = SubSeq(y, 1, Len(x))
  BY <1>1, PrefixCut, PrefixIs, PathLen
<1> DEFINE q == SubSeq(at[y], 1, Len(x))
<1>4. q \in Paths /\ IsPrefix(q, at[y])
  BY <1>2, <1>3, CutPath, CutPrefix
<1>5. Alias(q, x)
  <2>1. Alias(q, SubSeq(y, 1, Len(x)))
    BY <1>1, <1>2, <1>3, AliasCut
  <2> QED BY <1>3, <2>1
<1>6. q \in DOMAIN tree
  BY <1>2, <1>4, RootedAbove DEF FilesInv
<1> HIDE DEF q
<1>7. q = at[x]
  BY <1>5, <1>6, GroundAt
<1> QED BY <1>2, <1>4, <1>7 DEF q

\* And nothing else.
LEMMA GroundUnder ==
  ASSUME FilesInv, NEW g \in Paths, Calm(g), NEW at, Ground(g, at), NEW x \in Region(g),
         NEW y \in Region(g), IsPrefix(at[x], at[y])
  PROVE  IsPrefix(x, y)
<1>1. /\ x \in DOMAIN InitTree /\ x \in Paths /\ y \in DOMAIN InitTree /\ y \in Paths
  BY StartPath DEF Region
<1>2. /\ Alias(at[x], x) /\ Alias(at[y], y) /\ at[x] \in Paths /\ at[y] \in Paths
      /\ Len(at[x]) = Len(x) /\ Len(at[y]) = Len(y)
  BY DEF Ground, Alias
<1>3. Len(x) \in Nat /\ Len(x) <= Len(y) /\ at[x] = SubSeq(at[y], 1, Len(x))
  BY <1>1, <1>2, PrefixCut, PrefixIs, PathLen
<1> DEFINE z == SubSeq(y, 1, Len(x))
<1>4. Alias(at[x], z)
  <2>1. Alias(SubSeq(at[y], 1, Len(x)), z)
    BY <1>1, <1>2, <1>3, AliasCut
  <2> QED BY <1>3, <2>1
<1>5. z \in DOMAIN InitTree
  <2>1. Len(x) \in 0..Len(y)
    BY <1>1, <1>3, PathLen
  <2> QED BY <2>1, <1>1, StartPath
<1>6. IsPrefix(z, y)
  BY <1>1, <1>3, CutPrefix
<1> HIDE DEF z
<1>7. z = x
  BY <1>1, <1>2, <1>4, <1>5, AliasOne
<1> QED BY <1>6, <1>7

\* A call that does not write at a path does not write below it.
LEMMA BelowApart ==
  ASSUME NEW P, P \subseteq Paths, NEW g \in Paths, ~Meets(P, {g}), NEW p \in Paths, IsPrefix(g, p)
  PROVE  ~Meets(P, {p})
<1>1. \A x \in P : ~IsPrefix(x, g) /\ ~IsPrefix(g, x)
  BY DEF Meets
<1>2. ASSUME NEW x \in P PROVE ~IsPrefix(x, p) /\ ~IsPrefix(p, x)
  BY <1>1, PrefixOrder
<1> QED BY <1>2 DEF Meets

\* A call that does not write there leaves the place as it is.
LEMMA GroundOther ==
  ASSUME NEW k \in Calls, FilesInv, FilesInv', AllSeqs, Acts(k), NEW g \in Paths,
         ~Meets(Writes(job[k]), {g}), NEW at, Ground(g, at)
  PROVE  Ground(g, at)'
<1>1. /\ Changes(k) /\ job' = job /\ out[k] = "run"
      /\ \A i \in Calls \ {k} : todo'[i] = todo[i] /\ out'[i] = out[i]
  BY ActChanges
<1>2. Writes(job[k]) \subseteq Paths
  BY WritesPaths
<1>3. ASSUME NEW p \in Paths, IsPrefix(g, p)
      PROVE  /\ ~Meets(Writes(job[k]), {p})
             /\ (p \in DOMAIN tree' <=> p \in DOMAIN tree) /\ (p \in DOMAIN tree => tree'[p] = tree[p])
  <2>1. ~Meets(Writes(job[k]), {p})
    BY <1>2, <1>3, BelowApart
  <2> QED BY <1>1, <2>1, TreeFrame
<1>4. ASSUME NEW x \in Region(g)
      PROVE  /\ Alias(at[x], x)' /\ IsPrefix(g, at[x])
             /\ at[x] \in DOMAIN tree' /\ tree'[at[x]] = InitTree[x] /\ at[x] \in Paths
  <2>1. Alias(at[x], x) /\ IsPrefix(g, at[x]) /\ at[x] \in DOMAIN tree /\ tree[at[x]] = InitTree[x]
    BY DEF Ground
  <2>2. at[x] \in Paths
    BY <2>1 DEF Alias
  <2>3. Alias(at[x], x)'
    BY <1>1, <2>1, SameNames
  <2> QED BY <1>3, <2>1, <2>2, <2>3
<1>5. ASSUME NEW q \in DOMAIN tree', IsPrefix(g, q) PROVE \E x \in Region(g) : q = at[x]
  <2>1. q \in Paths
    BY DEF FilesInv, Rooted
  <2> QED BY <1>3, <1>5, <2>1 DEF Ground
<1>6. ASSUME NEW x \in Region(g), InitTree[x] # Dir
      PROVE  /\ Only(tree', x, at[x]) /\ x \in DOMAIN data' /\ data'[x] = InitText[x]
             /\ \A i \in Calls : Apart(todo'[i], x)
  <2>1. x \in DOMAIN InitTree
    BY DEF Region
  <2>2. x # Dir /\ x \notin Calls \X Paths
    BY <1>6, <2>1, StartPath
  <2>3. /\ Only(tree, x, at[x]) /\ x \in DOMAIN data /\ data[x] = InitText[x]
        /\ \A i \in Calls : Apart(todo[i], x)
    BY <1>6 DEF Ground
  <2>4. at[x] \in Paths /\ IsPrefix(g, at[x])
    BY <1>4
  <2>5. ~Meets(Writes(job[k]), {at[x]})
    BY <1>3, <2>4
  <2>6. \A r \in Paths : Reach(k, r) => x # <<k, r>>
    BY <2>2
  <2>7. Only(tree', x, at[x]) /\ Apart(todo'[k], x) /\ x \in DOMAIN data' /\ data'[x] = data[x]
    BY <2>2, <2>3, <2>4, <2>5, <2>6, NodeAlone
  <2>8. ASSUME NEW i \in Calls PROVE Apart(todo'[i], x)
    <3>1. CASE i = k
      BY <2>7, <3>1
    <3>2. CASE i # k
      <4>1. todo'[i] = todo[i]
        BY <1>1, <3>2
      <4>2. Apart(todo[i], x)
        BY <2>3
      <4> QED BY <4>1, <4>2
    <3> QED BY <3>1, <3>2
  <2> QED BY <2>3, <2>7, <2>8
<1> QED BY <1>4, <1>5, <1>6 DEF Ground

\* In tree t all that was at g and below is there, under names that it may have.
Settled(g, t) == \E f :
  /\ \A y \in Region(g) : /\ Alias(f[y], y) /\ IsPrefix(g, f[y])
                          /\ f[y] \in DOMAIN t /\ t[f[y]] = InitTree[y]
  /\ \A r \in DOMAIN t : IsPrefix(g, r) => \E y \in Region(g) : r = f[y]
  /\ \A y \in Region(g) : InitTree[y] # Dir => Only(t, y, f[y])

\* A new name for what was at x, and for what is below.
LEMMA GroundMoved ==
  ASSUME NEW k \in Calls, FilesInv, NEW g \in Paths, Calm(g), NEW at, Ground(g, at), Steady(k),
         NEW x \in Region(g), IsPrefix(job[k].from, x), job[k].from # x, Last(x) \in DOMAIN NewName,
         NEW q, q = at[x], Last(q) = Last(x), NEW u, u = Append(Front(q), NewName[Last(q)]),
         CanRename(tree, q, u), NEW t, t = Rename(tree, q, u)
  PROVE  Settled(g, t)
<1>1. x \in DOMAIN InitTree /\ IsPrefix(g, x) /\ x \in Paths /\ Rooted(tree) /\ DOMAIN tree \subseteq Paths
  BY StartPath DEF Region, FilesInv, Rooted
<1>2. \A y \in Region(g) : /\ Alias(at[y], y) /\ IsPrefix(g, at[y]) /\ at[y] \in Paths
                           /\ at[y] \in DOMAIN tree /\ tree[at[y]] = InitTree[y]
                           /\ y \in Paths /\ y \in DOMAIN InitTree /\ IsPrefix(g, y)
  BY StartPath DEF Ground, Alias, Region
<1>3. x # <<>> /\ Len(x) \in Slots(x) /\ Last(x) = x[Len(x)]
  BY <1>1, SlotOf
<1>4. q \in Paths /\ q \in DOMAIN tree /\ Len(q) = Len(x) /\ IsPrefix(g, q)
  BY <1>2 DEF Alias
<1>5. q[Len(x)] = x[Len(x)]
  BY <1>3, <1>4 DEF Last
<1>6. ASSUME NEW y \in Region(g), IsPrefix(x, y)
      PROVE  /\ IsPrefix(q, at[y]) /\ u \in Paths /\ Alias(Shift(q, u, at[y]), y)
             /\ IsPrefix(g, Shift(q, u, at[y]))
  <2>1. SubSeq(at[y], 1, Len(x)) = q
    BY <1>6, GroundCut
  <2>2. y \in Paths /\ Alias(at[y], y) /\ IsPrefix(g, y)
    BY <1>2
  <2> DEFINE r == at[y]
  <2>3. q = SubSeq(r, 1, Len(x)) /\ Alias(r, y)
    BY <2>1, <2>2
  <2> HIDE DEF r
  <2>4. IsPrefix(q, r) /\ u \in Paths /\ Alias(Shift(q, u, r), y)
    BY ONLY <1>1, <1>3, <1>4, <1>5, <1>6, <2>2, <2>3, AliasNew, u = Append(Front(q), NewName[Last(q)])
  <2>5. IsPrefix(g, Shift(q, u, r))
    BY <2>2, <2>4, AliasBelow
  <2> QED BY <2>4, <2>5 DEF r
<1>7. IsPrefix(x, x)
  BY <1>1, PrefixOrder
<1>8. u \in Paths
  BY <1>6, <1>7
<1>9. CASE u = q
  <2>1. t = tree
    BY <1>9 DEF Rename
  <2> QED BY <1>2, <2>1 DEF Ground, Settled
<1>10. CASE u # q
  <2>1. u \notin DOMAIN tree
    <3>1. Alias(Shift(q, u, at[x]), x) /\ Shift(q, u, q) = u
      <4>1. Alias(Shift(q, u, at[x]), x)
        BY <1>6, <1>7
      <4>2. q \in Paths /\ u \in Paths /\ IsPrefix(q, q)
        BY <1>4, <1>8, PrefixOrder
      <4>3. q = q <=> Shift(q, u, q) = u
        BY ONLY <4>2, ShiftBack
      <4> QED BY <4>1, <4>3
    <3>2. Alias(u, x)
      BY <3>1
    <3> QED BY <1>10, <3>2, GroundAt
  <2>2. Renamed(tree, t, q, u)
    BY <1>1, <1>4, <1>8, <1>10, RenameTree
  <2> DEFINE Stay == {r \in DOMAIN tree : ~IsPrefix(q, r) /\ r # u}
  <2>3. /\ DOMAIN t = Stay \cup {Shift(q, u, s) : s \in Under(tree, q)}
        /\ \A r \in Stay : t[r] = tree[r]
        /\ \A s \in Under(tree, q) : t[Shift(q, u, s)] = tree[s]
    BY <2>2 DEF Renamed
  <2>4. PICK f : f = [y \in Region(g) |-> IF IsPrefix(x, y) THEN Shift(q, u, at[y]) ELSE at[y]]
    OBVIOUS
  <2>5. /\ \A y \in Region(g) : IsPrefix(x, y) => f[y] = Shift(q, u, at[y])
        /\ \A y \in Region(g) : ~IsPrefix(x, y) => f[y] = at[y]
    BY <2>4
  <2>6. ASSUME NEW y \in Region(g)
        PROVE  /\ Alias(f[y], y) /\ IsPrefix(g, f[y]) /\ f[y] \in DOMAIN t /\ t[f[y]] = InitTree[y]
    <3>1. CASE IsPrefix(x, y)
      <4>1. f[y] = Shift(q, u, at[y]) /\ at[y] \in Under(tree, q)
        BY <1>2, <1>6, <2>5, <3>1 DEF Under
      <4> QED BY <1>2, <1>6, <2>3, <3>1, <4>1
    <3>2. CASE ~IsPrefix(x, y)
      <4>1. f[y] = at[y] /\ ~IsPrefix(q, at[y])
        BY <2>5, <3>2, GroundUnder
      <4>2. at[y] \in Stay
        BY <1>2, <2>1, <4>1
      <4> QED BY <1>2, <2>3, <4>1, <4>2
    <3> QED BY <3>1, <3>2
  <2>7. ASSUME NEW y \in Region(g), IsPrefix(q, at[y]) PROVE f[y] = Shift(q, u, at[y])
    BY <2>5, <2>7, GroundUnder
  <2>8. ASSUME NEW y \in Region(g), ~IsPrefix(q, at[y]) PROVE f[y] = at[y]
    BY <2>5, <2>8, <1>6
  <2>9. ASSUME NEW r \in DOMAIN t, IsPrefix(g, r) PROVE \E y \in Region(g) : r = f[y]
    <3>1. CASE r \in Stay
      <4>1. PICK y \in Region(g) : r = at[y]
        BY <2>9, <3>1 DEF Ground
      <4> QED BY <2>8, <3>1, <4>1
    <3>2. CASE \E s \in Under(tree, q) : r = Shift(q, u, s)
      <4>1. PICK s \in Under(tree, q) : r = Shift(q, u, s)
        BY <3>2
      <4>2. s \in DOMAIN tree /\ IsPrefix(q, s) /\ IsPrefix(g, s)
        BY <1>1, <1>4, <4>1, PrefixOrder DEF Under
      <4>3. PICK y \in Region(g) : s = at[y]
        BY <4>2 DEF Ground
      <4> QED BY <2>7, <4>1, <4>2, <4>3
    <3> QED BY <2>3, <3>1, <3>2
  <2>10. ASSUME NEW y \in Region(g), InitTree[y] # Dir PROVE Only(t, y, f[y])
    <3>1. Only(tree, y, at[y])
      BY <2>10 DEF Ground
    <3>2. ASSUME NEW r \in DOMAIN t, t[r] = y PROVE r = f[y]
      <4>1. CASE r \in Stay
        <5>1. r = at[y]
          BY <2>3, <3>1, <3>2, <4>1 DEF Only
        <5> QED BY <2>8, <4>1, <5>1
      <4>2. CASE \E s \in Under(tree, q) : r = Shift(q, u, s)
        <5>1. PICK s \in Under(tree, q) : r = Shift(q, u, s)
          BY <4>2
        <5>2. s \in DOMAIN tree /\ IsPrefix(q, s) /\ tree[s] = y
          BY <2>3, <3>2, <5>1 DEF Under
        <5>3. s = at[y]
          BY <3>1, <5>2 DEF Only
        <5> QED BY <2>7, <5>1, <5>2, <5>3
      <4> QED BY <2>3, <4>1, <4>2
    <3> QED BY <3>2 DEF Only
  <2> QED BY <2>6, <2>9, <2>10 DEF Settled
<1> QED BY <1>9, <1>10

\* A renaming has no file open.
LEMMA RenameHolds ==
  ASSUME NEW k \in Calls, FilesInv, FilesInv', AllSeqs, RenameInv, RenameInv', Acts(k), Steady(k)
  PROVE  /\ \A n : Apart(todo'[k], n)
         /\ Refused(k) \/ (HasDir(InitTree, job[k].from) /\ (RenameEntries(k) \/ RenameOne(k)))
<1> DEFINE b == job[k].from
           s == todo[k]
<1>1. job' = job /\ out[k] = "run"
  BY ActChanges
<1>2. Own2(k) /\ RenameAt(k)
  <2>1. Own2(k)
    BY <1>1 DEF Steady, Own2
  <2> QED BY <2>1 DEF RenameInv
<1>3. s # <<>> /\ Len(s) \in Nat /\ Len(s) > 0
  BY <1>1, FirstStepOK
\* What its first step is.
<1>4. s[1].do \in {"namesAndDirs", "names", "newname", "newdir"}
  <2>1. CASE HasDir(InitTree, b)
    <3>1. 1 \in 1..Len(s) /\ Renaming(job[k], tree, s)
      BY <1>2, <1>3, <2>1 DEF RenameAt
    <3> QED BY <3>1 DEF Renaming, RenameStep
  <2>2. CASE ~HasDir(InitTree, b)
    BY <1>2, <2>2 DEF RenameAt
  <2> QED BY <2>1, <2>2
<1>5. Refused(k) \/ (HasDir(InitTree, b) /\ (RenameEntries(k) \/ RenameOne(k)))
  <2>1. Refused(k) \/ RenameEntries(k) \/ RenameOne(k)
    BY <1>4, RenameActs
  <2>2. CASE ~HasDir(InitTree, b)
    <3>1. ~HasDir(tree, b) /\ s[1].do \in {"names", "namesAndDirs"} /\ s[1].from = b
      BY <1>2, <2>2 DEF RenameAt
    <3>2. ~RenameEntries(k) /\ ~RenameOne(k)
      BY <3>1 DEF RenameEntries, RenameOne, From, Does
    <3> QED BY <2>1, <3>2
  <2> QED BY <2>1, <2>2
\* What it has left.
<1>6. CASE todo'[k] = <<>>
  BY <1>5, <1>6, RootPath DEF Apart
<1>7. CASE todo'[k] # <<>>
  <2>1. out'[k] = "run"
    BY <1>7 DEF FilesInv
  <2>2. Own2(k)'
    <3>1. Steady(k)'
      BY <1>1, <1>2, SameNames
    <3> QED BY <2>1, <3>1 DEF Steady, Own2
  <2>3. RenameAt(k)'
    BY <2>2 DEF RenameInv
  <2>4. HasDir(InitTree, b)
    <3>1. DOMAIN todo = Calls /\ out \in [Calls -> {"run", "nil", "error"}]
      BY DEF FilesInv
    <3>2. ~Refused(k)
      BY <1>7, <3>1, RefusedTodo
    <3> QED BY <1>5, <3>2
  <2>5. Renaming(job[k], tree', todo'[k])
    BY <1>1, <2>3, <2>4 DEF RenameAt
  <2>6. \A i \in 1..Len(todo'[k]) : todo'[k][i].do \notin Handles
    BY <2>5 DEF Renaming, RenameStep, Handles
  <2> QED BY <1>5, <2>6 DEF Apart
<1> QED BY <1>6, <1>7

\* A renaming keeps the place, with new names.
LEMMA GroundOwn ==
  ASSUME NEW k \in Calls, FilesInv, FilesInv', AllSeqs, RenameInv, RenameInv', Acts(k), Steady(k),
         NEW g \in Paths, Calm(g), IsPrefix(g, job[k].from), NEW at, Ground(g, at)
  PROVE  \E f : Ground(g, f)'
<1> DEFINE j == job[k]
           b == job[k].from
           s == todo[k]
           m == todo[k][1].from
<1>1. /\ job' = job /\ out[k] = "run"
      /\ \A i \in Calls \ {k} : todo'[i] = todo[i]
  BY ActChanges
<1>2. \A n : Apart(todo'[k], n)
  BY RenameHolds
\* What is left to prove.
<1>3. ASSUME UNCHANGED data, NEW f,
             \A y \in Region(g) : /\ Alias(f[y], y) /\ IsPrefix(g, f[y])
                                  /\ f[y] \in DOMAIN tree' /\ tree'[f[y]] = InitTree[y],
             \A r \in DOMAIN tree' : IsPrefix(g, r) => \E y \in Region(g) : r = f[y],
             \A y \in Region(g) : InitTree[y] # Dir => Only(tree', y, f[y])
      PROVE  Ground(g, f)'
  <2>1. ASSUME NEW y \in Region(g), InitTree[y] # Dir
        PROVE  /\ y \in DOMAIN data' /\ data'[y] = InitText[y]
               /\ \A i \in Calls : Apart(todo'[i], y)
    <3>1. /\ y \in DOMAIN data /\ data[y] = InitText[y] /\ \A i \in Calls : Apart(todo[i], y)
      BY <2>1 DEF Ground
    <3>2. ASSUME NEW i \in Calls PROVE Apart(todo'[i], y)
      <4>1. CASE i = k
        BY <1>2, <4>1
      <4>2. CASE i # k
        <5>1. todo'[i] = todo[i] /\ Apart(todo[i], y)
          BY <1>1, <3>1, <4>2
        <5> QED BY <5>1
      <4> QED BY <4>1, <4>2
    <3> QED BY <1>3, <3>1, <3>2
  <2>2. \A y \in Region(g) : Alias(f[y], y)'
    BY <1>1, <1>3, SameNames
  <2> QED BY <1>3, <2>1, <2>2 DEF Ground
<1>4. CASE Refused(k) \/ RenameEntries(k)
  <2>1. UNCHANGED <<tree, data>>
    BY <1>4 DEF Refused, RenameEntries, fs
  <2>2. Ground(g, at)'
    BY <1>3, <2>1 DEF Ground
  <2> QED BY <2>2
<1>5. CASE HasDir(InitTree, b) /\ RenameOne(k)
  <2>1. Own2(k)
    BY <1>1 DEF Steady, Own2
  <2>2. Fit(j) /\ Renaming(j, tree, s)
    <3>1. RenameAt(k)
      BY <2>1 DEF RenameInv
    <3> QED BY <1>5, <2>1, <3>1, OwnFits DEF RenameAt
  <2>3. s # <<>> /\ Len(s) \in Nat /\ Len(s) > 0 /\ StepOK(k, s[1])
    BY <1>1, FirstStepOK
  <2>4. 1 \in 1..Len(s) /\ RenameStep(j, tree, s, s[1])
    BY <2>2, <2>3 DEF Renaming
  <2> DEFINE u == Append(Front(m), NewName[Last(m)])
  <2>5. /\ s[1].do \in {"newname", "newdir"} /\ Last(m) \in DOMAIN NewName
        /\ CanRename(tree, m, u) /\ tree' = Rename(tree, m, u) /\ UNCHANGED data
    <3>1. s[1].do \in {"namesAndDirs", "names", "newname", "newdir"}
      BY <2>4 DEF RenameStep
    <3> QED BY <1>5, <3>1 DEF RenameOne, From, Does
  <2>6. m \in Paths /\ b \in Paths
    BY <2>2, <2>3, <2>5 DEF StepOK, Reach, Fit
  <2>7. \E x \in Region(g) : m = at[x] /\ IsPrefix(b, x) /\ b # x /\ Last(m) = Last(x)
    <3>1. CASE s[1].do = "newname"
      <4>1. PICK p \in Below(b) : Moved(j, p) = m
        BY <2>4, <3>1 DEF RenameStep
      <4>2. /\ p \in Paths /\ p \in DOMAIN InitTree /\ InitTree[p] # Dir /\ IsPrefix(b, p) /\ b # p
        BY <2>2, <4>1, BelowIs
      <4>3. Last(m) = Last(p)
        BY <2>6, <4>1, <4>2, MovedIs
      <4>4. Stands(tree, p, m)
        <5>1. Ahead(j, s[1], p)
          BY <3>1, <4>1 DEF Ahead
        <5> QED BY <2>2, <2>4, <4>1, <5>1 DEF Renaming, Ways
      <4>5. p \in Region(g)
        BY <2>6, <4>2, PrefixOrder DEF Region
      <4>6. at[p] \in DOMAIN tree /\ tree[at[p]] = p
        BY <4>2, <4>5, StartPath DEF Ground
      <4>7. at[p] = m
        BY <4>4, <4>6 DEF Stands, Only
      <4> QED BY <4>2, <4>3, <4>5, <4>7
    <3>2. CASE s[1].do = "newdir"
      <4>1. PICK n \in Names : m = Append(b, n)
        BY <2>4, <3>2 DEF RenameStep
      <4>2. m \in DOMAIN InitTree /\ m \in DOMAIN tree
        BY <2>4, <3>2 DEF RenameStep, HasDir
      <4>3. IsPrefix(b, m) /\ b # m
        <5>1. IsPrefix(b, Append(b, n)) /\ ~IsPrefix(Append(b, n), b)
          BY <2>6, EntryPath
        <5> QED BY <4>1, <5>1
      <4>4. m \in Region(g)
        BY <2>6, <4>2, <4>3, PrefixOrder DEF Region
      <4>5. m = at[m]
        BY <2>6, <4>2, <4>4, AliasSelf, GroundAt
      <4> QED BY <4>3, <4>4, <4>5
    <3> QED BY <2>5, <3>1, <3>2
  <2>8. PICK x \in Region(g) : m = at[x] /\ IsPrefix(b, x) /\ b # x /\ Last(m) = Last(x)
    BY <2>7
  <2>9. PICK q : q = m
    OBVIOUS
  <2>10. PICK v : v = u
    OBVIOUS
  <2>11. PICK t : t = Rename(tree, q, v)
    OBVIOUS
  <2> HIDE DEF u, m
  <2>12. /\ q = at[x] /\ IsPrefix(job[k].from, x) /\ job[k].from # x /\ Last(x) \in DOMAIN NewName
         /\ Last(q) = Last(x) /\ v = Append(Front(q), NewName[Last(q)]) /\ CanRename(tree, q, v)
    BY <2>5, <2>8, <2>9, <2>10 DEF u
  <2>13. Settled(g, t)
    <3>1. Steady(k) /\ Calm(g) /\ Ground(g, at) /\ FilesInv
      OBVIOUS
    <3> QED BY ONLY <2>11, <2>12, <3>1, k \in Calls, g \in Paths, x \in Region(g), GroundMoved
  <2>14. tree' = t
    BY <2>5, <2>9, <2>10, <2>11
  <2>15. PICK f :
           /\ \A y \in Region(g) : /\ Alias(f[y], y) /\ IsPrefix(g, f[y])
                                   /\ f[y] \in DOMAIN tree' /\ tree'[f[y]] = InitTree[y]
           /\ \A r \in DOMAIN tree' : IsPrefix(g, r) => \E y \in Region(g) : r = f[y]
           /\ \A y \in Region(g) : InitTree[y] # Dir => Only(tree', y, f[y])
    BY <2>13, <2>14 DEF Settled
  <2>16. Ground(g, f)'
    BY <1>3, <2>5, <2>15
  <2> QED BY <2>16
<1> QED BY <1>4, <1>5, RenameHolds

\* Before the first step nothing has moved,
LEMMA GroundInit ==
  ASSUME EditsInit, FilesInv
  PROVE  GroundInv
<1> SUFFICES ASSUME NEW g \in Paths, Calm(g) PROVE \E at : Ground(g, at)
  BY DEF GroundInv
<1>1. tree = InitTree /\ data = InitText
  BY DEF EditsInit
<1>2. PICK at : at = [x \in Region(g) |-> x]
  OBVIOUS
<1>3. ASSUME NEW x \in Region(g)
      PROVE  /\ at[x] = x /\ Alias(x, x) /\ IsPrefix(g, x) /\ x \in DOMAIN tree
             /\ tree[x] = InitTree[x]
  BY <1>1, <1>2, StartPath, AliasSelf DEF Region
<1>4. \A q \in DOMAIN tree : IsPrefix(g, q) => \E x \in Region(g) : q = at[x]
  BY <1>1, <1>3 DEF Region
<1>5. ASSUME NEW x \in Region(g), InitTree[x] # Dir
      PROVE  /\ Only(tree, x, at[x]) /\ x \in DOMAIN data /\ data[x] = InitText[x]
             /\ \A k \in Calls : Apart(todo[k], x)
  <2>1. x \in DOMAIN InitTree /\ at[x] = x
    BY <1>3 DEF Region
  <2>2. x # Dir /\ x \in DOMAIN InitText
    BY <1>5, <2>1, StartPath
  <2>3. Only(tree, x, at[x])
    BY <2>1, <2>2, AtStart DEF Only
  <2>4. \A k \in Calls : Apart(todo[k], x)
    BY AtStart DEF Apart
  <2> QED BY <1>1, <2>2, <2>3, <2>4
<1>6. Ground(g, at)
  BY <1>3, <1>4, <1>5 DEF Ground
<1> QED BY <1>6

\* and then all that is read is where the renamings have brought it, whatever
\* call takes a step.
LEMMA GroundNext ==
  ASSUME FilesInv, FilesInv', AllSeqs, RenameInv, RenameInv', GroundInv, [EditsNext]_editVars
  PROVE  GroundInv'
<1>1. CASE UNCHANGED editVars
  <2>1. UNCHANGED <<tree, data, job, todo>>
    BY <1>1 DEF editVars, treeVars
  <2>2. ASSUME NEW g \in Paths, Calm(g)' PROVE \E at : Ground(g, at)'
    <3>1. Calm(g)
      BY <2>1, <2>2, SameNames
    <3>2. PICK at : Ground(g, at)
      BY <3>1 DEF GroundInv
    <3>3. \A x \in Region(g) : Alias(at[x], x)'
      BY <2>1, <3>2, SameNames DEF Ground
    <3>4. Ground(g, at)'
      BY <2>1, <3>2, <3>3 DEF Ground
    <3> QED BY <3>4
  <2> QED BY <2>2 DEF GroundInv
<1>2. CASE EditsNext
  <2>1. PICK k \in Calls : Acts(k)
    BY <1>2, NextActs
  <2>2. job' = job
    BY <2>1, ActChanges
  <2>3. ASSUME NEW g \in Paths, Calm(g)' PROVE \E at : Ground(g, at)'
    <3>1. Calm(g)
      BY <2>2, <2>3, SameNames
    <3>2. PICK at : Ground(g, at)
      BY <3>1 DEF GroundInv
    <3>3. CASE ~Meets(Writes(job[k]), {g})
      <4>1. Ground(g, at)'
        BY <2>1, <3>2, <3>3, GroundOther
      <4> QED BY <4>1
    <3>4. CASE Steady(k) /\ IsPrefix(g, job[k].from)
      BY <2>1, <3>1, <3>2, <3>4, GroundOwn
    <3> QED BY <3>1, <3>3, <3>4 DEF Calm
  <2> QED BY <2>3 DEF GroundInv
<1> QED BY <1>1, <1>2

-----------------------------------------------------------------------------
(* Copies: what they read *)

\* A copy is of one path, or of the template, to another path.
LEMMA CopyIs ==
  ASSUME NEW c \in Calls, FilesInv, Own3(c)
  PROVE  /\ job[c].from \in Paths /\ job[c].to \in Paths /\ Writes(job[c]) = {job[c].to}
         /\ job[c] \in Jobs
<1>1. job[c] \in Jobs /\ job[c].op \in {"CopyFile", "Copy", "CopyDir", "CopyTpl"}
  BY WritesPaths DEF Own3
<1>2. job[c].from \in Paths /\ job[c].to \in Paths
  BY <1>1, TreesAssumption DEF Operations
<1>3. Writes(job[c]) = {job[c].to}
  BY <1>1 DEF Writes
<1> QED BY <1>1, <1>2, <1>3

\* What it reads is at a place, or below, where nothing happens but renamings.
LEMMA CopyCalm ==
  ASSUME NEW c \in Calls, FilesInv, Own3(c), job[c].op # "CopyTpl"
  PROVE  \E g \in Paths : Calm(g) /\ IsPrefix(g, job[c].from)
<1> DEFINE f == job[c].from
<1>1. f \in Paths /\ Writes(job[c]) = {job[c].to}
  BY CopyIs
<1>2. ~Meets({f}, {job[c].to}) /\ \A k \in Calls \ {c} : ~Meets(Writes(job[k]), {f}) \/ Steady(k)
  BY DEF Own3
<1>3. CASE \E k \in Calls : Steady(k) /\ IsPrefix(job[k].from, f)
  <2>1. PICK k \in Calls : Steady(k) /\ IsPrefix(job[k].from, f)
    BY <1>3
  <2>2. job[k].from \in Paths
    BY <2>1, SteadyIs
  <2>3. IsPrefix(job[k].from, job[k].from)
    BY <2>2, PrefixOrder
  <2>4. \A i \in Calls \ {k} : ~Meets(Writes(job[i]), {job[k].from})
    BY <2>1 DEF Steady, Quiet
  <2>5. Calm(job[k].from)
    BY <2>1, <2>3, <2>4 DEF Calm
  <2> QED BY <2>1, <2>2, <2>5
<1>4. CASE ~\E k \in Calls : Steady(k) /\ IsPrefix(job[k].from, f)
  <2>1. ASSUME NEW k \in Calls
        PROVE  ~Meets(Writes(job[k]), {f}) \/ (Steady(k) /\ IsPrefix(f, job[k].from))
    <3>1. CASE k = c
      BY <1>1, <1>2, <3>1 DEF Meets
    <3>2. CASE k # c /\ Steady(k) /\ Meets(Writes(job[k]), {f})
      <4>1. Writes(job[k]) = {job[k].from}
        BY <3>2, SteadyIs
      <4> QED BY <1>4, <3>2, <4>1 DEF Meets
    <3> QED BY <1>2, <3>1, <3>2
  <2>2. IsPrefix(f, f)
    BY <1>1, PrefixOrder
  <2> QED BY <1>1, <2>1, <2>2 DEF Calm
<1> QED BY <1>3, <1>4

\* A directory that is read has an entry on the way to every file that is to be
\* copied and is below, and the files that are copied are as they were.
LEMMA CopySource ==
  ASSUME NEW c \in Calls, FilesInv, GroundInv, Own3(c), job[c].op # "CopyTpl"
  PROVE  /\ \A r \in DOMAIN tree : \A x : Reads(job[c], r, x) => tree[r] = InitTree[x]
         /\ \A p \in Sources(job[c]) :
              /\ p \in Paths /\ InitTree[p] = p /\ p \in DOMAIN InitTree /\ p # Dir
              /\ IsText(InitText[p]) /\ data[p] = InitText[p]
         /\ \A r \in DOMAIN tree : \A x : \A p \in Sources(job[c]) :
              Reads(job[c], r, x) /\ tree[r] = Dir /\ IsPrefix(x, p) =>
                \E n \in Names : /\ Append(r, n) \in DOMAIN tree
                                 /\ \E z : Reads(job[c], Append(r, n), z) /\ IsPrefix(z, p)
<1> DEFINE j == job[c]
           f == job[c].from
<1>1. PICK g \in Paths : Calm(g) /\ IsPrefix(g, f)
  BY CopyCalm
<1>2. PICK at : Ground(g, at)
  BY <1>1 DEF GroundInv
<1>3. f \in Paths /\ DOMAIN tree \subseteq Paths
  BY CopyIs DEF FilesInv, Rooted
<1>4. ASSUME NEW r \in DOMAIN tree, NEW x, Reads(j, r, x)
      PROVE  /\ x \in Region(g) /\ at[x] = r /\ tree[r] = InitTree[x] /\ IsPrefix(f, r)
             /\ x \in DOMAIN InitTree /\ x \in Paths /\ r \in Paths
  <2>1. r \in Paths /\ IsPrefix(f, r) /\ x \in DOMAIN InitTree /\ Alias(r, x)
    BY <1>4 DEF Reads
  <2>2. IsPrefix(g, r)
    BY <1>1, <1>3, <2>1, PrefixOrder
  <2>3. PICK z \in Region(g) : r = at[z]
    BY <1>2, <2>2 DEF Ground
  <2>4. Alias(r, z) /\ z \in DOMAIN InitTree /\ tree[r] = InitTree[z]
    BY <1>2, <2>3 DEF Ground, Region
  <2>5. z = x
    BY <2>1, <2>4, AliasOne
  <2> QED BY <2>1, <2>3, <2>4, <2>5, StartPath
<1>5. ASSUME NEW p \in Sources(j)
      PROVE  /\ p \in Paths /\ InitTree[p] = p /\ p \in DOMAIN InitTree /\ p # Dir /\ InitTree[p] # Dir
             /\ IsText(InitText[p]) /\ data[p] = InitText[p] /\ p \in Region(g)
  <2>1. p \in DOMAIN InitTree /\ InitTree[p] # Dir /\ IsPrefix(f, p)
    BY DEF Sources, Below, Files
  <2>2. p \in Paths /\ InitTree[p] = p /\ p # Dir /\ p \in DOMAIN InitText
    BY <2>1, StartPath
  <2>3. p \in Region(g)
    BY <1>1, <1>3, <2>1, <2>2, PrefixOrder DEF Region
  <2>4. data[p] = InitText[p]
    BY <1>2, <2>1, <2>3 DEF Ground
  <2>5. IsText(InitText[p])
    BY <2>2, EditsAssumption
  <2> QED BY <2>1, <2>2, <2>3, <2>4, <2>5
<1>6. ASSUME NEW r \in DOMAIN tree, NEW x, NEW p \in Sources(j), Reads(j, r, x), tree[r] = Dir,
             IsPrefix(x, p)
      PROVE  \E n \in Names : /\ Append(r, n) \in DOMAIN tree
                              /\ \E z : Reads(j, Append(r, n), z) /\ IsPrefix(z, p)
  <2>1. /\ x \in Region(g) /\ at[x] = r /\ tree[r] = InitTree[x] /\ IsPrefix(f, r)
        /\ x \in DOMAIN InitTree /\ x \in Paths /\ r \in Paths
    BY <1>4, <1>6
  <2>2. p \in Paths /\ p \in DOMAIN InitTree /\ InitTree[p] # Dir /\ x # p
    BY <1>5, <1>6, <2>1
  <2> DEFINE z == Append(x, p[Len(x) + 1])
  <2>3. z \in Paths /\ IsPrefix(z, p) /\ Len(z) = Len(x) + 1 /\ p[Len(x) + 1] \in Names
    BY <1>6, <2>1, <2>2, ChildIs
  <2>4. IsPrefix(x, z)
    BY <2>1, <2>3, EntryPath
  <2>5. z \in DOMAIN InitTree
    BY <2>2, <2>3, StartPath, RootedAbove
  <2> HIDE DEF z
  <2>6. z \in Region(g)
    <3>1. IsPrefix(g, x)
      BY <2>1 DEF Region
    <3>2. IsPrefix(g, z)
      BY <2>1, <2>3, <2>4, <3>1, PrefixOrder
    <3> QED BY <2>5, <3>2 DEF Region
  <2> DEFINE q == at[z]
  <2>7. q \in Paths /\ Len(q) = Len(z) /\ IsPrefix(r, q) /\ Len(r) = Len(x)
    BY <1>1, <1>2, <2>1, <2>4, <2>6, GroundCut
  <2>8. q \in DOMAIN tree /\ Alias(q, z)
    BY <1>2, <2>6 DEF Ground
  <2> HIDE DEF q
  <2>9. Len(x) \in Nat /\ Len(r) # Len(q)
    BY <2>1, <2>3, <2>7, PathLen
  <2>10. q # <<>> /\ r # q
    <3>1. Len(q) > 0
      BY <2>3, <2>7, <2>9
    <3> QED BY <2>7, <2>9, <3>1, NotRoot
  <2>11. /\ Front(q) \in Paths /\ Len(Front(q)) = Len(q) - 1 /\ Last(q) \in Names
         /\ q = Append(Front(q), Last(q)) /\ IsPrefix(r, Front(q))
    BY <2>1, <2>7, <2>10, FrontPath
  <2>12. r = Front(q)
    <3>1. Len(r) = Len(Front(q))
      BY <2>3, <2>7, <2>9, <2>11
    <3>2. Len(r) \in Nat
      BY <2>7, <2>9
    <3>3. r # Front(q) <=> Len(r) < Len(Front(q))
      BY <2>1, <2>11, PrefixCut
    <3> QED BY <3>1, <3>2, <3>3
  <2>13. Reads(j, q, z)
    <3>1. IsPrefix(f, q)
      BY <1>3, <2>1, <2>7, PrefixOrder
    <3> QED BY <2>5, <2>7, <2>8, <3>1 DEF Reads
  <2>14. q = Append(r, Last(q))
    BY <2>11, <2>12
  <2> QED BY <2>3, <2>8, <2>11, <2>13, <2>14
<1> QED BY <1>4, <1>5, <1>6

\* The same for the tree that is embedded in the program.
LEMMA TemplateEntry ==
  ASSUME NEW r \in Paths, NEW p \in Files(Template), IsPrefix(r, p), r # p
  PROVE  /\ p \in Paths
         /\ \E n \in Names : /\ Append(r, n) \in DOMAIN Template /\ IsPrefix(Append(r, n), p)
                             /\ HasDir(Template, Append(r, n)) <=> Append(r, n) # p
<1>1. Rooted(Template) /\ p \in DOMAIN Template /\ Template[p] # Dir /\ p \in Paths
  BY TreesAssumption DEF Files, Rooted
<1> DEFINE n == p[Len(r) + 1]
           z == Append(r, n)
<1>2. n \in Names /\ z \in Paths /\ IsPrefix(z, p)
  BY <1>1, ChildIs
<1> HIDE DEF n
<1>3. z \in DOMAIN Template /\ (z # p => Template[z] = Dir)
  BY <1>1, <1>2, RootedAbove
<1> QED BY <1>1, <1>2, <1>3 DEF HasDir

-----------------------------------------------------------------------------
(* Copies: what they write *)

\* Where a copy goes is settled by what the call is, and so is what it may make.
LEMMA SameCopy ==
  ASSUME job' = job
  PROVE  /\ \A j, r, x : Reads(j, r, x)' <=> Reads(j, r, x)
         /\ \A j, p, q : CopyOf(j, p, q)' <=> CopyOf(j, p, q)
         /\ \A j, s, p : Begins(j, s, p)' <=> Begins(j, s, p)
         /\ \A j, s, p : Opens(j, s, p)' <=> Opens(j, s, p)
         /\ \A c, s, q : Target(c, s, q)' <=> Target(c, s, q)
<1>1. \A j, r, x : Reads(j, r, x)' <=> Reads(j, r, x)
  BY SameNames DEF Reads
<1>2. \A j, p, q : CopyOf(j, p, q)' <=> CopyOf(j, p, q)
  BY <1>1 DEF CopyOf
<1>3. \A j, s, p : Begins(j, s, p)' <=> Begins(j, s, p)
  BY <1>1 DEF Begins
<1>4. \A j, s, p : Opens(j, s, p)' <=> Opens(j, s, p)
  BY <1>2 DEF Opens
<1>5. \A c, s, q : Target(c, s, q)' <=> Target(c, s, q)
  BY DEF Target
<1> QED BY <1>1, <1>2, <1>3, <1>4, <1>5

\* Copies are below the target.
LEMMA CopyOfBelow ==
  ASSUME NEW j, j.from \in Paths, j.to \in Paths, NEW p, NEW q, CopyOf(j, p, q)
  PROVE  q \in Paths /\ IsPrefix(j.to, q)
<1>1. PICK r : Reads(j, r, p) /\ q = Shift(j.from, j.to, r)
  BY DEF CopyOf
<1>2. r \in Paths /\ IsPrefix(j.from, r)
  BY <1>1 DEF Reads
<1> QED BY <1>1, <1>2, ShiftPath, ShiftBack

\* Paths below different ones of which neither is below the other.
LEMMA AcrossBelow ==
  ASSUME NEW p \in Paths, NEW q \in Paths, Across(p, q)
  PROVE  /\ Across(q, p) /\ p # q
         /\ \A r \in Paths : IsPrefix(p, r) => Across(r, q) /\ Across(q, r)
BY PrefixOrder DEF Across

\* Files at different paths below the target have different nodes.
LEMMA NodesApart ==
  ASSUME NEW c \in Calls, NEW q \in Paths, NEW n \in Nodes(c, q)
  PROVE  /\ n # Dir /\ \A r \in Paths : n \in Nodes(c, r) => r = q
         /\ \A k \in Calls \ {c} : \A r \in Paths : n # <<k, r>>
<1>1. \A r \in Files(InitTree) : r # Dir /\ r \notin Calls \X Paths
  BY StartPath DEF Files
<1>2. Dir \notin Calls \X Paths
  BY TreesAssumption
<1> QED BY <1>1, <1>2 DEF Nodes

\* A step of another call does not touch a copy.
LEMMA CopyOther ==
  ASSUME NEW c \in Calls, NEW k \in Calls \ {c}, FilesInv, AllSeqs, Acts(k), Own3(c), CopyAt(c)
  PROVE  CopyAt(c)'
<1>1. /\ job' = job /\ todo'[c] = todo[c] /\ \A i \in Calls \ {k} : todo'[i] = todo[i]
  BY ActChanges
<1> DEFINE j == job[c]
<1>2. j.from \in Paths /\ j.to \in Paths /\ Writes(job[k]) \subseteq Paths
  BY CopyIs, WritesPaths
<1>3. ASSUME NEW q \in Paths, IsPrefix(j.to, q), NEW n \in Nodes(c, q)
      PROVE  /\ Only(tree', n, q) /\ \A i \in Calls \ {c} : Apart(todo'[i], n)
             /\ n \in DOMAIN data => n \in DOMAIN data' /\ data'[n] = data[n]
             /\ q \in DOMAIN tree' <=> q \in DOMAIN tree
             /\ q \in DOMAIN tree => tree'[q] = tree[q]
  <2>1. ~Meets(Writes(job[k]), {q})
    <3>1. ~Meets(Writes(job[k]), {j.to})
      BY DEF Own3, Quiet
    <3> QED BY <1>2, <1>3, <3>1, BelowApart
  <2>2. Only(tree, n, q) /\ \A i \in Calls \ {c} : Apart(todo[i], n)
    BY <1>3 DEF CopyAt, CopyNodes
  <2>3. n # Dir /\ \A r \in Paths : n # <<k, r>>
    BY <1>3, NodesApart
  <2>4. /\ Only(tree', n, q) /\ Apart(todo'[k], n)
        /\ n \in DOMAIN data => n \in DOMAIN data' /\ data'[n] = data[n]
        /\ q \in DOMAIN tree' <=> q \in DOMAIN tree
        /\ q \in DOMAIN tree => tree'[q] = tree[q]
    BY <1>3, <2>1, <2>2, <2>3, NodeAlone
  <2>5. ASSUME NEW i \in Calls \ {c} PROVE Apart(todo'[i], n)
    <3>1. CASE i = k
      BY <2>4, <3>1
    <3>2. CASE i # k
      <4>1. todo'[i] = todo[i] /\ Apart(todo[i], n)
        BY <1>1, <2>2, <3>2
      <4> QED BY <4>1
    <3> QED BY <3>1, <3>2
  <2> QED BY <2>4, <2>5
<1>4. ASSUME NEW q \in Paths, IsPrefix(j.to, q)
      PROVE  (q \in DOMAIN tree' <=> q \in DOMAIN tree) /\ (q \in DOMAIN tree => tree'[q] = tree[q])
  <2>1. <<c, q>> \in Nodes(c, q)
    BY DEF Nodes
  <2> QED BY <1>3, <1>4, <2>1
<1>5. CopyNodes(c)'
  <2>1. ASSUME NEW q \in Paths, IsPrefix(j.to, q)
        PROVE  /\ HasFile(tree', q) => tree'[q] \in Nodes(c, q)
               /\ \A n \in Nodes(c, q) : Only(tree', n, q) /\ \A i \in Calls \ {c} : Apart(todo'[i], n)
    <3>1. HasFile(tree', q) => tree'[q] \in Nodes(c, q)
      BY <1>4, <2>1 DEF CopyAt, CopyNodes, HasFile
    <3> QED BY <1>3, <2>1, <3>1
  <2> QED BY <1>1, <2>1 DEF CopyNodes
<1>6. CopySteps(c, todo[c])'
  <2>1. CopySteps(c, todo[c])
    BY DEF CopyAt
  <2>2. \A s, q : Target(c, s, q)' <=> Target(c, s, q)
    BY <1>1, SameCopy
  <2> QED BY <1>1, <2>1, <2>2 DEF CopySteps
\* A file below the target, and what is in it.
<1>7. ASSUME NEW q, NEW p, CopyOf(j, p, q), HasFile(tree, q)
      PROVE  /\ HasFile(tree', q) /\ tree'[q] = tree[q] /\ data'[tree[q]] = data[tree[q]]
  <2>1. q \in Paths /\ IsPrefix(j.to, q)
    BY <1>2, <1>7, CopyOfBelow
  <2>2. tree[q] \in Nodes(c, q) /\ tree[q] \in DOMAIN data
    <3>1. q \in Files(tree)
      BY <1>7 DEF HasFile, Files
    <3> QED BY <1>7, <2>1, <3>1 DEF CopyAt, CopyNodes, FilesInv
  <2> QED BY <1>3, <1>4, <1>7, <2>1, <2>2 DEF HasFile
<1>8. \A p, q : CopyOf(j, p, q)' <=> CopyOf(j, p, q)
  BY <1>1, SameCopy
<1>9. ASSUME NEW p, Copied(c, p) PROVE Copied(c, p)'
  <2>1. PICK q : /\ CopyOf(j, p, q) /\ HasFile(tree, q) /\ data[tree[q]] = Content(j, p)
                 /\ \A i \in 1..Len(todo[c]) : \A y : Target(c, todo[c][i], y) => Across(y, q)
    BY <1>9 DEF Copied
  <2>2. \A s, y : Target(c, s, y)' <=> Target(c, s, y)
    BY <1>1, SameCopy
  <2> QED BY <1>1, <1>7, <1>8, <2>1, <2>2 DEF Copied
<1>10. ASSUME NEW p, NEW s, Copying(j, s, p) PROVE Copying(j, s, p)'
  <2>1. CASE Begins(j, s, p) \/ Opens(j, s, p) \/ (s.do = "data" /\ s.from = Dir)
    <3>1. Begins(j, s, p)' \/ Opens(j, s, p)' \/ (s.do = "data" /\ s.from = Dir)
      BY <1>1, <2>1, SameCopy
    <3> QED BY <3>1 DEF Copying
  <2>2. CASE Pours(j, s, p) /\ ~(s.do = "data" /\ s.from = Dir) /\ ~Begins(j, s, p) /\ ~Opens(j, s, p)
    <3>1. PICK q : CopyOf(j, p, q) /\ HasFile(tree, q) /\ tree[q] = s.to /\ data[s.to] = <<>>
      BY <1>10, <2>2 DEF Copying
    <3>2. HasFile(tree', q) /\ tree'[q] = s.to /\ data'[s.to] = <<>>
      BY <1>7, <3>1
    <3> QED BY <1>8, <2>2, <3>1, <3>2 DEF Copying, Pours
  <2> QED BY <1>10, <2>1, <2>2 DEF Copying
<1>11. ASSUME NEW p \in Sources(j)
       PROVE  Copied(c, p)' \/ \E i \in 1..Len(todo[c]) : Copying(j, todo[c][i], p)'
  <2>1. Copied(c, p) \/ \E i \in 1..Len(todo[c]) : Copying(j, todo[c][i], p)
    BY DEF CopyAt
  <2>2. CASE Copied(c, p)
    BY <1>9, <2>2
  <2>3. CASE \E i \in 1..Len(todo[c]) : Copying(j, todo[c][i], p)
    <3>1. PICK i \in 1..Len(todo[c]) : Copying(j, todo[c][i], p)
      BY <2>3
    <3>2. PICK s : s = todo[c][i]
      OBVIOUS
    <3> QED BY <1>1, <1>10, <3>1, <3>2
  <2> QED BY <2>1, <2>2, <2>3
<1> QED BY <1>1, <1>5, <1>6, <1>11 DEF CopyAt

\* What step s of c does to the files: nothing is taken away, new files have
\* nodes of c, and only files that it is to make are written to.
Keeps(c, s) ==
  /\ \A r \in DOMAIN tree' :
       tree'[r] = Dir \/ (r \in DOMAIN tree /\ tree'[r] = tree[r]) \/ tree'[r] = <<c, r>>
  /\ \A q : HasFile(tree, q) => q \in DOMAIN tree' /\ tree'[q] = tree[q]
  /\ \A q \in Paths : IsPrefix(job[c].to, q) /\ HasFile(tree, q) =>
       data'[tree[q]] = data[tree[q]] \/ \E z : Target(c, s, z) /\ ~Across(z, q)

\* Steps e make together what step s is to make.
Divides(c, s, e) ==
  /\ \A i \in 1..Len(e) :
       /\ e[i].do \in Makers \cup {"data", "write", "check"}
       /\ (e[i].do \in Makers => IsPrefix(job[c].to, e[i].to))
       /\ (e[i].do \in {"template", "fsdir", "folder", "writefile", "write"}
             <=> job[c].op = "CopyTpl")
       /\ \A y : Target(c, e[i], y) => \E z : Target(c, s, z) /\ IsPrefix(z, y)
  /\ \A i, h \in 1..Len(e) : i # h => \A y, z :
       Target(c, e[i], y) /\ Target(c, e[h], z) => Across(y, z)

\* What is copied to q, where step s was to make it.
Poured(c, s, p) == \E q :
  /\ CopyOf(job[c], p, q) /\ HasFile(tree, q) /\ data[tree[q]] = Content(job[c], p)
  /\ Target(c, s, q)

\* A step of the copy itself: what it has to copy is copied then, or by the
\* steps that it adds.
LEMMA CopyStepped ==
  ASSUME NEW c \in Calls, FilesInv, FilesInv', Own3(c), CopyAt(c), job' = job,
         \A k \in Calls \ {c} : todo'[k] = todo[k],
         NEW s, s = todo[c][1], NEW e, Follows(todo[c], e, todo'[c]), Keeps(c, s), Divides(c, s, e),
         \A p \in Sources(job[c]) : Copying(job[c], s, p) =>
           \/ \E i \in 1..Len(e) : Copying(job[c], e[i], p)'
           \/ Len(e) = 0 /\ Poured(c, s, p)'
  PROVE  CopyAt(c)'
<1> DEFINE j == job[c]
           o == todo[c]
           w == todo'[c]
<1>1. /\ \A m, p, q : CopyOf(m, p, q)' <=> CopyOf(m, p, q)
      /\ \A m, a, p : Begins(m, a, p)' <=> Begins(m, a, p)
      /\ \A m, a, p : Opens(m, a, p)' <=> Opens(m, a, p)
      /\ \A a, q : Target(c, a, q)' <=> Target(c, a, q)
  BY SameCopy
<1>2. j.from \in Paths /\ j.to \in Paths
  BY CopyIs
<1>3. CopyNodes(c) /\ CopySteps(c, o)
  BY DEF CopyAt
<1>4. Len(o) \in Nat /\ Len(o) > 0 /\ Len(e) \in Nat
  BY DEF Follows
<1>5. 1 \in 1..Len(o) /\ \A h \in 2..Len(o) : h \in 1..Len(o) /\ h # 1
  BY <1>4
<1>6. CopyNodes(c)'
  <2>1. ASSUME NEW q \in Paths, IsPrefix(j.to, q)
        PROVE  /\ HasFile(tree', q) => tree'[q] \in Nodes(c, q)
               /\ \A n \in Nodes(c, q) : Only(tree', n, q) /\ \A i \in Calls \ {c} : Apart(todo'[i], n)
    <3>1. HasFile(tree, q) => tree[q] \in Nodes(c, q)
      BY <1>3, <2>1 DEF CopyNodes
    <3>2. HasFile(tree', q) => tree'[q] \in Nodes(c, q)
      BY <3>1 DEF Keeps, HasFile, Nodes
    <3>3. ASSUME NEW n \in Nodes(c, q), NEW r \in DOMAIN tree', tree'[r] = n PROVE r = q
      <4>1. n # Dir /\ \A x \in Paths : n \in Nodes(c, x) => x = q
        BY <2>1, <3>3, NodesApart
      <4>2. r \in Paths
        BY DEF FilesInv, Rooted
      <4>3. (r \in DOMAIN tree /\ tree[r] = n) \/ n = <<c, r>>
        BY <3>3, <4>1 DEF Keeps
      <4>4. CASE r \in DOMAIN tree /\ tree[r] = n
        BY <1>3, <2>1, <3>3, <4>4 DEF CopyNodes, Only
      <4>5. CASE n = <<c, r>>
        BY <4>1, <4>2, <4>5 DEF Nodes
      <4> QED BY <4>3, <4>4, <4>5
    <3>4. \A n \in Nodes(c, q) : \A i \in Calls \ {c} : Apart(todo'[i], n)
      <4> SUFFICES ASSUME NEW n \in Nodes(c, q), NEW i \in Calls \ {c} PROVE Apart(todo'[i], n)
        OBVIOUS
      <4>1. todo'[i] = todo[i] /\ Apart(todo[i], n)
        BY <1>3, <2>1 DEF CopyNodes
      <4> QED BY <4>1
    <3> QED BY <3>2, <3>3, <3>4 DEF Only
  <2> QED BY <2>1 DEF CopyNodes
\* The steps that are left are old ones, or below the first one.
<1>7. ASSUME NEW i \in 1..Len(w)
      PROVE  \/ i \in 1..Len(e) /\ w[i] = e[i]
             \/ \E h \in 2..Len(o) : i = Len(e) + h - 1 /\ w[i] = o[h]
  BY DEF Follows
<1>8. ASSUME NEW h \in 1..Len(o), NEW i \in 1..Len(e), h # 1, NEW y,
             Target(c, e[i], y), NEW z, Target(c, o[h], z)
      PROVE  Across(y, z) /\ Across(z, y)
  <2>1. PICK x : Target(c, s, x) /\ IsPrefix(x, y)
    BY <1>8 DEF Divides
  <2>2. Across(x, z)
    BY <1>3, <1>5, <1>8, <2>1 DEF CopySteps
  <2>3. x \in Paths /\ y \in Paths /\ z \in Paths
    BY <1>8, <2>1 DEF Target
  <2>4. Across(y, z)
    BY <2>1, <2>2, <2>3, AcrossBelow
  <2> QED BY <2>4 DEF Across
<1>9. CopySteps(c, w)
  <2>1. ASSUME NEW i \in 1..Len(w)
        PROVE  /\ w[i].do \in Makers \cup {"data", "write", "check"}
               /\ (w[i].do \in Makers => IsPrefix(j.to, w[i].to))
               /\ (w[i].do \in {"template", "fsdir", "folder", "writefile", "write"}
                     <=> j.op = "CopyTpl")
    <3>1. CASE i \in 1..Len(e) /\ w[i] = e[i]
      BY <3>1 DEF Divides
    <3>2. CASE \E h \in 2..Len(o) : w[i] = o[h]
      BY <1>3, <1>5, <3>2 DEF CopySteps
    <3> QED BY <1>7, <3>1, <3>2
  <2>2. ASSUME NEW i \in 1..Len(w), NEW h \in 1..Len(w), i # h, NEW y, NEW z,
               Target(c, w[i], y), Target(c, w[h], z)
        PROVE  Across(y, z)
    <3>1. CASE i \in 1..Len(e) /\ w[i] = e[i] /\ h \in 1..Len(e) /\ w[h] = e[h]
      BY <2>2, <3>1 DEF Divides
    <3>2. CASE i \in 1..Len(e) /\ w[i] = e[i] /\ \E l \in 2..Len(o) : w[h] = o[l]
      BY <1>5, <1>8, <2>2, <3>2
    <3>3. CASE h \in 1..Len(e) /\ w[h] = e[h] /\ \E l \in 2..Len(o) : w[i] = o[l]
      BY <1>5, <1>8, <2>2, <3>3
    <3>4. CASE /\ \E l \in 2..Len(o) : i = Len(e) + l - 1 /\ w[i] = o[l]
               /\ \E l \in 2..Len(o) : h = Len(e) + l - 1 /\ w[h] = o[l]
      <4>1. PICK l \in 2..Len(o) : i = Len(e) + l - 1 /\ w[i] = o[l]
        BY <3>4
      <4>2. PICK m \in 2..Len(o) : h = Len(e) + m - 1 /\ w[h] = o[m]
        BY <3>4
      <4>3. l # m /\ l \in 1..Len(o) /\ m \in 1..Len(o)
        BY <1>5, <2>2, <4>1, <4>2
      <4> QED BY <1>3, <2>2, <4>1, <4>2, <4>3 DEF CopySteps
    <3> QED BY <1>7, <3>1, <3>2, <3>3, <3>4
  <2> QED BY <2>1, <2>2 DEF CopySteps
<1>10. CopySteps(c, todo[c])'
  BY <1>1, <1>9 DEF CopySteps
\* A file that no step is to make keeps what is in it.
<1>11. ASSUME NEW p, NEW q, CopyOf(j, p, q), HasFile(tree, q),
              \A z : Target(c, s, z) => Across(z, q)
       PROVE  HasFile(tree', q) /\ tree'[q] = tree[q] /\ data'[tree[q]] = data[tree[q]]
  <2>1. q \in Paths /\ IsPrefix(j.to, q)
    BY <1>2, <1>11, CopyOfBelow
  <2>2. data'[tree[q]] = data[tree[q]]
    BY <1>11, <2>1 DEF Keeps
  <2> QED BY <1>11, <2>2 DEF Keeps, HasFile
<1>12. ASSUME NEW p, Copied(c, p) PROVE Copied(c, p)'
  <2>1. PICK q : /\ CopyOf(j, p, q) /\ HasFile(tree, q) /\ data[tree[q]] = Content(j, p)
                 /\ \A i \in 1..Len(o) : \A y : Target(c, o[i], y) => Across(y, q)
    BY <1>12 DEF Copied
  <2>2. HasFile(tree', q) /\ data'[tree'[q]] = Content(j, p)
    BY <1>5, <1>11, <2>1
  <2>3. q \in Paths
    BY <1>2, <2>1, CopyOfBelow
  <2>4. ASSUME NEW i \in 1..Len(w), NEW y, Target(c, w[i], y) PROVE Across(y, q)
    <3>1. CASE i \in 1..Len(e) /\ w[i] = e[i]
      <4>1. PICK x : Target(c, s, x) /\ IsPrefix(x, y)
        BY <2>4, <3>1 DEF Divides
      <4>2. Across(x, q) /\ x \in Paths /\ y \in Paths
        BY <1>5, <2>1, <2>4, <4>1 DEF Target
      <4> QED BY <2>3, <4>1, <4>2, AcrossBelow
    <3>2. CASE \E h \in 2..Len(o) : w[i] = o[h]
      BY <1>5, <2>1, <2>4, <3>2
    <3> QED BY <1>7, <3>1, <3>2
  <2>5. CopyOf(j, p, q)'
    BY <1>1, <2>1
  <2>6. \A i \in 1..Len(w) : \A y : Target(c, todo[c][i], y)' => Across(y, q)
    BY <1>1, <2>4
  <2> QED BY <2>2, <2>5, <2>6 DEF Copied, Content
<1>13. ASSUME NEW p, NEW h \in 2..Len(o), Copying(j, o[h], p)
       PROVE  \E i \in 1..Len(w) : Copying(j, todo[c][i], p)'
  <2>1. Len(e) + h - 1 \in 1..Len(w) /\ w[Len(e) + h - 1] = o[h]
    BY DEF Follows
  <2>2. PICK a : a = o[h]
    OBVIOUS
  <2>3. CASE Begins(j, a, p) \/ Opens(j, a, p) \/ (a.do = "data" /\ a.from = Dir)
    <3>1. Begins(j, a, p)' \/ Opens(j, a, p)' \/ (a.do = "data" /\ a.from = Dir)
      BY <1>1, <2>3
    <3>2. Copying(j, a, p)'
      BY <3>1 DEF Copying
    <3> QED BY <2>1, <2>2, <3>2
  <2>4. CASE Pours(j, a, p) /\ ~(a.do = "data" /\ a.from = Dir) /\ ~Begins(j, a, p) /\ ~Opens(j, a, p)
    <3>1. PICK q : CopyOf(j, p, q) /\ HasFile(tree, q) /\ tree[q] = a.to /\ data[a.to] = <<>>
      BY <1>13, <2>2, <2>4 DEF Copying
    <3>2. q \in Paths /\ IsPrefix(j.to, q)
      BY <1>2, <3>1, CopyOfBelow
    <3>3. a.to \in Nodes(c, q)
      BY <1>3, <3>1, <3>2 DEF CopyNodes
    <3>4. a.do \in {"data", "write"}
      BY <2>4 DEF Pours
    <3>5. Target(c, a, q)
      BY <3>2, <3>3, <3>4 DEF Target, Makers
    <3>6. \A z : Target(c, s, z) => Across(z, q)
      BY <1>3, <1>5, <2>2, <3>5 DEF CopySteps
    <3>7. HasFile(tree', q) /\ tree'[q] = a.to /\ data'[a.to] = <<>>
      BY <1>11, <3>1, <3>6
    <3>8. CopyOf(j, p, q)'
      BY <1>1, <3>1
    <3>9. Copying(j, a, p)'
      BY <2>4, <3>7, <3>8 DEF Copying, Pours
    <3> QED BY <2>1, <2>2, <3>9
  <2> QED BY <1>13, <2>2, <2>3, <2>4 DEF Copying
<1>14. ASSUME NEW p, Poured(c, s, p)', Len(e) = 0 PROVE Copied(c, p)'
  <2>1. PICK q : /\ CopyOf(j, p, q)' /\ HasFile(tree', q) /\ data'[tree'[q]] = Content(j, p)'
                 /\ Target(c, s, q)'
    BY <1>14 DEF Poured
  <2>2. ASSUME NEW i \in 1..Len(w), NEW y, Target(c, w[i], y) PROVE Across(y, q)
    <3>1. PICK h \in 2..Len(o) : w[i] = o[h]
      BY <1>4, <1>7, <1>14
    <3>2. Target(c, o[h], y) /\ Target(c, o[1], q)
      BY <1>1, <2>1, <2>2, <3>1
    <3> QED BY <1>3, <1>5, <3>2 DEF CopySteps
  <2>3. \A i \in 1..Len(w) : \A y : Target(c, todo[c][i], y)' => Across(y, q)
    BY <1>1, <2>2
  <2> QED BY <2>1, <2>3 DEF Copied
<1>15. ASSUME NEW p \in Sources(j)
       PROVE  Copied(c, p)' \/ \E i \in 1..Len(w) : Copying(j, todo[c][i], p)'
  <2>1. Copied(c, p) \/ \E i \in 1..Len(o) : Copying(j, o[i], p)
    BY DEF CopyAt
  <2>2. CASE Copied(c, p)
    BY <1>12, <2>2
  <2>3. CASE \E i \in 1..Len(o) : Copying(j, o[i], p)
    <3>1. PICK i \in 1..Len(o) : Copying(j, o[i], p)
      BY <2>3
    <3>2. CASE i = 1
      <4>1. Copying(j, s, p)
        BY <3>1, <3>2
      <4>2. CASE \E l \in 1..Len(e) : Copying(j, e[l], p)'
        <5>1. PICK l \in 1..Len(e) : Copying(j, e[l], p)'
          BY <4>2
        <5>2. l \in 1..Len(w) /\ w[l] = e[l]
          BY DEF Follows
        <5>3. PICK a : a = e[l]
          OBVIOUS
        <5> QED BY <5>1, <5>2, <5>3
      <4> QED BY <1>14, <4>1, <4>2
    <3>3. CASE i # 1
      <4>1. i \in 2..Len(o)
        BY <1>4, <3>3
      <4> QED BY <1>13, <3>1, <4>1
    <3> QED BY <3>2, <3>3
  <2> QED BY <2>1, <2>2, <2>3
<1> QED BY <1>6, <1>10, <1>15 DEF CopyAt

\* A step that only makes directories, or nothing at all.
LEMMA KeepsMade ==
  ASSUME NEW c \in Calls, NEW s, FilesInv, data' = data, NEW q \in Paths,
         tree' = tree \/ Ensure(q) \/ (CanMkdirAll(tree, q) /\ tree' = MkdirAll(tree, q))
  PROVE  Keeps(c, s)
<1>1. CASE tree' = tree
  BY <1>1 DEF Keeps, HasFile
<1>2. CASE CanMkdirAll(tree, q) /\ tree' = MkdirAll(tree, q)
  <2>1. Grown(tree, tree', q)
    BY <1>2, MkdirAllTree DEF FilesInv
  <2> QED BY <2>1 DEF Keeps, Grown, HasFile
<1> QED BY <1>1, <1>2 DEF Ensure

\* A step that makes, or empties, the file that it is to make.
LEMMA KeepsCreated ==
  ASSUME NEW c \in Calls, NEW s, FilesInv, CopyNodes(c), NEW q, Target(c, s, q), Create(c, q)
  PROVE  /\ Keeps(c, s) /\ Opened(c, q) \in Nodes(c, q)
         /\ HasFile(tree', q) /\ tree'[q] = Opened(c, q) /\ data'[Opened(c, q)] = <<>>
<1> DEFINE n == Opened(c, q)
<1>1. q \in Paths /\ IsPrefix(job[c].to, q) /\ DOMAIN tree \subseteq Paths
  BY DEF Target, FilesInv, Rooted
<1>2. /\ CanCreate(tree, q) /\ n # Dir /\ tree' = Place(tree, q, n)
      /\ n = IF HasFile(tree, q) THEN tree[q] ELSE <<c, q>>
      /\ data'[n] = <<>> /\ \A m \in DOMAIN data : m # n => data'[m] = data[m]
  BY <1>1, CreateIs
<1>3. With(tree, tree', q, n)
  BY <1>1, <1>2, PlaceTree DEF FilesInv
<1>4. n \in Nodes(c, q)
  BY <1>1, <1>2 DEF CopyNodes, Nodes
<1> HIDE DEF n
<1>5. \A r \in DOMAIN tree' :
        tree'[r] = Dir \/ (r \in DOMAIN tree /\ tree'[r] = tree[r]) \/ tree'[r] = <<c, r>>
  BY <1>2, <1>3 DEF With, HasFile
<1>6. \A r : HasFile(tree, r) => r \in DOMAIN tree' /\ tree'[r] = tree[r]
  BY <1>2, <1>3 DEF With, HasFile
<1>7. ASSUME NEW r \in Paths, HasFile(tree, r)
      PROVE  data'[tree[r]] = data[tree[r]] \/ \E z : Target(c, s, z) /\ ~Across(z, r)
  <2>1. CASE r = q
    <3>1. IsPrefix(q, q)
      BY <1>1, PrefixOrder
    <3> QED BY <2>1, <3>1 DEF Across
  <2>2. CASE r # q
    <3>1. Only(tree, n, q)
      BY <1>1, <1>4 DEF CopyNodes
    <3>2. tree[r] # n /\ tree[r] \in DOMAIN data
      BY <1>7, <2>2, <3>1 DEF Only, HasFile, FilesInv, Files
    <3> QED BY <1>2, <3>2
  <2> QED BY <2>1, <2>2
<1>8. HasFile(tree', q) /\ tree'[q] = n
  BY <1>2, <1>3 DEF With, HasFile
<1>9. Keeps(c, s)
  BY <1>5, <1>6, <1>7 DEF Keeps
<1> QED BY <1>2, <1>4, <1>8, <1>9 DEF n

\* A step that writes to the node of the file that it is to make.
LEMMA KeepsWritten ==
  ASSUME NEW c \in Calls, NEW s, FilesInv, CopyNodes(c), s.do \in {"data", "write"},
         NEW text, Write(s.to, text)
  PROVE  Keeps(c, s)
<1>1. tree' = tree /\ \A m \in DOMAIN data : m # s.to => data'[m] = data[m]
  BY DEF Write
<1>2. ASSUME NEW r \in Paths, IsPrefix(job[c].to, r), HasFile(tree, r)
      PROVE  data'[tree[r]] = data[tree[r]] \/ \E z : Target(c, s, z) /\ ~Across(z, r)
  <2>1. tree[r] \in Nodes(c, r) /\ tree[r] \in DOMAIN data /\ IsPrefix(r, r)
    BY <1>2, PrefixOrder DEF CopyNodes, HasFile, FilesInv, Files
  <2>2. CASE tree[r] = s.to
    <3>1. Target(c, s, r)
      BY <1>2, <2>1, <2>2 DEF Target, Makers
    <3> QED BY <2>1, <3>1 DEF Across
  <2> QED BY <1>1, <2>1, <2>2
<1> QED BY <1>1, <1>2 DEF Keeps, HasFile

\* One new step, or one and a last look at the two paths, for the first step;
\* or none.
LEMMA DividesOne ==
  ASSUME NEW c \in Calls, NEW s, NEW e,
         \/ Len(e) = 0
         \/ /\ Len(e) = 1 \/ (Len(e) = 2 /\ e[2].do = "check" /\ job[c].op # "CopyTpl")
            /\ e[1].do \in Makers \cup {"data", "write"}
            /\ (e[1].do \in Makers => IsPrefix(job[c].to, e[1].to))
            /\ (e[1].do \in {"template", "fsdir", "folder", "writefile", "write"}
                  <=> job[c].op = "CopyTpl")
            /\ \A y : Target(c, e[1], y) => Target(c, s, y)
  PROVE  Divides(c, s, e)
<1>1. CASE Len(e) = 0
  BY <1>1 DEF Divides
<1>2. CASE Len(e) # 0
  <2>0. Len(e) = 1 \/ (Len(e) = 2 /\ e[2].do = "check" /\ job[c].op # "CopyTpl")
    BY <1>2
  <2>1. \A i \in 1..Len(e) : i = 1 \/ (i = 2 /\ e[2].do = "check" /\ job[c].op # "CopyTpl")
    <3>1. CASE Len(e) = 1
      BY ONLY <3>1
    <3>2. CASE Len(e) = 2 /\ e[2].do = "check" /\ job[c].op # "CopyTpl"
      <4>1. \A i \in 1..Len(e) : i = 1 \/ i = 2
        BY ONLY <3>2
      <4> QED BY <3>2, <4>1
    <3> QED BY <2>0, <3>1, <3>2
  <2>2. \A y : Target(c, e[1], y) => Target(c, s, y) /\ IsPrefix(y, y)
    BY <1>2, PrefixOrder DEF Target
  <2>3. ASSUME NEW a, a.do = "check"
        PROVE  a.do \notin Makers \cup {"template", "fsdir", "folder", "writefile", "write"}
               /\ \A y : ~Target(c, a, y)
    BY <2>3 DEF Makers, Target
  <2>4. ASSUME NEW i \in 1..Len(e)
        PROVE  /\ e[i].do \in Makers \cup {"data", "write", "check"}
               /\ (e[i].do \in Makers => IsPrefix(job[c].to, e[i].to))
               /\ (e[i].do \in {"template", "fsdir", "folder", "writefile", "write"}
                     <=> job[c].op = "CopyTpl")
               /\ \A y : Target(c, e[i], y) => \E z : Target(c, s, z) /\ IsPrefix(z, y)
    <3>1. CASE i = 1
      BY <1>2, <2>2, <3>1
    <3>2. CASE i = 2 /\ e[2].do = "check" /\ job[c].op # "CopyTpl"
      BY <2>3, <3>2
    <3> QED BY <2>1, <3>1, <3>2
  <2>5. ASSUME NEW i \in 1..Len(e), NEW h \in 1..Len(e), i # h, NEW y, NEW z,
               Target(c, e[i], y), Target(c, e[h], z)
        PROVE  Across(y, z)
    <3>1. \A a : a.do = "check" => \A x : ~Target(c, a, x)
      BY <2>3
    <3>2. i = 1 /\ h = 1
      BY <2>1, <2>5, <3>1
    <3> QED BY <2>5, <3>2
  <2> QED BY <2>4, <2>5 DEF Divides
<1> QED BY <1>1, <1>2

\* The path of an entry of the copy is the copy of its path.
LEMMA ShiftEntry ==
  ASSUME NEW p \in Paths, NEW q \in Paths, NEW r \in Paths, IsPrefix(p, r), NEW n \in Names
  PROVE  Shift(p, q, Append(r, n)) = Append(Shift(p, q, r), n)
<1> DEFINE e == Append(r, n)
           a == Shift(p, q, e)
           b == Shift(p, q, r)
           d == Append(b, n)
<1>1. e \in Paths /\ Len(e) = Len(r) + 1 /\ IsPrefix(r, e)
  BY EntryPath
<1>2. IsPrefix(p, e)
  BY <1>1, PrefixOrder
<1>3. b \in Paths /\ Len(b) = Len(q) + Len(r) - Len(p)
  BY ShiftPath
<1>4. a \in Paths /\ Len(a) = Len(q) + Len(e) - Len(p) /\ Front(a) \in Paths
  BY <1>1, <1>2, ShiftPath, FrontPath
<1>5. d \in Paths /\ Len(d) = Len(b) + 1 /\ \A i \in 1..Len(b) : d[i] = b[i]
  <2>1. b \in Paths
    BY <1>3
  <2> HIDE DEF b
  <2>2. d \in Paths /\ Len(d) = Len(b) + 1 /\ IsPrefix(b, d)
    BY <2>1, EntryPath
  <2> HIDE DEF d
  <2>3. \A i \in 1..Len(b) : d[i] = b[i]
    BY <2>1, <2>2, PrefixIs
  <2> QED BY <2>2, <2>3
<1>6. d[Len(b) + 1] = n /\ e[Len(r) + 1] = n
  <2>1. \A x \in Paths : Append(x, n)[Len(x) + 1] = n
    BY PathLen
  <2>2. b \in Paths
    BY <1>3
  <2> HIDE DEF b
  <2> QED BY <2>1, <2>2
<1>7. \A i \in 1..Len(r) : e[i] = r[i]
  BY <1>1, PrefixIs
<1>8. Len(p) \in Nat /\ Len(q) \in Nat /\ Len(r) \in Nat /\ Len(p) <= Len(r)
  BY PathLen, PrefixIs
<1>9. /\ \A i \in 1..Len(q) : a[i] = q[i]
      /\ \A i \in Len(q) + 1..Len(q) + Len(e) - Len(p) : a[i] = e[i - Len(q) + Len(p)]
  BY <1>1, <1>2, ShiftPath
<1>10. /\ \A i \in 1..Len(q) : b[i] = q[i]
       /\ \A i \in Len(q) + 1..Len(q) + Len(r) - Len(p) : b[i] = r[i - Len(q) + Len(p)]
  BY ShiftPath
<1> HIDE DEF a, b, d, e
<1>11. Len(a) = Len(d)
  BY ONLY <1>1, <1>3, <1>4, <1>5, <1>8
<1>12. ASSUME NEW i \in 1..Len(a) PROVE a[i] = d[i]
  <2>1. CASE i \in 1..Len(q)
    <3>1. i \in 1..Len(b)
      BY ONLY <1>3, <1>8, <2>1
    <3> QED BY <1>5, <1>9, <1>10, <2>1, <3>1
  <2>2. CASE i \in Len(q) + 1..Len(b)
    <3>1. /\ i \in 1..Len(b) /\ i - Len(q) + Len(p) \in 1..Len(r)
          /\ i \in Len(q) + 1..Len(q) + Len(r) - Len(p) /\ i \in Len(q) + 1..Len(q) + Len(e) - Len(p)
      BY ONLY <1>1, <1>3, <1>8, <2>2
    <3> QED BY <1>5, <1>7, <1>9, <1>10, <3>1
  <2>3. CASE i = Len(b) + 1
    <3>1. i - Len(q) + Len(p) = Len(r) + 1 /\ i \in Len(q) + 1..Len(q) + Len(e) - Len(p)
      BY ONLY <1>1, <1>3, <1>8, <2>3
    <3> QED BY <1>6, <1>9, <2>3, <3>1
  <2>4. i \in 1..Len(q) \/ i \in Len(q) + 1..Len(b) \/ i = Len(b) + 1
    BY ONLY <1>1, <1>3, <1>4, <1>8, <1>12
  <2> QED BY <2>1, <2>2, <2>3, <2>4
<1>13. a = d
  BY <1>4, <1>5, <1>11, <1>12, PathEqual
<1> QED BY <1>13 DEF a, b, d, e

\* The steps for the entries of a directory make what is right below it.
LEMMA EntriesDivide ==
  ASSUME NEW c \in Calls, NEW s, s.do \in Makers, s.to \in Paths, IsPrefix(job[c].to, s.to),
         NEW t, NEW dir, NEW file,
         \/ dir = "dir" /\ file = "open" /\ job[c].op # "CopyTpl"
         \/ dir = "fsdir" /\ file = "folder" /\ job[c].op = "CopyTpl",
         NEW e, e = Entries(t, s.from, s.to, dir, file), job[c].to \in Paths
  PROVE  Divides(c, s, e)
<1> DEFINE names == ReadDir(t, s.from)
<1>1. /\ AnySeq(e) /\ Len(e) = Len(names) /\ Len(names) \in Nat
      /\ \A i \in 1..Len(e) :
           /\ names[i] \in Names /\ Append(s.from, names[i]) \in DOMAIN t
           /\ e[i] = Step(IF HasDir(t, Append(s.from, names[i])) THEN dir ELSE file,
                          Append(s.from, names[i]), Append(s.to, names[i]))
  BY EntriesAre
<1>2. \A k, l \in 1..Len(names) : names[k] = names[l] => k = l
  BY ReadDirNames
<1> HIDE DEF names
<1>3. ASSUME NEW i \in 1..Len(e)
      PROVE  e[i].do \in {dir, file} /\ e[i].to = Append(s.to, names[i])
  <2>1. PICK do \in {dir, file} : e[i] = Step(do, Append(s.from, names[i]), Append(s.to, names[i]))
    BY <1>1
  <2> QED BY <2>1 DEF Step
<1>4. dir \in Makers /\ file \in Makers
  BY DEF Makers
<1>5. \A i \in 1..Len(e) : \A y : Target(c, e[i], y) => y = Append(s.to, names[i])
  BY <1>3, <1>4 DEF Target
<1>6. ASSUME NEW i \in 1..Len(e)
      PROVE  /\ e[i].do \in Makers \cup {"data", "write", "check"}
             /\ (e[i].do \in Makers => IsPrefix(job[c].to, e[i].to))
             /\ (e[i].do \in {"template", "fsdir", "folder", "writefile", "write"}
                   <=> job[c].op = "CopyTpl")
             /\ \A y : Target(c, e[i], y) => \E z : Target(c, s, z) /\ IsPrefix(z, y)
  <2> DEFINE n == names[i]
             a == Append(s.to, n)
  <2>1. n \in Names /\ a \in Paths /\ IsPrefix(s.to, a)
    BY <1>1, EntryPath
  <2>2. IsPrefix(job[c].to, a)
    BY <2>1, PrefixOrder
  <2>3. Target(c, s, s.to)
    BY DEF Target
  <2>4. e[i].to = a /\ \A y : Target(c, e[i], y) => y = a
    BY <1>3, <1>5
  <2> HIDE DEF a, n
  <2>5. e[i].do \in {"template", "fsdir", "folder", "writefile", "write"} <=> job[c].op = "CopyTpl"
    BY <1>3
  <2> QED BY <1>3, <1>4, <2>1, <2>2, <2>3, <2>4, <2>5
<1>7. ASSUME NEW i \in 1..Len(e), NEW h \in 1..Len(e), i # h, NEW y, NEW z,
             Target(c, e[i], y), Target(c, e[h], z)
      PROVE  Across(y, z)
  <2> DEFINE m == names[i]
             n == names[h]
  <2>1. m \in Names /\ n \in Names /\ m # n
    BY <1>1, <1>2, <1>7
  <2>2. y = Append(s.to, m) /\ z = Append(s.to, n)
    BY <1>5, <1>7
  <2> HIDE DEF m, n
  <2>3. /\ y \in Paths /\ Last(y) = m /\ ~IsPrefix(y, s.to)
        /\ \A q \in Paths : IsPrefix(q, y) => q = y \/ IsPrefix(q, s.to)
    BY <2>1, <2>2, EntryPath
  <2>4. /\ z \in Paths /\ Last(z) = n /\ ~IsPrefix(z, s.to)
        /\ \A q \in Paths : IsPrefix(q, z) => q = z \/ IsPrefix(q, s.to)
    BY <2>1, <2>2, EntryPath
  <2> QED BY <2>1, <2>3, <2>4 DEF Across
<1> QED BY <1>6, <1>7 DEF Divides

\* One of them copies what the directory was to be copied for.
LEMMA EntriesBegin ==
  ASSUME NEW j, j.from \in Paths, j.to \in Paths, NEW s, NEW p, Begins(j, s, p),
         NEW t, NEW dir, NEW file, NEW e, e = Entries(t, s.from, s.to, dir, file),
         NEW n \in Names, Append(s.from, n) \in DOMAIN t,
         \E z : Reads(j, Append(s.from, n), z) /\ IsPrefix(z, p),
         \/ dir = "dir" /\ file = "open"
         \/ /\ dir = "fsdir" /\ file = "folder"
            /\ HasDir(t, Append(s.from, n)) <=> Append(s.from, n) # p
  PROVE  \E i \in 1..Len(e) : Begins(j, e[i], p)
<1> DEFINE names == ReadDir(t, s.from)
           m == Append(s.from, n)
           q == Append(s.to, n)
<1>1. /\ AnySeq(e) /\ Len(e) = Len(names) /\ Len(names) \in Nat
      /\ \A i \in 1..Len(e) :
           /\ names[i] \in Names /\ Append(s.from, names[i]) \in DOMAIN t
           /\ e[i] = Step(IF HasDir(t, Append(s.from, names[i])) THEN dir ELSE file,
                          Append(s.from, names[i]), Append(s.to, names[i]))
  BY EntriesAre
<1>2. \A k \in Names : Append(s.from, k) \in DOMAIN t => \E i \in 1..Len(names) : names[i] = k
  BY ReadDirNames
<1> HIDE DEF names
<1>3. PICK i \in 1..Len(e) : names[i] = n
  BY <1>1, <1>2
<1>4. e[i] = Step(IF HasDir(t, m) THEN dir ELSE file, m, q)
  BY <1>1, <1>3
<1>5. s.to = Shift(j.from, j.to, s.from) /\ s.from \in Paths /\ IsPrefix(j.from, s.from)
  BY DEF Begins, Reads
<1>6. q = Shift(j.from, j.to, m)
  BY <1>5, ShiftEntry
<1>7. \E z : Reads(j, m, z) /\ IsPrefix(z, p)
  OBVIOUS
<1>8. \/ dir = "dir" /\ file = "open"
      \/ dir = "fsdir" /\ file = "folder" /\ (HasDir(t, m) <=> m # p)
  OBVIOUS
<1> HIDE DEF m, q
<1>9. e[i].do = (IF HasDir(t, m) THEN dir ELSE file) /\ e[i].from = m /\ e[i].to = q
  BY <1>4 DEF Step
<1>10. Begins(j, e[i], p)
  BY <1>6, <1>7, <1>8, <1>9 DEF Begins
<1> QED BY <1>10

\* A copy is refused, or goes on as it is written.
LEMMA CopyActs ==
  ASSUME NEW c \in Calls, Acts(c), todo[c][1].do \in Makers \cup {"data", "write", "check"}
  PROVE  Refused(c) \/ CopyNext(c)
BY DEF Acts, Refused, CopyNext, CopyOpen, CopyFolder, CopyCreate, CopyData, CopyCheck,
       CopyDir, CopyEntries, CopyTpl, CopyFsDir, CopyFsFolder, CopyFsFile, WriteContent, Move,
       RenameEntries, RenameOne, LookUp, Make, Unlink, Mkdir, Home, EditOpen, EditTemp,
       EditRead, EditFlush, EditCleanup, WriteLook, WriteMake, WriteOpen, WriteEnd, Does, Makers

\* A step of the copy, with the new steps as the code has them.
LEMMA CopyGoesOn ==
  ASSUME NEW c \in Calls, FilesInv, FilesInv', AllSeqs, Own3(c), CopyAt(c), out[c] = "run",
         \A k \in Calls \ {c} : todo'[k] = todo[k],
         NEW s, s = todo[c][1], NEW e, AnySeq(e), GoesOn(c, e), Keeps(c, s), Divides(c, s, e),
         \A p \in Sources(job[c]) : Copying(job[c], s, p) =>
           \/ \E i \in 1..Len(e) : Copying(job[c], e[i], p)'
           \/ Len(e) = 0 /\ Poured(c, s, p)'
  PROVE  CopyAt(c)'
<1>1. job' = job
  BY DEF GoesOn
<1>2. Follows(todo[c], e, todo'[c])
  BY GoesOnFollows
<1> QED BY <1>1, <1>2, CopyStepped

\* The first step of a copy.
LEMMA CopyFirst ==
  ASSUME NEW c \in Calls, FilesInv, AllSeqs, Own3(c), CopyAt(c), out[c] = "run", NEW s, s = todo[c][1]
  PROVE  /\ job[c].from \in Paths /\ job[c].to \in Paths /\ CopyNodes(c)
         /\ s.do \in Makers \cup {"data", "write", "check"}
         /\ (s.do \in {"template", "fsdir", "folder", "writefile", "write"} <=> job[c].op = "CopyTpl")
         /\ s.do \in Makers => /\ s.to \in Paths /\ IsPrefix(job[c].to, s.to) /\ Target(c, s, s.to)
                               /\ \A y : Target(c, s, y) => y = s.to
         /\ s.do \in {"open", "dir", "entries", "template", "fsdir", "folder", "writefile"} =>
              s.from \in Paths
<1>1. StepOK(c, s) /\ Len(todo[c]) > 0 /\ Len(todo[c]) \in Nat
  BY FirstStepOK
<1>2. job[c].from \in Paths /\ job[c].to \in Paths
  BY CopyIs
<1>3. 1 \in 1..Len(todo[c]) /\ CopySteps(c, todo[c]) /\ CopyNodes(c)
  BY <1>1 DEF CopyAt
<1>4. /\ s.do \in Makers \cup {"data", "write", "check"}
      /\ (s.do \in Makers => IsPrefix(job[c].to, s.to))
      /\ (s.do \in {"template", "fsdir", "folder", "writefile", "write"} <=> job[c].op = "CopyTpl")
  BY <1>3 DEF CopySteps
<1>5. s.do \in Makers => s.to \in Paths
  BY <1>1 DEF StepOK, Reach, Makers
<1>6. s.do \in {"open", "dir", "entries", "template", "fsdir", "folder", "writefile"} => s.from \in Paths
  BY <1>1 DEF StepOK
<1>7. s.do \in Makers => Target(c, s, s.to) /\ \A y : Target(c, s, y) => y = s.to
  BY <1>4, <1>5 DEF Target
<1> QED BY <1>2, <1>3, <1>4, <1>5, <1>6, <1>7

\* CopyFile and Copy: what is opened is a file to copy, or a directory, which is
\* not read.
LEMMA CopyOpenStep ==
  ASSUME NEW c \in Calls, FilesInv, FilesInv', AllSeqs, GroundInv, Own3(c), CopyAt(c),
         out[c] = "run", job' = job, \A k \in Calls \ {c} : todo'[k] = todo[k], CopyOpen(c)
  PROVE  CopyAt(c)'
<1> DEFINE j == job[c]
<1>1. PICK s : s = todo[c][1]
  OBVIOUS
<1>2. /\ s.do = "open" /\ s.from \in DOMAIN tree /\ UNCHANGED <<tree, data>>
      /\ GoesOn(c, <<Step("parent", tree[s.from], s.to)>> \o
                   IF j.op = "Copy" THEN <<>> ELSE <<Step("check", s.from, s.to)>>)
  BY <1>1 DEF CopyOpen, Does, From, To, fs
<1>3. /\ j.from \in Paths /\ j.to \in Paths /\ j.op # "CopyTpl"
      /\ s.to \in Paths /\ IsPrefix(j.to, s.to) /\ Target(c, s, s.to)
      /\ \A y : Target(c, s, y) => y = s.to
  BY <1>1, <1>2, CopyFirst DEF Makers
<1>4. PICK a : a = Step("parent", tree[s.from], s.to)
  OBVIOUS
<1>5. PICK b : b = Step("check", s.from, s.to)
  OBVIOUS
<1>6. PICK e : (e = <<a>> \/ e = <<a, b>>) /\ GoesOn(c, e)
  BY <1>2, <1>4, <1>5, Pair
<1>7. AnySeq(e) /\ e[1] = a /\ (Len(e) = 1 \/ (Len(e) = 2 /\ e[2] = b))
  BY <1>6, Short
<1>8. a.do = "parent" /\ a.to = s.to /\ a.from = tree[s.from] /\ b.do = "check"
  BY <1>4, <1>5 DEF Step
<1>9. Divides(c, s, e)
  <2>1. \A y : Target(c, a, y) => Target(c, s, y)
    BY <1>2, <1>8 DEF Target, Makers
  <2> QED BY <1>3, <1>7, <1>8, <2>1, DividesOne DEF Makers
<1>10. Keeps(c, s)
  BY <1>2, <1>3, KeepsMade
<1>11. ASSUME NEW p \in Sources(j), Copying(j, s, p)
       PROVE  \E i \in 1..Len(e) : Copying(j, e[i], p)'
  <2>1. Begins(j, s, p)
    BY <1>2, <1>11 DEF Copying, Opens, Pours
  <2>2. PICK x : Reads(j, s.from, x) /\ IsPrefix(x, p)
    BY <2>1 DEF Begins
  <2>3. tree[s.from] = InitTree[x] /\ p \in Paths /\ InitTree[p] = p /\ p \in DOMAIN InitTree
    BY <1>2, <1>3, <2>2, CopySource
  <2>4. x \in DOMAIN InitTree /\ x \in Paths /\ Rooted(InitTree)
    BY <1>3, <2>2, StartPath DEF Reads
  <2>5. Opens(j, a, p)
    <3>1. CASE x = p
      <4>1. CopyOf(j, p, s.to)
        BY <2>1, <2>2, <3>1 DEF CopyOf, Begins
      <4> QED BY <1>8, <2>3, <3>1, <4>1 DEF Opens
    <3>2. CASE x # p
      <4>1. InitTree[x] = Dir
        BY <2>2, <2>3, <2>4, <3>2, RootedAbove
      <4> QED BY <1>8, <2>3, <4>1 DEF Opens
    <3> QED BY <3>1, <3>2
  <2>6. Opens(j, a, p)'
    BY <2>5, SameCopy
  <2>7. Copying(j, a, p)'
    BY <2>6 DEF Copying
  <2> QED BY <1>7, <2>7
<1>12. \A p \in Sources(j) : Copying(j, s, p) => \E i \in 1..Len(e) : Copying(job[c], e[i], p)'
  BY <1>11
<1> QED BY <1>1, <1>6, <1>7, <1>9, <1>10, <1>12, CopyGoesOn

\* The directory of the target is made, and then the file.
LEMMA CopyCreateStep ==
  ASSUME NEW c \in Calls, FilesInv, FilesInv', AllSeqs, Own3(c), CopyAt(c),
         out[c] = "run", job' = job, \A k \in Calls \ {c} : todo'[k] = todo[k],
         CopyFolder(c) \/ CopyCreate(c)
  PROVE  CopyAt(c)'
<1> DEFINE j == job[c]
<1>1. PICK s : s = todo[c][1]
  OBVIOUS
<1>2. s.do \in {"parent", "create"}
  BY <1>1 DEF CopyFolder, CopyCreate, Does
<1>3. /\ j.from \in Paths /\ j.to \in Paths /\ CopyNodes(c) /\ j.op # "CopyTpl"
      /\ s.to \in Paths /\ IsPrefix(j.to, s.to) /\ Target(c, s, s.to)
      /\ \A y : Target(c, s, y) => y = s.to
  BY <1>1, <1>2, CopyFirst DEF Makers
<1>4. \A p : Copying(j, s, p) => Opens(j, s, p)
  BY <1>2 DEF Copying, Begins, Pours
<1>5. CASE CopyFolder(c)
  <2>1. Ensure(Front(s.to)) /\ GoesOn(c, <<Step("create", s.from, s.to)>>)
    BY <1>1, <1>5 DEF CopyFolder, From, To
  <2>2. PICK a : a = Step("create", s.from, s.to)
    OBVIOUS
  <2>3. a.do = "create" /\ a.from = s.from /\ a.to = s.to
    BY <2>2 DEF Step
  <2>4. PICK e : e = <<a>>
    OBVIOUS
  <2>5. AnySeq(e) /\ Len(e) = 1 /\ e[1] = a /\ GoesOn(c, e)
    BY <2>1, <2>2, <2>4, Short
  <2>6. Divides(c, s, e)
    <3>1. \A y : Target(c, a, y) => Target(c, s, y)
      BY <1>2, <2>3 DEF Target, Makers
    <3> QED BY <1>3, <2>3, <2>5, <3>1, DividesOne DEF Makers
  <2>7. Keeps(c, s)
    <3>1. Front(s.to) \in Paths /\ data' = data
      BY <1>3, <2>1, FrontPath DEF Ensure
    <3> QED BY <2>1, <3>1, KeepsMade
  <2>8. ASSUME NEW p, Opens(j, s, p)
        PROVE  \E i \in 1..Len(e) : Copying(j, e[i], p)'
    <3>1. Opens(j, a, p)
      BY <2>3, <2>8 DEF Opens
    <3>2. Opens(j, a, p)'
      BY <3>1, SameCopy
    <3>3. Copying(j, a, p)'
      BY <3>2 DEF Copying
    <3> QED BY <2>5, <3>3
  <2>9. \A p \in Sources(j) : Copying(j, s, p) => \E i \in 1..Len(e) : Copying(job[c], e[i], p)'
    BY <1>4, <2>8
  <2> QED BY <1>1, <2>5, <2>6, <2>7, <2>9, CopyGoesOn
<1>6. CASE CopyCreate(c)
  <2> DEFINE n == Opened(c, s.to)
  <2>1. Create(c, s.to) /\ GoesOn(c, <<Step("data", s.from, n)>>)
    BY <1>1, <1>6 DEF CopyCreate, From, To
  <2>2. /\ Keeps(c, s) /\ n \in Nodes(c, s.to)
        /\ HasFile(tree', s.to) /\ tree'[s.to] = n /\ data'[n] = <<>>
    BY <1>3, <2>1, KeepsCreated
  <2>3. PICK m : m = n
    OBVIOUS
  <2> HIDE DEF n
  <2>4. PICK a : a = Step("data", s.from, m)
    OBVIOUS
  <2>5. a.do = "data" /\ a.from = s.from /\ a.to = m
    BY <2>4 DEF Step
  <2>6. PICK e : e = <<a>>
    OBVIOUS
  <2>7. AnySeq(e) /\ Len(e) = 1 /\ e[1] = a /\ GoesOn(c, e)
    BY <2>1, <2>3, <2>4, <2>6, Short
  <2>8. Divides(c, s, e)
    <3>1. ASSUME NEW y, Target(c, a, y) PROVE Target(c, s, y)
      <4>1. y \in Paths /\ m \in Nodes(c, y)
        BY <2>5, <3>1 DEF Target, Makers
      <4>2. y = s.to
        BY <1>3, <2>2, <2>3, <4>1, NodesApart
      <4> QED BY <1>3, <4>2
    <3> QED BY <1>3, <2>5, <2>7, <3>1, DividesOne DEF Makers
  <2>9. ASSUME NEW p, Opens(j, s, p)
        PROVE  \E i \in 1..Len(e) : Copying(j, e[i], p)'
    <3>1. CASE a.from = Dir
      <4>1. Copying(j, a, p)'
        BY <2>5, <3>1 DEF Copying
      <4> QED BY <2>7, <4>1
    <3>2. CASE a.from = p /\ CopyOf(j, p, s.to)
      <4>1. CopyOf(j, p, s.to)'
        BY <3>2, SameCopy
      <4>2. Copying(j, a, p)'
        BY <2>2, <2>3, <2>5, <3>2, <4>1 DEF Copying, Pours
      <4> QED BY <2>7, <4>2
    <3> QED BY <2>5, <2>9, <3>1, <3>2 DEF Opens
  <2>10. \A p \in Sources(j) : Copying(j, s, p) => \E i \in 1..Len(e) : Copying(job[c], e[i], p)'
    BY <1>4, <2>9
  <2> QED BY <1>1, <2>2, <2>7, <2>8, <2>10, CopyGoesOn
<1> QED BY <1>5, <1>6

\* What is written to an empty file is all that is in it.
LEMMA TextAlone ==
  ASSUME NEW n \in DOMAIN data, data[n] = <<>>, NEW text, AnySeq(text), Write(n, text)
  PROVE  data'[n] = text
<1>1. PICK S : text \in Seq(S)
  BY DEF AnySeq
<1>2. PICK e : e = SubSeq(<<>>, Len(text) + 1, Len(<<>>))
  OBVIOUS
<1>3. Len(text) \in Nat /\ Len(<<>>) = 0 /\ <<>> \in Seq(S)
  BY <1>1
<1>4. e = <<>>
  BY <1>2, <1>3, SubSeqEmpty
<1>5. data'[n] = text \o e
  BY <1>2 DEF Write
<1>6. text \o <<>> = text
  BY <1>1, ConcatEmptySeq
<1> QED BY <1>4, <1>5, <1>6

\* What was opened is read and written; at the end CopyFile looks at both paths.
LEMMA CopyDataStep ==
  ASSUME NEW c \in Calls, FilesInv, FilesInv', AllSeqs, GroundInv, Own3(c), CopyAt(c),
         out[c] = "run", job' = job, \A k \in Calls \ {c} : todo'[k] = todo[k],
         CopyData(c) \/ CopyCheck(c)
  PROVE  CopyAt(c)'
<1> DEFINE j == job[c]
<1>1. PICK s : s = todo[c][1]
  OBVIOUS
<1>2. PICK e : e = <<>>
  OBVIOUS
<1>3. AnySeq(e) /\ Len(e) = 0 /\ GoesOn(c, e)
  BY <1>2, Short DEF CopyData, CopyCheck
<1>4. Divides(c, s, e)
  BY <1>3, DividesOne
<1>5. s.do \in {"data", "check"}
  BY <1>1 DEF CopyData, CopyCheck, Does
<1>6. /\ j.from \in Paths /\ j.to \in Paths /\ CopyNodes(c) /\ j.op # "CopyTpl"
  BY <1>1, <1>5, CopyFirst
<1>7. CASE CopyCheck(c)
  <2>1. s.do = "check" /\ UNCHANGED <<tree, data>>
    BY <1>1, <1>7 DEF CopyCheck, Does, fs
  <2>2. Keeps(c, s)
    BY <1>6, <2>1, KeepsMade
  <2>3. \A p : ~Copying(j, s, p)
    BY <2>1 DEF Copying, Begins, Opens, Pours
  <2> QED BY <1>1, <1>3, <1>4, <2>2, <2>3, CopyGoesOn
<1>8. CASE CopyData(c)
  <2>1. s.do = "data" /\ s.from # Dir /\ Write(s.to, data[s.from])
    BY <1>1, <1>8 DEF CopyData, Does, From, To
  <2>2. Keeps(c, s)
    BY <1>6, <2>1, KeepsWritten
  <2>3. ASSUME NEW p \in Sources(j), Copying(j, s, p) PROVE Poured(c, s, p)'
    <3>1. PICK q : CopyOf(j, p, q) /\ HasFile(tree, q) /\ tree[q] = s.to /\ data[s.to] = <<>>
      BY <2>1, <2>3 DEF Copying, Begins, Opens
    <3>2. s.from = p
      BY <2>1, <2>3 DEF Copying, Begins, Opens, Pours
    <3>3. q \in Paths /\ IsPrefix(j.to, q)
      BY <1>6, <3>1, CopyOfBelow
    <3>4. Target(c, s, q)
      BY <1>6, <2>1, <3>1, <3>3 DEF Target, CopyNodes, Makers
    <3>5. s.to \in DOMAIN data
      BY <3>1 DEF FilesInv, HasFile, Files
    <3>6. IsText(InitText[p]) /\ data[p] = InitText[p]
      BY <1>6, CopySource
    <3>7. data'[s.to] = InitText[p]
      BY <2>1, <3>1, <3>2, <3>5, <3>6, TextAlone, TextSeq
    <3>8. HasFile(tree', q) /\ tree'[q] = s.to
      BY <2>1, <3>1 DEF Write, HasFile
    <3>9. CopyOf(j, p, q)' /\ Target(c, s, q)'
      BY <3>1, <3>4, SameCopy
    <3>10. Content(j, p)' = InitText[p]
      BY <1>6 DEF Content
    <3> QED BY <3>7, <3>8, <3>9, <3>10 DEF Poured
  <2>4. \A p \in Sources(j) : Copying(j, s, p) => Poured(c, s, p)'
    BY <2>3
  <2> QED BY <1>1, <1>3, <1>4, <2>2, <2>4, CopyGoesOn
<1> QED BY <1>7, <1>8

\* CopyFsFile: the directory of the file, whether it is made or not, the file,
\* and what is in it.
LEMMA CopyFsFileStep ==
  ASSUME NEW c \in Calls, FilesInv, FilesInv', AllSeqs, Own3(c), CopyAt(c),
         out[c] = "run", job' = job, \A k \in Calls \ {c} : todo'[k] = todo[k],
         CopyFsFolder(c) \/ CopyFsFile(c)
  PROVE  CopyAt(c)'
<1> DEFINE j == job[c]
<1>1. PICK s : s = todo[c][1]
  OBVIOUS
<1>2. s.do \in {"folder", "writefile"}
  BY <1>1 DEF CopyFsFolder, CopyFsFile, Does
<1>3. /\ j.from \in Paths /\ j.to \in Paths /\ CopyNodes(c) /\ j.op = "CopyTpl"
      /\ s.to \in Paths /\ IsPrefix(j.to, s.to) /\ Target(c, s, s.to) /\ s.from \in Paths
      /\ \A y : Target(c, s, y) => y = s.to
  BY <1>1, <1>2, CopyFirst DEF Makers
<1>4. \A p : Copying(j, s, p) => Begins(j, s, p)
  BY <1>2 DEF Copying, Opens, Pours
<1>5. CASE CopyFsFolder(c)
  <2>1. (Ensure(Front(s.to)) \/ UNCHANGED <<tree, data>>) /\ GoesOn(c, <<Step("writefile", s.from, s.to)>>)
    BY <1>1, <1>5 DEF CopyFsFolder, From, To, fs
  <2>2. PICK a : a = Step("writefile", s.from, s.to)
    OBVIOUS
  <2>3. a.do = "writefile" /\ a.from = s.from /\ a.to = s.to
    BY <2>2 DEF Step
  <2>4. PICK e : e = <<a>>
    OBVIOUS
  <2>5. AnySeq(e) /\ Len(e) = 1 /\ e[1] = a /\ GoesOn(c, e)
    BY <2>1, <2>2, <2>4, Short
  <2>6. Divides(c, s, e)
    <3>1. \A y : Target(c, a, y) => Target(c, s, y)
      BY <1>2, <2>3 DEF Target, Makers
    <3> QED BY <1>3, <2>3, <2>5, <3>1, DividesOne DEF Makers
  <2>7. Keeps(c, s)
    <3>1. Front(s.to) \in Paths /\ data' = data /\ (Ensure(Front(s.to)) \/ tree' = tree)
      BY <1>3, <2>1, FrontPath DEF Ensure
    <3> QED BY <3>1, KeepsMade
  <2>8. ASSUME NEW p, Begins(j, s, p)
        PROVE  \E i \in 1..Len(e) : Copying(j, e[i], p)'
    <3>1. Begins(j, a, p)
      <4>1. s.from = p
        BY <1>2, <2>8 DEF Begins
      <4> QED BY <2>3, <2>8, <4>1 DEF Begins
    <3>2. Begins(j, a, p)'
      BY <3>1, SameCopy
    <3>3. Copying(j, a, p)'
      BY <3>2 DEF Copying
    <3> QED BY <2>5, <3>3
  <2>9. \A p \in Sources(j) : Copying(j, s, p) => \E i \in 1..Len(e) : Copying(job[c], e[i], p)'
    BY <1>4, <2>8
  <2> QED BY <1>1, <2>5, <2>6, <2>7, <2>9, CopyGoesOn
<1>6. CASE CopyFsFile(c)
  <2> DEFINE n == Opened(c, s.to)
  <2>1. /\ s.do = "writefile" /\ Create(c, s.to)
        /\ GoesOn(c, <<Step("write", <<"template", s.from>>, n)>>)
    BY <1>1, <1>6 DEF CopyFsFile, From, To, Does
  <2>2. /\ Keeps(c, s) /\ n \in Nodes(c, s.to)
        /\ HasFile(tree', s.to) /\ tree'[s.to] = n /\ data'[n] = <<>>
    BY <1>3, <2>1, KeepsCreated
  <2>3. PICK m : m = n
    OBVIOUS
  <2> HIDE DEF n
  <2>4. PICK a : a = Step("write", <<"template", s.from>>, m)
    OBVIOUS
  <2>5. a.do = "write" /\ a.from = <<"template", s.from>> /\ a.to = m
    BY <2>4 DEF Step
  <2>6. PICK e : e = <<a>>
    OBVIOUS
  <2>7. AnySeq(e) /\ Len(e) = 1 /\ e[1] = a /\ GoesOn(c, e)
    BY <2>1, <2>3, <2>4, <2>6, Short
  <2>8. Divides(c, s, e)
    <3>1. ASSUME NEW y, Target(c, a, y) PROVE Target(c, s, y)
      <4>1. y \in Paths /\ m \in Nodes(c, y)
        BY <2>5, <3>1 DEF Target, Makers
      <4>2. y = s.to
        BY <1>3, <2>2, <2>3, <4>1, NodesApart
      <4> QED BY <1>3, <4>2
    <3> QED BY <1>3, <2>5, <2>7, <3>1, DividesOne DEF Makers
  <2>9. ASSUME NEW p, Begins(j, s, p)
        PROVE  \E i \in 1..Len(e) : Copying(j, e[i], p)'
    <3>1. s.from = p /\ s.to = Shift(j.from, j.to, s.from) /\ \E x : Reads(j, s.from, x)
      BY <2>1, <2>9 DEF Begins
    <3>2. CopyOf(j, p, s.to)
      BY <1>3, <3>1 DEF CopyOf, Reads
    <3>3. CopyOf(j, p, s.to)'
      BY <3>2, SameCopy
    <3>4. Copying(j, a, p)'
      BY <2>2, <2>3, <2>5, <3>1, <3>3 DEF Copying, Pours
    <3> QED BY <2>7, <3>4
  <2>10. \A p \in Sources(j) : Copying(j, s, p) => \E i \in 1..Len(e) : Copying(job[c], e[i], p)'
    BY <1>4, <2>9
  <2> QED BY <1>1, <2>2, <2>7, <2>8, <2>10, CopyGoesOn
<1> QED BY <1>5, <1>6

\* What a file of the template holds is written at once.
LEMMA WriteContentStep ==
  ASSUME NEW c \in Calls, FilesInv, FilesInv', AllSeqs, Own3(c), CopyAt(c),
         out[c] = "run", job' = job, \A k \in Calls \ {c} : todo'[k] = todo[k], WriteContent(c)
  PROVE  CopyAt(c)'
<1> DEFINE j == job[c]
<1>1. PICK s : s = todo[c][1]
  OBVIOUS
<1>2. s.do = "write" /\ Write(s.to, s.from)
  BY <1>1 DEF WriteContent, Does, From, To
<1>3. PICK e : e = <<>>
  OBVIOUS
<1>4. AnySeq(e) /\ Len(e) = 0 /\ GoesOn(c, e)
  BY <1>3, Short DEF WriteContent
<1>5. Divides(c, s, e)
  BY <1>4, DividesOne
<1>6. /\ j.from \in Paths /\ j.to \in Paths /\ CopyNodes(c) /\ j.op = "CopyTpl"
  BY <1>1, <1>2, CopyFirst
<1>7. Keeps(c, s)
  BY <1>2, <1>6, KeepsWritten
<1>8. ASSUME NEW p \in Sources(j), Copying(j, s, p) PROVE Poured(c, s, p)'
  <2>1. /\ s.from = <<"template", p>>
        /\ \E q : CopyOf(j, p, q) /\ HasFile(tree, q) /\ tree[q] = s.to /\ data[s.to] = <<>>
    BY <1>2, <1>8 DEF Copying, Begins, Opens, Pours
  <2>2. PICK q : CopyOf(j, p, q) /\ HasFile(tree, q) /\ tree[q] = s.to /\ data[s.to] = <<>>
    BY <2>1
  <2>3. q \in Paths /\ IsPrefix(j.to, q)
    BY <1>6, <2>2, CopyOfBelow
  <2>4. Target(c, s, q)
    BY <1>2, <1>6, <2>2, <2>3 DEF Target, CopyNodes, Makers
  <2>5. s.to \in DOMAIN data
    BY <2>2 DEF FilesInv, HasFile, Files
  <2>6. AnySeq(<<"template", p>>)
    BY Short
  <2>7. data'[s.to] = <<"template", p>>
    <3>1. AnySeq(s.from)
      BY <2>1, <2>6
    <3>2. data'[s.to] = s.from
      BY <1>2, <2>2, <2>5, <3>1, TextAlone
    <3> QED BY <2>1, <3>2
  <2>8. HasFile(tree', q) /\ tree'[q] = s.to
    BY <1>2, <2>2 DEF Write, HasFile
  <2>9. CopyOf(j, p, q)' /\ Target(c, s, q)'
    BY <2>2, <2>4, SameCopy
  <2>10. Content(j, p)' = <<"template", p>>
    BY <1>6 DEF Content
  <2> QED BY <2>7, <2>8, <2>9, <2>10 DEF Poured
<1>9. \A p \in Sources(j) : Copying(j, s, p) => Poured(c, s, p)'
  BY <1>8
<1> QED BY <1>1, <1>4, <1>5, <1>7, <1>9, CopyGoesOn

\* CopyDir: a directory is made, and its entries are read when it is there.
LEMMA CopyDirStep ==
  ASSUME NEW c \in Calls, FilesInv, FilesInv', AllSeqs, GroundInv, Own3(c), CopyAt(c),
         out[c] = "run", job' = job, \A k \in Calls \ {c} : todo'[k] = todo[k],
         CopyDir(c) \/ CopyEntries(c)
  PROVE  CopyAt(c)'
<1> DEFINE j == job[c]
<1>1. PICK s : s = todo[c][1]
  OBVIOUS
<1>2. s.do \in {"dir", "entries"}
  BY <1>1 DEF CopyDir, CopyEntries, Does
<1>3. /\ j.from \in Paths /\ j.to \in Paths /\ CopyNodes(c) /\ j.op # "CopyTpl"
      /\ s.to \in Paths /\ IsPrefix(j.to, s.to) /\ Target(c, s, s.to) /\ s.from \in Paths
      /\ \A y : Target(c, s, y) => y = s.to
  BY <1>1, <1>2, CopyFirst DEF Makers
<1>4. \A p : Copying(j, s, p) => Begins(j, s, p)
  BY <1>2 DEF Copying, Opens, Pours
<1>5. CASE CopyDir(c)
  <2>1. /\ CanMkdirAll(tree, s.to) /\ tree' = MkdirAll(tree, s.to) /\ data' = data
        /\ GoesOn(c, <<Step("entries", s.from, s.to)>>)
    BY <1>1, <1>5 DEF CopyDir, From, To
  <2>2. PICK a : a = Step("entries", s.from, s.to)
    OBVIOUS
  <2>3. a.do = "entries" /\ a.from = s.from /\ a.to = s.to
    BY <2>2 DEF Step
  <2>4. PICK e : e = <<a>>
    OBVIOUS
  <2>5. AnySeq(e) /\ Len(e) = 1 /\ e[1] = a /\ GoesOn(c, e)
    BY <2>1, <2>2, <2>4, Short
  <2>6. Divides(c, s, e)
    <3>1. \A y : Target(c, a, y) => Target(c, s, y)
      BY <1>2, <2>3 DEF Target, Makers
    <3> QED BY <1>3, <2>3, <2>5, <3>1, DividesOne DEF Makers
  <2>7. Keeps(c, s)
    BY <1>3, <2>1, KeepsMade
  <2>8. ASSUME NEW p, Begins(j, s, p)
        PROVE  \E i \in 1..Len(e) : Copying(j, e[i], p)'
    <3>1. Begins(j, a, p)
      BY <2>3, <2>8 DEF Begins
    <3>2. Begins(j, a, p)'
      BY <3>1, SameCopy
    <3>3. Copying(j, a, p)'
      BY <3>2 DEF Copying
    <3> QED BY <2>5, <3>3
  <2>9. \A p \in Sources(j) : Copying(j, s, p) => \E i \in 1..Len(e) : Copying(job[c], e[i], p)'
    BY <1>4, <2>8
  <2> QED BY <1>1, <2>5, <2>6, <2>7, <2>9, CopyGoesOn
<1>6. CASE CopyEntries(c)
  <2>1. /\ HasDir(tree, s.from) /\ UNCHANGED <<tree, data>>
        /\ GoesOn(c, Entries(tree, s.from, s.to, "dir", "open"))
    BY <1>1, <1>6 DEF CopyEntries, From, To, fs
  <2>2. PICK e : e = Entries(tree, s.from, s.to, "dir", "open")
    OBVIOUS
  <2>3. AnySeq(e) /\ GoesOn(c, e)
    BY <2>1, <2>2, EntriesAre
  <2>4. Divides(c, s, e)
    <3>1. s.do \in Makers
      BY <1>2 DEF Makers
    <3> QED BY <1>3, <2>2, <3>1, EntriesDivide
  <2>5. Keeps(c, s)
    BY <1>3, <2>1, KeepsMade
  <2>6. ASSUME NEW p \in Sources(j), Begins(j, s, p)
        PROVE  \E i \in 1..Len(e) : Copying(j, e[i], p)'
    <3>1. PICK x : Reads(j, s.from, x) /\ IsPrefix(x, p)
      BY <2>6 DEF Begins
    <3>2. s.from \in DOMAIN tree /\ tree[s.from] = Dir
      BY <2>1 DEF HasDir
    <3>3. PICK n \in Names : /\ Append(s.from, n) \in DOMAIN tree
                             /\ \E z : Reads(j, Append(s.from, n), z) /\ IsPrefix(z, p)
      BY <1>3, <3>1, <3>2, CopySource
    <3>4. \E i \in 1..Len(e) : Begins(j, e[i], p)
      BY <1>3, <2>2, <2>6, <3>3, EntriesBegin
    <3>5. PICK i \in 1..Len(e) : Begins(j, e[i], p)
      BY <3>4
    <3>6. PICK a : a = e[i]
      OBVIOUS
    <3>7. Begins(j, a, p)'
      BY <3>5, <3>6, SameCopy
    <3>8. Copying(j, a, p)'
      BY <3>7 DEF Copying
    <3> QED BY <3>6, <3>8
  <2>7. \A p \in Sources(j) : Copying(j, s, p) => \E i \in 1..Len(e) : Copying(job[c], e[i], p)'
    BY <1>4, <2>6
  <2> QED BY <1>1, <2>3, <2>4, <2>5, <2>7, CopyGoesOn
<1> QED BY <1>5, <1>6

\* The same for the template, which nobody changes.
LEMMA CopyTplStep ==
  ASSUME NEW c \in Calls, FilesInv, FilesInv', AllSeqs, Own3(c), CopyAt(c),
         out[c] = "run", job' = job, \A k \in Calls \ {c} : todo'[k] = todo[k],
         CopyTpl(c) \/ CopyFsDir(c)
  PROVE  CopyAt(c)'
<1> DEFINE j == job[c]
<1>1. PICK s : s = todo[c][1]
  OBVIOUS
<1>2. /\ s.do \in {"template", "fsdir"} /\ data' = data
      /\ tree' = tree \/ (CanMkdirAll(tree, s.to) /\ tree' = MkdirAll(tree, s.to))
      /\ s.do = "template" => HasDir(Template, s.from)
      /\ GoesOn(c, Entries(Template, s.from, s.to, "fsdir", "folder"))
  BY <1>1 DEF CopyTpl, CopyFsDir, Does, From, To, fs
<1>3. /\ j.from \in Paths /\ j.to \in Paths /\ CopyNodes(c) /\ j.op = "CopyTpl"
      /\ s.to \in Paths /\ IsPrefix(j.to, s.to) /\ s.from \in Paths
  BY <1>1, <1>2, CopyFirst DEF Makers
<1>4. \A p : Copying(j, s, p) => Begins(j, s, p)
  BY <1>2 DEF Copying, Opens, Pours
<1>5. PICK e : e = Entries(Template, s.from, s.to, "fsdir", "folder")
  OBVIOUS
<1>6. AnySeq(e) /\ GoesOn(c, e)
  BY <1>2, <1>5, EntriesAre
<1>7. Divides(c, s, e)
  <2>1. s.do \in Makers
    BY <1>2 DEF Makers
  <2> QED BY <1>3, <1>5, <2>1, EntriesDivide
<1>8. Keeps(c, s)
  BY <1>2, <1>3, KeepsMade
<1>9. ASSUME NEW p \in Sources(j), Begins(j, s, p)
      PROVE  \E i \in 1..Len(e) : Copying(j, e[i], p)'
  <2>1. p \in Files(Template)
    BY <1>3 DEF Sources
  <2>2. Reads(j, s.from, s.from) /\ IsPrefix(s.from, p)
    BY <1>3, <1>9 DEF Begins, Reads
  <2>3. s.from # p
    BY <1>2, <1>9, <2>1 DEF Begins, HasDir, Files
  <2>4. p \in Paths
    BY <1>3, <2>1, <2>2, <2>3, TemplateEntry
  <2>5. PICK n \in Names : /\ Append(s.from, n) \in DOMAIN Template /\ IsPrefix(Append(s.from, n), p)
                           /\ HasDir(Template, Append(s.from, n)) <=> Append(s.from, n) # p
    BY <1>3, <2>1, <2>2, <2>3, TemplateEntry
  <2> DEFINE r == Append(s.from, n)
  <2>6. r \in Paths /\ IsPrefix(s.from, r)
    BY <1>3, EntryPath
  <2>7. IsPrefix(j.from, r)
    BY <1>3, <2>2, <2>6, PrefixOrder DEF Reads
  <2>8. Reads(j, r, r) /\ IsPrefix(r, p)
    BY <1>3, <2>5, <2>6, <2>7 DEF Reads
  <2>9. \E i \in 1..Len(e) : Begins(j, e[i], p)
    BY <1>3, <1>5, <1>9, <2>5, <2>8, EntriesBegin
  <2>10. PICK i \in 1..Len(e) : Begins(j, e[i], p)
    BY <2>9
  <2>11. PICK a : a = e[i]
    OBVIOUS
  <2>12. Begins(j, a, p)'
    BY <2>10, <2>11, SameCopy
  <2>13. Copying(j, a, p)'
    BY <2>12 DEF Copying
  <2> QED BY <2>11, <2>13
<1>10. \A p \in Sources(j) : Copying(j, s, p) => \E i \in 1..Len(e) : Copying(job[c], e[i], p)'
  BY <1>4, <1>9
<1> QED BY <1>1, <1>6, <1>7, <1>8, <1>10, CopyGoesOn

\* A step of the copy itself, whatever it is.
LEMMA CopyOwn ==
  ASSUME NEW c \in Calls, FilesInv, FilesInv', AllSeqs, GroundInv, Acts(c), Own3(c), Own3(c)', CopyAt(c)
  PROVE  CopyAt(c)'
<1>1. job' = job /\ out[c] = "run" /\ \A k \in Calls \ {c} : todo'[k] = todo[k]
  BY ActChanges
<1>2. DOMAIN todo = Calls /\ out \in [Calls -> {"run", "nil", "error"}]
  BY DEF FilesInv
<1>3. ~Refused(c)
  BY <1>2, RefusedTodo DEF Own3
<1>4. todo[c][1].do \in Makers \cup {"data", "write", "check"}
  <2>1. PICK s : s = todo[c][1]
    OBVIOUS
  <2>2. s.do \in Makers \cup {"data", "write", "check"}
    BY <1>1, <2>1, CopyFirst
  <2> QED BY <2>1, <2>2
<1>5. CopyNext(c)
  BY <1>3, <1>4, CopyActs
<1>6. CASE CopyOpen(c)
  BY <1>1, <1>6, CopyOpenStep
<1>7. CASE CopyFolder(c) \/ CopyCreate(c)
  BY <1>1, <1>7, CopyCreateStep
<1>8. CASE CopyData(c) \/ CopyCheck(c)
  BY <1>1, <1>8, CopyDataStep
<1>9. CASE CopyDir(c) \/ CopyEntries(c)
  BY <1>1, <1>9, CopyDirStep
<1>10. CASE CopyTpl(c) \/ CopyFsDir(c)
  BY <1>1, <1>10, CopyTplStep
<1>11. CASE CopyFsFolder(c) \/ CopyFsFile(c)
  BY <1>1, <1>11, CopyFsFileStep
<1>12. CASE WriteContent(c)
  BY <1>1, <1>12, WriteContentStep
<1> QED BY <1>5, <1>6, <1>7, <1>8, <1>9, <1>10, <1>11, <1>12 DEF CopyNext

\* Before the first step everything is to be copied by that step,
LEMMA CopyInvInit ==
  ASSUME EditsInit, FilesInv
  PROVE  CopyInv
<1> SUFFICES ASSUME NEW c \in Calls, Own3(c) PROVE CopyAt(c)
  BY DEF CopyInv
<1> DEFINE j == job[c]
<1>1. tree = InitTree /\ data = InitText
  BY DEF EditsInit
<1>2. /\ \A k \in Calls : \A i \in 1..Len(todo[k]) : i = 1 /\ todo[k][1].do \notin Handles
      /\ Len(todo[c]) = 1 /\ todo[c][1] = FirstStep(j)
      /\ \A q \in DOMAIN tree : tree[q] = Dir \/ (tree[q] = q /\ q \notin Calls \X Paths)
  BY AtStart
<1>3. j.from \in Paths /\ j.to \in Paths /\ j.op \in {"CopyFile", "Copy", "CopyDir", "CopyTpl"}
  BY CopyIs DEF Own3
<1>4. PICK s : s = todo[c][1]
  OBVIOUS
<1>5. /\ s.from = j.from /\ s.to = j.to /\ s.do \in {"open", "dir", "template"}
      /\ s.do = "template" <=> j.op = "CopyTpl"
  <2>1. FirstStep(j) = First(j)
    BY <1>3 DEF FirstStep, Insertion, Writing
  <2>2. CASE j.op \in {"CopyFile", "Copy"}
    <3>1. First(j) = Step("open", j.from, j.to)
      BY <2>2 DEF First
    <3> QED BY <1>2, <1>4, <2>1, <2>2, <3>1 DEF Step
  <2>3. CASE j.op = "CopyDir"
    <3>1. First(j) = Step("dir", j.from, j.to)
      BY <2>3 DEF First
    <3> QED BY <1>2, <1>4, <2>1, <2>3, <3>1 DEF Step
  <2>4. CASE j.op = "CopyTpl"
    <3>1. First(j) = Step("template", j.from, j.to)
      BY <2>4 DEF First
    <3> QED BY <1>2, <1>4, <2>1, <2>4, <3>1 DEF Step
  <2> QED BY <1>3, <2>2, <2>3, <2>4
<1>6. CopyNodes(c)
  <2> SUFFICES ASSUME NEW q \in Paths, IsPrefix(j.to, q)
               PROVE  /\ HasFile(tree, q) => tree[q] \in Nodes(c, q)
                      /\ \A n \in Nodes(c, q) : /\ Only(tree, n, q)
                                                /\ \A k \in Calls \ {c} : Apart(todo[k], n)
    BY DEF CopyNodes
  <2>1. HasFile(tree, q) => tree[q] \in Nodes(c, q)
    BY <1>1, <1>2 DEF HasFile, Nodes, Files
  <2>2. ASSUME NEW n \in Nodes(c, q)
        PROVE  Only(tree, n, q) /\ \A k \in Calls \ {c} : Apart(todo[k], n)
    <3>1. n # Dir
      BY <2>2, NodesApart
    <3>2. Only(tree, n, q)
      BY <1>2, <3>1 DEF Only, Nodes
    <3>3. \A k \in Calls \ {c} : Apart(todo[k], n)
      BY <1>2 DEF Apart
    <3> QED BY <3>2, <3>3
  <2> QED BY <2>1, <2>2
<1>7. CopySteps(c, todo[c])
  <2>1. \A i \in 1..Len(todo[c]) : i = 1 /\ todo[c][i] = s
    BY <1>2, <1>4
  <2>2. IsPrefix(j.to, j.to)
    BY <1>3, PrefixOrder
  <2>3. s.do \in Makers
    BY <1>5 DEF Makers
  <2>4. s.do \in {"template", "fsdir", "folder", "writefile", "write"} <=> j.op = "CopyTpl"
    BY <1>5
  <2> QED BY <1>5, <2>1, <2>2, <2>3, <2>4 DEF CopySteps
<1>8. ASSUME NEW p \in Sources(j) PROVE Begins(j, s, p)
  <2>1. IsPrefix(j.from, p)
    BY DEF Sources, Below
  <2>2. IsPrefix(j.from, j.from) /\ Shift(j.from, j.to, j.from) = j.to
    BY <1>3, PrefixOrder, ShiftBack
  <2>3. Reads(j, j.from, j.from)
    <3>1. CASE j.op = "CopyTpl"
      BY <1>3, <2>2, <3>1 DEF Reads
    <3>2. CASE j.op # "CopyTpl"
      <4>1. p \in DOMAIN InitTree
        BY <3>2 DEF Sources, Below, Files
      <4>2. Rooted(InitTree)
        BY <4>1, StartPath
      <4>3. j.from \in DOMAIN InitTree
        BY <1>3, <2>1, <4>1, <4>2, RootedAbove
      <4>4. Alias(j.from, j.from)
        BY <1>3 DEF Alias
      <4> QED BY <1>3, <2>2, <4>3, <4>4 DEF Reads
    <3> QED BY <3>1, <3>2
  <2> QED BY <1>5, <2>1, <2>2, <2>3 DEF Begins
<1>9. \A p \in Sources(j) : \E i \in 1..Len(todo[c]) : Copying(j, todo[c][i], p)
  <2>1. 1 \in 1..Len(todo[c])
    BY <1>2
  <2> QED BY <1>4, <1>8, <2>1 DEF Copying
<1> QED BY <1>6, <1>7, <1>9 DEF CopyAt

\* and then by a step that is left, or it is copied, whatever call takes a step,
LEMMA CopyInvNext ==
  ASSUME FilesInv, FilesInv', AllSeqs, GroundInv, CopyInv, [EditsNext]_editVars
  PROVE  CopyInv'
<1>1. CASE UNCHANGED editVars
  <2>1. UNCHANGED <<tree, data, job, todo, out>>
    BY <1>1 DEF editVars, treeVars
  <2>2. ASSUME NEW c \in Calls, Own3(c)' PROVE CopyAt(c)'
    <3>1. \A k : Steady(k)' <=> Steady(k)
      BY <2>1 DEF Steady, Quiet
    <3>2. Own3(c)
      BY <2>1, <2>2, <3>1 DEF Own3, Quiet
    <3>3. CopyAt(c)
      BY <3>2 DEF CopyInv
    <3>4. /\ \A j, p, q : CopyOf(j, p, q)' <=> CopyOf(j, p, q)
          /\ \A j, s, p : Begins(j, s, p)' <=> Begins(j, s, p)
          /\ \A j, s, p : Opens(j, s, p)' <=> Opens(j, s, p)
          /\ \A s, q : Target(c, s, q)' <=> Target(c, s, q)
      BY <2>1, SameCopy
    <3>5. CopyNodes(c)' /\ CopySteps(c, todo[c])'
      BY <2>1, <3>3, <3>4 DEF CopyAt, CopyNodes, CopySteps
    <3>6. \A p : Copied(c, p) => Copied(c, p)'
      BY <2>1, <3>4 DEF Copied, Content
    <3>7. \A j, s, p : Copying(j, s, p) => Copying(j, s, p)'
      BY <2>1, <3>4 DEF Copying, Pours
    <3> QED BY <2>1, <3>3, <3>5, <3>6, <3>7 DEF CopyAt
  <2> QED BY <2>2 DEF CopyInv
<1>2. CASE EditsNext
  <2>1. PICK k \in Calls : Acts(k)
    BY <1>2, NextActs
  <2>2. /\ job' = job /\ out[k] = "run" /\ \A i \in Calls \ {k} : out'[i] = out[i]
    BY <2>1, ActChanges
  <2>3. ASSUME NEW c \in Calls, Own3(c)' PROVE CopyAt(c)'
    <3>1. out[c] # "error"
      BY <2>2, <2>3 DEF Own3
    <3>2. \A i : Steady(i)' <=> Steady(i)
      BY <2>2 DEF Steady, Quiet
    <3>3. Own3(c)
      BY <2>2, <2>3, <3>1, <3>2 DEF Own3, Quiet
    <3>4. CopyAt(c)
      BY <3>3 DEF CopyInv
    <3>5. CASE c = k
      BY <2>1, <2>3, <3>3, <3>4, <3>5, CopyOwn
    <3>6. CASE c # k
      BY <2>1, <3>3, <3>4, <3>6, CopyOther
    <3> QED BY <3>5, <3>6
  <2> QED BY <2>3 DEF CopyInv
<1> QED BY <1>1, <1>2

\* so that with no step left everything is copied.
LEMMA CopyKept ==
  ASSUME FilesInv, CopyInv
  PROVE  CopyComplete
<1> DEFINE Goal(c) ==
      IF job[c].op = "CopyTpl"
      THEN \A p \in {q \in Files(Template) : IsPrefix(job[c].from, q)} :
             LET q == job[c].to \o SubSeq(p, Len(job[c].from) + 1, Len(p)) IN
             HasFile(tree, q) /\ data[tree[q]] = <<"template", p>>
      ELSE \A p \in Below(job[c].from) : \E q \in Files(tree) :
             /\ IsPrefix(job[c].to, q) /\ data[tree[q]] = InitText[p]
             /\ \/ q = job[c].to \o SubSeq(p, Len(job[c].from) + 1, Len(p))
                \/ \E k \in Calls : Renames(job[k]) /\ Meets({job[k].from}, {job[c].from})
<1>1. ASSUME NEW c \in Calls, Own3(c), out[c] = "nil" PROVE Goal(c)
  <2> DEFINE j == job[c]
  <2>1. j.from \in Paths /\ j.to \in Paths /\ CopyAt(c) /\ todo[c] = <<>>
    BY <1>1, CopyIs DEF CopyInv, FilesInv
  <2>2. \A p \in Sources(j) : Copied(c, p)
    BY <2>1, RootPath DEF CopyAt
  <2>3. ASSUME NEW p \in Sources(j)
        PROVE  \E q, r : /\ Reads(j, r, p) /\ q = Shift(j.from, j.to, r) /\ q \in Paths
                         /\ IsPrefix(j.to, q) /\ HasFile(tree, q) /\ data[tree[q]] = Content(j, p)
    BY <2>1, <2>2, CopyOfBelow DEF Copied, CopyOf
  <2>4. CASE j.op = "CopyTpl"
    <3> SUFFICES ASSUME NEW p \in Files(Template), IsPrefix(j.from, p)
                 PROVE  LET q == j.to \o SubSeq(p, Len(j.from) + 1, Len(p)) IN
                        HasFile(tree, q) /\ data[tree[q]] = <<"template", p>>
      BY <2>4
    <3>1. p \in Sources(j)
      BY <2>4 DEF Sources
    <3>2. HasFile(tree, Shift(j.from, j.to, p)) /\ data[tree[Shift(j.from, j.to, p)]] = Content(j, p)
      BY <2>3, <2>4, <3>1 DEF Reads
    <3> QED BY <2>4, <3>2 DEF Content, Shift
  <2>5. CASE j.op # "CopyTpl"
    <3> SUFFICES ASSUME NEW p \in Below(j.from)
                 PROVE  \E q \in Files(tree) :
                          /\ IsPrefix(j.to, q) /\ data[tree[q]] = InitText[p]
                          /\ \/ q = j.to \o SubSeq(p, Len(j.from) + 1, Len(p))
                             \/ \E k \in Calls : Renames(job[k]) /\ Meets({job[k].from}, {j.from})
      BY <2>5
    <3>1. p \in Sources(j) /\ p \in DOMAIN InitTree /\ IsPrefix(j.from, p)
      BY <2>5 DEF Sources, Below, Files
    <3>2. PICK q, r : /\ Reads(j, r, p) /\ q = Shift(j.from, j.to, r) /\ q \in Paths
                      /\ IsPrefix(j.to, q) /\ HasFile(tree, q) /\ data[tree[q]] = Content(j, p)
      BY <2>3, <3>1
    <3>3. q \in Files(tree) /\ data[tree[q]] = InitText[p]
      BY <2>5, <3>2 DEF HasFile, Files, Content
    <3>4. Alias(r, p) /\ r \in Paths /\ p \in Paths
      BY <2>5, <3>1, <3>2, StartPath DEF Reads
    <3>5. CASE r = p
      BY <3>2, <3>3, <3>5 DEF Shift
    <3>6. CASE r # p
      <4>1. Len(r) = Len(p) /\ \A i \in 1..Len(p) : r[i] = p[i] \/ i \in Slots(p)
        BY <3>4 DEF Alias
      <4>2. PICK i \in 1..Len(p) : i \in Slots(p)
        BY <3>4, <3>6, <4>1, PathEqual
      <4>3. PICK k \in Calls : Steady(k) /\ IsPrefix(job[k].from, SubSeq(p, 1, i - 1))
        BY <4>2 DEF Slots
      <4>4. job[k].from \in Paths /\ Renames(job[k])
        BY <4>3, SteadyIs DEF Steady
      <4>5. SubSeq(p, 1, i - 1) \in Paths /\ IsPrefix(SubSeq(p, 1, i - 1), p)
        <5>1. i - 1 \in Nat /\ i - 1 <= Len(p)
          BY <3>4, PathLen
        <5> QED BY <3>4, <5>1, CutPath, CutPrefix
      <4>6. IsPrefix(job[k].from, p)
        BY <3>4, <4>3, <4>4, <4>5, PrefixOrder
      <4>7. IsPrefix(job[k].from, j.from) \/ IsPrefix(j.from, job[k].from)
        BY <2>1, <3>1, <3>4, <4>4, <4>6, PrefixOrder
      <4> QED BY <3>2, <3>3, <4>4, <4>7 DEF Meets
    <3> QED BY <3>5, <3>6
  <2> QED BY <2>4, <2>5
<1>2. ASSUME NEW c \in Calls, out[c] = "nil", job[c].op \in {"CopyFile", "Copy", "CopyDir", "CopyTpl"},
             Quiet(c, {job[c].to}),
             \/ job[c].op = "CopyTpl"
             \/ /\ ~Meets({job[c].from}, {job[c].to})
                /\ \A k \in Calls \ {c} : ~Meets(Writes(job[k]), {job[c].from}) \/ Steady(k)
      PROVE  Goal(c)
  <2>1. Own3(c)
    BY <1>2 DEF Own3
  <2> QED BY <1>1, <1>2, <2>1
<1> QED BY <1>2 DEF CopyComplete

\* CopyComplete, for every number of calls: a copy that reports no error is a
\* copy, whatever other calls do elsewhere, and also when a renaming of a
\* directory above or below gives the files it reads their new names meanwhile
\* (CopyFile, Copy, CopyDir, CopyTpl).
THEOREM FilesCopyComplete == EditsSpec => []CopyComplete
<1> DEFINE Inv == FilesInv /\ AllSeqs /\ RenameInv /\ GroundInv /\ CopyInv
<1>1. EditsInit => Inv
  BY FilesInvInit, RenameInit, GroundInit, CopyInvInit
<1>2. Inv /\ [EditsNext]_editVars => Inv'
  <2> SUFFICES ASSUME Inv, [EditsNext]_editVars PROVE Inv'
    OBVIOUS
  <2>1. FilesInv' /\ AllSeqs'
    BY FilesInvNext
  <2>2. RenameInv'
    BY <2>1, RenameNext
  <2>3. GroundInv'
    BY <2>1, <2>2, GroundNext
  <2>4. CopyInv'
    BY <2>1, CopyInvNext
  <2> QED BY <2>1, <2>2, <2>3, <2>4
<1>3. Inv => CopyComplete
  BY CopyKept
<1> QED BY <1>1, <1>2, <1>3, PTL DEF EditsSpec

=============================================================================
