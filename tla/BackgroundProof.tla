-------------------------- MODULE BackgroundProof --------------------------
(***************************************************************************)
(* Proofs about shell commands, archives and the notification queue, for   *)
(* every number of children, every source and every part size.  The parts  *)
(* share no state: each has an inductive invariant of its own, and         *)
(* BackgroundInv is their conjunction.                                     *)
(***************************************************************************)
EXTENDS Background, FiniteSetTheorems, SequenceTheorems, TLAPS

-----------------------------------------------------------------------------
(* Shell commands *)

\* The process is known once it was started, and killing the group has ended
\* it for good.  The worker of shellx_win ends when the process was reaped.
ShellInv ==
  /\ ShellTypeOK
  /\ caller \in {"idle", "start"} =>
       /\ worker = "none" /\ chan = 0 /\ shell = "none" /\ ~known /\ ~killed
       /\ \A k \in Children : child[k] = "none"
  /\ known => worker \notin {"none", "new"} /\ shell # "none"
  /\ killed => known
  /\ killed /\ ~Windows => Gone
  /\ impl = "shellx_win" =>
       /\ worker # "new"
       /\ worker \in {"send", "done"} \/ chan = 1 => shell = "reaped"
  /\ caller = "returned" /\ impl = "shellx_win" /\ reply # "error" => shell = "reaped"

-----------------------------------------------------------------------------
(* The notification queue *)

\* A message is in the queue once, and its mail is begun when it has left it.
NotifyInv ==
  /\ NotifyTypeOK
  /\ \A p, q \in 1..Len(queue) : queue[p] = queue[q] => p = q
  /\ \A p \in 1..Len(queue) : push[queue[p]] = "returned" /\ mail[queue[p]] = "none"
  /\ \A m \in Msgs :
       /\ push[m] # "returned" => mail[m] = "none"
       /\ mail[m] \in {"none", "check", "dial"} => tries[m] < MaxTimes /\ delivered[m] <= tries[m]

-----------------------------------------------------------------------------
(* Archives: packing *)

Packing == pc \in {"walk", "data"}
Packed == pc \in {"defers", "flush", "done"}

\* A part has no end, whatever was kept of it.
Cut(p) == ~Ended(parts[p])

\* Who writes, and what became of it.
Stages ==
  /\ pc \in {"idle", "start"} =>
       parts = <<>> /\ i = 1 /\ n = 0 /\ size = 0 /\ res = "ok" /\ ~short
  /\ pc \notin {"idle", "start"} => parts # <<>>
  /\ form \notin Splits => Len(parts) <= 1
  /\ pc = "walk" => n = 0 /\ (Raw => i = 2)
  /\ pc = "data" => i <= Len(src) /\ HasData(i) /\ ~short
  /\ Packing => res = "ok"
  /\ Packed /\ res = "ok" /\ form # "zipBase" => i > Len(src)
  /\ short => IsTar /\ Cut(Len(parts))

\* The pipe of an upload is closed with the error if there is one, and nobody
\* else has a pipe.
Results ==
  /\ form \in Uploads => (pipe = "err" <=> res = "err")
  /\ pipe = "eof" => pc = "done" /\ form \in Uploads
  /\ form \notin Uploads => pipe = "open" /\ ret = IF pc = "done" THEN res ELSE "none"
  /\ form \in Uploads /\ ret = "ok" => pipe = "eof"
  /\ pc \in {"idle", "start"} => ret = "none"

\* The header of an entry was written.
Begun(e) == e < i \/ (e = i /\ pc = "data")

\* The header of an entry is there once, and its data is counted.  Data is
\* missing only from an archive that is, or will be, broken.
Counted(e) ==
  /\ Raw \/ e \notin Archived => Places(parts, Header(e)) = {}
  /\ ~Raw /\ e \in Archived /\ e < i => Places(parts, Header(e)) # {}
  /\ ~Packed /\ ~Begun(e) => Places(parts, Header(e)) = {}
  /\ \A x, y \in Places(parts, Header(e)) : x = y
  /\ IsFiniteSet(Places(parts, Data(e)))
  /\ ~HasData(e) \/ e > i \/ (pc = "walk" /\ e = i) => Places(parts, Data(e)) = {}
  /\ e < i /\ HasData(e) =>
       Count(Data(e)) = src[e].size \/ short \/ \E p \in 1..(Len(parts) - 1) : Cut(p)
  /\ e = i /\ pc = "data" => Count(Data(e)) = n

\* The data of an entry is behind its header, in the same part.
Behind(archive, e) ==
  \A x \in Places(archive, Data(e)) : \E q \in 1..(x[2] - 1) : archive[x[1]][q] = Header(e)

\* While a file is copied its part ends in it.
Open ==
  pc = "data" /\ ~Raw =>
    LET last == parts[Len(parts)] IN
    /\ last # <<>> /\ last[Len(last)] \in {Header(i), Data(i)}
    /\ \E q \in 1..Len(last) : last[q] = Header(i)

\* The archive of an upload begins with the root.
RootFirst ==
  form \in Uploads /\ ~Raw /\ parts # <<>> /\ parts[1] # <<>> => parts[1][1] = Header(1)

\* currentSize counts the data of the part at hand.
Sized ==
  form \in Splits /\ Packing =>
    /\ size < MaxSize
    /\ Cardinality(DataOf(parts[Len(parts)], 1..(i - 1))) = size
    /\ pc = "walk" => DataOf(parts[Len(parts)], i..Len(src)) = {}
    /\ pc = "data" => /\ DataOf(parts[Len(parts)], (i + 1)..Len(src)) = {}
                      /\ Cardinality(DataOf(parts[Len(parts)], {i})) = n

PackInv ==
  /\ Stages /\ Results /\ Open /\ RootFirst /\ Sized /\ SplitSizes
  /\ \A e \in 1..Len(src) : Counted(e) /\ (~Raw => Behind(parts, e))

-----------------------------------------------------------------------------
(* Archives: unpacking *)

\* The blocks that were unpacked, or skipped.
Done == {x \in Positions(parts) : x[1] < upart \/ (x[1] = upart /\ x[2] < upos)}
Seen(b) == Places(parts, b) \cap Done

\* What was unpacked of an entry so far.
Unpacked(e) ==
  IF Raw
  THEN IF Seen(Data(e)) = {} THEN Nothing
       ELSE [type |-> "file", size |-> Cardinality(Seen(Data(e)))]
  ELSE IF Seen(Header(e)) = {} \/ (form \in Uploads /\ e = 1) THEN Nothing
  ELSE [type |-> IF Seen(Data(e)) = {} THEN Made(e) ELSE "file",
        size |-> Cardinality(Seen(Data(e)))]

UnpackInv ==
  /\ upos = 0 => upart = 1 /\ uret = "none" /\ \A e \in 1..Len(src) : dst[e] = Nothing
  /\ upos > 0 =>
       /\ ret = "ok" /\ upart \in 1..Len(parts) /\ upos <= Len(parts[upart]) + 1
       /\ form \in Uploads /\ ~Raw /\ parts[1] # <<>> => upos > 1
       /\ \A p \in 1..(upart - 1) : ~Broken(p)
  /\ ~(form \in Uploads /\ Raw) /\ uret = "none" =>
       \A e \in 1..Len(src) : dst[e] = Unpacked(e)
  /\ uret = "ok" /\ ~AllLost =>
       /\ upart = Len(parts) /\ upos > Len(parts[upart]) /\ ~Broken(upart)
       /\ ~(form \in Uploads /\ Raw) => \A e \in 1..Len(src) :
            dst[e] = IF Raw THEN [type |-> "file", size |-> Count(Data(e))] ELSE Unpacked(e)

\* What the files of the closed parts hold.
Kept ==
  /\ Len(kept) = IF pc \in {"idle", "start"} THEN 0
                 ELSE IF pc = "done" THEN Len(parts) ELSE Len(parts) - 1
  /\ \A p \in 1..Len(kept) : kept[p] <= Len(parts[p])

ArchiveInv == ArchiveTypeOK /\ PackInv /\ Kept /\ UnpackInv

BackgroundInv ==
  part \in {"notify", "shell", "archive"} /\ NotifyInv /\ ShellInv /\ ArchiveInv

-----------------------------------------------------------------------------
LEMMA ShellStep == ShellInv /\ ShellNext => ShellInv'
<1> SUFFICES ASSUME ShellInv, ShellNext PROVE ShellInv'
  OBVIOUS
<1> USE DEF ShellInv, ShellTypeOK, Gone, Windows
<1>1. CASE ShellExits
  BY <1>1 DEF ShellExits
<1>2. CASE StartsChild
  BY <1>2 DEF StartsChild
<1>3. CASE ChildExits
  BY <1>3 DEF ChildExits
<1>4. CASE ContextDone
  BY <1>4 DEF ContextDone
<1>5. CASE CallShell
  BY <1>5, ImplsAssumption DEF CallShell
<1>6. CASE Fork
  BY <1>6 DEF Fork
<1>7. CASE SetProcess
  BY <1>7 DEF SetProcess
<1>8. CASE StartFails
  BY <1>8 DEF StartFails
<1>9. CASE WaitReturns
  BY <1>9 DEF WaitReturns
<1>10. CASE SendResult
  BY <1>10 DEF SendResult, Buffered
<1>11. CASE FailsEarly
  BY <1>11 DEF FailsEarly
<1>12. CASE StartWorker
  BY <1>12 DEF StartWorker
<1>13. CASE Receive
  BY <1>13 DEF Receive, Buffered
<1>14. CASE Deadline
  <2>1. CASE known /\ Kill /\ AfterKill
    BY <1>14, <2>1 DEF Deadline, Kill, AfterKill, Dead
  <2>2. CASE impl = "shellx" /\ AfterKill /\ UNCHANGED <<shell, child, killed>>
    BY <1>14, <2>2 DEF Deadline, AfterKill
  <2>3. CASE /\ impl \in {"utils", "utils_win"} /\ caller' = "returned" /\ reply' = "panic"
             /\ UNCHANGED <<shell, child, killed>>
    BY <1>14, <2>3 DEF Deadline
  <2>. QED BY <1>14, <2>1, <2>2, <2>3 DEF Deadline
<1>15. CASE Await
  BY <1>15 DEF Await
<1>. QED BY <1>1, <1>2, <1>3, <1>4, <1>5, <1>6, <1>7, <1>8, <1>9, <1>10, <1>11, <1>12,
            <1>13, <1>14, <1>15 DEF ShellNext, WorkerStep, CallerStep, Environment

-----------------------------------------------------------------------------
LEMMA NotifyStep == NotifyInv /\ NotifyNext => NotifyInv'
<1> SUFFICES ASSUME NotifyInv, NotifyNext PROVE NotifyInv'
  OBVIOUS
<1>1. CASE Handle
  <2> DEFINE m == Head(queue)
  <2>1. /\ queue # <<>> /\ queue' = Tail(queue) /\ run' \in {"recv", "sleep"}
        /\ mail' \in {mail, [mail EXCEPT ![m] = "check"]}
        /\ UNCHANGED <<kind, push, tries, delivered>>
    BY <1>1 DEF Handle
  <2>2. /\ queue \in Seq(Msgs) /\ Len(queue) \in Nat /\ Len(queue) # 0 /\ m = queue[1] /\ m \in Msgs
        /\ queue' \in Seq(Msgs) /\ Len(queue') = Len(queue) - 1
        /\ \A p \in 1..Len(queue') : queue'[p] = queue[p + 1]
    BY <2>1 DEF NotifyInv, NotifyTypeOK
  <2>3. \A p \in 1..Len(queue') : p + 1 \in 1..Len(queue) /\ queue'[p] # m
    <3>1. SUFFICES ASSUME NEW p \in 1..Len(queue') PROVE p + 1 \in 1..Len(queue) /\ queue'[p] # m
      OBVIOUS
    <3>2. p + 1 \in 1..Len(queue) /\ 1 \in 1..Len(queue) /\ p + 1 # 1
      BY <2>2
    <3>3. queue[p + 1] # queue[1]
      BY <3>2 DEF NotifyInv
    <3>. QED BY <2>2, <3>2, <3>3
  <2>4. mail[m] = "none" /\ push[m] = "returned" /\ tries[m] < MaxTimes /\ delivered[m] <= tries[m]
    BY <2>2 DEF NotifyInv
  <2>5. NotifyTypeOK'
    <3>1. Len(queue') <= QueueCap
      BY <2>2, QueueCapAssumption DEF NotifyInv, NotifyTypeOK
    <3>2. mail' \in [Msgs -> {"none", "check", "dial", "hung", "sent", "refused", "failed"}]
      BY <2>1 DEF NotifyInv, NotifyTypeOK
    <3>. QED BY <2>1, <2>2, <3>1, <3>2 DEF NotifyInv, NotifyTypeOK
  <2>6. \A p, q \in 1..Len(queue') : queue'[p] = queue'[q] => p = q
    <3>1. SUFFICES ASSUME NEW p \in 1..Len(queue'), NEW q \in 1..Len(queue'), queue'[p] = queue'[q]
                   PROVE  p = q
      OBVIOUS
    <3>2. p + 1 = q + 1
      BY <2>2, <2>3, <3>1 DEF NotifyInv
    <3>. QED BY <2>2, <3>2
  <2>7. \A p \in 1..Len(queue') : push'[queue'[p]] = "returned" /\ mail'[queue'[p]] = "none"
    <3>1. SUFFICES ASSUME NEW p \in 1..Len(queue')
                   PROVE  push'[queue'[p]] = "returned" /\ mail'[queue'[p]] = "none"
      OBVIOUS
    <3>2. queue'[p] = queue[p + 1] /\ p + 1 \in 1..Len(queue) /\ queue'[p] # m
      BY <2>2, <2>3
    <3>3. push[queue'[p]] = "returned" /\ mail[queue'[p]] = "none"
      BY <3>2 DEF NotifyInv
    <3>. QED BY <2>1, <3>2, <3>3 DEF NotifyInv, NotifyTypeOK
  <2>8. \A k \in Msgs : k # m => mail'[k] = mail[k]
    BY <2>1 DEF NotifyInv, NotifyTypeOK
  <2> HIDE DEF m
  <2>. QED BY <2>1, <2>4, <2>5, <2>6, <2>7, <2>8 DEF NotifyInv
<1>2. CASE Wake
  BY <1>2 DEF Wake, NotifyInv, NotifyTypeOK, mailVars
<1>3. ASSUME NEW m \in Msgs, CallPush(m) PROVE NotifyInv'
  BY <1>3 DEF CallPush, NotifyInv, NotifyTypeOK, mailVars
<1>4. ASSUME NEW m \in Msgs, Push(m) PROVE NotifyInv'
  <2>1. /\ push[m] = "called" /\ Len(queue) < QueueCap /\ queue' = Append(queue, m)
        /\ push' = [push EXCEPT ![m] = "returned"] /\ UNCHANGED <<kind, run, mail, tries, delivered>>
    BY <1>4 DEF Push, mailVars
  <2>2. /\ queue \in Seq(Msgs) /\ Len(queue) \in Nat /\ Len(queue') = Len(queue) + 1
        /\ queue' \in Seq(Msgs) /\ queue'[Len(queue) + 1] = m
        /\ \A p \in 1..Len(queue) : queue'[p] = queue[p] /\ queue[p] # m
    BY <2>1 DEF NotifyInv, NotifyTypeOK
  <2>3. \A p \in 1..Len(queue') : p \in 1..Len(queue) \/ p = Len(queue) + 1
    BY <2>2
  <2>4. NotifyTypeOK'
    BY <2>1, <2>2, QueueCapAssumption DEF NotifyInv, NotifyTypeOK
  <2>5. mail[m] = "none"
    BY <2>1 DEF NotifyInv
  <2>6. push'[m] = "returned" /\ \A k \in Msgs : k # m => push'[k] = push[k]
    BY <2>1 DEF NotifyInv, NotifyTypeOK
  <2>. QED BY <2>1, <2>2, <2>3, <2>4, <2>5, <2>6 DEF NotifyInv
<1>5. ASSUME NEW m \in Msgs, Check(m) PROVE NotifyInv'
  BY <1>5 DEF Check, NotifyInv, NotifyTypeOK
<1>6. ASSUME NEW m \in Msgs, Dial(m) PROVE NotifyInv'
  <2>1. /\ mail[m] = "dial" /\ tries[m] < MaxTimes /\ delivered[m] <= tries[m]
        /\ tries[m] \in Nat /\ delivered[m] \in Nat /\ MaxTimes \in Nat
        /\ UNCHANGED <<kind, push, queue, run>>
    BY <1>6, MaxTimesAssumption DEF Dial, NotifyInv, NotifyTypeOK
  <2>2. PICK at \in {"dial", "sent", "failed"}, t \in 0..MaxTimes, d \in 0..MaxTimes :
          /\ mail' = [mail EXCEPT ![m] = at] /\ tries' = [tries EXCEPT ![m] = t]
          /\ delivered' = [delivered EXCEPT ![m] = d]
          /\ at = "dial" => t < MaxTimes /\ d <= t
    <3>1. CASE /\ mail' = [mail EXCEPT ![m] = "sent"]
               /\ delivered' = [delivered EXCEPT ![m] = @ + 1] /\ UNCHANGED tries
      <4>1. tries' = [tries EXCEPT ![m] = tries[m]] /\ delivered[m] + 1 \in 0..MaxTimes
            /\ tries[m] \in 0..MaxTimes
        BY <2>1, <3>1 DEF NotifyInv, NotifyTypeOK
      <4>. QED BY <3>1, <4>1
    <3>2. CASE /\ tries' = [tries EXCEPT ![m] = @ + 1]
               /\ mail' = [mail EXCEPT ![m] = IF tries[m] + 1 = MaxTimes THEN "failed" ELSE @]
               /\ \E accepted \in 0..1 : delivered' = [delivered EXCEPT ![m] = @ + accepted]
      <4>1. PICK accepted \in 0..1 : delivered' = [delivered EXCEPT ![m] = delivered[m] + accepted]
        BY <3>2
      <4>2. /\ tries[m] + 1 \in 0..MaxTimes /\ delivered[m] + accepted \in 0..MaxTimes
            /\ delivered[m] + accepted <= tries[m] + 1
        BY <2>1
      <4>3. CASE tries[m] + 1 = MaxTimes
        BY <3>2, <4>1, <4>2, <4>3
      <4>4. CASE tries[m] + 1 # MaxTimes
        <5>1. tries[m] + 1 < MaxTimes /\ mail' = [mail EXCEPT ![m] = "dial"]
          BY <2>1, <3>2, <4>4
        <5>. QED BY <3>2, <4>1, <4>2, <5>1
      <4>. QED BY <4>3, <4>4
    <3>. QED BY <1>6, <3>1, <3>2 DEF Dial
  <2>3. NotifyTypeOK'
    BY <2>1, <2>2 DEF NotifyInv, NotifyTypeOK
  <2>4. \A p \in 1..Len(queue) : queue[p] # m
    BY <2>1 DEF NotifyInv
  <2>5. \A k \in Msgs \ {m} : mail'[k] = mail[k] /\ tries'[k] = tries[k] /\ delivered'[k] = delivered[k]
    BY <2>2 DEF NotifyInv, NotifyTypeOK
  <2>6. mail'[m] = at /\ at \notin {"none", "check"} /\ tries'[m] = t /\ delivered'[m] = d
    BY <2>2 DEF NotifyInv, NotifyTypeOK
  <2>7. push[m] = "returned"
    BY <2>1 DEF NotifyInv
  <2>8. \A p \in 1..Len(queue) : queue[p] \in Msgs \ {m}
    BY <2>4 DEF NotifyInv, NotifyTypeOK
  <2>. QED BY <2>1, <2>2, <2>3, <2>5, <2>6, <2>7, <2>8 DEF NotifyInv
<1>7. ASSUME NEW m \in Msgs, Hang(m) PROVE NotifyInv'
  BY <1>7 DEF Hang, NotifyInv, NotifyTypeOK
<1>. QED BY <1>1, <1>2, <1>3, <1>4, <1>5, <1>6, <1>7 DEF NotifyNext

-----------------------------------------------------------------------------
(* Archives: what a write does to the places of the blocks. *)

LEMMA BlockIs ==
  \A e, f : /\ Header(e) # Data(f) /\ Header(e) # End /\ Data(e) # End
            /\ Header(e) = Header(f) => e = f
            /\ Data(e) = Data(f) => e = f
BY DEF Header, Data, End

LEMMA SourcesAre ==
  ASSUME NEW s \in Sources
  PROVE  /\ s \in Seq([type : Types, size : Nat]) /\ Len(s) \in Nat /\ Len(s) >= 1
         /\ \A e \in 1..Len(s) : s[e] \in [type : Types, size : Nat]
         /\ s[1].type \in {"dir", "file"} /\ (s[1].type = "file" => Len(s) = 1)
<1>1. /\ s \in Seq([type : Types, size : Nat]) /\ s # <<>> /\ s[1].type # "link"
      /\ s[1].type = "file" => Len(s) = 1
  BY SourcesAssumption
<1> DEFINE S == [type : Types, size : Nat]
<1>2. Len(s) \in Nat /\ Len(s) >= 1 /\ \A e \in 1..Len(s) : s[e] \in S
  <2> HIDE DEF S
  <2>1. s \in Seq(S)
    BY <1>1 DEF S
  <2>. QED BY <1>1, <2>1
<1>3. s[1].type \in Types
  BY <1>2
<1>. QED BY <1>1, <1>2, <1>3 DEF Types

LEMMA SourceIs ==
  ASSUME ArchiveTypeOK
  PROVE  /\ src \in Seq([type : Types, size : Nat]) /\ Len(src) \in Nat /\ Len(src) >= 1
         /\ \A e \in 1..Len(src) : src[e] \in [type : Types, size : Nat]
         /\ src[1].type \in {"dir", "file"} /\ (src[1].type = "file" => Len(src) = 1)
BY SourcesAre DEF ArchiveTypeOK

LEMMA PositionIs ==
  \A x : x \in Positions(parts) <=>
    \E p \in 1..Len(parts) : \E q \in 1..Len(parts[p]) : x = <<p, q>>
BY DEF Positions

\* A block is written to the part at hand.
LEMMA BlockWritten ==
  ASSUME ArchiveTypeOK, parts # <<>>, NEW b \in Block, Write(<<b>>)
  PROVE  LET P == Len(parts)
             new == <<P, Len(parts[P]) + 1>> IN
         /\ P \in Nat \ {0} /\ parts' \in Seq(Seq(Block)) /\ Len(parts') = P
         /\ \A p \in 1..P : p # P => parts'[p] = parts[p]
         /\ parts[P] \in Seq(Block) /\ parts'[P] \in Seq(Block)
         /\ Len(parts'[P]) = Len(parts[P]) + 1 /\ parts'[P][Len(parts[P]) + 1] = b
         /\ \A q \in 1..Len(parts[P]) : parts'[P][q] = parts[P][q]
         /\ new \notin Positions(parts) /\ Positions(parts') = Positions(parts) \cup {new}
         /\ \A x \in Positions(parts) : parts'[x[1]][x[2]] = parts[x[1]][x[2]]
<1> DEFINE P == Len(parts)
           part1 == parts[P] \o <<b>>
           new == <<P, Len(parts[P]) + 1>>
<1>1. P \in Nat \ {0} /\ parts \in Seq(Seq(Block)) /\ P \in 1..P
  BY DEF ArchiveTypeOK
<1>2. parts[P] \in Seq(Block) /\ <<b>> \in Seq(Block) /\ Len(parts[P]) \in Nat
  BY <1>1
<1>3. /\ part1 \in Seq(Block) /\ Len(part1) = Len(parts[P]) + 1
      /\ part1[Len(parts[P]) + 1] = b
      /\ \A q \in 1..Len(parts[P]) : part1[q] = parts[P][q]
  BY <1>2
<1>4. parts' = [parts EXCEPT ![P] = part1]
  BY DEF Write
<1> HIDE DEF part1
<1>5. /\ parts' \in Seq(Seq(Block)) /\ Len(parts') = P
      /\ \A p \in 1..P : parts'[p] = IF p = P THEN part1 ELSE parts[p]
  BY <1>1, <1>3, <1>4, ExceptSeq
<1>6. \A x : x \in Positions(parts') <=> \E p \in 1..Len(parts') : \E q \in 1..Len(parts'[p]) : x = <<p, q>>
  BY DEF Positions
<1> HIDE DEF P
<1>7. new \notin Positions(parts)
  BY <1>1, <1>2, PositionIs
<1>8. Positions(parts') = Positions(parts) \cup {new}
  <2>1. ASSUME NEW x \in Positions(parts') PROVE x \in Positions(parts) \cup {new}
    <3>0. PICK p \in 1..P : \E q \in 1..Len(parts'[p]) : x = <<p, q>>
      BY <1>5, <1>6
    <3>1. PICK q \in 1..Len(parts'[p]) : x = <<p, q>>
      BY <3>0
    <3>2. CASE p # P
      BY <1>5, <3>1, <3>2, PositionIs DEF P
    <3>3. CASE p = P
      <4>1. q \in 1..Len(parts[P]) \/ q = Len(parts[P]) + 1
        BY <1>2, <1>3, <1>5, <3>1, <3>3
      <4>. QED BY <1>1, <3>1, <3>3, <4>1, PositionIs DEF P
    <3>. QED BY <3>2, <3>3
  <2>2. ASSUME NEW x \in Positions(parts) PROVE x \in Positions(parts')
    <3>0. PICK p \in 1..P : \E q \in 1..Len(parts[p]) : x = <<p, q>>
      BY PositionIs DEF P
    <3>1. PICK q \in 1..Len(parts[p]) : x = <<p, q>>
      BY <3>0
    <3>2. p # P => q \in 1..Len(parts'[p])
      BY <1>5
    <3>3. p = P => q \in 1..Len(parts'[p])
      BY <1>2, <1>3, <1>5
    <3>. QED BY <1>5, <1>6, <3>1, <3>2, <3>3
  <2>3. new \in Positions(parts')
    <3>1. Len(parts[P]) + 1 \in 1..Len(parts'[P])
      BY <1>1, <1>2, <1>3, <1>5
    <3>. QED BY <1>1, <1>5, <1>6, <3>1
  <2>. QED BY <2>1, <2>2, <2>3
<1>9. ASSUME NEW x \in Positions(parts) PROVE parts'[x[1]][x[2]] = parts[x[1]][x[2]]
  <2>0. PICK p \in 1..P : \E q \in 1..Len(parts[p]) : x = <<p, q>>
    BY PositionIs DEF P
  <2>1. PICK q \in 1..Len(parts[p]) : x = <<p, q>>
    BY <2>0
  <2>. QED BY <1>3, <1>5, <2>1
<1>. QED BY <1>1, <1>2, <1>3, <1>5, <1>7, <1>8, <1>9 DEF P

\* The part at hand is closed, with a trailer or without, and a new one begun.
LEMMA PartClosed ==
  ASSUME ArchiveTypeOK, parts # <<>>, NextPart
  PROVE  LET P == Len(parts) IN
         /\ P \in Nat \ {0} /\ parts' \in Seq(Seq(Block)) /\ Len(parts') = P + 1
         /\ \A p \in 1..P : p # P => parts'[p] = parts[p]
         /\ parts'[P + 1] = <<>>
         /\ parts[P] \in Seq(Block) /\ parts'[P] \in Seq(Block)
         /\ n < src[i].size => parts'[P] = parts[P]
         /\ ~(n < src[i].size) => Len(parts'[P]) = Len(parts[P]) + 1 /\ parts'[P][Len(parts[P]) + 1] = End
         /\ \A q \in 1..Len(parts[P]) : parts'[P][q] = parts[P][q]
         /\ \A b : b # End => Places(parts', b) = Places(parts, b)
         /\ \E k \in 0..Len(parts'[P]) : kept' = Append(kept, k)
<1> DEFINE P == Len(parts)
           trailer == IF n < src[i].size THEN <<>> ELSE <<End>>
           part1 == parts[P] \o trailer
           parts1 == [parts EXCEPT ![P] = part1]
<1>1. P \in Nat \ {0} /\ parts \in Seq(Seq(Block)) /\ P \in 1..P
  BY DEF ArchiveTypeOK
<1>2. parts[P] \in Seq(Block) /\ Len(parts[P]) \in Nat /\ trailer \in Seq(Block)
  <2>1. <<End>> \in Seq(Block) /\ <<>> \in Seq(Block)
    <3>1. End \in Block
      BY DEF Block
    <3>. QED BY <3>1
  <2>. QED BY <1>1, <2>1
<1>3. /\ part1 \in Seq(Block)
      /\ \A q \in 1..Len(parts[P]) : part1[q] = parts[P][q]
      /\ n < src[i].size => part1 = parts[P]
      /\ ~(n < src[i].size) => Len(part1) = Len(parts[P]) + 1 /\ part1[Len(parts[P]) + 1] = End
  <2>1. CASE n < src[i].size
    <3>1. part1 = parts[P] \o <<>>
      BY <2>1
    <3>. QED BY <1>2, <2>1, <3>1, ConcatEmptySeq
  <2>2. CASE ~(n < src[i].size)
    <3>1. part1 = parts[P] \o <<End>> /\ <<End>> \in Seq(Block)
      BY <1>2, <2>2
    <3>. QED BY <1>2, <2>2, <3>1
  <2>. QED BY <2>1, <2>2
<1>4. parts' = Append(parts1, <<>>) /\ Closes(part1)
  BY DEF NextPart
<1> HIDE DEF trailer, part1
<1>5. /\ parts1 \in Seq(Seq(Block)) /\ Len(parts1) = P
      /\ \A p \in 1..P : parts1[p] = IF p = P THEN part1 ELSE parts[p]
  BY <1>1, <1>3, ExceptSeq
<1> HIDE DEF parts1
<1>6. /\ parts' \in Seq(Seq(Block)) /\ Len(parts') = P + 1 /\ parts'[P + 1] = <<>>
      /\ \A p \in 1..P : parts'[p] = IF p = P THEN part1 ELSE parts[p]
  <2>1. <<>> \in Seq(Block)
    OBVIOUS
  <2>. QED BY <1>4, <1>5, <2>1, AppendProperties
<1> HIDE DEF P
<1>7. ASSUME NEW b, b # End PROVE Places(parts', b) = Places(parts, b)
  <2>1. ASSUME NEW x \in Places(parts', b) PROVE x \in Places(parts, b)
    <3>0. PICK p \in 1..(P + 1) : \E q \in 1..Len(parts'[p]) : x = <<p, q>> /\ parts'[p][q] = b
      BY <1>6, <2>1 DEF Places, Positions
    <3>1. PICK q \in 1..Len(parts'[p]) : x = <<p, q>> /\ parts'[p][q] = b
      BY <3>0
    <3>2. p \in 1..P
      BY <1>1, <1>6, <3>1
    <3>3. q \in 1..Len(parts[p]) /\ parts[p][q] = b
      <4>1. CASE p # P
        BY <1>6, <3>1, <3>2, <4>1
      <4>2. CASE p = P
        <5>1. q \in 1..Len(part1) /\ part1[q] = b
          BY <1>6, <3>1, <3>2, <4>2
        <5>2. q \in 1..Len(parts[P])
          BY <1>2, <1>3, <1>7, <5>1
        <5>. QED BY <1>3, <4>2, <5>1, <5>2
      <4>. QED BY <4>1, <4>2
    <3>. QED BY <3>1, <3>2, <3>3, PositionIs DEF Places, P
  <2>2. ASSUME NEW x \in Places(parts, b) PROVE x \in Places(parts', b)
    <3>0. PICK p \in 1..P : \E q \in 1..Len(parts[p]) : x = <<p, q>> /\ parts[p][q] = b
      BY <2>2 DEF Places, Positions, P
    <3>1. PICK q \in 1..Len(parts[p]) : x = <<p, q>> /\ parts[p][q] = b
      BY <3>0
    <3>2. p \in 1..(P + 1) /\ q \in 1..Len(parts'[p]) /\ parts'[p][q] = b
      <4>1. CASE p # P
        <5>1. parts'[p] = parts[p] /\ p \in 1..(P + 1)
          BY <1>1, <1>6, <4>1
        <5>. QED BY <3>1, <5>1
      <4>2. CASE p = P
        <5>1. q \in 1..Len(part1) /\ part1[q] = b
          BY <1>2, <1>3, <3>1, <4>2
        <5>. QED BY <1>1, <1>6, <4>2, <5>1
      <4>. QED BY <4>1, <4>2
    <3>. QED BY <1>6, <3>1, <3>2 DEF Places, Positions
  <2>. QED BY <2>1, <2>2
<1>8. \E k \in 0..Len(parts'[P]) : kept' = Append(kept, k)
  <2>1. parts'[P] = part1
    BY <1>1, <1>6
  <2>. QED BY <1>4, <2>1 DEF Closes
<1>. QED BY <1>1, <1>2, <1>3, <1>6, <1>7, <1>8 DEF P


\* The same for the places of the blocks, and for the data of the parts.
LEMMA PlacesWritten ==
  ASSUME ArchiveTypeOK, parts # <<>>, NEW b \in Block, Write(<<b>>)
  PROVE  LET P == Len(parts)
             L == Len(parts[P]) IN
         /\ \A c : /\ Places(parts', c) = Places(parts, c) \cup (IF c = b THEN {<<P, L + 1>>} ELSE {})
                   /\ <<P, L + 1>> \notin Places(parts, c)
         /\ \A files :
              /\ DataOf(parts'[P], files) =
                   DataOf(parts[P], files) \cup (IF \E e \in files : b = Data(e) THEN {L + 1} ELSE {})
              /\ L + 1 \notin DataOf(parts[P], files)
         /\ \A e : b # Data(e) /\ Behind(parts, e) => Behind(parts', e)
         /\ \A e : Behind(parts, e) /\ (\E q \in 1..L : parts[P][q] = Header(e)) => Behind(parts', e)
<1> DEFINE P == Len(parts)
           L == Len(parts[P])
           new == <<P, L + 1>>
<1>0. parts[P] \in Seq(Block)
  BY BlockWritten
<1>1. /\ P \in Nat \ {0} /\ Len(parts') = P /\ L \in Nat
      /\ Len(parts'[P]) = L + 1 /\ parts'[P][L + 1] = b
      /\ \A q \in 1..L : parts'[P][q] = parts[P][q]
      /\ new \notin Positions(parts) /\ Positions(parts') = Positions(parts) \cup {new}
      /\ \A x \in Positions(parts) : parts'[x[1]][x[2]] = parts[x[1]][x[2]]
  <2>1. Len(parts[P]) \in Nat
    BY <1>0
  <2>. QED BY <2>1, BlockWritten
<1>2. \A p \in 1..P : p # P => parts'[p] = parts[p]
  BY BlockWritten
<1> HIDE DEF P, L
<1>3. parts'[new[1]][new[2]] = b
  BY <1>1
<1> HIDE DEF new
<1>4. ASSUME NEW c
      PROVE  /\ Places(parts', c) = Places(parts, c) \cup (IF c = b THEN {new} ELSE {})
             /\ new \notin Places(parts, c)
  BY <1>1, <1>3 DEF Places
<1>5. ASSUME NEW files
      PROVE  /\ DataOf(parts'[P], files) =
                  DataOf(parts[P], files) \cup (IF \E e \in files : b = Data(e) THEN {L + 1} ELSE {})
             /\ L + 1 \notin DataOf(parts[P], files)
  <2>1. \A q : q \in 1..(L + 1) <=> q \in 1..L \/ q = L + 1
    BY <1>1
  <2>2. L + 1 \notin 1..L
    BY <1>1
  <2>3. \A q : q \in DataOf(parts[P], files) <=> q \in 1..L /\ \E e \in files : parts[P][q] = Data(e)
    BY DEF DataOf, L
  <2>4. \A q : q \in DataOf(parts'[P], files) <=>
                 q \in 1..(L + 1) /\ \E e \in files : parts'[P][q] = Data(e)
    BY <1>1 DEF DataOf
  <2>. QED BY <1>1, <2>1, <2>2, <2>3, <2>4
<1>6. ASSUME NEW x \in Positions(parts), NEW c, \E q \in 1..(x[2] - 1) : parts[x[1]][q] = c
      PROVE  \E q \in 1..(x[2] - 1) : parts'[x[1]][q] = c
  <2>1. PICK q \in 1..(x[2] - 1) : parts[x[1]][q] = c
    BY <1>6
  <2>2. PICK p \in 1..P : \E r \in 1..Len(parts[p]) : x = <<p, r>>
    BY PositionIs DEF P
  <2>3. PICK r \in 1..Len(parts[p]) : x = <<p, r>>
    BY <2>2
  <2>4. p = P => q \in 1..L
    BY <1>1, <2>1, <2>3 DEF L
  <2>5. parts'[p][q] = parts[p][q]
    BY <1>1, <1>2, <2>4
  <2>. QED BY <2>1, <2>3, <2>5
<1>7. ASSUME NEW e, b # Data(e), Behind(parts, e) PROVE Behind(parts', e)
  <2>1. Places(parts', Data(e)) = Places(parts, Data(e))
    BY <1>4, <1>7
  <2>. QED BY <1>6, <1>7, <2>1 DEF Behind, Places
<1>8. ASSUME NEW e, Behind(parts, e), NEW q \in 1..L, parts[P][q] = Header(e) PROVE Behind(parts', e)
  <2>1. SUFFICES ASSUME NEW x \in Places(parts', Data(e))
                 PROVE  \E r \in 1..(x[2] - 1) : parts'[x[1]][r] = Header(e)
    BY DEF Behind
  <2>2. CASE x = new
    <3>1. x[1] = P /\ q \in 1..(x[2] - 1) /\ parts'[P][q] = Header(e)
      BY <1>1, <1>8, <2>2 DEF new
    <3>. QED BY <3>1
  <2>3. CASE x # new
    <3>1. x \in Places(parts, Data(e))
      BY <1>4, <2>1, <2>3
    <3>. QED BY <1>6, <1>8, <3>1 DEF Behind, Places
  <2>. QED BY <2>2, <2>3
<1>9. /\ \A c : /\ Places(parts', c) = Places(parts, c) \cup (IF c = b THEN {<<P, L + 1>>} ELSE {})
                /\ <<P, L + 1>> \notin Places(parts, c)
      /\ \A files :
           /\ DataOf(parts'[P], files) =
                DataOf(parts[P], files) \cup (IF \E e \in files : b = Data(e) THEN {L + 1} ELSE {})
           /\ L + 1 \notin DataOf(parts[P], files)
  BY <1>4, <1>5 DEF new
<1>. QED BY <1>7, <1>8, <1>9 DEF P, L

LEMMA DataFinite ==
  ASSUME NEW blocks, NEW files, Len(blocks) \in Nat
  PROVE  IsFiniteSet(DataOf(blocks, files)) /\ Cardinality(DataOf(blocks, files)) \in Nat
<1>1. IsFiniteSet(1..Len(blocks)) /\ DataOf(blocks, files) \in SUBSET (1..Len(blocks))
  BY FS_Interval DEF DataOf
<1>. QED BY <1>1, FS_Subset, FS_CardinalityType

\* The data of files and of one more.
LEMMA DataAdds ==
  ASSUME NEW blocks, NEW files, NEW e, e \notin files, Len(blocks) \in Nat
  PROVE  /\ DataOf(blocks, files \cup {e}) = DataOf(blocks, files) \cup DataOf(blocks, {e})
         /\ Cardinality(DataOf(blocks, files \cup {e})) =
              Cardinality(DataOf(blocks, files)) + Cardinality(DataOf(blocks, {e}))
<1> DEFINE A == DataOf(blocks, files)
           B == DataOf(blocks, {e})
<1>1. DataOf(blocks, files \cup {e}) = A \cup B
  BY DEF DataOf
<1>2. A \cap B = {}
  BY BlockIs DEF DataOf
<1>3. IsFiniteSet(A) /\ IsFiniteSet(B) /\ Cardinality(A) \in Nat /\ Cardinality(B) \in Nat
  BY DataFinite
<1> HIDE DEF A, B
<1>4. Cardinality(A \cup B) = Cardinality(A) + Cardinality(B) - Cardinality(A \cap B)
  BY <1>3, FS_Union
<1>5. Cardinality(A \cup B) = Cardinality(A) + Cardinality(B)
  <2>1. Cardinality(A \cap B) = 0
    BY <1>2, FS_EmptySet
  <2>. QED BY <1>3, <1>4, <2>1
<1>. QED BY <1>1, <1>5 DEF A, B

-----------------------------------------------------------------------------
(* Archives: the steps of packing. *)

LEMMA SameForm ==
  ASSUME UNCHANGED <<form, src>>
  PROVE  /\ Raw' = Raw /\ IsTar' = IsTar /\ Archived' = Archived
         /\ \A e : HasData(e)' = HasData(e) /\ Made(e)' = Made(e)
BY DEF Raw, IsTar, Archived, HasData, Made, DownloadMakes, ZstdMakes, TarGzMakes, UnzipMakes

\* What is written to a part that has not ended leaves the others.
LEMMA CutStays ==
  ASSUME NEW p, parts'[p] = parts[p]
  PROVE  Cut(p)' = Cut(p)
BY DEF Cut, Ended

\* Steps that write nothing.
LEMMA QuietStep ==
  ASSUME PackInv, UNCHANGED <<form, src, i, n, parts, size>>,
         pc' = pc \/ (pc \notin {"idle", "start"} /\ Packed'),
         pc' \in {"idle", "start", "data"} => short' = short,
         pc' = pc => res' = res,
         short => short', short' => IsTar /\ Cut(Len(parts)),
         Packed' /\ res' = "ok" /\ form # "zipBase" => i > Len(src),
         Results'
  PROVE  PackInv'
<1>1. Stages'
  BY SameForm, CutStays DEF PackInv, Stages, Packing, Packed
<1>2. Open' /\ RootFirst' /\ Sized' /\ SplitSizes'
  BY SameForm DEF PackInv, Open, RootFirst, Sized, SplitSizes, Packing, Packed
<1>3. ASSUME NEW e \in 1..Len(src) PROVE Counted(e)' /\ (~Raw' => Behind(parts', e))
  <2>1. Counted(e) /\ (~Raw => Behind(parts, e))
    BY DEF PackInv
  <2>2. \A p \in 1..(Len(parts) - 1) : Cut(p)' = Cut(p)
    BY CutStays
  <2>. QED BY <2>1, <2>2, SameForm DEF Counted, Begun, Count, Packed
<1>. QED BY <1>1, <1>2, <1>3 DEF PackInv

\* The parts that are closed stay as they are.
LEMMA SplitsSame ==
  ASSUME SplitSizes, UNCHANGED <<form, src>>, Len(parts) \in Nat, Len(parts') = Len(parts),
         \A p \in 1..Len(parts) : p # Len(parts) => parts'[p] = parts[p]
  PROVE  SplitSizes'
<1>1. \A p \in 1..(Len(parts') - 1) : p \in 1..(Len(parts) - 1) /\ parts'[p] = parts[p]
  OBVIOUS
<1>. QED BY <1>1 DEF SplitSizes

\* The header of the next entry.
LEMMA HeaderStep ==
  ASSUME ArchiveTypeOK, PackInv, pc = "walk", i <= Len(src), ~short, i \in Archived,
         ~Raw, Write(<<Header(i)>>),
         IF HasData(i) THEN pc' = "data" /\ i' = i ELSE i' = i + 1 /\ pc' = "walk",
         UNCHANGED <<form, src, n, size, res, short, sendVars>>
  PROVE  PackInv'
<1> DEFINE P == Len(parts)
           L == Len(parts[P])
           new == <<P, L + 1>>
<1>1. i \in Nat \ {0} /\ Len(src) \in Nat /\ i \in 1..Len(src) /\ n = 0 /\ parts # <<>>
  BY SourceIs DEF ArchiveTypeOK, PackInv, Stages
<1>2. Header(i) \in Block
  BY <1>1 DEF Block, Header
<1>3. /\ P \in Nat \ {0} /\ Len(parts') = P /\ parts' # <<>>
      /\ \A p \in 1..P : p # P => parts'[p] = parts[p]
  BY <1>1, <1>2, BlockWritten
<1>4. /\ L \in Nat /\ Len(parts'[P]) = L + 1 /\ parts'[P][L + 1] = Header(i)
      /\ \A q \in 1..L : parts'[P][q] = parts[P][q]
  <2>1. parts[P] \in Seq(Block)
    BY <1>1, <1>2, BlockWritten
  <2>2. L \in Nat
    BY <2>1
  <2>. QED BY <1>1, <1>2, <2>2, BlockWritten
<1>5. /\ \A c : Places(parts', c) = Places(parts, c) \cup (IF c = Header(i) THEN {new} ELSE {})
      /\ \A files : DataOf(parts'[P], files) = DataOf(parts[P], files)
      /\ \A e : Behind(parts, e) => Behind(parts', e)
  <2>1. \A c : Places(parts', c) = Places(parts, c) \cup (IF c = Header(i) THEN {new} ELSE {})
    BY <1>1, <1>2, PlacesWritten
  <2>2. ASSUME NEW files PROVE DataOf(parts'[P], files) = DataOf(parts[P], files)
    <3>1. ~ \E e \in files : Header(i) = Data(e)
      BY BlockIs
    <3>2. DataOf(parts'[P], files) = DataOf(parts[P], files) \cup
            (IF \E e \in files : Header(i) = Data(e) THEN {L + 1} ELSE {})
      BY <1>1, <1>2, PlacesWritten
    <3>. QED BY <3>1, <3>2
  <2>3. \A e : Behind(parts, e) => Behind(parts', e)
    BY <1>1, <1>2, PlacesWritten, BlockIs
  <2>. QED BY <2>1, <2>2, <2>3
<1> HIDE DEF P, L, new
<1>6. /\ Raw' = Raw /\ IsTar' = IsTar /\ Archived' = Archived /\ \A e : HasData(e)' = HasData(e)
  BY SameForm
<1>7. \A p \in 1..(P - 1) : Cut(p)' = Cut(p)
  BY <1>3, CutStays
<1>8. Stages'
  BY <1>1, <1>3, <1>6 DEF PackInv, Stages, Packing, Packed, P
<1>9. Results'
  BY DEF PackInv, Results, sendVars
<1>10. Open'
  <2>1. L + 1 \in 1..Len(parts'[P]) /\ parts'[P] # <<>>
    BY <1>4
  <2>. QED BY <1>3, <1>4, <2>1 DEF Open
<1>11. RootFirst'
  <2>1. SUFFICES ASSUME form \in Uploads, parts'[1] # <<>> PROVE parts'[1][1] = Header(1)
    BY <1>6 DEF RootFirst
  <2>2. P = 1
    BY <1>1, <1>3, <2>1 DEF PackInv, Stages, Uploads, Splits, P
  <2>3. CASE parts[1] # <<>>
    <3>1. parts[1] \in Seq(Block) /\ 1 \in 1..P
      BY <1>3 DEF ArchiveTypeOK, P
    <3>2. 1 \in 1..L
      BY <2>2, <2>3, <3>1 DEF L
    <3>. QED BY <1>1, <1>4, <2>1, <2>2, <2>3, <3>2 DEF PackInv, RootFirst
  <2>4. CASE parts[1] = <<>>
    <3>1. L = 0
      BY <2>2, <2>4 DEF L
    <3>2. i = 1
      <4>1. SUFFICES ASSUME i > 1 PROVE FALSE
        BY <1>1
      <4>2. 1 \in 1..Len(src) /\ 1 \in Archived
        BY <1>1, <2>1 DEF Archived, Uploads, Zips
      <4>3. Places(parts, Header(1)) # {}
        BY <4>1, <4>2 DEF PackInv, Counted
      <4>4. PICK x : x \in Positions(parts)
        BY <4>3 DEF Places
      <4>5. \E p \in 1..P : \E q \in 1..Len(parts[p]) : x = <<p, q>>
        BY <4>4, PositionIs DEF P
      <4>. QED BY <2>2, <2>4, <4>5
    <3>. QED BY <1>4, <2>2, <3>1, <3>2
  <2>. QED BY <2>3, <2>4
<1>12. Sized'
  <2>1. SUFFICES ASSUME form \in Splits PROVE Sized'
    BY DEF Sized
  <2>2. /\ size < MaxSize /\ Cardinality(DataOf(parts[P], 1..(i - 1))) = size
        /\ DataOf(parts[P], i..Len(src)) = {}
    BY <2>1 DEF PackInv, Sized, Packing, P
  <2>3. DataOf(parts[P], (i + 1)..Len(src)) = {} /\ DataOf(parts[P], {i}) = {}
        /\ DataOf(parts[P], 1..i) = DataOf(parts[P], 1..(i - 1))
    BY <1>1, <2>2 DEF DataOf
  <2>4. CASE HasData(i)
    <3>1. Cardinality(DataOf(parts[P], {i})) = 0
      BY <2>3, FS_EmptySet
    <3>. QED BY <1>1, <1>3, <1>5, <2>2, <2>3, <2>4, <3>1 DEF Sized, P
  <2>5. CASE ~HasData(i)
    <3>1. i' = i + 1 /\ pc' = "walk" /\ i' - 1 = i
      BY <1>1, <2>5
    <3>. QED BY <1>1, <1>3, <1>5, <2>2, <2>3, <3>1 DEF Sized, P
  <2>. QED BY <2>4, <2>5
<1>13. SplitSizes'
  BY <1>3, SplitsSame DEF PackInv, P
<1>14. ASSUME NEW e \in 1..Len(src) PROVE Counted(e)' /\ (~Raw' => Behind(parts', e))
  <2>1. Counted(e) /\ (~Raw => Behind(parts, e))
    BY DEF PackInv
  <2>2. Places(parts', Data(e)) = Places(parts, Data(e))
    BY <1>5, BlockIs
  <2>3. e # i => Places(parts', Header(e)) = Places(parts, Header(e))
    BY <1>5, BlockIs
  <2>4. Places(parts', Header(i)) = {new}
    BY <1>1, <1>5 DEF PackInv, Counted, Begun, Packed
  <2>5. CASE e # i
    BY <1>1, <1>3, <1>5, <1>6, <1>7, <2>1, <2>2, <2>3, <2>5 DEF Counted, Begun, Count, Packed, P
  <2>6. CASE e = i
    <3>1. Places(parts, Data(i)) = {} /\ Cardinality({}) = 0
      BY <2>1, <2>6, FS_EmptySet DEF Counted
    <3>2. ~(i < i) /\ ~(i + 1 < i) /\ i < i + 1 /\ ~(i > i)
      BY <1>1
    <3>. QED BY <1>1, <1>5, <1>6, <2>1, <2>2, <2>4, <2>6, <3>1, <3>2 DEF Counted, Begun, Count, Packed
  <2>. QED BY <2>5, <2>6
<1>. QED BY <1>8, <1>9, <1>10, <1>11, <1>12, <1>13, <1>14 DEF PackInv


LEMMA CopyStep ==
  ASSUME ArchiveTypeOK, PackInv, Copy
  PROVE  PackInv'
<1> DEFINE P == Len(parts)
           L == Len(parts[P])
           new == <<P, L + 1>>
<1>0. /\ pc = "data" /\ n < src[i].size /\ Write(<<Data(i)>>) /\ n' = n + 1
      /\ UNCHANGED <<form, src, pc, i, size, res, short, sendVars>>
  BY DEF Copy
<1>1. i \in Nat \ {0} /\ Len(src) \in Nat /\ i \in 1..Len(src) /\ n \in Nat /\ parts # <<>>
  <2>1. i <= Len(src) /\ parts # <<>>
    BY <1>0 DEF PackInv, Stages
  <2>2. i \in Nat \ {0} /\ Len(src) \in Nat
    BY SourceIs DEF ArchiveTypeOK
  <2>3. src[i].size \in Nat
    BY <2>1, <2>2, SourceIs
  <2>4. n \in 0..src[i].size
    BY <2>1 DEF ArchiveTypeOK
  <2>. QED BY <2>1, <2>2, <2>3, <2>4
<1>2. Data(i) \in Block
  BY <1>1 DEF Block, Data
<1>3. /\ P \in Nat \ {0} /\ Len(parts') = P /\ parts' # <<>>
      /\ \A p \in 1..P : p # P => parts'[p] = parts[p]
  BY <1>0, <1>1, <1>2, BlockWritten
<1>4. /\ L \in Nat /\ Len(parts'[P]) = L + 1 /\ parts'[P][L + 1] = Data(i)
      /\ \A q \in 1..L : parts'[P][q] = parts[P][q]
  <2>1. parts[P] \in Seq(Block)
    BY <1>0, <1>1, <1>2, BlockWritten
  <2>2. L \in Nat
    BY <2>1
  <2>. QED BY <1>0, <1>1, <1>2, <2>2, BlockWritten
<1>5. ASSUME NEW c PROVE /\ Places(parts', c) = Places(parts, c) \cup (IF c = Data(i) THEN {new} ELSE {})
                         /\ new \notin Places(parts, c)
  BY <1>0, <1>1, <1>2, PlacesWritten
<1>6. ASSUME NEW files
      PROVE  /\ i \notin files => DataOf(parts'[P], files) = DataOf(parts[P], files)
             /\ i \in files => DataOf(parts'[P], files) = DataOf(parts[P], files) \cup {L + 1}
             /\ L + 1 \notin DataOf(parts[P], files)
  <2>1. (\E e \in files : Data(i) = Data(e)) <=> i \in files
    BY BlockIs
  <2>2. /\ DataOf(parts'[P], files) = DataOf(parts[P], files) \cup
             (IF \E e \in files : Data(i) = Data(e) THEN {L + 1} ELSE {})
        /\ L + 1 \notin DataOf(parts[P], files)
    BY <1>0, <1>1, <1>2, PlacesWritten
  <2>. QED BY <2>1, <2>2
<1>7. ~Raw => \E q \in 1..L : parts[P][q] = Header(i)
  BY <1>0 DEF PackInv, Open
<1>8. \A e : /\ e # i /\ Behind(parts, e) => Behind(parts', e)
             /\ ~Raw /\ Behind(parts, i) => Behind(parts', i)
  BY <1>0, <1>1, <1>2, <1>7, PlacesWritten, BlockIs
<1>9. L \in Nat /\ IsFiniteSet(DataOf(parts[P], {i})) /\ Cardinality(DataOf(parts[P], {i})) \in Nat
  BY <1>4, DataFinite
<1> HIDE DEF P, L, new
<1>10. /\ Raw' = Raw /\ IsTar' = IsTar /\ Archived' = Archived /\ \A e : HasData(e)' = HasData(e)
  BY <1>0, SameForm
<1>11. \A p \in 1..(P - 1) : Cut(p)' = Cut(p)
  BY <1>0, <1>3, CutStays
<1>12. Stages'
  BY <1>0, <1>1, <1>3, <1>10 DEF PackInv, Stages, Packing, Packed, P
<1>13. Results'
  BY <1>0 DEF PackInv, Results, sendVars
<1>14. Open'
  <2>1. L + 1 \in 1..Len(parts'[P]) /\ parts'[P] # <<>> /\ \A q \in 1..L : q \in 1..Len(parts'[P])
    BY <1>4
  <2>. QED BY <1>0, <1>3, <1>4, <1>7, <1>10, <2>1 DEF Open
<1>15. RootFirst'
  <2>1. SUFFICES ASSUME form \in Uploads, ~Raw PROVE parts'[1][1] = Header(1)
    BY <1>0, <1>10 DEF RootFirst
  <2>2. P = 1
    BY <1>1, <1>3, <2>1 DEF PackInv, Stages, Uploads, Splits, P
  <2>3. 1 \in 1..L /\ parts[1] # <<>>
    <3>1. PICK q \in 1..L : parts[P][q] = Header(i)
      BY <1>7, <2>1
    <3>2. 1 \in 1..L
      BY <1>4, <3>1
    <3>3. parts[1] # <<>>
      BY <1>0, <2>1, <2>2 DEF PackInv, Open, P
    <3>. QED BY <3>2, <3>3
  <2>. QED BY <1>1, <1>4, <2>1, <2>2, <2>3 DEF PackInv, RootFirst
<1>16. Sized'
  <2>1. SUFFICES ASSUME form \in Splits PROVE Sized'
    BY <1>0 DEF Sized
  <2>2. /\ size < MaxSize /\ Cardinality(DataOf(parts[P], 1..(i - 1))) = size
        /\ DataOf(parts[P], (i + 1)..Len(src)) = {}
        /\ Cardinality(DataOf(parts[P], {i})) = n
    BY <1>0, <2>1 DEF PackInv, Sized, Packing, P
  <2>3. /\ DataOf(parts'[P], 1..(i - 1)) = DataOf(parts[P], 1..(i - 1))
        /\ DataOf(parts'[P], (i + 1)..Len(src)) = DataOf(parts[P], (i + 1)..Len(src))
    BY <1>1, <1>6
  <2>4. Cardinality(DataOf(parts'[P], {i})) = n + 1
    <3>1. DataOf(parts'[P], {i}) = DataOf(parts[P], {i}) \cup {L + 1} /\ L + 1 \notin DataOf(parts[P], {i})
      BY <1>6
    <3>. QED BY <1>9, <2>2, <3>1, FS_AddElement
  <2>. QED BY <1>0, <1>3, <2>2, <2>3, <2>4 DEF Sized, P
<1>17. SplitSizes'
  BY <1>0, <1>3, SplitsSame DEF PackInv, P
<1>18. ASSUME NEW e \in 1..Len(src) PROVE Counted(e)' /\ (~Raw' => Behind(parts', e))
  <2>1. Counted(e) /\ (~Raw => Behind(parts, e))
    BY DEF PackInv
  <2>2. Places(parts', Header(e)) = Places(parts, Header(e))
    BY <1>5, BlockIs
  <2>3. ~Raw' => Behind(parts', e)
    BY <1>8, <1>10, <2>1
  <2>4. CASE e # i
    <3>1. Places(parts', Data(e)) = Places(parts, Data(e))
      BY <1>5, <2>4, BlockIs
    <3>. QED BY <1>0, <1>3, <1>10, <1>11, <2>1, <2>2, <2>3, <2>4, <3>1 DEF Counted, Begun, Count, Packed, P
  <2>5. CASE e = i
    <3>1. Places(parts', Data(i)) = Places(parts, Data(i)) \cup {new} /\ new \notin Places(parts, Data(i))
      BY <1>5
    <3>2. IsFiniteSet(Places(parts, Data(i))) /\ Cardinality(Places(parts, Data(i))) = n
      BY <1>0, <2>1, <2>5 DEF Counted, Count
    <3>3. IsFiniteSet(Places(parts', Data(i))) /\ Cardinality(Places(parts', Data(i))) = n + 1
      BY <3>1, <3>2, FS_AddElement
    <3>4. HasData(i) /\ ~(i < i) /\ ~(i > i)
      BY <1>0, <1>1 DEF PackInv, Stages
    <3>. QED BY <1>0, <1>10, <2>1, <2>2, <2>3, <2>5, <3>3, <3>4 DEF Counted, Begun, Count, Packed
  <2>. QED BY <2>4, <2>5
<1>. QED BY <1>0, <1>12, <1>13, <1>14, <1>15, <1>16, <1>17, <1>18 DEF PackInv

\* The deferred Close of a writer ends the part at hand.
LEMMA TrailerStep ==
  ASSUME ArchiveTypeOK, PackInv, pc = "defers", pc' = "flush", ~short, pipe # "err",
         Write(<<End>>), UNCHANGED <<form, src, i, n, size, res, short, sendVars>>
  PROVE  PackInv'
<1> DEFINE P == Len(parts)
           L == Len(parts[P])
<1>1. i \in Nat \ {0} /\ Len(src) \in Nat /\ 1 \in 1..Len(src) /\ parts # <<>>
  BY SourceIs DEF ArchiveTypeOK, PackInv, Stages
<1>2. End \in Block
  BY DEF Block
<1>3. /\ P \in Nat \ {0} /\ Len(parts') = P /\ parts' # <<>>
      /\ \A p \in 1..P : p # P => parts'[p] = parts[p]
  BY <1>1, <1>2, BlockWritten
<1>4. /\ L \in Nat /\ \A q \in 1..L : parts'[P][q] = parts[P][q]
  <2>1. parts[P] \in Seq(Block)
    BY <1>1, <1>2, BlockWritten
  <2>2. L \in Nat
    BY <2>1
  <2>. QED BY <1>1, <1>2, <2>2, BlockWritten
<1>5. \A e : /\ Places(parts', Data(e)) = Places(parts, Data(e))
             /\ Places(parts', Header(e)) = Places(parts, Header(e))
             /\ Behind(parts, e) => Behind(parts', e)
  <2>1. \A c : c # End => Places(parts', c) = Places(parts, c)
    BY <1>1, <1>2, PlacesWritten
  <2>2. \A e : Behind(parts, e) => Behind(parts', e)
    BY <1>1, <1>2, PlacesWritten, BlockIs
  <2>. QED BY <2>1, <2>2, BlockIs
<1> HIDE DEF P, L
<1>6. /\ Raw' = Raw /\ IsTar' = IsTar /\ Archived' = Archived /\ \A e : HasData(e)' = HasData(e)
  BY SameForm
<1>7. \A p \in 1..(P - 1) : Cut(p)' = Cut(p)
  BY <1>3, CutStays
<1>8. Stages'
  BY <1>1, <1>3, <1>6 DEF PackInv, Stages, Packing, Packed, P
<1>9. Results'
  BY DEF PackInv, Results, sendVars
<1>10. Open' /\ Sized'
  BY DEF Open, Sized, Packing
<1>11. RootFirst'
  <2>1. SUFFICES ASSUME form \in Uploads, ~Raw PROVE parts'[1][1] = Header(1)
    BY <1>6 DEF RootFirst
  <2>2. P = 1
    BY <1>1, <1>3, <2>1 DEF PackInv, Stages, Uploads, Splits, P
  <2>3. 1 < i /\ 1 \in Archived
    <3>1. res = "ok" /\ form # "zipBase"
      BY <2>1 DEF PackInv, Results, ArchiveTypeOK, Uploads
    <3>2. i > Len(src)
      BY <3>1 DEF PackInv, Stages, Packed
    <3>. QED BY <1>1, <2>1, <3>2 DEF Archived, Uploads, Zips
  <2>4. Places(parts, Header(1)) # {}
    BY <1>1, <2>1, <2>3 DEF PackInv, Counted
  <2>5. PICK x : x \in Positions(parts)
    BY <2>4 DEF Places
  <2>6. \E p \in 1..P : \E q \in 1..Len(parts[p]) : x = <<p, q>>
    BY <2>5, PositionIs DEF P
  <2>7. 1 \in 1..L /\ parts[1] # <<>>
    BY <1>4, <2>2, <2>6 DEF L
  <2>. QED BY <1>1, <1>4, <2>1, <2>2, <2>7 DEF PackInv, RootFirst
<1>12. SplitSizes'
  BY <1>3, SplitsSame DEF PackInv, P
<1>13. ASSUME NEW e \in 1..Len(src) PROVE Counted(e)' /\ (~Raw' => Behind(parts', e))
  <2>1. Counted(e) /\ (~Raw => Behind(parts, e))
    BY DEF PackInv
  <2>. QED BY <1>3, <1>5, <1>6, <1>7, <2>1 DEF Counted, Begun, Count, Packed, P
<1>. QED BY <1>8, <1>9, <1>10, <1>11, <1>12, <1>13 DEF PackInv

\* What is known where a file ends.
LEMMA FileEndFacts ==
  ASSUME ArchiveTypeOK, PackInv, FileEnd
  PROVE  LET P == Len(parts) IN
         /\ i \in Nat \ {0} /\ Len(src) \in Nat /\ i \in 1..Len(src) /\ n \in Nat /\ parts # <<>>
         /\ P \in Nat \ {0} /\ parts[P] \in Seq(Block) /\ Len(parts[P]) \in Nat
         /\ HasData(i) /\ ~short /\ (Raw => i = 1)
         /\ n < src[i].size => IsTar /\ Cut(P)
         /\ ~(n < src[i].size) => n = src[i].size
         /\ ~Raw => Places(parts, Header(i)) # {}
         /\ form \in Splits =>
              /\ size < MaxSize /\ Cardinality(DataOf(parts[P], 1..(i - 1))) = size
              /\ Cardinality(DataOf(parts[P], 1..i)) = size + n
              /\ DataOf(parts[P], (i + 1)..Len(src)) = {}
<1> DEFINE P == Len(parts)
<1>0. pc = "data" /\ (n = src[i].size \/ IsTar)
  BY DEF FileEnd
<1>1. /\ i \in Nat \ {0} /\ Len(src) \in Nat /\ i \in 1..Len(src) /\ parts # <<>>
      /\ src[i].size \in Nat /\ n \in 0..src[i].size /\ HasData(i) /\ ~short
  BY <1>0, SourceIs DEF ArchiveTypeOK, PackInv, Stages
<1>2. P \in Nat \ {0} /\ parts[P] \in Seq(Block)
  BY <1>1 DEF ArchiveTypeOK
<1>3. Len(parts[P]) \in Nat
  BY <1>2
<1>4. ASSUME Raw PROVE i = 1
  <2>1. Len(src) = 1
    BY <1>4, SourceIs DEF Raw
  <2>. QED BY <1>1, <2>1
<1>5. ASSUME n < src[i].size PROVE IsTar /\ Cut(P)
  <2>1. IsTar
    BY <1>0, <1>1, <1>5
  <2>2. parts[P][Len(parts[P])] \in {Header(i), Data(i)}
    BY <1>0, <2>1 DEF IsTar, PackInv, Open
  <2>3. ~Ended(parts[P])
    BY <2>2, BlockIs DEF Ended
  <2>. QED BY <2>1, <2>3 DEF Cut
<1>6. ASSUME ~Raw PROVE Places(parts, Header(i)) # {}
  <2>1. PICK q \in 1..Len(parts[P]) : parts[P][q] = Header(i)
    BY <1>0, <1>6 DEF PackInv, Open
  <2>2. <<P, q>> \in Places(parts, Header(i))
    BY <1>2, <2>1, PositionIs DEF Places
  <2>. QED BY <2>2
<1>7. ASSUME form \in Splits
      PROVE  /\ size < MaxSize /\ Cardinality(DataOf(parts[P], 1..(i - 1))) = size
             /\ Cardinality(DataOf(parts[P], 1..i)) = size + n
             /\ DataOf(parts[P], (i + 1)..Len(src)) = {}
  <2>1. /\ size < MaxSize /\ Cardinality(DataOf(parts[P], 1..(i - 1))) = size
        /\ DataOf(parts[P], (i + 1)..Len(src)) = {}
        /\ Cardinality(DataOf(parts[P], {i})) = n
    BY <1>0, <1>7 DEF PackInv, Sized, Packing
  <2>2. 1..i = (1..(i - 1)) \cup {i} /\ i \notin 1..(i - 1)
    BY <1>1
  <2>3. Cardinality(DataOf(parts[P], (1..(i - 1)) \cup {i})) =
          Cardinality(DataOf(parts[P], 1..(i - 1))) + Cardinality(DataOf(parts[P], {i}))
    BY <1>3, <2>2, DataAdds
  <2>4. Cardinality(DataOf(parts[P], 1..i)) = size + n
    BY <2>1, <2>2, <2>3
  <2>. QED BY <2>1, <2>4
<1>. QED BY <1>1, <1>2, <1>3, <1>4, <1>5, <1>6, <1>7

\* A file ends, and the part goes on.
LEMMA FileEndStep ==
  ASSUME ArchiveTypeOK, PackInv, FileEnd, ~(form \in Splits /\ size + n >= MaxSize)
  PROVE  PackInv'
<1> DEFINE P == Len(parts)
<1>0. /\ pc = "data" /\ i' = i + 1 /\ n' = 0 /\ pc' = "walk"
      /\ size' = size + n /\ short' = (n < src[i].size)
      /\ UNCHANGED <<form, src, parts, res, sendVars>>
  BY DEF FileEnd
<1>1. /\ i \in Nat \ {0} /\ Len(src) \in Nat /\ i \in 1..Len(src) /\ n \in Nat /\ parts # <<>>
      /\ P \in Nat \ {0} /\ HasData(i) /\ ~short /\ (Raw => i = 1)
      /\ n < src[i].size => IsTar /\ Cut(P)
      /\ ~(n < src[i].size) => n = src[i].size
      /\ ~Raw => Places(parts, Header(i)) # {}
  BY FileEndFacts
<1>2. form \in Splits =>
        /\ size < MaxSize /\ Cardinality(DataOf(parts[P], 1..i)) = size + n
        /\ DataOf(parts[P], (i + 1)..Len(src)) = {}
  BY FileEndFacts
<1> HIDE DEF P
<1>3. Raw' = Raw /\ IsTar' = IsTar /\ Archived' = Archived /\ \A e : HasData(e)' = HasData(e)
  BY <1>0, SameForm
<1>4. \A p : Cut(p)' = Cut(p)
  BY <1>0, CutStays
<1>5. Stages'
  <2>1. short' => IsTar' /\ Cut(Len(parts))'
    BY <1>0, <1>1, <1>3 DEF Cut, P
  <2>2. Raw' => i' = 2
    BY <1>0, <1>1, <1>3
  <2>. QED BY <1>0, <1>1, <1>3, <2>1, <2>2 DEF PackInv, Stages, Packing, Packed
<1>6. Results'
  BY <1>0 DEF PackInv, Results, sendVars
<1>7. Open' /\ RootFirst'
  BY <1>0, <1>3 DEF PackInv, Open, RootFirst
<1>8. Sized'
  <2>1. SUFFICES ASSUME form \in Splits PROVE Sized'
    BY <1>0 DEF Sized
  <2>2. size + n < MaxSize
    BY <1>1, <2>1, SizeAssumption DEF ArchiveTypeOK
  <2>3. i' - 1 = i
    BY <1>0, <1>1
  <2>. QED BY <1>0, <1>2, <2>1, <2>2, <2>3 DEF Sized, P
<1>9. SplitSizes'
  BY <1>0, <1>1, SplitsSame DEF PackInv, P
<1>10. ASSUME NEW e \in 1..Len(src) PROVE Counted(e)' /\ (~Raw' => Behind(parts', e))
  <2>1. Counted(e) /\ (~Raw => Behind(parts, e))
    BY DEF PackInv
  <2>2. CASE e # i
    <3>1. (e < i + 1 <=> e < i) /\ (e = i + 1 => e > i) /\ (e > i + 1 => e > i)
      BY <1>1, <2>2
    <3>. QED BY <1>0, <1>1, <1>3, <1>4, <2>1, <2>2, <3>1 DEF Counted, Begun, Count, Packed
  <2>3. CASE e = i
    <3>1. i < i + 1 /\ i # i + 1 /\ ~(i > i + 1)
      BY <1>1
    <3>2. Count(Data(i)) = n
      BY <1>0, <2>1, <2>3 DEF Counted
    <3>. QED BY <1>0, <1>1, <1>3, <1>4, <2>1, <2>3, <3>1, <3>2 DEF Counted, Begun, Count, Packed
  <2>. QED BY <2>2, <2>3
<1>. QED BY <1>0, <1>5, <1>6, <1>7, <1>8, <1>9, <1>10 DEF PackInv

\* A file ends and fills the part: the next is begun.
LEMMA NextPartStep ==
  ASSUME ArchiveTypeOK, PackInv, FileEnd, form \in Splits, size + n >= MaxSize
  PROVE  PackInv'
<1> DEFINE P == Len(parts)
<1>0. /\ pc = "data" /\ i' = i + 1 /\ n' = 0 /\ pc' = "walk"
      /\ NextPart /\ size' = 0 /\ short' = FALSE
      /\ UNCHANGED <<form, src, res, sendVars>>
  BY DEF FileEnd
<1>1. /\ i \in Nat \ {0} /\ Len(src) \in Nat /\ i \in 1..Len(src) /\ n \in Nat /\ parts # <<>>
      /\ P \in Nat \ {0} /\ HasData(i) /\ ~short
      /\ n < src[i].size => IsTar /\ Cut(P)
      /\ ~(n < src[i].size) => n = src[i].size
      /\ ~Raw => Places(parts, Header(i)) # {}
  BY FileEndFacts
<1>2. /\ size < MaxSize /\ Cardinality(DataOf(parts[P], 1..(i - 1))) = size
      /\ Cardinality(DataOf(parts[P], 1..i)) = size + n
      /\ DataOf(parts[P], (i + 1)..Len(src)) = {}
  BY FileEndFacts
<1>3. /\ Len(parts') = P + 1 /\ \A p \in 1..P : p # P => parts'[p] = parts[p]
      /\ parts'[P + 1] = <<>>
      /\ n < src[i].size => parts'[P] = parts[P]
      /\ ~(n < src[i].size) => Len(parts'[P]) = Len(parts[P]) + 1 /\ parts'[P][Len(parts[P]) + 1] = End
      /\ \A q \in 1..Len(parts[P]) : parts'[P][q] = parts[P][q]
      /\ \A b : b # End => Places(parts', b) = Places(parts, b)
  BY <1>0, <1>1, PartClosed
<1>4. Len(parts[P]) \in Nat
  BY FileEndFacts
<1> HIDE DEF P
<1>5. ~Raw /\ Raw' = Raw /\ IsTar' = IsTar /\ Archived' = Archived /\ \A e : HasData(e)' = HasData(e)
  BY <1>0, SameForm DEF Raw, Splits, Uploads
<1>6. ASSUME NEW p \in 1..P, p # P \/ n < src[i].size PROVE Cut(p)' = Cut(p)
  BY <1>0, <1>3, <1>6, CutStays
<1>7. Stages'
  <2>1. parts' # <<>>
    BY <1>1, <1>3
  <2>. QED BY <1>0, <1>1, <1>5, <2>1 DEF PackInv, Stages, Packing, Packed
<1>8. Results'
  BY <1>0 DEF PackInv, Results, sendVars
<1>9. Open' /\ RootFirst'
  BY <1>0 DEF Open, RootFirst, Uploads, Splits
<1>10. Sized'
  <2>1. \A files : DataOf(parts'[P + 1], files) = {}
    BY <1>3 DEF DataOf
  <2>2. Cardinality({}) = 0 /\ 0 < MaxSize
    BY FS_EmptySet, SizeAssumption
  <2>. QED BY <1>0, <1>3, <2>1, <2>2 DEF Sized
<1>11. ASSUME NEW files PROVE DataOf(parts'[P], files) = DataOf(parts[P], files)
  <2>1. CASE n < src[i].size
    BY <1>3, <2>1
  <2>2. CASE ~(n < src[i].size)
    <3>1. \A q : q \in 1..Len(parts'[P]) <=> q \in 1..Len(parts[P]) \/ q = Len(parts[P]) + 1
      BY <1>3, <1>4, <2>2
    <3>2. ~ \E e \in files : parts'[P][Len(parts[P]) + 1] = Data(e)
      BY <1>3, <2>2, BlockIs
    <3>. QED BY <1>3, <3>1, <3>2 DEF DataOf
  <2>. QED BY <2>1, <2>2
<1>12. SplitSizes'
  <2>1. SUFFICES ASSUME NEW p \in 1..P
                 PROVE  /\ Cardinality(DataOf(parts'[p], 1..Len(src))) >= MaxSize
                        /\ \E last \in 1..Len(src) :
                             /\ DataOf(parts'[p], (last + 1)..Len(src)) = {}
                             /\ Cardinality(DataOf(parts'[p], 1..(last - 1))) < MaxSize
    <3>1. Len(parts') - 1 = P
      BY <1>1, <1>3
    <3>. QED BY <1>0, <3>1 DEF SplitSizes
  <2>2. CASE p # P
    <3>1. p \in 1..(P - 1) /\ parts'[p] = parts[p]
      BY <1>1, <1>3, <2>2
    <3>. QED BY <3>1 DEF PackInv, SplitSizes, P
  <2>3. CASE p = P
    <3>1. DataOf(parts[P], 1..Len(src)) = DataOf(parts[P], 1..i)
      BY <1>1, <1>2 DEF DataOf
    <3>. QED BY <1>1, <1>2, <1>11, <2>3, <3>1
  <2>. QED BY <2>2, <2>3
<1>13. ASSUME NEW e \in 1..Len(src) PROVE Counted(e)'
  <2>1. Counted(e)
    BY DEF PackInv
  <2>2. /\ Places(parts', Header(e)) = Places(parts, Header(e))
        /\ Places(parts', Data(e)) = Places(parts, Data(e))
    BY <1>3, BlockIs
  <2>3. /\ \A p \in 1..(P - 1) : p \in 1..(Len(parts') - 1)
        /\ P \in 1..(Len(parts') - 1)
    BY <1>1, <1>3
  <2>4. (\E p \in 1..(Len(parts) - 1) : Cut(p)) => \E p \in 1..(Len(parts') - 1) : Cut(p)'
    <3>1. \A p \in 1..(P - 1) : p \in 1..P /\ p # P
      BY <1>1
    <3>. QED BY <1>6, <2>3, <3>1 DEF P
  <2>5. CASE e # i
    <3>1. (e < i + 1 <=> e < i) /\ (e = i + 1 => e > i) /\ (e > i + 1 => e > i)
      BY <1>1, <2>5
    <3>. QED BY <1>0, <1>1, <1>5, <2>1, <2>2, <2>4, <2>5, <3>1 DEF Counted, Begun, Count, Packed
  <2>6. CASE e = i
    <3>1. i < i + 1 /\ i # i + 1 /\ ~(i > i + 1)
      BY <1>1
    <3>2. Count(Data(i)) = n
      BY <1>0, <2>1, <2>6 DEF Counted
    <3>3. n < src[i].size => \E p \in 1..(Len(parts') - 1) : Cut(p)'
      <4>1. SUFFICES ASSUME n < src[i].size, NEW p \in 1..P, p = P PROVE Cut(p)'
        BY <1>1, <2>3
      <4>. QED BY <1>1, <1>6, <4>1
    <3>. QED BY <1>0, <1>1, <1>5, <2>1, <2>2, <2>6, <3>1, <3>2, <3>3 DEF Counted, Begun, Count, Packed
  <2>. QED BY <2>5, <2>6
<1>14. ASSUME NEW e \in 1..Len(src) PROVE Behind(parts', e)
  <2>1. Behind(parts, e)
    BY <1>5 DEF PackInv
  <2>2. SUFFICES ASSUME NEW x \in Places(parts, Data(e))
                 PROVE  \E q \in 1..(x[2] - 1) : parts'[x[1]][q] = Header(e)
    BY <1>3, BlockIs DEF Behind
  <2>3. PICK q \in 1..(x[2] - 1) : parts[x[1]][q] = Header(e)
    BY <2>1 DEF Behind
  <2>4. PICK p \in 1..P : \E r \in 1..Len(parts[p]) : x = <<p, r>>
    BY PositionIs DEF Places, P
  <2>5. PICK r \in 1..Len(parts[p]) : x = <<p, r>>
    BY <2>4
  <2>6. p = P => q \in 1..Len(parts[P])
    BY <1>4, <2>3, <2>5
  <2>. QED BY <1>3, <2>3, <2>5, <2>6
<1>. QED BY <1>0, <1>5, <1>7, <1>8, <1>9, <1>10, <1>12, <1>13, <1>14 DEF PackInv

\* Steps while nothing was written.
LEMMA EmptyStep ==
  ASSUME src' \in Sources, parts' \in {<<>>, << <<>> >>}, i' = 1, n' = 0, size' = 0,
         pc' = "data" => Raw', Stages', Results'
  PROVE  PackInv'
<1>1. /\ Len(parts') \in 0..1 /\ \A p \in 1..Len(parts') : parts'[p] = <<>> /\ Len(parts'[p]) = 0
      /\ Len(parts') - 1 \in {-1, 0}
  OBVIOUS
<1>2. ASSUME NEW c PROVE Places(parts', c) = {}
  BY <1>1 DEF Places, Positions
<1>3. /\ \A files : DataOf(<<>>, files) = {}
      /\ Cardinality({}) = 0 /\ IsFiniteSet({}) /\ 0 < MaxSize
  BY FS_EmptySet, SizeAssumption DEF DataOf
<1>4. Open' /\ RootFirst' /\ SplitSizes'
  BY <1>1 DEF Open, RootFirst, SplitSizes
<1>5. Sized'
  <2>1. SUFFICES ASSUME form' \in Splits, Packing' PROVE Sized'
    BY DEF Sized
  <2>2. pc' = "walk" /\ parts'[Len(parts')] = <<>>
    BY <2>1, <1>1 DEF Raw, Splits, Uploads, Packing, Stages
  <2>. QED BY <1>3, <2>2 DEF Sized
<1>6. ASSUME NEW e \in 1..Len(src') PROVE Counted(e)' /\ (~Raw' => Behind(parts', e))
  <2>1. e >= 1 /\ ~(e < 1)
    BY SourcesAre
  <2>. QED BY <1>2, <1>3, <2>1 DEF Counted, Behind, Begun, Count
<1>. QED BY <1>4, <1>5, <1>6 DEF PackInv

LEMMA CallStep ==
  ASSUME ArchiveTypeOK, PackInv, Call
  PROVE  PackInv'
<1>1. /\ pc = "idle" /\ pc' = "start" /\ form' \in Forms /\ src' \in Sources
      /\ UNCHANGED <<i, n, parts, size, res, short, sendVars>>
  BY DEF Call
<1>2. parts = <<>> /\ i = 1 /\ n = 0 /\ size = 0 /\ res = "ok" /\ ~short /\ ret = "none" /\ pipe = "open"
  BY <1>1 DEF ArchiveTypeOK, PackInv, Stages, Results
<1>3. Stages'
  BY <1>1, <1>2 DEF Stages, Packing, Packed
<1>4. Results'
  BY <1>1, <1>2 DEF Results, sendVars
<1>. QED BY <1>1, <1>2, <1>3, <1>4, EmptyStep

LEMMA StartStep ==
  ASSUME ArchiveTypeOK, PackInv, Start \/ (Fail /\ pc = "start")
  PROVE  PackInv'
<1>1. /\ pc = "start" /\ UNCHANGED <<form, src, i, n, size>>
      /\ parts = <<>> /\ i = 1 /\ n = 0 /\ size = 0 /\ res = "ok" /\ ~short /\ ret = "none" /\ pipe = "open"
  BY DEF Start, Fail, ArchiveTypeOK, PackInv, Stages, Results
<1>2. Raw' = Raw /\ HasData(1)' = HasData(1) /\ (Raw => HasData(1))
  BY <1>1, SameForm DEF Raw, HasData
<1>3. 1 <= Len(src)
  BY SourceIs
<1>4. /\ parts' = << <<>> >> /\ ~short' /\ ret' = "none"
      /\ \/ pc' = "data" /\ Raw /\ res' = res /\ pipe' = pipe
         \/ pc' = "walk" /\ ~Raw /\ res' = res /\ pipe' = pipe
         \/ pc' = "defers" /\ res' = "err" /\ pipe' = IF form \in Uploads THEN "err" ELSE pipe
  <2>1. CASE Start
    BY <1>1, <2>1 DEF Start, sendVars
  <2>2. CASE Fail
    <3>1. parts' = << <<>> >> /\ ret' = ret /\ pc' = "defers" /\ res' = "err"
          /\ pipe' = IF form \in Uploads THEN "err" ELSE pipe
      BY <1>1, <2>2 DEF Fail
    <3>2. ~short'
      BY <1>1, <2>2 DEF Fail
    <3>. QED BY <1>1, <3>1, <3>2
  <2>. QED BY <2>1, <2>2
<1>5. parts' # <<>> /\ Len(parts') = 1
  BY <1>4
<1>6. Stages'
  BY <1>1, <1>2, <1>3, <1>4, <1>5 DEF Stages, Packing, Packed
<1>7. Results'
  BY <1>1, <1>4 DEF Results
<1>. QED BY <1>1, <1>2, <1>4, <1>6, <1>7, EmptyStep DEF ArchiveTypeOK

\* A directory leaves no trace in a zip archive.
LEMMA SkipStep ==
  ASSUME ArchiveTypeOK, PackInv, pc = "walk", pc' = "walk", i <= Len(src), form \in Zips,
         ~HasData(i), i' = i + 1, UNCHANGED <<form, src, n, parts, size, res, short, sendVars>>
  PROVE  PackInv'
<1>1. i \in Nat \ {0} /\ Len(src) \in Nat /\ i \in 1..Len(src) /\ i' - 1 = i /\ parts # <<>>
  BY SourceIs DEF ArchiveTypeOK, PackInv, Stages
<1>2. ~Raw /\ i \notin Archived
  BY <1>1, SourceIs DEF Raw, Archived, HasData, Uploads, Zips, Types
<1>3. Raw' = Raw /\ IsTar' = IsTar /\ Archived' = Archived /\ \A e : HasData(e)' = HasData(e)
  BY SameForm
<1>4. \A p : Cut(p)' = Cut(p)
  BY CutStays
<1>5. Stages'
  <2>1. short' => IsTar' /\ Cut(Len(parts))'
    BY <1>3 DEF Cut, PackInv, Stages
  <2>. QED BY <1>1, <1>2, <1>3, <2>1 DEF PackInv, Stages, Packing, Packed
<1>6. Results'
  BY DEF PackInv, Results, sendVars
<1>7. Open' /\ RootFirst' /\ SplitSizes'
  BY <1>3 DEF PackInv, Open, RootFirst, SplitSizes
<1>8. Sized'
  <2>1. SUFFICES ASSUME form \in Splits PROVE Sized'
    BY DEF Sized
  <2>2. /\ size < MaxSize /\ Cardinality(DataOf(parts[Len(parts)], 1..(i - 1))) = size
        /\ DataOf(parts[Len(parts)], i..Len(src)) = {}
    BY <2>1 DEF PackInv, Sized, Packing
  <2>3. /\ DataOf(parts[Len(parts)], (i + 1)..Len(src)) = {}
        /\ DataOf(parts[Len(parts)], 1..i) = DataOf(parts[Len(parts)], 1..(i - 1))
    BY <1>1, <2>2 DEF DataOf
  <2>. QED BY <1>1, <2>2, <2>3 DEF Sized
<1>9. ASSUME NEW e \in 1..Len(src) PROVE Counted(e)' /\ (~Raw' => Behind(parts', e))
  <2>1. Counted(e) /\ (~Raw => Behind(parts, e))
    BY DEF PackInv
  <2>2. CASE e # i
    <3>1. (e < i + 1 <=> e < i) /\ (e = i + 1 => e > i) /\ (e > i + 1 => e > i)
      BY <1>1, <2>2
    <3>. QED BY <1>1, <1>3, <1>4, <2>1, <2>2, <3>1 DEF Counted, Begun, Count, Packed
  <2>3. CASE e = i
    BY <1>1, <1>2, <1>3, <1>4, <2>1, <2>3 DEF Counted, Begun, Count, Packed
  <2>. QED BY <2>2, <2>3
<1>. QED BY <1>3, <1>5, <1>6, <1>7, <1>8, <1>9 DEF PackInv

LEMMA FailStep ==
  ASSUME ArchiveTypeOK, PackInv, Fail, pc # "start"
  PROVE  PackInv'
<1>1. /\ pc \in {"walk", "data"} /\ pc' = "defers" /\ ret' = ret
      /\ short' = (short \/ (IsTar /\ pc = "data" /\ n < src[i].size))
      /\ res' = (IF form = "zipBase" THEN "ok" ELSE "err")
      /\ pipe' = (IF form \in Uploads THEN "err" ELSE pipe)
      /\ UNCHANGED <<form, src, i, n, size>>
  BY DEF Fail
<1>2. parts' = parts
  BY <1>1 DEF Fail, PackInv, Stages
<1>3. short' => IsTar /\ Cut(Len(parts))
  <2>1. CASE short
    BY <2>1 DEF PackInv, Stages
  <2>2. CASE IsTar /\ pc = "data"
    <3>1. parts[Len(parts)][Len(parts[Len(parts)])] \in {Header(i), Data(i)}
      BY <2>2 DEF PackInv, Open, IsTar
    <3>2. ~Ended(parts[Len(parts)])
      BY <3>1, BlockIs DEF Ended
    <3>. QED BY <2>2, <3>2 DEF Cut
  <2>. QED BY <1>1, <2>1, <2>2
<1>4. Results'
  BY <1>1 DEF PackInv, Results, Stages, Packing, Uploads
<1>. QED BY <1>1, <1>2, <1>3, <1>4, QuietStep DEF Packed, PackInv, Stages

\* Steps that do not pack.
LEMMA PackStays ==
  ASSUME ArchiveTypeOK, PackInv, UNCHANGED <<form, src, packVars>>, Results'
  PROVE  PackInv'
<1>1. UNCHANGED <<pc, i, n, parts, size, res, short>>
  BY DEF packVars
<1>2. (short => IsTar /\ Cut(Len(parts))) /\ (Packed /\ res = "ok" /\ form # "zipBase" => i > Len(src))
  BY DEF PackInv, Stages
<1>3. Packed' = Packed
  BY <1>1 DEF Packed
<1>. QED BY <1>1, <1>2, <1>3, QuietStep

LEMMA PackStep ==
  ASSUME ArchiveTypeOK, PackInv, ArchiveNext
  PROVE  PackInv'
<1>0. Stages /\ Results
  BY DEF PackInv
<1>1. CASE Call
  BY <1>1, CallStep
<1>2. CASE Start
  BY <1>2, StartStep
<1>3. CASE Fail
  BY <1>3, StartStep, FailStep
<1>4. CASE TarEntry
  <2>1. /\ pc = "walk" /\ i <= Len(src) /\ form \notin Zips /\ ~short /\ Write(<<Header(i)>>)
        /\ IF HasData(i) THEN pc' = "data" /\ i' = i ELSE i' = i + 1 /\ pc' = "walk"
        /\ UNCHANGED <<form, src, n, size, res, short, sendVars>>
    BY <1>4 DEF TarEntry
  <2>2. i \in 1..Len(src) /\ (Raw => i = 2 /\ Len(src) = 1)
    BY <1>0, <2>1, SourceIs DEF Stages, Raw, ArchiveTypeOK
  <2>3. ~Raw
    BY <2>2
  <2>4. i \in Archived
    BY <2>1, <2>2 DEF Archived
  <2>. QED BY <2>1, <2>3, <2>4, HeaderStep
<1>5. CASE ZipEntry
  <2>1. /\ pc = "walk" /\ i <= Len(src) /\ form \in Zips
        /\ IF HasData(i) THEN Write(<<Header(i)>>) /\ pc' = "data" /\ i' = i
                         ELSE i' = i + 1 /\ pc' = pc /\ parts' = parts
        /\ UNCHANGED <<form, src, n, size, res, short, sendVars>>
    BY <1>5 DEF ZipEntry
  <2>2. ~Raw /\ ~short /\ i \in 1..Len(src)
    BY <1>0, <2>1, SourceIs DEF Stages, Raw, IsTar, ArchiveTypeOK, Uploads, Zips
  <2>3. CASE HasData(i)
    <3>1. i \in Archived
      BY <2>1, <2>2, <2>3 DEF Archived, HasData
    <3>. QED BY <2>1, <2>2, <2>3, <3>1, HeaderStep
  <2>4. CASE ~HasData(i)
    BY <2>1, <2>4, SkipStep
  <2>. QED BY <2>3, <2>4
<1>6. CASE Copy
  BY <1>6, CopyStep
<1>7. CASE FileEnd
  BY <1>7, FileEndStep, NextPartStep
<1>8. CASE WalkEnds
  <2>1. /\ pc = "walk" /\ pc' = "defers" /\ i > Len(src)
        /\ UNCHANGED <<form, src, i, n, parts, size, res, short, sendVars>>
    BY <1>8 DEF WalkEnds
  <2>2. Results'
    BY <1>0, <2>1 DEF Results, sendVars
  <2>. QED BY <1>0, <2>1, <2>2, QuietStep DEF Stages, Packed
<1>9. CASE Trailer
  <2>1. /\ pc = "defers" /\ pc' = "flush"
        /\ IF short \/ pipe = "err" THEN parts' = parts ELSE Write(<<End>>)
        /\ UNCHANGED <<form, src, i, n, size, res, short, sendVars>>
    BY <1>9 DEF Trailer
  <2>2. CASE short \/ pipe = "err"
    <3>1. Results'
      BY <1>0, <2>1 DEF Results, sendVars
    <3>. QED BY <1>0, <2>1, <2>2, <3>1, QuietStep DEF Stages, Packed
  <2>3. CASE ~(short \/ pipe = "err")
    BY <2>1, <2>3, TrailerStep
  <2>. QED BY <2>2, <2>3
<1>10. CASE Flush
  <2>1. /\ pc = "flush" /\ pc' = "done"
        /\ UNCHANGED <<form, src, i, n, parts, size, res, short>>
    BY <1>10 DEF Flush
  <2>2. Results'
    BY <1>0, <1>10 DEF Flush, Results, ArchiveTypeOK
  <2>. QED BY <1>0, <2>1, <2>2, QuietStep DEF Stages, Packed
<1>11. CASE Put
  <2>1. UNCHANGED <<form, src, packVars>>
    BY <1>11 DEF Put, Read, PutReturns, PutFails
  <2>2. Results'
    BY <1>0, <1>11 DEF Put, Read, PutReturns, PutFails, Uploading, Results, packVars
  <2>. QED BY <2>1, <2>2, PackStays
<1>12. CASE Begin \/ Unpack \/ PartEnds \/ Finish \/ UnpackFails
  <2>1. UNCHANGED <<form, src, packVars, sendVars>>
    BY <1>12 DEF Begin, Unpack, PartEnds, Finish, UnpackFails
  <2>2. Results'
    BY <1>0, <2>1 DEF Results, packVars, sendVars
  <2>. QED BY <2>1, <2>2, PackStays
<1>. QED BY <1>1, <1>2, <1>3, <1>4, <1>5, <1>6, <1>7, <1>8, <1>9, <1>10, <1>11, <1>12
         DEF ArchiveNext, Pack

-----------------------------------------------------------------------------
(* Archives: what the closed parts hold. *)

\* Only the part at hand is written to.
LEMMA KeptStays ==
  ASSUME ArchiveTypeOK, Kept, kept' = kept, Len(parts') = Len(parts), Len(parts) \in Nat,
         pc \notin {"idle", "start", "done"} => pc' \notin {"idle", "start", "done"},
         pc \in {"idle", "start", "done"} => pc' = pc,
         \A p \in 1..Len(parts) : p # Len(parts) \/ pc = "done" => parts'[p] = parts[p]
  PROVE  Kept'
<1>1. Len(kept') = IF pc' \in {"idle", "start"} THEN 0
                   ELSE IF pc' = "done" THEN Len(parts') ELSE Len(parts') - 1
  BY DEF Kept
<1>2. ASSUME NEW p \in 1..Len(kept') PROVE kept'[p] <= Len(parts'[p])
  <2>1. p \in 1..Len(parts) /\ (p # Len(parts) \/ pc = "done") /\ kept[p] <= Len(parts[p])
    BY <1>2 DEF Kept
  <2>. QED BY <2>1
<1>. QED BY <1>1, <1>2 DEF Kept

\* A part is closed: it holds no more than was written.
LEMMA KeptAdds ==
  ASSUME kept \in Seq(Nat), NEW P \in Nat, Len(kept) = P, NEW k \in Nat,
         kept' = Append(kept, k), k <= Len(parts'[P + 1]),
         \A p \in 1..P : kept[p] <= Len(parts[p]) /\ parts'[p] = parts[p],
         P + 1 = IF pc' = "done" THEN Len(parts') ELSE Len(parts') - 1,
         pc' \notin {"idle", "start"}
  PROVE  Kept'
<1>1. Len(kept') = P + 1 /\ kept'[P + 1] = k /\ \A p \in 1..P : kept'[p] = kept[p]
  BY ONLY kept \in Seq(Nat), P \in Nat, Len(kept) = P, k \in Nat, kept' = Append(kept, k)
<1>2. ASSUME NEW p \in 1..(P + 1) PROVE kept'[p] <= Len(parts'[p])
  <2>1. CASE p = P + 1
    BY <1>1, <2>1
  <2>2. CASE p # P + 1
    <3>1. p \in 1..P
      BY <2>2
    <3>. QED BY <1>1, <3>1
  <2>. QED BY <2>1, <2>2
<1>. QED BY <1>1, <1>2 DEF Kept

LEMMA KeptStep ==
  ASSUME ArchiveTypeOK, PackInv, Kept, ArchiveNext
  PROVE  Kept'
<1>0. Stages /\ Results /\ Len(parts) \in Nat /\ kept \in Seq(Nat) /\ Len(kept) \in Nat
      /\ parts \in Seq(Seq(Block))
  BY DEF PackInv, ArchiveTypeOK
<1>1. CASE Call
  <2>1. pc = "idle" /\ pc' = "start" /\ UNCHANGED <<parts, kept>>
    BY <1>1 DEF Call
  <2>. QED BY <1>0, <2>1 DEF Kept, Stages
<1>2. CASE Start \/ (Fail /\ pc = "start")
  <2>1. pc = "start" /\ pc' \in {"data", "walk", "defers"} /\ parts' = << <<>> >> /\ kept' = kept
    BY <1>0, <1>2 DEF Start, Fail, Stages
  <2>2. Len(parts') = 1 /\ Len(kept) = 0
    BY <2>1 DEF Kept
  <2>. QED BY <2>1, <2>2 DEF Kept
<1>3. CASE (Fail /\ pc # "start") \/ WalkEnds
  <2>1. /\ pc \notin {"idle", "start", "done"} /\ pc' \notin {"idle", "start", "done"}
        /\ UNCHANGED <<parts, kept>>
    BY <1>0, <1>3 DEF Fail, WalkEnds, Stages
  <2>. QED BY <1>0, <2>1, KeptStays
<1>4. ASSUME pc \notin {"idle", "start", "done"}, pc' \notin {"idle", "start", "done"}, kept' = kept,
             parts' = parts \/ \E b \in Block : Write(<<b>>)
      PROVE  Kept'
  <2>1. CASE parts' = parts
    BY <1>0, <1>4, <2>1, KeptStays
  <2>2. CASE \E b \in Block : Write(<<b>>)
    <3>1. PICK b \in Block : Write(<<b>>)
      BY <2>2
    <3>2. parts # <<>>
      BY <1>0, <1>4 DEF Stages
    <3>3. Len(parts') = Len(parts) /\ \A p \in 1..Len(parts) : p # Len(parts) => parts'[p] = parts[p]
      BY <3>1, <3>2, BlockWritten
    <3>. QED BY <1>0, <1>4, <3>3, KeptStays
  <2>. QED BY <1>4, <2>1, <2>2
<1>5. CASE TarEntry \/ ZipEntry \/ Copy \/ Trailer
  <2>1. /\ pc \notin {"idle", "start", "done"} /\ pc' \notin {"idle", "start", "done"} /\ kept' = kept
        /\ \/ parts' = parts
           \/ i <= Len(src) /\ (Write(<<Header(i)>>) \/ Write(<<Data(i)>>))
           \/ Write(<<End>>)
    <3>1. CASE TarEntry
      BY <3>1 DEF TarEntry
    <3>2. CASE ZipEntry
      BY <3>2 DEF ZipEntry
    <3>3. CASE Copy
      BY <1>0, <3>3 DEF Copy, Stages
    <3>4. CASE Trailer
      BY <3>4 DEF Trailer
    <3>. QED BY <1>5, <3>1, <3>2, <3>3, <3>4
  <2>2. End \in Block /\ (i <= Len(src) => Header(i) \in Block /\ Data(i) \in Block)
    <3>1. Len(src) \in Nat /\ i \in Nat \ {0}
      BY SourceIs DEF ArchiveTypeOK
    <3>. QED BY <3>1 DEF Block, Header, Data
  <2>. QED BY <1>4, <2>1, <2>2
<1>6. CASE FileEnd
  <2>1. pc = "data" /\ pc' = "walk"
    BY <1>6 DEF FileEnd
  <2>2. CASE ~(form \in Splits /\ size + n >= MaxSize)
    <3>1. UNCHANGED <<parts, kept>>
      BY <1>6, <2>2 DEF FileEnd
    <3>. QED BY <1>4, <2>1, <3>1
  <2>3. CASE form \in Splits /\ size + n >= MaxSize
    <3>1. NextPart /\ parts # <<>>
      BY <1>0, <1>6, <2>1, <2>3 DEF FileEnd, Stages
    <3> DEFINE Q == Len(parts) - 1
    <3>2. Len(parts) \in Nat \ {0} /\ Len(parts') = Len(parts) + 1 /\ parts' \in Seq(Seq(Block))
          /\ \A p \in 1..Len(parts) : p # Len(parts) => parts'[p] = parts[p]
      BY <3>1, PartClosed
    <3>3. PICK k \in 0..Len(parts'[Len(parts)]) : kept' = Append(kept, k)
      BY <3>1, PartClosed
    <3>4. Q \in Nat /\ Q + 1 = Len(parts) /\ Len(kept) = Q
      BY <2>1, <3>2 DEF Kept
    <3>5. k \in Nat /\ k <= Len(parts'[Q + 1])
      <4>1. parts'[Len(parts)] \in Seq(Block)
        BY <3>1, PartClosed
      <4>2. Len(parts'[Len(parts)]) \in Nat
        BY <4>1
      <4>. QED BY <3>3, <3>4, <4>2
    <3>6. ASSUME NEW p \in 1..Q PROVE kept[p] <= Len(parts[p]) /\ parts'[p] = parts[p]
      <4>0. Q \in Nat /\ Q + 1 = Len(parts) /\ p \in Nat /\ p >= 1 /\ p <= Q
        BY <3>4
      <4>1. p \in 1..Len(parts) /\ p # Len(parts)
        <5> HIDE DEF Q
        <5>. QED BY <4>0
      <4>2. p \in 1..Len(kept)
        BY <3>4
      <4>. QED BY <3>2, <4>1, <4>2 DEF Kept
    <3>7. Q + 1 = IF pc' = "done" THEN Len(parts') ELSE Len(parts') - 1
      BY <2>1, <3>2
    <3> HIDE DEF Q
    <3>. QED BY <1>0, <2>1, <3>3, <3>4, <3>5, <3>6, <3>7, KeptAdds
  <2>. QED BY <2>2, <2>3
<1>7. CASE Flush
  <2>1. pc = "flush" /\ pc' = "done" /\ parts' = parts /\ parts # <<>>
    BY <1>0, <1>7 DEF Flush, Stages
  <2>2. Len(parts) \in Nat \ {0}
    BY <1>0, <2>1
  <2> DEFINE Q == Len(parts) - 1
  <2>3. Q \in Nat /\ Q + 1 = Len(parts) /\ Len(kept) = Q
    BY <2>1, <2>2 DEF Kept
  <2>4. parts[Len(parts)] \in Seq(Block)
    BY <1>0, <2>2
  <2>5. Len(parts[Len(parts)]) \in Nat
    BY <2>4
  <2>6. \E k \in 0..Len(parts[Len(parts)]) : kept' = Append(kept, k)
    <3>1. CASE form \in Uploads
      <4>1. kept' = <<Len(parts[1])>> /\ Len(parts) = 1
        BY <1>0, <1>7, <2>2, <3>1 DEF Flush, Stages, Uploads, Splits
      <4>2. kept = <<>>
        BY <1>0, <2>3, <4>1
      <4>3. kept' = Append(kept, Len(parts[1]))
        BY <4>1, <4>2
      <4>. QED BY <2>5, <4>1, <4>3
    <3>2. CASE form \notin Uploads
      BY <1>7, <3>2 DEF Flush, Closes
    <3>. QED BY <3>1, <3>2
  <2>7. PICK k \in 0..Len(parts[Len(parts)]) : kept' = Append(kept, k)
    BY <2>6
  <2>8. k \in Nat /\ k <= Len(parts'[Q + 1])
    BY <2>1, <2>3, <2>5
  <2>9. \A p \in 1..Q : kept[p] <= Len(parts[p]) /\ parts'[p] = parts[p]
    BY <2>1, <2>3 DEF Kept
  <2>10. Q + 1 = IF pc' = "done" THEN Len(parts') ELSE Len(parts') - 1
    BY <2>1, <2>3
  <2> HIDE DEF Q
  <2>. QED BY <1>0, <2>1, <2>3, <2>7, <2>8, <2>9, <2>10, KeptAdds
<1>8. CASE Put \/ Begin \/ Unpack \/ PartEnds \/ Finish \/ UnpackFails
  <2>1. UNCHANGED <<pc, parts, kept>>
    BY <1>8 DEF Put, Read, PutReturns, PutFails, Begin, Unpack, PartEnds, Finish, UnpackFails, packVars
  <2>. QED BY <2>1 DEF Kept
<1>. QED BY <1>1, <1>2, <1>3, <1>5, <1>6, <1>7, <1>8 DEF ArchiveNext, Pack

\* The parts of an archive that was returned without an error.
LEMMA Closed ==
  ASSUME ArchiveTypeOK, PackInv, Kept, ret = "ok"
  PROVE  \A p \in 1..Len(parts) :
           /\ kept[p] \in Nat /\ Len(parts[p]) \in Nat /\ kept[p] <= Len(parts[p])
           /\ ~Broken(p) => kept[p] = Len(parts[p]) /\ Readable(p) /\ ~Cut(p)
<1>1. pc = "done"
  BY DEF ArchiveTypeOK, PackInv, Results
<1>2. Len(kept) = Len(parts) /\ kept \in Seq(Nat) /\ parts \in Seq(Seq(Block))
  BY <1>1 DEF Kept, ArchiveTypeOK
<1>3. ASSUME NEW p \in 1..Len(parts)
      PROVE  /\ kept[p] \in Nat /\ Len(parts[p]) \in Nat /\ kept[p] <= Len(parts[p])
             /\ ~Broken(p) => kept[p] = Len(parts[p]) /\ Readable(p) /\ ~Cut(p)
  <2>1. kept[p] \in Nat /\ parts[p] \in Seq(Block)
    BY <1>2
  <2>2. Len(parts[p]) \in Nat /\ kept[p] <= Len(parts[p])
    BY <1>2, <2>1 DEF Kept
  <2>. QED BY <2>1, <2>2 DEF Broken, Readable, Cut
<1>. QED BY <1>3

-----------------------------------------------------------------------------
(* Archives: types. *)

LEMMA MadeIs ==
  ASSUME ArchiveTypeOK, NEW e \in 1..Len(src)
  PROVE  Made(e) \in Types \cup {"none"}
<1>1. src[e].type \in Types
  BY SourceIs
<1>. QED BY <1>1 DEF Made, DownloadMakes, ZstdMakes, TarGzMakes, UnzipMakes, Types

LEMMA DstIs ==
  ASSUME ArchiveTypeOK
  PROVE  \A e \in 1..Len(src) : /\ dst[e].type \in Types \cup {"none"} /\ dst[e].size \in Nat
                                /\ dst[e] = [type |-> dst[e].type, size |-> dst[e].size]
<1> DEFINE S == [type : Types \cup {"none"}, size : Nat]
<1>1. ASSUME NEW e \in 1..Len(src) PROVE dst[e] \in S
  <2> HIDE DEF S
  <2>1. dst \in [1..Len(src) -> S]
    BY DEF ArchiveTypeOK, S
  <2>. QED BY <2>1
<1>. QED BY <1>1

\* The blocks of a file are data of it, wherever they are written.
LEMMA WriteTyped ==
  ASSUME ArchiveTypeOK, parts # <<>>, NEW b \in Block, Write(<<b>>), src' = src
  PROVE  parts' \in Seq(Seq(Block'))
<1>1. Block' = Block
  BY DEF Block
<1>. QED BY <1>1, BlockWritten

LEMMA KeptTyped ==
  ASSUME ArchiveTypeOK, PackInv, Pack
  PROVE  kept' \in Seq(Nat)
<1>1. kept \in Seq(Nat) /\ parts \in Seq(Seq(Block)) /\ Len(parts) \in Nat
  BY DEF ArchiveTypeOK
<1>2. ASSUME NEW part1 \in Seq(Block), Closes(part1) PROVE kept' \in Seq(Nat)
  <2>1. PICK k \in 0..Len(part1) : kept' = Append(kept, k)
    BY <1>2 DEF Closes
  <2>2. k \in Nat
    OBVIOUS
  <2>. QED BY <1>1, <2>1, <2>2, AppendProperties
<1>3. CASE FileEnd
  <2>1. parts # <<>>
    BY <1>3 DEF FileEnd, PackInv, Stages
  <2>2. CASE form \in Splits /\ size + n >= MaxSize
    <3>1. NextPart
      BY <1>3, <2>2 DEF FileEnd
    <3>2. PICK k \in 0..Len(parts'[Len(parts)]) : kept' = Append(kept, k)
      BY <2>1, <3>1, PartClosed
    <3>3. k \in Nat
      OBVIOUS
    <3>. QED BY <1>1, <3>2, <3>3, AppendProperties
  <2>3. CASE ~(form \in Splits /\ size + n >= MaxSize)
    BY <1>1, <1>3, <2>3 DEF FileEnd
  <2>. QED BY <2>2, <2>3
<1>4. CASE Flush
  <2>1. parts # <<>>
    BY <1>4 DEF Flush, PackInv, Stages
  <2>2. 1 \in 1..Len(parts) /\ Len(parts) \in 1..Len(parts)
    BY <1>1, <2>1
  <2>3. parts[1] \in Seq(Block) /\ parts[Len(parts)] \in Seq(Block)
    BY <1>1, <2>2
  <2>4. CASE form \in Uploads
    <3>1. kept' = <<Len(parts[1])>> /\ Len(parts[1]) \in Nat
      BY <1>4, <2>3, <2>4 DEF Flush
    <3>. QED BY <3>1
  <2>5. CASE form \notin Uploads
    BY <1>2, <1>4, <2>3, <2>5 DEF Flush
  <2>. QED BY <2>4, <2>5
<1>5. CASE Start \/ Fail \/ TarEntry \/ ZipEntry \/ Copy \/ WalkEnds \/ Trailer
  BY <1>1, <1>5 DEF Start, Fail, TarEntry, ZipEntry, Copy, WalkEnds, Trailer
<1>. QED BY <1>3, <1>4, <1>5 DEF Pack

LEMMA PackTyped ==
  ASSUME ArchiveTypeOK, PackInv, Pack
  PROVE  ArchiveTypeOK'
<1>0. Stages
  BY DEF PackInv
<1>1. /\ form \in Forms /\ src \in Sources /\ Len(src) \in Nat /\ Len(src) >= 1
      /\ \A e \in 1..Len(src) : src[e].size \in Nat
      /\ i \in 1..(Len(src) + 1) /\ (i <= Len(src) => n \in 0..src[i].size)
      /\ parts \in Seq(Seq(Block)) /\ kept \in Seq(Nat) /\ size \in Nat /\ pipe \in {"open", "eof", "err"} /\ sent \in Nat
      /\ res \in {"ok", "err"} /\ short \in BOOLEAN /\ ret \in {"none", "ok", "err"}
      /\ pc \in {"idle", "start", "walk", "data", "defers", "flush", "done"}
  BY SourceIs DEF ArchiveTypeOK
<1>2. UNCHANGED <<form, src, sent, upart, upos, dst, uret>>
  BY DEF Pack, Start, Fail, TarEntry, ZipEntry, Copy, FileEnd, WalkEnds, Trailer, Flush, unpackVars, sendVars
<1>3. Block' = Block
  BY <1>2 DEF Block
<1> DEFINE B == Seq(Block)
<1>4. <<>> \in B /\ (i <= Len(src) => Header(i) \in Block /\ Data(i) \in Block) /\ End \in Block
  BY <1>1 DEF Block, Header, Data
<1>5. ASSUME parts' \in Seq(B), pc' \in {"walk", "data", "defers", "flush", "done"},
             i' \in 1..(Len(src) + 1), i' <= Len(src) => n' \in 0..src[i'].size,
             size' \in Nat, res' \in {"ok", "err"}, short' \in BOOLEAN,
             pipe' \in {"open", "eof", "err"}, ret' \in {"none", "ok", "err"}
      PROVE  ArchiveTypeOK'
  BY <1>2, <1>3, <1>5, KeptTyped DEF ArchiveTypeOK
<1>6. CASE Start
  <2>1. parts' = << <<>> >> /\ pc' \in {"data", "walk"} /\ UNCHANGED <<i, n, size, res, short, pipe, ret>>
    BY <1>6 DEF Start, sendVars
  <2> HIDE DEF B
  <2>2. parts' \in Seq(B)
    BY <1>4, <2>1
  <2>. QED BY <1>1, <1>2, <1>5, <2>1, <2>2
<1>7. CASE Fail
  <2>1. /\ parts' = (IF parts = <<>> THEN << <<>> >> ELSE parts) /\ pc' = "defers"
        /\ short' \in BOOLEAN /\ res' \in {"ok", "err"} /\ pipe' \in {"err", pipe}
        /\ UNCHANGED <<i, n, size, ret>>
    BY <1>7 DEF Fail
  <2>2. parts \in Seq(B)
    BY <1>1
  <2> HIDE DEF B
  <2>3. parts' \in Seq(B)
    BY <1>4, <2>1, <2>2
  <2>. QED BY <1>1, <1>2, <1>5, <2>1, <2>3
<1>8. CASE TarEntry \/ ZipEntry
  <2>1. /\ pc = "walk" /\ i <= Len(src) /\ i' \in {i, i + 1} /\ pc' \in {"walk", "data"}
        /\ Write(<<Header(i)>>) \/ parts' = parts
        /\ UNCHANGED <<n, size, res, short, pipe, ret>>
    BY <1>8 DEF TarEntry, ZipEntry, sendVars
  <2>2. parts # <<>> /\ n = 0
    BY <1>0, <2>1 DEF Stages
  <2>3. parts' \in Seq(B)
    BY <1>1, <1>4, <2>1, <2>2, BlockWritten
  <2>4. i' \in 1..(Len(src) + 1) /\ (i' <= Len(src) => n' \in 0..src[i'].size)
    BY <1>1, <2>1, <2>2
  <2>. QED BY <1>1, <1>5, <2>1, <2>3, <2>4
<1>9. CASE Copy
  <2>1. /\ pc = "data" /\ n < src[i].size /\ Write(<<Data(i)>>) /\ n' = n + 1
        /\ UNCHANGED <<pc, i, size, res, short, pipe, ret>>
    BY <1>9 DEF Copy, sendVars
  <2>2. parts # <<>> /\ i <= Len(src)
    BY <1>0, <2>1 DEF Stages
  <2>3. parts' \in Seq(B)
    BY <1>4, <2>1, <2>2, BlockWritten
  <2>4. n' \in 0..src[i].size
    BY <1>1, <2>1, <2>2
  <2>. QED BY <1>1, <1>5, <2>1, <2>2, <2>3, <2>4
<1>10. CASE FileEnd
  <2>1. /\ pc = "data" /\ i' = i + 1 /\ n' = 0 /\ pc' = "walk"
        /\ UNCHANGED <<res, pipe, ret>>
    BY <1>10 DEF FileEnd, sendVars
  <2>2. /\ parts # <<>> /\ i <= Len(src)
    BY <1>0, <2>1 DEF Stages
  <2>3. /\ NextPart \/ parts' = parts
        /\ size' \in {0, size + n} /\ short' \in BOOLEAN
    <3>1. CASE form \in Splits /\ size + n >= MaxSize
      BY <1>10, <3>1 DEF FileEnd
    <3>2. CASE ~(form \in Splits /\ size + n >= MaxSize)
      <4>1. parts' = parts /\ size' = size + n
        BY <1>10, <3>2 DEF FileEnd
      <4>2. short' = (n < src[i].size)
        BY <1>10, <3>2 DEF FileEnd
      <4>3. short' \in BOOLEAN
        <5>1. (n < src[i].size) \in BOOLEAN
          BY <1>1, <2>2
        <5>. QED BY <4>2, <5>1
      <4>. QED BY <4>1, <4>3
    <3>. QED BY <3>1, <3>2
  <2>4. parts' \in Seq(B)
    BY <1>1, <2>2, <2>3, PartClosed
  <2>5. i' \in 1..(Len(src) + 1) /\ (i' <= Len(src) => n' \in 0..src[i'].size) /\ size' \in Nat
    BY <1>1, <2>1, <2>2, <2>3
  <2>. QED BY <1>1, <1>5, <2>1, <2>3, <2>4, <2>5
<1>11. CASE WalkEnds
  BY <1>1, <1>5, <1>11 DEF WalkEnds, sendVars
<1>12. CASE Trailer
  <2>1. /\ pc = "defers" /\ pc' = "flush" /\ (parts' = parts \/ Write(<<End>>))
        /\ UNCHANGED <<i, n, size, res, short, pipe, ret>>
    BY <1>12 DEF Trailer, sendVars
  <2>2. parts # <<>>
    BY <1>0, <2>1 DEF Stages
  <2>3. parts' \in Seq(B)
    BY <1>1, <1>4, <2>1, <2>2, BlockWritten
  <2>. QED BY <1>1, <1>5, <2>1, <2>3
<1>13. CASE Flush
  <2>1. /\ pc' = "done" /\ pipe' \in {"err", "eof", pipe} /\ ret' \in {ret, res}
        /\ UNCHANGED <<i, n, parts, size, res, short>>
    BY <1>13 DEF Flush
  <2>. QED BY <1>1, <1>5, <2>1
<1>. QED BY <1>6, <1>7, <1>8, <1>9, <1>10, <1>11, <1>12, <1>13 DEF Pack

LEMMA ArchiveTyped ==
  ASSUME ArchiveTypeOK, PackInv, Kept, UnpackInv, ArchiveNext
  PROVE  ArchiveTypeOK'
<1> DEFINE R == [type : Types \cup {"none"}, size : Nat]
<1>1. CASE Call
  <2>1. /\ form' \in Forms /\ src' \in Sources /\ pc' = "start"
        /\ dst' = [e \in 1..Len(src') |-> Nothing]
        /\ UNCHANGED <<i, n, parts, kept, size, res, short, sendVars, upart, upos, uret>>
    BY <1>1 DEF Call
  <2>2. i = 1 /\ n = 0 /\ parts = <<>>
    BY <1>1 DEF Call, PackInv, Stages
  <2>3. Len(src') \in Nat /\ Len(src') >= 1 /\ src'[1].size \in Nat
    BY <2>1, SourcesAre
  <2>4. dst' \in [1..Len(src') -> R] /\ parts' \in Seq(Seq(Block'))
    BY <2>1, <2>2 DEF Nothing
  <2> HIDE DEF R
  <2>. QED BY <2>1, <2>2, <2>3, <2>4 DEF ArchiveTypeOK, sendVars, R
<1>2. CASE Pack
  BY <1>2, PackTyped
<1> DEFINE Rest == UNCHANGED <<form, src, packVars>>
<1>3. ASSUME Rest, dst' \in [1..Len(src) -> R], pipe' \in {"open", "eof", "err"}, sent' \in Nat,
             ret' \in {"none", "ok", "err"}, uret' \in {"none", "ok", "err"},
             upart' \in Nat, upos' \in Nat
      PROVE  ArchiveTypeOK'
  <2>1. Block' = Block
    BY <1>3 DEF Block
  <2>. QED BY <1>3, <2>1 DEF ArchiveTypeOK, packVars
<1>4. CASE Put
  <2>1. Rest /\ UNCHANGED unpackVars /\ sent' \in {sent, sent + 1} /\ ret' \in {ret, "ok", "err"} /\ pipe' = pipe
    BY <1>4 DEF Put, Read, PutReturns, PutFails
  <2>. QED BY <1>3, <2>1 DEF ArchiveTypeOK, unpackVars
<1>5. CASE Begin \/ PartEnds \/ UnpackFails
  <2>1. Rest /\ UNCHANGED <<dst, sendVars>> /\ upos' \in {upos, 1, 2} /\ upart' \in {upart, upart + 1}
        /\ uret' \in {uret, "err"}
    BY <1>5 DEF Begin, PartEnds, UnpackFails
  <2>. QED BY <1>3, <2>1 DEF ArchiveTypeOK, sendVars
<1>6. CASE Unpack
  <2> DEFINE b == parts[upart][upos]
             e == b[2]
  <2>1. /\ uret = "none" /\ upos > 0 /\ upos <= kept[upart] /\ upos' = upos + 1
        /\ Rest /\ UNCHANGED <<sendVars, upart, uret>>
        /\ dst' = CASE b[1] = "head" -> [dst EXCEPT ![e] = [type |-> Made(e), size |-> 0]]
                    [] b[1] = "data" -> [dst EXCEPT ![e] = [type |-> "file", size |-> @.size + 1]]
                    [] b[1] = "end" -> dst
    BY <1>6 DEF Unpack
  <2>2. upart \in 1..Len(parts) /\ parts \in Seq(Seq(Block)) /\ upos \in Nat /\ ret = "ok"
    BY <2>1 DEF UnpackInv, ArchiveTypeOK
  <2>3. parts[upart] \in Seq(Block) /\ upos \in 1..Len(parts[upart])
    <3>1. kept[upart] \in Nat /\ Len(parts[upart]) \in Nat /\ kept[upart] <= Len(parts[upart])
      BY <2>2, Closed
    <3>. QED BY <2>1, <2>2, <3>1
  <2>4. b \in Block
    BY <2>1, <2>2, <2>3
  <2> HIDE DEF b
  <2>5. b[1] \in {"head", "data", "end"} /\ (b[1] \in {"head", "data"} => e \in 1..Len(src))
    BY <2>4 DEF Block, End
  <2>6. dst \in [1..Len(src) -> R]
    BY DEF ArchiveTypeOK
  <2>7. b[1] = "head" => [type |-> Made(e), size |-> 0] \in R
    BY <2>5, MadeIs
  <2>8. b[1] = "data" => [type |-> "file", size |-> dst[e].size + 1] \in R
    <3>1. SUFFICES ASSUME b[1] = "data" PROVE dst[e].size + 1 \in Nat
      BY DEF Types
    <3>2. e \in 1..Len(src)
      BY <2>5, <3>1
    <3> HIDE DEF e
    <3>3. dst[e].size \in Nat
      BY <3>2, DstIs
    <3>. QED BY <3>3
  <2> HIDE DEF R, e
  <2>9. dst' \in [1..Len(src) -> R]
    BY <2>1, <2>5, <2>6, <2>7, <2>8
  <2>10. /\ pipe' \in {"open", "eof", "err"} /\ sent' \in Nat /\ ret' \in {"none", "ok", "err"}
         /\ uret' \in {"none", "ok", "err"} /\ upart' \in Nat /\ upos' \in Nat
    BY <2>1, <2>2 DEF ArchiveTypeOK, sendVars
  <2>. QED BY <1>3, <2>1, <2>9, <2>10
<1>7. CASE Finish
  <2>1. /\ Rest /\ UNCHANGED <<sendVars, upart, upos>> /\ uret' \in {"ok", "err"}
        /\ \/ dst' = [dst EXCEPT ![1] = [type |-> "file", size |-> 0]]
           \/ dst' = dst
    BY <1>7 DEF Finish
  <2>2. dst \in [1..Len(src) -> R]
    BY DEF ArchiveTypeOK
  <2>3. CASE dst' = [dst EXCEPT ![1] = [type |-> "file", size |-> 0]]
    <3>1. dst' = [dst EXCEPT ![1] = [type |-> "file", size |-> 0]]
      BY <2>3
    <3>2. [type |-> "file", size |-> 0] \in R
      BY DEF Types
    <3> HIDE DEF R
    <3>. QED BY <1>3, <2>1, <2>2, <3>1, <3>2 DEF ArchiveTypeOK, sendVars
  <2>4. CASE dst' = dst
    BY <1>3, <2>1, <2>2, <2>4 DEF ArchiveTypeOK, sendVars
  <2>. QED BY <2>1, <2>3, <2>4
<1>. QED BY <1>1, <1>2, <1>4, <1>5, <1>6, <1>7 DEF ArchiveNext

-----------------------------------------------------------------------------
(* Archives: the steps of unpacking. *)

\* Nothing was unpacked yet.
LEMMA UnpackIdle ==
  ASSUME upos' = 0, upart' = 1, uret' = "none", \A e \in 1..Len(src') : dst'[e] = Nothing
  PROVE  UnpackInv'
<1>1. Done' = {}
  <2>1. \A x \in Positions(parts') : \E p \in 1..Len(parts') : \E q \in 1..Len(parts'[p]) : x = <<p, q>>
    BY DEF Positions
  <2>2. ASSUME NEW x \in Positions(parts') PROVE ~(x[1] < 1 \/ (x[1] = 1 /\ x[2] < 0))
    <3>1. PICK p \in 1..Len(parts') : \E q \in 1..Len(parts'[p]) : x = <<p, q>>
      BY <2>1
    <3>2. PICK q \in 1..Len(parts'[p]) : x = <<p, q>>
      BY <3>1
    <3>3. p \in Int /\ p >= 1 /\ q \in Int /\ q >= 1
      OBVIOUS
    <3>. QED BY <3>2, <3>3
  <2>. QED BY <2>2 DEF Done
<1>2. \A e : Seen(Header(e))' = {} /\ Seen(Data(e))' = {}
  BY <1>1 DEF Seen
<1>3. \A e : Unpacked(e)' = Nothing
  BY <1>2 DEF Unpacked
<1>. QED BY <1>3 DEF UnpackInv

\* A packing that returned no error has ended.
LEMMA Returned ==
  ASSUME ArchiveTypeOK, PackInv, ret = "ok"
  PROVE  /\ pc = "done" /\ res = "ok" /\ parts # <<>> /\ Len(parts) \in Nat \ {0}
         /\ form # "zipBase" => \A e \in 1..Len(src) : e < i
         /\ form \in Uploads => Len(parts) = 1
<1>1. pc = "done" /\ res = "ok"
  BY DEF ArchiveTypeOK, PackInv, Results
<1>2. parts # <<>> /\ Len(parts) \in Nat \ {0} /\ Len(src) \in Nat /\ i \in Nat
  BY <1>1, SourceIs DEF ArchiveTypeOK, PackInv, Stages
<1>3. form # "zipBase" => i > Len(src)
  BY <1>1 DEF PackInv, Stages, Packed
<1>4. form \in Uploads => Len(parts) = 1
  BY <1>2 DEF PackInv, Stages, Uploads, Splits
<1>5. form # "zipBase" => \A e \in 1..Len(src) : e < i
  BY <1>2, <1>3
<1>. QED BY <1>1, <1>2, <1>4, <1>5

\* What the blocks that were done depend on.
LEMMA BrokenStays ==
  ASSUME NEW p, parts'[p] = parts[p], kept'[p] = kept[p]
  PROVE  Broken(p)' = Broken(p)
BY DEF Broken, Ended

LEMMA UnpackedSame ==
  ASSUME UNCHANGED <<form, src, parts, kept, upart, upos>>
  PROVE  /\ Done' = Done /\ \A b : Seen(b)' = Seen(b)
         /\ \A e : Unpacked(e)' = Unpacked(e) /\ Count(e)' = Count(e)
         /\ AllLost' = AllLost /\ \A p : Broken(p)' = Broken(p)
<1>1. Done' = Done /\ \A b : Seen(b)' = Seen(b)
  BY DEF Done, Seen
<1>2. \A p : Broken(p)' = Broken(p)
  BY BrokenStays
<1>. QED BY <1>1, <1>2, SameForm DEF Unpacked, Count, AllLost

\* No step but those of unpacking leaves "upos = 0", and none of them is taken
\* after.
LEMMA UnpackWaits ==
  ASSUME ArchiveTypeOK, PackInv, UnpackInv, Call \/ Pack \/ Put
  PROVE  UnpackInv'
<1>1. upos = 0
  <2>1. upos > 0 => pc = "done" /\ ret = "ok"
    BY Returned DEF UnpackInv
  <2>2. pc # "done" \/ ret = "none"
    BY DEF Call, Pack, Put, Start, Fail, TarEntry, ZipEntry, Copy, FileEnd, WalkEnds, Trailer, Flush,
           Read, PutReturns, PutFails, Uploading
  <2>3. upos \in Nat
    BY DEF ArchiveTypeOK
  <2>. QED BY <2>1, <2>2, <2>3
<1>2. upos' = 0 /\ upart' = 1 /\ uret' = "none"
  BY <1>1 DEF UnpackInv, Call, Pack, Put, Start, Fail, TarEntry, ZipEntry, Copy, FileEnd, WalkEnds,
              Trailer, Flush, Read, PutReturns, PutFails, unpackVars
<1>3. \A e \in 1..Len(src') : dst'[e] = Nothing
  <2>1. CASE Call
    BY <2>1 DEF Call
  <2>2. CASE Pack \/ Put
    BY <1>1, <2>2 DEF UnpackInv, Pack, Put, Start, Fail, TarEntry, ZipEntry, Copy, FileEnd, WalkEnds,
              Trailer, Flush, Read, PutReturns, PutFails, unpackVars
  <2>. QED BY <2>1, <2>2
<1>. QED BY <1>2, <1>3, UnpackIdle

\* DownloadAndDecompress begins behind the root, which it does not make.
LEMMA BeginStep ==
  ASSUME ArchiveTypeOK, PackInv, UnpackInv, Begin
  PROVE  UnpackInv'
<1>1. /\ ret = "ok" /\ upos = 0 /\ upos' = IF form \in Uploads /\ HasFirst THEN 2 ELSE 1
      /\ UNCHANGED <<form, src, parts, ret, upart, dst, uret>>
  BY DEF Begin, packVars, sendVars
<1>2. upart = 1 /\ uret = "none" /\ \A e \in 1..Len(src) : dst[e] = Nothing
  BY <1>1 DEF UnpackInv
<1>3. 1 \in 1..Len(parts) /\ parts \in Seq(Seq(Block))
  BY <1>1, Returned DEF ArchiveTypeOK
<1>4. parts[1] \in Seq(Block)
  BY <1>3
<1>5. /\ upos' <= Len(parts[1]) + 1 /\ upos' > 0 /\ upos' # 0
      /\ form \in Uploads /\ ~Raw /\ parts[1] # <<>> => upos' > 1
  <2>1. form \in Uploads /\ ~Raw /\ parts[1] # <<>> => HasFirst
    <3>1. parts # <<>>
      BY <1>3
    <3>. QED BY <3>1, BlockIs DEF PackInv, RootFirst, HasFirst
  <2>. QED BY <1>1, <1>4, <2>1 DEF HasFirst
<1>6. Raw' = Raw
  BY <1>1, SameForm
<1>7. ASSUME ~(form \in Uploads /\ Raw), NEW e \in 1..Len(src) PROVE Unpacked(e)' = Nothing
  <2>1. \A x \in Positions(parts) : \E p \in 1..Len(parts) : \E q \in 1..Len(parts[p]) : x = <<p, q>>
    BY PositionIs
  <2>2. CASE upos' = 1
    <3>1. ASSUME NEW x \in Positions(parts) PROVE ~(x[1] < 1 \/ (x[1] = 1 /\ x[2] < 1))
      <4>1. PICK p \in 1..Len(parts) : \E q \in 1..Len(parts[p]) : x = <<p, q>>
        BY <2>1
      <4>2. PICK q \in 1..Len(parts[p]) : x = <<p, q>>
        BY <4>1
      <4>3. p \in Int /\ p >= 1 /\ q \in Int /\ q >= 1
        OBVIOUS
      <4>. QED BY <4>2, <4>3
    <3>2. Done' = {}
      BY <1>1, <1>2, <2>2, <3>1 DEF Done
    <3>3. Seen(Header(e))' = {} /\ Seen(Data(e))' = {}
      BY <3>2 DEF Seen
    <3>. QED BY <3>3 DEF Unpacked
  <2>3. CASE upos' = 2
    <3>1. form \in Uploads /\ ~Raw /\ parts[1][1] = Header(1)
      BY <1>1, <1>3, <1>7, <2>3 DEF PackInv, RootFirst, HasFirst
    <3>2. ASSUME NEW x \in Positions(parts), x[1] < 1 \/ (x[1] = 1 /\ x[2] < 2) PROVE x = <<1, 1>>
      <4>1. PICK p \in 1..Len(parts) : \E q \in 1..Len(parts[p]) : x = <<p, q>>
        BY <2>1
      <4>2. PICK q \in 1..Len(parts[p]) : x = <<p, q>>
        BY <4>1
      <4>3. p \in Int /\ p >= 1 /\ q \in Int /\ q >= 1
        OBVIOUS
      <4>4. p = 1 /\ q = 1
        BY <3>2, <4>2, <4>3
      <4>. QED BY <4>2, <4>4
    <3>3. \A x \in Done' : x = <<1, 1>>
      BY <1>1, <1>2, <2>3, <3>2 DEF Done
    <3>4. e # 1 => Seen(Header(e))' = {}
      BY <1>1, <3>1, <3>3, BlockIs DEF Seen, Places
    <3>. QED BY <1>1, <1>6, <3>1, <3>4 DEF Unpacked
  <2>. QED BY <1>1, <2>2, <2>3
<1>. QED BY <1>1, <1>2, <1>3, <1>5, <1>6, <1>7 DEF UnpackInv

LEMMA PartEndsStep ==
  ASSUME ArchiveTypeOK, PackInv, Kept, UnpackInv, PartEnds
  PROVE  UnpackInv'
<1>0. /\ uret = "none" /\ upos > 0 /\ Exhausted(upart) /\ upart < Len(parts) /\ ~Broken(upart)
      /\ upart' = upart + 1 /\ upos' = 1
      /\ UNCHANGED <<form, src, parts, kept, ret, dst, uret>>
  BY DEF PartEnds, packVars, sendVars
<1>11. upos > Len(parts[upart])
  <2>1. ret = "ok" /\ upart \in 1..Len(parts)
    BY <1>0 DEF UnpackInv
  <2>. QED BY <1>0, <2>1, Closed DEF Exhausted
<1>1. /\ uret = "none" /\ upos > 0 /\ upos > Len(parts[upart]) /\ upart < Len(parts) /\ ~Broken(upart)
      /\ upart' = upart + 1 /\ upos' = 1
      /\ UNCHANGED <<form, src, parts, kept, ret, dst, uret>>
  BY <1>0, <1>11
<1>2. /\ ret = "ok" /\ upart \in 1..Len(parts) /\ Len(parts) \in Nat /\ parts \in Seq(Seq(Block))
      /\ upos \in Nat /\ upart \in Nat
      /\ \A p \in 1..(upart - 1) : ~Broken(p)
  BY <1>1, Returned DEF UnpackInv, ArchiveTypeOK
<1>3. form \notin Uploads
  <2>1. form \in Uploads => Len(parts) = 1
    BY <1>2, Returned
  <2>2. upart < Len(parts) /\ upart \in Nat /\ upart >= 1
    BY <1>1, <1>2
  <2>. QED BY <2>1, <2>2
<1>4. upart' \in 1..Len(parts) /\ parts[upart'] \in Seq(Block)
  BY <1>1, <1>2
<1>5. Len(parts[upart']) \in Nat
  BY <1>4
<1>6. ASSUME NEW p \in 1..(upart' - 1) PROVE ~Broken(p)'
  <2>1. p \in 1..(upart - 1) \/ p = upart
    BY <1>1, <1>2
  <2>. QED BY <1>1, <1>2, <2>1, BrokenStays
<1>7. Done' = Done
  <2>1. ASSUME NEW x \in Positions(parts)
        PROVE  x[1] < upart + 1 \/ (x[1] = upart + 1 /\ x[2] < 1) <=>
                 x[1] < upart \/ (x[1] = upart /\ x[2] < upos)
    <3>1. PICK p \in 1..Len(parts) : \E q \in 1..Len(parts[p]) : x = <<p, q>>
      BY PositionIs
    <3>2. PICK q \in 1..Len(parts[p]) : x = <<p, q>>
      BY <3>1
    <3>3. parts[p] \in Seq(Block)
      BY <1>2
    <3>4. Len(parts[p]) \in Nat
      BY <3>3
    <3>5. p \in Nat /\ q \in Nat /\ q >= 1 /\ q <= Len(parts[p])
      BY <3>4
    <3>6. p = upart => q < upos
      BY <1>1, <1>2, <3>4, <3>5
    <3>. QED BY <1>2, <3>2, <3>5, <3>6
  <2>. QED BY <1>1, <2>1 DEF Done
<1>8. \A e : Unpacked(e)' = Unpacked(e)
  BY <1>1, <1>7, SameForm DEF Unpacked, Seen
<1>9. Raw' = Raw
  BY <1>1, SameForm
<1>10. upos' <= Len(parts[upart']) + 1
  BY <1>1, <1>5
<1>. QED BY <1>1, <1>2, <1>3, <1>4, <1>6, <1>8, <1>9, <1>10 DEF UnpackInv

LEMMA UnpackFailsStep ==
  ASSUME ArchiveTypeOK, PackInv, UnpackInv, UnpackFails
  PROVE  UnpackInv'
<1>1. /\ upos > 0 /\ uret' = "err" /\ UNCHANGED <<form, src, parts, kept, ret, upart, upos, dst>>
  BY DEF UnpackFails, packVars, sendVars
<1>2. upos # 0
  BY <1>1
<1>3. Raw' = Raw /\ \A p : Broken(p)' = Broken(p)
  BY <1>1, SameForm, UnpackedSame
<1>. QED BY <1>1, <1>2, <1>3 DEF UnpackInv

LEMMA FinishStep ==
  ASSUME ArchiveTypeOK, PackInv, Kept, UnpackInv, Finish
  PROVE  UnpackInv'
<1>1. /\ uret = "none" /\ upos > 0 /\ Exhausted(upart)
      /\ upart = Len(parts) \/ Broken(upart)
      /\ uret' \in {"ok", "err"} /\ (uret' = "ok" /\ ~AllLost => ~Broken(upart))
      /\ ~AllLost /\ ~Broken(upart) => dst' =
           IF Raw /\ dst[1] = Nothing THEN [dst EXCEPT ![1] = [type |-> "file", size |-> 0]] ELSE dst
      /\ UNCHANGED <<form, src, parts, kept, ret, upart, upos>>
  BY DEF Finish, packVars, sendVars
<1>2. /\ ret = "ok" /\ upart \in 1..Len(parts) /\ Len(parts) \in Nat /\ parts \in Seq(Seq(Block))
      /\ upos \in Nat /\ upart \in Nat /\ upos # 0
      /\ ~(form \in Uploads /\ Raw) => \A e \in 1..Len(src) : dst[e] = Unpacked(e)
  BY <1>1, Returned DEF UnpackInv, ArchiveTypeOK
<1>3. Raw' = Raw /\ AllLost' = AllLost /\ (\A p : Broken(p)' = Broken(p)) /\ (\A e : Unpacked(e)' = Unpacked(e))
      /\ Count(Data(1))' = Count(Data(1))
  BY <1>1, SameForm, UnpackedSame
<1>6. ASSUME uret' = "ok", ~AllLost
      PROVE  upos > Len(parts[upart]) /\ upart = Len(parts) /\ ~Broken(upart) /\
             dst' = IF Raw /\ dst[1] = Nothing THEN [dst EXCEPT ![1] = [type |-> "file", size |-> 0]] ELSE dst
  <2>1. ~Broken(upart)
    BY <1>1, <1>6
  <2>. QED BY <1>1, <1>2, <1>6, <2>1, Closed DEF Exhausted
<1>4. ASSUME uret' = "ok", ~AllLost, ~(form \in Uploads /\ Raw), NEW e \in 1..Len(src)
      PROVE  dst'[e] = IF Raw THEN [type |-> "file", size |-> Count(Data(e))] ELSE Unpacked(e)
  <2>1. CASE ~Raw
    BY <1>2, <1>4, <1>6, <2>1
  <2>2. CASE Raw
    <3>1. e = 1 /\ 1 \in 1..Len(src) /\ dst[1] = Unpacked(1)
      <4>1. Len(src) = 1
        BY <2>2, SourceIs DEF Raw
      <4>. QED BY <1>2, <1>4, <4>1
    <3>2. ASSUME NEW x \in Positions(parts) PROVE x \in Done
      <4>1. PICK p \in 1..Len(parts) : \E q \in 1..Len(parts[p]) : x = <<p, q>>
        BY PositionIs
      <4>2. PICK q \in 1..Len(parts[p]) : x = <<p, q>>
        BY <4>1
      <4>3. parts[p] \in Seq(Block)
        BY <1>2
      <4>4. Len(parts[p]) \in Nat
        BY <4>3
      <4>5. p < upart \/ (p = upart /\ q < upos)
        BY <1>2, <1>4, <1>6, <4>4
      <4>. QED BY <4>2, <4>5 DEF Done
    <3>3. Seen(Data(1)) = Places(parts, Data(1))
      BY <3>2 DEF Seen, Places
    <3>4. CASE Seen(Data(1)) = {}
      <4>1. dst[1] = Nothing
        BY <2>2, <3>1, <3>4 DEF Unpacked
      <4>2. Count(Data(1)) = 0
        BY <3>3, <3>4, FS_EmptySet DEF Count
      <4>3. dst' = [dst EXCEPT ![1] = [type |-> "file", size |-> 0]]
        BY <1>4, <1>6, <2>2, <4>1
      <4>4. 1 \in DOMAIN dst
        BY <3>1 DEF ArchiveTypeOK
      <4>. QED BY <2>2, <3>1, <4>2, <4>3, <4>4
    <3>5. CASE Seen(Data(1)) # {}
      <4>1. dst[1] = [type |-> "file", size |-> Count(Data(1))]
        BY <2>2, <3>1, <3>3, <3>5 DEF Unpacked, Count
      <4>2. dst[1] # Nothing
        BY <4>1 DEF Nothing
      <4>. QED BY <1>4, <1>6, <2>2, <3>1, <4>1, <4>2
    <3>. QED BY <3>4, <3>5
  <2>. QED BY <2>1, <2>2
<1>5. ASSUME uret' = "ok", ~AllLost, ~(form \in Uploads /\ Raw), NEW e \in 1..Len(src)
      PROVE  dst'[e] = IF Raw THEN [type |-> "file", size |-> Count(Data(e))'] ELSE Unpacked(e)'
  <2>1. Count(Data(e))' = Count(Data(e))
    BY <1>1 DEF Count
  <2>. QED BY <1>3, <1>4, <1>5, <2>1
<1>. QED BY <1>1, <1>2, <1>3, <1>5, <1>6 DEF UnpackInv

\* One block, which belongs to what was unpacked from now on.
LEMMA UnpackStep ==
  ASSUME ArchiveTypeOK, PackInv, Kept, UnpackInv, Unpack
  PROVE  UnpackInv'
<1> DEFINE b == parts[upart][upos]
           f == b[2]
           here == <<upart, upos>>
<1>1. /\ uret = "none" /\ upos > 0 /\ upos <= kept[upart] /\ upos' = upos + 1
      /\ dst' = CASE b[1] = "head" -> [dst EXCEPT ![f] = [type |-> Made(f), size |-> 0]]
                  [] b[1] = "data" -> [dst EXCEPT ![f] = [type |-> "file", size |-> @.size + 1]]
                  [] b[1] = "end" -> dst
      /\ UNCHANGED <<form, src, parts, kept, ret, upart, uret>>
  BY DEF Unpack, packVars, sendVars
<1>2. /\ ret = "ok" /\ upart \in 1..Len(parts) /\ Len(parts) \in Nat /\ parts \in Seq(Seq(Block))
      /\ upos \in Nat /\ upart \in Nat /\ upos # 0
      /\ form \in Uploads /\ ~Raw /\ parts[1] # <<>> => upos > 1
      /\ \A p \in 1..(upart - 1) : ~Broken(p)
      /\ ~(form \in Uploads /\ Raw) => \A e \in 1..Len(src) : dst[e] = Unpacked(e)
  BY <1>1, Returned DEF UnpackInv, ArchiveTypeOK
<1>3. parts[upart] \in Seq(Block)
  BY <1>2
<1>4. b \in Block /\ Len(parts[upart]) \in Nat /\ upos \in 1..Len(parts[upart])
  <2>1. kept[upart] \in Nat /\ Len(parts[upart]) \in Nat /\ kept[upart] <= Len(parts[upart])
    BY <1>2, Closed
  <2>2. upos \in 1..Len(parts[upart])
    BY <1>1, <1>2, <2>1
  <2>. QED BY <1>3, <2>1, <2>2
<1>5. here \in Positions(parts) /\ here \in Places(parts, b) /\ here \notin Done
  <2>1. here \in Positions(parts)
    BY <1>2, <1>4, PositionIs
  <2>. QED BY <1>2, <2>1 DEF Places, Done
<1>6. Done' = Done \cup {here}
  <2>1. ASSUME NEW x \in Positions(parts)
        PROVE  x[1] < upart \/ (x[1] = upart /\ x[2] < upos + 1) <=>
                 x[1] < upart \/ (x[1] = upart /\ x[2] < upos) \/ x = here
    <3>1. PICK p \in 1..Len(parts) : \E q \in 1..Len(parts[p]) : x = <<p, q>>
      BY PositionIs
    <3>2. PICK q \in 1..Len(parts[p]) : x = <<p, q>>
      BY <3>1
    <3>3. p \in Int /\ q \in Int
      OBVIOUS
    <3>. QED BY <1>2, <3>2, <3>3
  <2>. QED BY <1>1, <1>5, <2>1 DEF Done
<1>7. \A c : Places(parts', c) = Places(parts, c)
  BY <1>1
<1>8. ASSUME NEW c PROVE Seen(c)' = IF c = b THEN Seen(c) \cup {here} ELSE Seen(c)
  BY <1>1, <1>5, <1>6 DEF Seen, Places
<1>9. Raw' = Raw /\ (\A p : Broken(p)' = Broken(p)) /\ \A e : Made(e)' = Made(e)
  BY <1>1, SameForm, BrokenStays
<1>10. ASSUME NEW e \in 1..Len(src) PROVE Counted(e) /\ (~Raw => Behind(parts, e))
  BY DEF PackInv
<1>11. dst \in [1..Len(src) -> [type : Types \cup {"none"}, size : Nat]]
  BY DEF ArchiveTypeOK
<1>12. DOMAIN dst = 1..Len(src)
  BY <1>11
<1>13. ASSUME form \in Uploads, ~Raw PROVE here # <<1, 1>> /\ parts[1][1] = Header(1) /\ src[1].type = "dir"
                                           /\ <<1, 1>> \in Places(parts, Header(1))
  <2>1. Len(parts) = 1
    BY <1>2, <1>13, Returned
  <2>2. upart = 1
    BY <1>2, <2>1
  <2>3. parts[1] # <<>> /\ 1 \in 1..Len(parts[1]) /\ parts # <<>>
    BY <1>2, <1>4, <2>2
  <2>4. parts[1][1] = Header(1)
    BY <1>13, <2>3 DEF PackInv, RootFirst
  <2>5. <<1, 1>> \in Places(parts, Header(1))
    BY <2>1, <2>3, <2>4, PositionIs DEF Places
  <2>6. src[1].type = "dir"
    BY <1>13, SourceIs DEF Raw
  <2>7. upos > 1
    BY <1>2, <1>13, <2>3
  <2>. QED BY <1>2, <2>4, <2>5, <2>6, <2>7
<1>14. ASSUME NEW e \in 1..Len(src), b # Header(e), b # Data(e) PROVE Unpacked(e)' = Unpacked(e)
  BY <1>1, <1>8, <1>9, <1>14 DEF Unpacked
<1>15. /\ b \in Block => b = End \/ \E e \in 1..Len(src) : b = Header(e) \/ b = Data(e)
  BY DEF Block, Header, Data
<1> HIDE DEF b, here
<1>16. ASSUME ~(form \in Uploads /\ Raw), NEW e \in 1..Len(src) PROVE dst'[e] = Unpacked(e)'
  <2>0. dst[e] = Unpacked(e)
    BY <1>2, <1>16
  <2>1. CASE b = End
    <3>1. dst' = dst
      BY <1>1, <2>1 DEF End
    <3>2. b # Header(e) /\ b # Data(e)
      BY <2>1, BlockIs
    <3>. QED BY <1>14, <2>0, <3>1, <3>2
  <2>2. ASSUME NEW g \in 1..Len(src), b = Header(g) PROVE dst'[e] = Unpacked(e)'
    <3>1. dst' = [dst EXCEPT ![g] = [type |-> Made(g), size |-> 0]]
      BY <1>1, <2>2 DEF Header
    <3>2. CASE e # g
      <4>1. b # Header(e) /\ b # Data(e)
        BY <2>2, <3>2, BlockIs
      <4>. QED BY <1>12, <1>14, <2>0, <3>1, <3>2, <4>1
    <3>3. CASE e = g
      <4>1. here \in Places(parts, Header(e)) /\ \A x \in Places(parts, Header(e)) : x = here
        BY <1>5, <1>10, <2>2, <3>3 DEF Counted
      <4>2. ~Raw
        BY <1>10, <4>1 DEF Counted
      <4>3. Seen(Data(e)) = {}
        <5>1. SUFFICES ASSUME NEW x \in Places(parts, Data(e)) PROVE x \notin Done
          BY DEF Seen
        <5>2. PICK q \in 1..(x[2] - 1) : parts[x[1]][q] = Header(e)
          BY <1>10, <4>2, <5>1 DEF Behind
        <5>3. PICK p \in 1..Len(parts) : \E s \in 1..Len(parts[p]) : x = <<p, s>>
          BY <5>1, PositionIs DEF Places
        <5>4. PICK s \in 1..Len(parts[p]) : x = <<p, s>>
          BY <5>3
        <5>5. parts[p] \in Seq(Block)
          BY <1>2
        <5>6. q \in 1..Len(parts[p]) /\ q < s /\ s \in Nat /\ q \in Nat
          <6>1. Len(parts[p]) \in Nat
            BY <5>5
          <6>. QED BY <5>2, <5>4, <6>1
        <5>7. <<p, q>> \in Places(parts, Header(e))
          BY <5>2, <5>4, <5>6, PositionIs DEF Places
        <5>8. <<p, q>> = <<upart, upos>>
          BY <4>1, <5>7 DEF here
        <5>9. p = upart /\ q = upos
          BY <5>8
        <5>. QED BY <1>2, <5>4, <5>6, <5>9 DEF Done
      <4>4. ~(form \in Uploads /\ e = 1)
        BY <1>13, <4>1, <4>2
      <4>5. /\ Seen(Header(e))' = Seen(Header(e)) \cup {here} /\ Seen(Data(e))' = {}
        BY <1>8, <2>2, <3>3, <4>3, BlockIs
      <4>6. Unpacked(e)' = [type |-> Made(e), size |-> 0]
        BY <1>1, <1>9, <4>2, <4>4, <4>5, FS_EmptySet DEF Unpacked
      <4>. QED BY <1>12, <3>1, <3>3, <4>6
    <3>. QED BY <3>2, <3>3
  <2>3. ASSUME NEW g \in 1..Len(src), b = Data(g) PROVE dst'[e] = Unpacked(e)'
    <3>1. dst' = [dst EXCEPT ![g] = [type |-> "file", size |-> dst[g].size + 1]]
      BY <1>1, <2>3 DEF Data
    <3>2. CASE e # g
      <4>1. b # Header(e) /\ b # Data(e)
        BY <2>3, <3>2, BlockIs
      <4>. QED BY <1>12, <1>14, <2>0, <3>1, <3>2, <4>1
    <3>3. CASE e = g
      <4>1. dst'[e] = [type |-> "file", size |-> dst[e].size + 1]
        BY <1>12, <3>1, <3>3
      <4>2. here \in Places(parts, Data(e)) /\ IsFiniteSet(Places(parts, Data(e)))
        BY <1>5, <1>10, <2>3, <3>3 DEF Counted
      <4>3. /\ Seen(Data(e))' = Seen(Data(e)) \cup {here} /\ here \notin Seen(Data(e))
            /\ Seen(Header(e))' = Seen(Header(e))
        BY <1>5, <1>8, <2>3, <3>3, BlockIs DEF Seen
      <4>4. IsFiniteSet(Seen(Data(e)))
        BY <4>2, FS_Subset DEF Seen
      <4>5. Cardinality(Seen(Data(e))') = Cardinality(Seen(Data(e))) + 1 /\ Seen(Data(e))' # {}
        BY <4>3, <4>4, FS_AddElement
      <4>6. CASE Raw
        <5>1. Unpacked(e)' = [type |-> "file", size |-> Cardinality(Seen(Data(e))) + 1]
          BY <1>9, <4>5, <4>6 DEF Unpacked
        <5>2. dst[e].size = Cardinality(Seen(Data(e)))
          <6>1. CASE Seen(Data(e)) = {}
            <7>1. dst[e] = Nothing /\ Cardinality(Seen(Data(e))) = 0
              BY <2>0, <4>6, <6>1, FS_EmptySet DEF Unpacked
            <7>. QED BY <7>1 DEF Nothing
          <6>2. CASE Seen(Data(e)) # {}
            <7>1. dst[e] = [type |-> "file", size |-> Cardinality(Seen(Data(e)))]
              BY <2>0, <4>6, <6>2 DEF Unpacked
            <7>. QED BY <7>1
          <6>. QED BY <6>1, <6>2
        <5>. QED BY <4>1, <5>1, <5>2
      <4>7. CASE ~Raw
        <5>1. PICK q \in 1..(upos - 1) : parts[upart][q] = Header(e)
          BY <1>10, <4>2, <4>7 DEF Behind, here
        <5>2. q \in 1..Len(parts[upart]) /\ q < upos
          BY <1>2, <1>4, <5>1
        <5>3. <<upart, q>> \in Seen(Header(e))
          BY <1>2, <5>1, <5>2, PositionIs DEF Seen, Places, Done
        <5>4. ~(form \in Uploads /\ e = 1)
          <6>1. SUFFICES ASSUME form \in Uploads, e = 1 PROVE FALSE
            OBVIOUS
          <6>2. HasData(1)
            BY <1>10, <4>2, <6>1 DEF Counted
          <6>3. src[1].type = "dir"
            BY <1>13, <4>7, <6>1
          <6>. QED BY <6>1, <6>2, <6>3 DEF HasData, Uploads, Zips
        <5>5. Unpacked(e)' = [type |-> "file", size |-> Cardinality(Seen(Data(e))) + 1]
          BY <1>1, <1>9, <4>3, <4>5, <4>7, <5>3, <5>4 DEF Unpacked
        <5>6. dst[e].size = Cardinality(Seen(Data(e)))
          BY <2>0, <4>7, <5>3, <5>4 DEF Unpacked
        <5>. QED BY <4>1, <5>5, <5>6
      <4>. QED BY <4>6, <4>7
    <3>. QED BY <3>2, <3>3
  <2>. QED BY <1>4, <1>15, <2>1, <2>2, <2>3
<1>17. upos' # 0 /\ upos' > 0 /\ upos' <= Len(parts[upart]) + 1
       /\ (form \in Uploads /\ ~Raw /\ parts[1] # <<>> => upos' > 1)
  BY <1>1, <1>2, <1>4
<1>. QED BY <1>1, <1>2, <1>9, <1>16, <1>17 DEF UnpackInv

LEMMA ArchiveStep == ArchiveInv /\ ArchiveNext => ArchiveInv'
<1> SUFFICES ASSUME ArchiveInv, ArchiveNext PROVE ArchiveInv'
  OBVIOUS
<1> USE DEF ArchiveInv
<1>1. PackInv' /\ Kept' /\ ArchiveTypeOK'
  BY PackStep, KeptStep, ArchiveTyped
<1>2. UnpackInv'
  BY UnpackWaits, BeginStep, UnpackStep, PartEndsStep, FinishStep, UnpackFailsStep DEF ArchiveNext
<1>. QED BY <1>1, <1>2

-----------------------------------------------------------------------------
(* A part that no step touches. *)

LEMMA NotifyStays == NotifyInv /\ UNCHANGED notifyVars => NotifyInv'
BY DEF NotifyInv, NotifyTypeOK, notifyVars

LEMMA ShellStays == ShellInv /\ UNCHANGED shellVars => ShellInv'
BY DEF ShellInv, ShellTypeOK, shellVars, Gone, Windows

LEMMA ArchiveStays == ArchiveInv /\ UNCHANGED archiveVars => ArchiveInv'
<1> SUFFICES ASSUME ArchiveInv, UNCHANGED archiveVars PROVE ArchiveInv'
  OBVIOUS
<1>1. UNCHANGED <<form, src, packVars, pipe, sent, ret, upart, upos, dst, uret>>
  BY DEF archiveVars, sendVars, unpackVars
<1>2. UNCHANGED <<pc, i, n, parts, kept, size, res, short>>
  BY <1>1 DEF packVars
<1>3. ArchiveTypeOK'
  <2>1. Block' = Block
    BY <1>1 DEF Block
  <2>. QED BY <1>1, <1>2, <2>1 DEF ArchiveInv, ArchiveTypeOK
<1>4. PackInv'
  <2>1. Results'
    BY <1>1, <1>2 DEF ArchiveInv, PackInv, Results
  <2>. QED BY <1>1, <2>1, PackStays DEF ArchiveInv
<1>5. UnpackInv'
  <2>1. Raw' = Raw /\ AllLost' = AllLost /\ (\A p : Broken(p)' = Broken(p)) /\ \A e : Unpacked(e)' = Unpacked(e)
    BY <1>1, <1>2, SameForm, UnpackedSame
  <2>2. \A e : Count(Data(e))' = Count(Data(e))
    BY <1>2 DEF Count
  <2>. QED BY <1>1, <1>2, <2>1, <2>2 DEF ArchiveInv, UnpackInv
<1>6. Kept'
  BY <1>2 DEF ArchiveInv, Kept
<1>. QED BY <1>3, <1>4, <1>5, <1>6 DEF ArchiveInv

-----------------------------------------------------------------------------
LEMMA InitInv == Init => BackgroundInv
<1> SUFFICES ASSUME Init PROVE BackgroundInv
  OBVIOUS
<1>1. NotifyInv
  BY QueueCapAssumption, MaxTimesAssumption DEF Init, NotifyInit, NotifyInv, NotifyTypeOK
<1>2. ShellInv
  <2>1. impl \in Impls
    BY ImplsAssumption DEF Init, ShellInit
  <2>2. /\ ctx = FALSE /\ caller = "idle" /\ reply = "none" /\ worker = "none" /\ chan = 0
        /\ shell = "none" /\ child = [k \in Children |-> "none"] /\ known = FALSE /\ killed = FALSE
    BY DEF Init, ShellInit
  <2>3. ShellTypeOK
    <3>1. ctx \in BOOLEAN /\ known \in BOOLEAN /\ killed \in BOOLEAN
      BY <2>2
    <3>2. child \in [Children -> {"none", "running", "dead"}] /\ chan \in 0..1
      BY <2>2
    <3>. QED BY <2>1, <2>2, <3>1, <3>2 DEF ShellTypeOK
  <2>4. ~known /\ ~killed /\ \A k \in Children : child[k] = "none"
    BY <2>2
  <2>. QED BY <2>2, <2>3, <2>4 DEF ShellInv
<1>3. /\ form = "zstd" /\ src \in Sources
      /\ pc = "idle" /\ i = 1 /\ n = 0 /\ parts = <<>> /\ kept = <<>> /\ size = 0 /\ res = "ok"
      /\ short = FALSE /\ pipe = "open" /\ sent = 0 /\ ret = "none"
      /\ upart = 1 /\ upos = 0 /\ dst = [e \in 1..Len(src) |-> Nothing] /\ uret = "none"
  BY SourcesAssumption DEF Init, ArchiveInit
<1>4. Len(src) \in Nat /\ Len(src) >= 1 /\ src[1].size \in Nat
  BY <1>3, SourcesAre
<1>5. ArchiveTypeOK
  <2> DEFINE R == [type : Types \cup {"none"}, size : Nat]
  <2>1. dst \in [1..Len(src) -> R]
    BY <1>3 DEF Nothing
  <2>2. parts \in Seq(Seq(Block)) /\ kept \in Seq(Nat)
    BY <1>3
  <2>3. i \in 1..(Len(src) + 1) /\ (i <= Len(src) => n \in 0..src[i].size)
    BY <1>3, <1>4
  <2>4. /\ size \in Nat /\ short \in BOOLEAN /\ sent \in Nat /\ upart \in Nat /\ upos \in Nat
        /\ form \in Forms
    BY <1>3 DEF Forms
  <2>. QED BY <1>3, <2>1, <2>2, <2>3, <2>4 DEF ArchiveTypeOK
<1>6. PackInv
  <2>1. \A c : Places(parts, c) = {}
    BY <1>3 DEF Places, Positions
  <2>2. Stages /\ Results /\ Open /\ RootFirst /\ Sized /\ SplitSizes
    BY <1>3 DEF Stages, Results, Open, RootFirst, Sized, SplitSizes, Packing, Packed, Splits, Uploads
  <2>3. ASSUME NEW e \in 1..Len(src) PROVE Counted(e) /\ Behind(parts, e)
    <3>1. ~(e < 1)
      BY <1>4
    <3>. QED BY <1>3, <2>1, <3>1, FS_EmptySet DEF Counted, Behind, Begun, Count
  <2>. QED BY <2>2, <2>3 DEF PackInv
<1>7. UnpackInv
  <2>1. Positions(parts) = {}
    BY <1>3 DEF Positions
  <2>2. \A e : Seen(Header(e)) = {} /\ Seen(Data(e)) = {}
    BY <2>1 DEF Seen, Done
  <2>. QED BY <1>3, <2>2 DEF UnpackInv, Unpacked
<1>8. Kept
  BY <1>3 DEF Kept
<1>. QED BY <1>1, <1>2, <1>5, <1>6, <1>7, <1>8 DEF BackgroundInv, ArchiveInv, Init

LEMMA StepInv == BackgroundInv /\ [Next]_vars => BackgroundInv'
<1> SUFFICES ASSUME BackgroundInv, [Next]_vars PROVE BackgroundInv'
  OBVIOUS
<1>1. UNCHANGED part
  BY DEF Next, vars
<1>2. NotifyInv'
  BY NotifyStep, NotifyStays DEF Next, vars, BackgroundInv
<1>3. ShellInv'
  BY ShellStep, ShellStays DEF Next, vars, BackgroundInv
<1>4. ArchiveInv'
  BY ArchiveStep, ArchiveStays DEF Next, vars, BackgroundInv
<1>. QED BY <1>1, <1>2, <1>3, <1>4 DEF BackgroundInv

\* The parts that leave work to a goroutine keep their invariants, whatever
\* the order in which the goroutines run (notifyx.run, the workers of
\* ExecShell, the pipe of CompressAndUpload).
THEOREM BackgroundCorrect == Spec => []BackgroundInv
<1>. QED BY InitInv, StepInv, PTL DEF Spec

\* Every variable of the background parts has its type (notifyx, shellx, filex).
THEOREM BackgroundTyped == Spec => []TypeOK
<1>1. BackgroundInv => TypeOK
  BY DEF BackgroundInv, NotifyInv, ShellInv, ArchiveInv, TypeOK
<1>. QED BY <1>1, BackgroundCorrect, PTL

\* The kill at the deadline is complete, and stays so until the caller of
\* ExecShell has its answer, for any number of children (cmd_nowin.go,
\* cmd_win.go).
THEOREM KillIsCompleteCorrect == Spec => []KillIsComplete
<1>1. ShellInv => KillIsComplete
  BY DEF ShellInv, ShellTypeOK, KillIsComplete
<1>. QED BY <1>1, BackgroundCorrect, PTL DEF BackgroundInv

\* A part of CompressAndSplitFiles and ZipDirAndSplit is closed with the first
\* file that fills it, for every source and every maxSize.
THEOREM SplitSizesCorrect == Spec => []SplitSizes
<1>1. BackgroundInv => SplitSizes
  BY DEF BackgroundInv, ArchiveInv, PackInv
<1>. QED BY <1>1, BackgroundCorrect, PTL

LEMMA CompleteHolds == ArchiveInv => Complete
<1> SUFFICES ASSUME ArchiveInv, ret = "ok", form # "zipBase", NEW e \in Archived,
                    \A p \in 1..Len(parts) : ~Broken(p)
             PROVE  /\ Count(Header(e)) = IF Raw THEN 0 ELSE 1
                    /\ HasData(e) => Count(Data(e)) = src[e].size
  BY DEF Complete
<1>1. pc = "done" /\ parts # <<>> /\ Len(parts) \in Nat \ {0} /\ \A p \in 1..Len(parts) : ~Cut(p)
  BY Returned, Closed DEF ArchiveInv
<1>2. e \in 1..Len(src) /\ e < i
  BY Returned DEF ArchiveInv, Archived
<1>3. Counted(e)
  BY <1>2 DEF ArchiveInv, PackInv
<1>4. ASSUME Raw PROVE Count(Header(e)) = 0
  BY <1>3, <1>4, FS_EmptySet DEF Counted, Count
<1>5. ASSUME ~Raw PROVE Count(Header(e)) = 1
  <2>1. PICK x : x \in Places(parts, Header(e))
    BY <1>2, <1>3, <1>5 DEF Counted
  <2>2. Places(parts, Header(e)) = {x}
    BY <1>3, <2>1 DEF Counted
  <2>. QED BY <2>2, FS_Singleton DEF Count
<1>6. ASSUME HasData(e) PROVE Count(Data(e)) = src[e].size
  <2>1. ~short
    BY <1>1 DEF ArchiveInv, PackInv, Stages
  <2>2. \A p \in 1..(Len(parts) - 1) : p \in 1..Len(parts)
    BY <1>1
  <2>. QED BY <1>1, <1>2, <1>3, <1>6, <2>1, <2>2 DEF Counted
<1>. QED BY <1>4, <1>5, <1>6

\* A packing other than ZipDirBase that returned no error has archived every
\* entry once with all of its data, although its errors occur in another
\* goroutine; or a part is broken: a file shrank while it was read, or a
\* deferred Close failed and nobody saw it (CompressAndUpload and the other
\* packers).
THEOREM CompleteCorrect == Spec => []Complete
<1>. QED BY CompleteHolds, BackgroundCorrect, PTL DEF BackgroundInv

LEMMA RoundTripHolds == ArchiveInv => RoundTrip
<1> SUFFICES ASSUME ArchiveInv, uret = "ok", form # "zipBase", ~(form \in Uploads /\ Raw),
                    ~AllLost, NEW e \in 1..Len(src)
             PROVE  dst[e] = Restored(e)
  BY DEF RoundTrip
<1>1. /\ ret = "ok" /\ upos > 0 /\ upart = Len(parts) /\ upos > Len(parts[upart]) /\ ~Broken(upart)
      /\ \A p \in 1..(upart - 1) : ~Broken(p)
      /\ dst[e] = IF Raw THEN [type |-> "file", size |-> Count(Data(e))] ELSE Unpacked(e)
  BY DEF ArchiveInv, ArchiveTypeOK, UnpackInv
<1>2. Len(parts) \in Nat \ {0} /\ parts \in Seq(Seq(Block)) /\ e < i /\ upos \in Nat
  BY <1>1, Returned DEF ArchiveInv, ArchiveTypeOK
<1>3. \A p \in 1..Len(parts) : ~Cut(p)
  <2>1. \A p \in 1..Len(parts) : ~Broken(p)
    BY <1>1, <1>2
  <2>. QED BY <1>1, <2>1, Closed DEF ArchiveInv
<1>4. Counted(e) /\ src[e].type \in Types
  BY SourceIs DEF ArchiveInv, PackInv
<1>5. ASSUME HasData(e) PROVE Count(Data(e)) = src[e].size
  <2>1. ~short
    BY <1>1, <1>3 DEF ArchiveInv, PackInv, Stages
  <2>2. \A p \in 1..(Len(parts) - 1) : p \in 1..Len(parts)
    BY <1>2
  <2>. QED BY <1>2, <1>3, <1>4, <1>5, <2>1, <2>2 DEF Counted
<1>6. ASSUME NEW x \in Positions(parts) PROVE x \in Done
  <2>1. PICK p \in 1..Len(parts) : \E q \in 1..Len(parts[p]) : x = <<p, q>>
    BY PositionIs
  <2>2. PICK q \in 1..Len(parts[p]) : x = <<p, q>>
    BY <2>1
  <2>3. parts[p] \in Seq(Block)
    BY <1>2
  <2>4. Len(parts[p]) \in Nat
    BY <2>3
  <2>5. p < upart \/ (p = upart /\ q < upos)
    BY <1>1, <1>2, <2>4
  <2>. QED BY <2>2, <2>5 DEF Done
<1>7. \A b : Seen(b) = Places(parts, b)
  BY <1>6 DEF Seen, Places
<1>8. CASE Raw
  <2>1. e = 1 /\ HasData(e)
    <3>1. Len(src) = 1 /\ src[1].type = "file"
      BY <1>8, SourceIs DEF Raw, ArchiveInv
    <3>. QED BY <3>1 DEF HasData
  <2>. QED BY <1>1, <1>5, <1>8, <2>1 DEF Restored
<1>9. CASE ~Raw
  <2>1. src[1].type = "dir" \/ form \notin Uploads
    BY <1>9, SourceIs DEF Raw, ArchiveInv
  <2>2. CASE e \notin Archived
    <3>1. Places(parts, Header(e)) = {} /\ form \in Zips /\ src[e].type = "dir"
      BY <1>4, <2>2 DEF Counted, Archived
    <3>2. dst[e] = Nothing
      BY <1>1, <1>7, <1>9, <3>1 DEF Unpacked
    <3>. QED BY <3>1, <3>2 DEF Restored, HasData
  <2>3. CASE e \in Archived /\ form \in Uploads /\ e = 1
    <3>1. dst[e] = Nothing
      BY <1>1, <1>9, <2>3 DEF Unpacked
    <3>. QED BY <2>1, <2>3, <3>1 DEF Restored, HasData, Uploads, Zips
  <2>4. CASE e \in Archived /\ ~(form \in Uploads /\ e = 1)
    <3>1. Places(parts, Header(e)) # {}
      BY <1>2, <1>4, <1>9, <2>4 DEF Counted
    <3>2. dst[e] = [type |-> IF Places(parts, Data(e)) = {} THEN Made(e) ELSE "file",
                    size |-> Count(Data(e))]
      BY <1>1, <1>7, <1>9, <2>4, <3>1 DEF Unpacked, Count
    <3>3. CASE HasData(e)
      <4>1. Made(e) = "file"
        BY <3>3 DEF Made, DownloadMakes, ZstdMakes, TarGzMakes, UnzipMakes, HasData, Uploads, Zips
      <4>. QED BY <1>5, <3>2, <3>3, <4>1 DEF Restored
    <3>4. CASE ~HasData(e)
      <4>1. Places(parts, Data(e)) = {} /\ Count(Data(e)) = 0
        BY <1>4, <3>4, FS_EmptySet DEF Counted, Count
      <4>2. form \notin Zips /\ src[e].type \in {"dir", "link"}
        BY <1>4, <2>4, <3>4 DEF HasData, Archived, Types
      <4>3. Made(e) = IF src[e].type = "link" /\ form \notin Uploads THEN "none" ELSE src[e].type
        BY <4>2 DEF Made, DownloadMakes, ZstdMakes, TarGzMakes, Uploads, Zips
      <4>. QED BY <2>4, <3>2, <3>4, <4>1, <4>2, <4>3 DEF Restored, Nothing
    <3>. QED BY <3>3, <3>4
  <2>. QED BY <2>2, <2>3, <2>4
<1>. QED BY <1>8, <1>9

\* What was packed and unpacked without an error comes back as it was, for
\* every source that is a file or a directory, also when a deferred Close lost
\* the end of a part (the packers and unpackers of filex).  Three cases are
\* left out: ZipDirBase, a single file that was uploaded, and a CompressZstd
\* of which nothing reached the file.
THEOREM RoundTripCorrect == Spec => []RoundTrip
<1>. QED BY RoundTripHolds, BackgroundCorrect, PTL DEF BackgroundInv

=============================================================================
