----------------------------- MODULE QueryProof -----------------------------
(***************************************************************************)
(* The parts of module Query are correct, for every number of rows and     *)
(* calls, every table, list, structure and form: the proofs of             *)
(* DistinctSorts, Adjacent, EveryColumn, AllOrAny, SheetRoundTrip and      *)
(* AllAsked.                                                               *)
(***************************************************************************)
EXTENDS Query, WellFoundedInduction, TLAPS

-----------------------------------------------------------------------------
(* The largest and the smallest of a set of numbers *)

\* A set of natural numbers has a smallest one.
LEMMA MinOfNats ==
  ASSUME NEW S, S \subseteq Nat, S # {}
  PROVE  /\ Min(S) \in S
         /\ \A n \in S : Min(S) <= n
<1>1. PICK m \in S : \A n \in S : <<n, m>> \notin OpToRel(<, Nat)
  BY WFMin, NatLessThanWellFounded
<1>2. \A n \in S : m <= n
  <2> SUFFICES ASSUME NEW n \in S PROVE m <= n OBVIOUS
  <2>1. ~(n < m)
    BY <1>1 DEF OpToRel
  <2> QED BY <2>1
<1> QED BY <1>2 DEF Min

\* One that is bounded has a largest one.
LEMMA MaxOfNats ==
  ASSUME NEW S, S \subseteq Nat, S # {}, NEW b \in Nat, \A n \in S : n <= b
  PROVE  /\ Max(S) \in S
         /\ \A n \in S : n <= Max(S)
<1> DEFINE T == {b - n : n \in S}
<1>1. T \subseteq Nat /\ T # {}
  <2>1. \A n \in S : b - n \in Nat
    <3> SUFFICES ASSUME NEW n \in S PROVE b - n \in Nat OBVIOUS
    <3>1. n \in Nat /\ n <= b OBVIOUS
    <3> QED BY <3>1
  <2> QED BY <2>1
<1>2. Min(T) \in T /\ \A n \in T : Min(T) <= n
  <2> HIDE DEF T
  <2> QED BY <1>1, MinOfNats
<1>3. PICK m \in S : \A n \in S : b - m <= b - n
  BY <1>2
<1>4. \A n \in S : m >= n
  BY <1>3
<1> QED BY <1>4 DEF Max

-----------------------------------------------------------------------------
(* Sort numbers *)

\* What a call that was not disturbed knows of the numbers s of the rows: it
\* has read the neighbours of its place, so nobody has the number that it is
\* going to store, and nobody is between it and its place.
Sound(s, q) ==
  /\ q.at = "max" => q.want = 0
  /\ q.at \in {"same", "prev", "next"} => q.want > 0
  /\ q.at = "next" =>
       /\ q.prev < q.want
       /\ \A j \in Rows : ~(q.prev < s[j] /\ s[j] < q.want)
  /\ q.at = "store" =>
       \A j \in Rows \ {q.id} :
         /\ s[j] > 0 => s[j] # q.new
         /\ q.want > 0 => /\ ~(q.new < s[j] /\ s[j] < q.want)
                          /\ ~(q.want < s[j] /\ s[j] < q.new)

\* There is a largest number.
Bounded == \E b \in Nat : \A i \in Rows : sort[i] <= b

SortInv ==
  /\ SortTypeOK
  /\ Bounded
  /\ DistinctSorts
  /\ \A c \in Sorters \ disturbed : Sound(sort, calc[c])

LEMMA SortInitInv == SortInit => SortInv
<1> SUFFICES ASSUME SortInit PROVE SortInv OBVIOUS
<1>1. SortTypeOK
  BY DEF SortInit, SortTypeOK
<1>2. Bounded
  <2>1. \A i \in Rows : sort[i] <= 0 BY DEF SortInit
  <2> QED BY <2>1 DEF Bounded
<1> QED BY <1>1, <1>2 DEF SortInit, SortInv, DistinctSorts, Sound

\* A step of one call that leaves the rows alone.
LEMMA SortFrame ==
  ASSUME SortInv, NEW c \in Sorters, NEW q \in Calculations,
         calc' = [calc EXCEPT ![c] = q],
         UNCHANGED <<sort, doubtful>>,
         disturbed' \in {disturbed, disturbed \cup {c}},
         c \notin disturbed' => Sound(sort, q)
  PROVE  SortInv'
<1>1. SortTypeOK'
  BY DEF SortInv, SortTypeOK
<1>2. Bounded' /\ DistinctSorts'
  BY DEF SortInv, Bounded, DistinctSorts
<1>3. ASSUME NEW d \in Sorters \ disturbed' PROVE Sound(sort, calc'[d])
  <2>1. CASE d = c
    BY <1>3, <2>1 DEF SortInv, SortTypeOK
  <2>2. CASE d # c
    <3>1. calc'[d] = calc[d] /\ d \notin disturbed BY <1>3, <2>2 DEF SortInv, SortTypeOK
    <3> QED BY <1>3, <3>1 DEF SortInv
  <2> QED BY <2>1, <2>2
<1> QED BY <1>1, <1>2, <1>3 DEF SortInv

\* A call that has begun has all its fields.
LEMMA CallTyped ==
  ASSUME SortTypeOK, NEW c \in Sorters, calc[c].at # "idle"
  PROVE  calc[c] \in Calculations
BY DEF SortTypeOK

LEMMA CalculateInv ==
  ASSUME SortInv, NEW c \in Sorters, NEW i \in Rows, NEW n \in 0..MaxSort, Calculate(c, i, n)
  PROVE  SortInv'
<1> DEFINE q == [at |-> IF n = 0 THEN "max" ELSE "same", id |-> i,
                 want |-> n, prev |-> 0, new |-> 0]
<1>1. q \in Calculations
  BY UnitAssumption DEF Calculations, CalcStages
<1>2. Sound(sort, q)
  BY UnitAssumption DEF Sound
<1>3. calc' = [calc EXCEPT ![c] = q] /\ UNCHANGED <<sort, doubtful, disturbed>>
  BY DEF Calculate
<1> HIDE DEF q
<1> QED BY <1>1, <1>2, <1>3, SortFrame

\* To fail, a call needs nothing.
LEMMA ErrorInv ==
  ASSUME SortInv, NEW c \in Sorters, calc[c].at # "idle",
         calc' = [calc EXCEPT ![c].at = "error"],
         UNCHANGED <<sort, disturbed, doubtful>>
  PROVE  SortInv'
<1> DEFINE q == [calc[c] EXCEPT !.at = "error"]
<1>1. q \in Calculations /\ q.at = "error"
  BY CallTyped DEF SortInv, Calculations, CalcStages
<1>2. Sound(sort, q)
  BY <1>1 DEF Sound
<1>3. calc' = [calc EXCEPT ![c] = q]
  BY DEF SortInv, SortTypeOK
<1> HIDE DEF q
<1> QED BY <1>1, <1>2, <1>3, SortFrame

LEMMA QueryMaxInv ==
  ASSUME SortInv, NEW c \in Sorters, QueryMax(c)
  PROVE  SortInv'
<1>0. calc[c].at = "max" /\ calc[c] \in Calculations
  BY CallTyped DEF SortInv, QueryMax
<1>1. Max(Sorts \cup {0}) \in Nat /\ \A j \in Rows : sort[j] <= Max(Sorts \cup {0})
  <2> DEFINE S == Sorts \cup {0}
  <2>1. PICK b \in Nat : \A i \in Rows : sort[i] <= b BY DEF SortInv, Bounded
  <2>2. S \subseteq Nat /\ S # {} /\ \A n \in S : n <= b
    BY <2>1 DEF SortInv, SortTypeOK, Sorts
  <2>3. \A j \in Rows : sort[j] \in S
    BY DEF Sorts
  <2> HIDE DEF S
  <2>4. Max(S) \in S /\ \A n \in S : n <= Max(S)
    BY <2>2, MaxOfNats
  <2> QED BY <2>2, <2>3, <2>4 DEF S
<1>2. CASE calc' = [calc EXCEPT ![c].at = "error"]
  BY <1>0, <1>2, ErrorInv DEF QueryMax
<1>3. CASE calc' = [calc EXCEPT ![c].at = "store", ![c].new = Max(Sorts \cup {0}) + Unit]
  <2> DEFINE m == Max(Sorts \cup {0})
             k == m + Unit
             q == [calc[c] EXCEPT !.at = "store", !.new = k]
  <2>1. k \in Nat /\ \A j \in Rows : sort[j] < k
    <3>1. m \in Nat /\ \A j \in Rows : sort[j] <= m BY <1>1
    <3> HIDE DEF m
    <3> QED BY <3>1, UnitAssumption DEF SortInv, SortTypeOK
  <2>3. calc' = [calc EXCEPT ![c] = q]
    BY <1>3 DEF SortInv, SortTypeOK
  <2> HIDE DEF k
  <2>2. q \in Calculations /\ q.at = "store" /\ q.new = k /\ q.want = calc[c].want
    BY <1>0, <2>1 DEF Calculations, CalcStages
  <2> HIDE DEF q
  <2>4. ASSUME c \notin disturbed PROVE Sound(sort, q)
    <3>1. q.want = 0
      BY <1>0, <2>2, <2>4 DEF SortInv, Sound
    <3>2. \A j \in Rows : sort[j] # q.new
      BY <2>1, <2>2 DEF SortInv, SortTypeOK
    <3> QED BY <2>2, <3>1, <3>2 DEF Sound
  <2>5. UNCHANGED <<sort, disturbed, doubtful>>
    BY DEF QueryMax
  <2> QED BY <2>2, <2>3, <2>4, <2>5, SortFrame
<1> QED BY <1>2, <1>3 DEF QueryMax

LEMMA QuerySameInv ==
  ASSUME SortInv, NEW c \in Sorters, QuerySame(c)
  PROVE  SortInv'
<1>0. calc[c].at = "same" /\ calc[c] \in Calculations
  BY CallTyped DEF SortInv, QuerySame
<1>1. CASE calc' = [calc EXCEPT ![c].at = "prev"] /\ UNCHANGED <<sort, disturbed, doubtful>>
  <2> DEFINE q == [calc[c] EXCEPT !.at = "prev"]
  <2>1. q \in Calculations /\ q.at = "prev" /\ q.want = calc[c].want
    BY <1>0 DEF Calculations, CalcStages
  <2>2. calc' = [calc EXCEPT ![c] = q]
    BY <1>1 DEF SortInv, SortTypeOK
  <2> HIDE DEF q
  <2>3. ASSUME c \notin disturbed PROVE Sound(sort, q)
    BY <1>0, <2>1, <2>3 DEF SortInv, Sound
  <2> QED BY <1>1, <2>1, <2>2, <2>3, SortFrame
<1>2. CASE /\ calc' = [calc EXCEPT ![c].at = "store", ![c].new = calc[c].want]
           /\ disturbed' = IF \E i \in Rows \ {calc[c].id} : sort[i] = calc[c].want
                           THEN disturbed \cup {c} ELSE disturbed
           /\ UNCHANGED <<sort, doubtful>>
  <2> DEFINE q == [calc[c] EXCEPT !.at = "store", !.new = calc[c].want]
  <2>1. /\ q \in Calculations /\ q.at = "store" /\ q.want = calc[c].want /\ q.new = calc[c].want
        /\ q.id = calc[c].id
    BY <1>0 DEF Calculations, CalcStages
  <2>2. calc' = [calc EXCEPT ![c] = q]
    BY <1>2 DEF SortInv, SortTypeOK
  <2> HIDE DEF q
  <2>3. ASSUME c \notin disturbed' PROVE Sound(sort, q)
    <3>1. \A j \in Rows \ {q.id} : sort[j] # q.want
      BY <1>2, <2>1, <2>3
    <3>2. q.want \in Nat /\ \A j \in Rows : sort[j] \in Nat
      BY <2>1 DEF Calculations, SortInv, SortTypeOK
    <3> QED BY <2>1, <3>1, <3>2 DEF Sound
  <2>4. disturbed' \in {disturbed, disturbed \cup {c}}
    BY <1>2
  <2> QED BY <1>2, <2>1, <2>2, <2>3, <2>4, SortFrame
<1> QED BY <1>1, <1>2 DEF QuerySame

\* The number before a place is a number, smaller than it, and nobody is
\* between them.
LEMMA BeforeIs ==
  ASSUME SortTypeOK, NEW s \in Nat
  PROVE  /\ Before(s) \in Nat
         /\ s > 0 => Before(s) < s
         /\ \A j \in Rows : ~(Before(s) < sort[j] /\ sort[j] < s)
<1> DEFINE S == {n \in Sorts : n < s} \cup {0}
<1>1. S \subseteq Nat /\ S # {} /\ \A n \in S : n <= s /\ (s > 0 => n < s)
  BY DEF SortTypeOK, Sorts
<1>2. \A j \in Rows : sort[j] < s => sort[j] \in S
  BY DEF Sorts
<1>3. Before(s) = Max(S)
  BY DEF Before
<1> HIDE DEF S
<1>4. Max(S) \in S /\ \A n \in S : n <= Max(S)
  BY <1>1, MaxOfNats
<1>5. ASSUME NEW j \in Rows, sort[j] < s PROVE sort[j] <= Before(s)
  BY <1>2, <1>3, <1>4, <1>5
<1>6. Before(s) \in Nat /\ (s > 0 => Before(s) < s)
  BY <1>1, <1>3, <1>4
<1> QED BY <1>5, <1>6 DEF SortTypeOK

\* The number after a place is 0 only if nobody is behind it.
LEMMA AfterIs ==
  ASSUME SortTypeOK, NEW s \in Nat
  PROVE  /\ After(s) \in Nat
         /\ After(s) = 0 => \A j \in Rows : sort[j] <= s
<1> DEFINE S == {n \in Sorts : n > s}
<1>1. CASE \E n \in Sorts : n > s
  <2>1. S \subseteq Nat /\ S # {} /\ \A n \in S : n > s
    BY <1>1 DEF SortTypeOK, Sorts
  <2>2. After(s) = Min(S)
    BY <1>1 DEF After
  <2> HIDE DEF S
  <2>3. Min(S) \in S
    BY <2>1, MinOfNats
  <2>4. After(s) \in Nat /\ After(s) > s
    BY <2>1, <2>2, <2>3
  <2> QED BY <2>4
<1>2. CASE ~\E n \in Sorts : n > s
  <2>1. After(s) = 0
    BY <1>2 DEF After
  <2>2. \A j \in Rows : sort[j] <= s
    BY <1>2 DEF SortTypeOK, Sorts
  <2> QED BY <2>1, <2>2
<1> QED BY <1>1, <1>2

LEMMA QueryPrevInv ==
  ASSUME SortInv, NEW c \in Sorters, QueryPrev(c)
  PROVE  SortInv'
<1>0. calc[c].at = "prev" /\ calc[c] \in Calculations
  BY CallTyped DEF SortInv, QueryPrev
<1>1. PICK n \in {Before(calc[c].want), 0} :
        /\ calc' = [calc EXCEPT ![c].at = "next", ![c].prev = n]
        /\ disturbed' = IF n = Before(calc[c].want) THEN disturbed ELSE disturbed \cup {c}
  BY DEF QueryPrev
<1> DEFINE q == [calc[c] EXCEPT !.at = "next", !.prev = n]
<1>2. calc' = [calc EXCEPT ![c] = q]
  BY <1>1 DEF SortInv, SortTypeOK
<1>3. disturbed' \in {disturbed, disturbed \cup {c}} /\ UNCHANGED <<sort, doubtful>>
  BY <1>1 DEF QueryPrev
<1>4. n \in Nat
  BY <1>0, <1>1, BeforeIs DEF SortInv, Calculations
<1>5. q \in Calculations /\ q.at = "next" /\ q.want = calc[c].want /\ q.prev = n
  BY <1>0, <1>4 DEF Calculations, CalcStages
<1> HIDE DEF q
<1>6. ASSUME c \notin disturbed' PROVE Sound(sort, q)
  <2>1. n = Before(q.want) /\ c \notin disturbed
    BY <1>1, <1>5, <1>6
  <2>2. q.want > 0
    BY <1>0, <1>5, <2>1 DEF SortInv, Sound
  <2>3. q.want \in Nat
    BY <1>5 DEF Calculations
  <2> QED BY <1>5, <2>1, <2>2, <2>3, BeforeIs DEF SortInv, Sound
<1> QED BY <1>2, <1>3, <1>5, <1>6, SortFrame

LEMMA QueryNextInv ==
  ASSUME SortInv, NEW c \in Sorters, QueryNext(c)
  PROVE  SortInv'
<1>0. calc[c].at = "next" /\ calc[c] \in Calculations
  BY CallTyped DEF SortInv, QueryNext
<1> DEFINE prev == calc[c].prev
           want == calc[c].want
<1>1. PICK next \in {After(want), 0} : LET new == NewSort(prev, want, next) IN
        /\ calc' = [calc EXCEPT ![c] = [calc[c] EXCEPT !.at = "store", !.prev = 0, !.new = new]]
        /\ disturbed' = IF next = After(want) /\ new \notin {prev, want} THEN disturbed
                        ELSE disturbed \cup {c}
  BY DEF QueryNext
<1> DEFINE new == NewSort(prev, want, next)
           q == [calc[c] EXCEPT !.at = "store", !.prev = 0, !.new = new]
<1>2. prev \in Nat /\ want \in Nat
  BY <1>0 DEF Calculations
<1>3. next \in Nat
  BY <1>1, <1>2, AfterIs DEF SortInv
<1>4. /\ prev > 0 /\ next > 0 => new = (prev + want) \div 2
      /\ prev > 0 /\ next = 0 => new = want + Unit
      /\ prev = 0 => new = want \div 2
  BY <1>2, <1>3 DEF NewSort
<1>5. calc' = [calc EXCEPT ![c] = q]
  BY <1>1
<1>6. /\ disturbed' \in {disturbed, disturbed \cup {c}}
      /\ UNCHANGED <<sort, doubtful>>
  BY <1>1 DEF QueryNext
<1>7. ASSUME c \notin disturbed'
      PROVE  c \notin disturbed /\ next = After(want) /\ new # prev /\ new # want
  BY <1>1, <1>7
<1>8. ASSUME c \notin disturbed
      PROVE  /\ want > 0 /\ prev < want
             /\ \A j \in Rows : ~(prev < sort[j] /\ sort[j] < want)
  BY <1>0, <1>8 DEF SortInv, Sound
<1> HIDE DEF new
<1>9. new \in Nat
  BY <1>2, <1>3, <1>4, UnitAssumption
<1>10. /\ q \in Calculations /\ q.at = "store" /\ q.want = want /\ q.new = new
  BY <1>0, <1>9 DEF Calculations, CalcStages
<1> HIDE DEF q, prev, want
<1>11. ASSUME c \notin disturbed' PROVE Sound(sort, q)
  <2>1. new # prev /\ new # want
    BY <1>7, <1>11
  <2>2. /\ want > 0 /\ prev < want
        /\ \A j \in Rows : ~(prev < sort[j] /\ sort[j] < want)
        /\ next = 0 => \A j \in Rows : sort[j] <= want
    BY <1>2, <1>7, <1>8, <1>11, AfterIs DEF SortInv
  <2>3. \A j \in Rows : sort[j] \in Nat
    BY DEF SortInv, SortTypeOK
  <2>4. CASE prev > 0 /\ next = 0
    <3>1. new > want /\ \A j \in Rows : sort[j] <= want
      BY <1>2, <1>4, <2>2, <2>4, UnitAssumption
    <3> QED BY <1>2, <1>9, <1>10, <2>3, <3>1 DEF Sound
  <2>5. CASE ~(prev > 0 /\ next = 0)
    <3>1. new = (prev + want) \div 2
      BY <1>2, <1>3, <1>4, <2>5
    <3>2. prev < new /\ new < want
      BY <1>2, <2>1, <2>2, <3>1
    <3> QED BY <1>2, <1>9, <1>10, <2>2, <2>3, <3>2 DEF Sound
  <2> QED BY <2>4, <2>5
<1> QED BY <1>5, <1>6, <1>10, <1>11, SortFrame

\* What is stored is a number that nobody else has, unless the call was
\* disturbed; the calls that run are disturbed now.
LEMMA StoreInv ==
  ASSUME SortInv, NEW c \in Sorters, Store(c)
  PROVE  SortInv'
<1> DEFINE id == calc[c].id
           new == calc[c].new
<1>0. calc[c].at = "store" /\ id \in Rows /\ new \in Nat
  BY CallTyped DEF SortInv, Store, Calculations
<1>1. /\ sort' = [sort EXCEPT ![id] = new]
      /\ calc' = [calc EXCEPT ![c] = [at |-> "idle"]]
      /\ disturbed' = (disturbed \cup Calculating) \ {c}
      /\ doubtful' = IF c \in disturbed THEN doubtful \cup {id} ELSE doubtful \ {id}
  BY DEF Store
<1>2. \A j \in Rows : sort'[j] = IF j = id THEN new ELSE sort[j]
  BY <1>1 DEF SortInv, SortTypeOK
<1>3. \A d \in Sorters : calc'[d] = IF d = c THEN [at |-> "idle"] ELSE calc[d]
  BY <1>1 DEF SortInv, SortTypeOK
<1>4. ASSUME c \notin disturbed
      PROVE  \A j \in Rows \ {id} : sort[j] > 0 => sort[j] # new
  BY <1>0, <1>4 DEF SortInv, Sound
<1> HIDE DEF id, new
<1>5. SortTypeOK'
  BY <1>0, <1>1 DEF SortInv, SortTypeOK, Calculating
<1>6. Bounded'
  <2>1. PICK b \in Nat : \A i \in Rows : sort[i] <= b BY DEF SortInv, Bounded
  <2>2. \A i \in Rows : sort'[i] \in Nat /\ sort'[i] <= b + new
    BY <1>0, <1>2, <2>1 DEF SortInv, SortTypeOK
  <2>3. b + new \in Nat BY <1>0
  <2> QED BY <2>2, <2>3 DEF Bounded
<1>7. DistinctSorts'
  <2> SUFFICES ASSUME NEW i \in Rows, NEW j \in Rows, i # j,
                      sort'[i] = sort'[j], sort'[i] > 0
               PROVE  i \in doubtful' \/ j \in doubtful'
    BY DEF DistinctSorts
  <2>1. CASE i # id /\ j # id
    BY <1>1, <1>2, <2>1 DEF SortInv, DistinctSorts
  <2>2. CASE i = id \/ j = id
    BY <1>1, <1>2, <1>4, <2>2
  <2> QED BY <2>1, <2>2
<1>8. \A d \in Sorters \ disturbed' : Sound(sort', calc'[d])
  <2> SUFFICES ASSUME NEW d \in Sorters \ disturbed' PROVE calc'[d].at = "idle"
    BY DEF Sound
  <2> QED BY <1>1, <1>3 DEF Calculating
<1> QED BY <1>5, <1>6, <1>7, <1>8 DEF SortInv

LEMMA GiveUpInv ==
  ASSUME SortInv, NEW c \in Sorters, GiveUp(c)
  PROVE  SortInv'
<1>1. \A d \in Sorters : calc'[d] = IF d = c THEN [at |-> "idle"] ELSE calc[d]
  BY DEF GiveUp, SortInv, SortTypeOK
<1>2. SortTypeOK'
  BY DEF GiveUp, SortInv, SortTypeOK
<1>3. Bounded' /\ DistinctSorts'
  BY DEF GiveUp, SortInv, Bounded, DistinctSorts
<1>4. \A d \in Sorters \ disturbed' : Sound(sort', calc'[d])
  <2> SUFFICES ASSUME NEW d \in Sorters \ disturbed' PROVE Sound(sort', calc'[d])
    OBVIOUS
  <2>1. CASE d = c
    BY <1>1, <2>1 DEF Sound
  <2>2. CASE d # c
    BY <1>1, <2>2 DEF GiveUp, SortInv
  <2> QED BY <2>1, <2>2
<1> QED BY <1>2, <1>3, <1>4 DEF SortInv

\* A row less disturbs nobody.
LEMMA DeleteInv ==
  ASSUME SortInv, NEW i \in Rows, Delete(i)
  PROVE  SortInv'
<1>1. \A j \in Rows : sort'[j] = IF j = i THEN 0 ELSE sort[j]
  BY DEF Delete, SortInv, SortTypeOK
<1>2. SortTypeOK'
  BY DEF Delete, SortInv, SortTypeOK
<1>3. Bounded'
  BY <1>1 DEF SortInv, Bounded
<1>4. DistinctSorts'
  BY <1>1 DEF Delete, SortInv, DistinctSorts
<1>5. \A d \in Sorters \ disturbed' : Sound(sort', calc'[d])
  <2> SUFFICES ASSUME NEW d \in Sorters \ disturbed PROVE Sound(sort', calc[d])
    BY DEF Delete
  <2>1. Sound(sort, calc[d])
    BY DEF SortInv
  <2>2. CASE calc[d].at = "idle"
    BY <2>2 DEF Sound
  <2>3. CASE calc[d].at # "idle"
    <3>1. calc[d] \in Calculations BY <2>3, CallTyped DEF SortInv
    <3>2. calc[d].prev \in Nat /\ calc[d].want \in Nat /\ calc[d].new \in Nat
      BY <3>1 DEF Calculations
    <3>3. \A j \in Rows : sort[j] \in Nat BY DEF SortInv, SortTypeOK
    <3> QED BY <1>1, <2>1, <3>2, <3>3 DEF Sound
  <2> QED BY <2>2, <2>3
<1> QED BY <1>2, <1>3, <1>4, <1>5 DEF SortInv

\* Every step keeps the invariant.
LEMMA SortStep ==
  ASSUME SortInv, SortNext
  PROVE  SortInv'
<1>1. ASSUME NEW c \in Sorters, NEW i \in Rows, NEW n \in 0..MaxSort, Calculate(c, i, n)
      PROVE  SortInv'
  BY <1>1, CalculateInv
<1>2. ASSUME NEW c \in Sorters,
             \/ QueryMax(c) \/ QuerySame(c) \/ QueryPrev(c) \/ QueryNext(c)
             \/ Store(c) \/ GiveUp(c)
      PROVE  SortInv'
  BY <1>2, QueryMaxInv, QuerySameInv, QueryPrevInv, QueryNextInv, StoreInv, GiveUpInv
<1>3. ASSUME NEW i \in Rows, Delete(i) PROVE SortInv'
  BY <1>3, DeleteInv
<1> QED BY <1>1, <1>2, <1>3 DEF SortNext

\* What a call is about to store is next to its place, unless it was disturbed.
LEMMA SortSound ==
  ASSUME SortInv, NEW c \in Sorters, calc[c].at = "store", calc[c].want > 0, c \notin disturbed
  PROVE  \A j \in Rows \ {calc[c].id} :
           /\ ~(calc[c].new < sort[j] /\ sort[j] < calc[c].want)
           /\ ~(calc[c].want < sort[j] /\ sort[j] < calc[c].new)
BY DEF SortInv, Sound

-----------------------------------------------------------------------------
(* The code generator *)

\* What the list has to have of the rows that were asked for already: the
\* column, and its indexes as far as the database keeps them; and nothing that
\* was never there.
Listed ==
  /\ \A f \in reply \ left : f.name \notin skipped => \E e \in list : e.of.name = f.name
  /\ \A i \in (steady \cap Indexes) \ (skipped \cup rowid) :
       /\ \E f \in reply \ left : f.name = i.on
       /\ service = "mysql" \/ (i.on \notin skipped /\ (i.primary \/ service = "sqlite"))
       => \E e \in list : e.of.name = i.on /\ e.index = i
  /\ \A e \in list : e.of.name \in existed \cup elsewhere /\ e.index \in existed \cup {NoIndex}
  /\ ask = "nil" /\ service = "postgres" =>
       \A e, o \in list : e.of.name = o.of.name =>
         e.index = o.index /\ (e = o \/ e.of.name \in elsewhere)

\* What the reply has to have: the columns that were there all the time, and
\* none that was never there; one row for each, unless two tables have it.
Replied ==
  /\ \A c \in steady \cap TableColumns : \E f \in reply : f.name = c
  /\ \A f \in reply : f.name \in existed \cup elsewhere /\ (f.row = 1 \/ f.name \in elsewhere)

\* Columns and indexes that were there all the time are there still, and what
\* is there has existed.
Steady ==
  /\ steady \subseteq column \cup index /\ column \cup index \subseteq existed
  /\ \A i \in index : i.on \in column
  /\ \A i \in steady \cap Indexes : i.on \in steady

GenInv ==
  /\ GenTypeOK
  /\ Steady
  /\ ask \in {"none", "columns"} => reply = {} /\ list = {}
  /\ ask \in {"indexes", "nil"} => Replied /\ Listed
  /\ ask = "indexes" /\ service = "postgres" => left = reply
  /\ ask = "nil" => left = {}

LEMMA GenInitInv == GenInit => GenInv
<1> SUFFICES ASSUME GenInit PROVE GenInv OBVIOUS
<1>1. GenTypeOK
  BY IndexAssumption DEF GenInit, GenTypeOK, Drivers
<1> QED BY <1>1 DEF GenInit, GenInv, Steady

\* The last row asked for: nothing is left out.
LEMMA GenInvImplies == GenInv => EveryColumn
<1> SUFFICES ASSUME GenInv, ask = "nil" PROVE EveryColumn
  BY DEF EveryColumn
<1>1. left = {} /\ Replied /\ Listed
  BY DEF GenInv
<1>2. ASSUME NEW c \in (steady \cap TableColumns) \ skipped
      PROVE  \E e \in list : e.of.name = c
  <2>1. PICK f \in reply : f.name = c
    BY <1>1 DEF Replied
  <2> QED BY <1>1, <2>1 DEF Listed
<1>3. ASSUME NEW i \in (steady \cap Indexes) \ (skipped \cup rowid),
             (i.primary /\ i.on \notin skipped) \/ service = "mysql"
      PROVE  \E e \in list : e.of.name = i.on /\ e.index = i
  <2>1. i.on \in steady \cap TableColumns
    BY IndexAssumption DEF GenInv, Steady
  <2>2. \E f \in reply \ left : f.name = i.on
    BY <1>1, <2>1 DEF Replied
  <2> QED BY <1>1, <1>3, <2>2 DEF Listed
<1> QED BY <1>1, <1>2, <1>3 DEF EveryColumn, Listed

LEMMA NewServiceInv == ASSUME GenInv, NewService PROVE GenInv'
<1>1. GenTypeOK'
  <2>1. /\ column' \in SUBSET TableColumns /\ index' \in SUBSET Indexes
        /\ driver' \in Drivers /\ service' \in Drivers /\ ask' = "columns"
        /\ steady' = column' \cup index' /\ existed' = steady'
    BY DEF NewService, ByDB, ByConfig, Drivers
  <2>2. elsewhere' \subseteq TableColumns
    BY DEF NewService
  <2>3. rowid' \subseteq Indexes
    BY DEF NewService
  <2>4. UNCHANGED <<reply, left, list, skipped, changes>>
    BY DEF NewService
  <2> QED BY <2>1, <2>2, <2>3, <2>4 DEF GenInv, GenTypeOK
<1>2. Steady'
  BY IndexAssumption DEF NewService, Steady
<1>3. ask' = "columns" /\ reply' = {} /\ list' = {}
  BY DEF NewService, GenInv
<1> QED BY <1>1, <1>2, <1>3 DEF GenInv

\* What others change makes less steady, and more existed.
LEMMA ChangeInv == ASSUME GenInv, Change PROVE GenInv'
<1>1. /\ steady' = steady \cap (column' \cup index') /\ UNCHANGED asked
      /\ existed' = existed \cup column' \cup index' /\ changes' \in 0..MaxChanges
  BY IndexAssumption DEF Change, GenInv, GenTypeOK
<1>2. /\ column' \subseteq TableColumns /\ index' \subseteq Indexes
      /\ \A i \in index' : i.on \in column'
  BY IndexAssumption DEF Change, GenInv, GenTypeOK, Steady
<1>3. GenTypeOK'
  <2>1. steady' \subseteq existed' /\ existed' \subseteq TableColumns \cup Indexes
    BY <1>1, <1>2 DEF GenInv, GenTypeOK
  <2> QED BY <1>1, <1>2, <2>1 DEF GenInv, GenTypeOK, asked
<1>4. Steady'
  <2>1. \A i \in steady' \cap Indexes : i \in index'
    BY <1>1, <1>2, IndexAssumption DEF GenInv, GenTypeOK
  <2> QED BY <1>1, <1>2, <2>1 DEF GenInv, Steady
<1>5. /\ ask' = ask /\ left' = left /\ reply' = reply /\ list' = list /\ service' = service
      /\ skipped' = skipped /\ rowid' = rowid /\ elsewhere' = elsewhere
      /\ steady' \subseteq steady /\ existed \subseteq existed'
  BY <1>1 DEF asked
<1>6. Listed => Listed'
  <2> SUFFICES ASSUME Listed PROVE Listed' OBVIOUS
  <2>1. \A f \in reply' \ left' : f.name \notin skipped' => \E e \in list' : e.of.name = f.name
    BY <1>5 DEF Listed
  <2>2. \A i \in (steady' \cap Indexes) \ (skipped' \cup rowid') :
          /\ \E f \in reply' \ left' : f.name = i.on
          /\ service' = "mysql" \/ (i.on \notin skipped' /\ (i.primary \/ service' = "sqlite"))
          => \E e \in list' : e.of.name = i.on /\ e.index = i
    BY <1>5 DEF Listed
  <2>3. \A e \in list' : e.of.name \in existed' \cup elsewhere' /\ e.index \in existed' \cup {NoIndex}
    BY <1>5 DEF Listed
  <2> QED BY <1>5, <2>1, <2>2, <2>3 DEF Listed
<1>7. Replied => Replied'
  BY <1>5 DEF Replied
<1> QED BY <1>3, <1>4, <1>5, <1>6, <1>7 DEF GenInv

\* A step of the call leaves the table alone.
LEMMA SteadyFrame == ASSUME Steady, UNCHANGED tableVars PROVE Steady'
BY DEF Steady, tableVars

LEMMA QueryFailsInv == ASSUME GenInv, QueryFails PROVE GenInv'
<1>1. GenTypeOK' /\ ask' = "error"
  BY DEF QueryFails, GenInv, GenTypeOK, tableVars
<1>2. Steady'
  BY SteadyFrame DEF GenInv, QueryFails
<1> QED BY <1>1, <1>2 DEF GenInv

\* What Postgres finds, or any other database, where no other table is.
LEMMA FoundIs ==
  ASSUME GenTypeOK
  PROVE  /\ Found \subseteq FoundRows
         /\ \A c \in column : \E f \in Found : f.name = c
         /\ \A f \in Found : /\ f.name \in column \cup elsewhere
                             /\ f.row = 1 \/ f.name \in elsewhere
<1>1. ASSUME NEW c \in column PROVE \E f \in Found : f.name = c
  <2> DEFINE f == [name |-> c, row |-> 1]
  <2>1. f \in FoundRows /\ f.name = c /\ f.row = 1
    BY DEF GenTypeOK, FoundRows
  <2> QED BY <1>1, <2>1 DEF Found
<1> QED BY <1>1 DEF Found

LEMMA AskColumnsInv == ASSUME GenInv, AskColumns PROVE GenInv'
<1>1. /\ reply' = Found /\ left' = Found /\ UNCHANGED <<tableVars, list, skipped>>
      /\ ask' \in {"nil", "indexes"}
      /\ ask' = "nil" => Found = {} /\ service # "postgres"
  BY DEF AskColumns
<1>2. list = {}
  BY DEF GenInv, AskColumns
<1>3. GenTypeOK'
  <2>1. Found \subseteq FoundRows
    BY FoundIs DEF GenInv
  <2> QED BY <1>1, <1>2, <2>1 DEF GenInv, GenTypeOK, tableVars
<1>4. Steady'
  BY <1>1, SteadyFrame DEF GenInv
<1>5. Replied'
  <2>1. \A c \in steady \cap TableColumns : c \in column
    BY IndexAssumption DEF GenInv, GenTypeOK, Steady
  <2>2. /\ \A c \in column : \E f \in Found : f.name = c
        /\ \A f \in Found : /\ f.name \in column \cup elsewhere
                            /\ f.row = 1 \/ f.name \in elsewhere
    BY FoundIs DEF GenInv
  <2>3. column \subseteq existed
    BY DEF GenInv, Steady
  <2>4. steady' = steady /\ existed' = existed /\ elsewhere' = elsewhere
    BY <1>1 DEF tableVars
  <2> QED BY <1>1, <2>1, <2>2, <2>3, <2>4 DEF Replied
<1>6. Listed'
  BY <1>1, <1>2 DEF Listed, tableVars
<1> QED BY <1>1, <1>3, <1>4, <1>5, <1>6 DEF GenInv, tableVars

\* A row has an entry at least, and one for every index found.
LEMMA EntriesAre ==
  ASSUME NEW f \in FoundRows, NEW found \in SUBSET Indexes
  PROVE  /\ Described(f, found) \subseteq [of : {f}, index : found \cup {NoIndex}]
         /\ \E e \in Described(f, found) : e.of = f
         /\ \A i \in found : \E e \in Described(f, found) : e.of = f /\ e.index = i
<1>1. CASE found = {}
  <2>1. Described(f, found) = {[of |-> f, index |-> NoIndex]}
    BY <1>1 DEF Described
  <2>2. [of |-> f, index |-> NoIndex].of = f
    OBVIOUS
  <2>3. \E e \in Described(f, found) : e.of = f
    BY <2>1, <2>2
  <2> QED BY <1>1, <2>1, <2>3
<1>2. CASE found # {}
  <2>1. Described(f, found) = {[of |-> f, index |-> i] : i \in found}
    BY <1>2 DEF Described
  <2>2. ASSUME NEW i \in found PROVE \E e \in Described(f, found) : e.of = f /\ e.index = i
    <3>1. [of |-> f, index |-> i] \in Described(f, found) BY <2>1
    <3>2. [of |-> f, index |-> i].of = f /\ [of |-> f, index |-> i].index = i OBVIOUS
    <3> QED BY <3>1, <3>2
  <2>3. \E e \in Described(f, found) : e.of = f
    BY <1>2, <2>2
  <2> QED BY <2>1, <2>2, <2>3
<1> QED BY <1>1, <1>2

\* The next row is in the list, with entries for what was found.
LEMMA AddsInv ==
  ASSUME GenInv, NEW f \in left, NEW entries, Adds(f, entries),
         ask = "indexes", service # "postgres", skipped \subseteq skipped',
         skipped' \subseteq TableColumns \cup Indexes,
         entries \subseteq [of : {f}, index : index \cup {NoIndex}],
         f.name \notin skipped' => \E e \in entries : e.of = f,
         \A i \in IndexesOf(f.name) \ (skipped' \cup rowid) :
           service = "mysql" \/ f.name \notin skipped' =>
             \E e \in entries : e.of = f /\ e.index = i
  PROVE  GenInv'
<1>1. /\ list' = list \cup entries /\ left' = left \ {f} /\ UNCHANGED <<tableVars, reply>>
      /\ ask' = IF left = {f} THEN "nil" ELSE "indexes"
  BY DEF Adds
<1>2. /\ UNCHANGED <<column, elsewhere, index, rowid, driver, service, steady, existed, changes>>
  BY <1>1 DEF tableVars
<1>3. f \in reply /\ f \in FoundRows /\ index \subseteq Indexes
  BY DEF GenInv, GenTypeOK
<1>4. GenTypeOK'
  <2>1. entries \subseteq [of : reply, index : Indexes \cup {NoIndex}]
    BY <1>3
  <2>2. list' \subseteq [of : reply', index : Indexes \cup {NoIndex}]
    BY <1>1, <2>1 DEF GenInv, GenTypeOK
  <2> QED BY <1>1, <1>2, <2>2 DEF GenInv, GenTypeOK
<1>5. Steady'
  BY <1>1, SteadyFrame DEF GenInv
<1>6. Replied'
  BY <1>1, <1>2 DEF GenInv, Replied
<1>7. Listed'
  <2>0. Listed /\ reply' \ left' \subseteq (reply \ left) \cup {f}
    BY <1>1 DEF GenInv
  <2>1. ASSUME NEW g \in reply' \ left', g.name \notin skipped'
        PROVE  \E e \in list' : e.of.name = g.name
    <3>1. CASE g = f
      BY <1>1, <2>1, <3>1
    <3>2. CASE g # f
      BY <1>1, <2>0, <2>1, <3>2 DEF Listed
    <3> QED BY <3>1, <3>2
  <2>2. ASSUME NEW i \in (steady' \cap Indexes) \ (skipped' \cup rowid'),
               NEW g \in reply' \ left', g.name = i.on,
               service' = "mysql" \/ (i.on \notin skipped' /\ (i.primary \/ service' = "sqlite"))
        PROVE  \E e \in list' : e.of.name = i.on /\ e.index = i
    <3>1. CASE g = f
      <4>1. i \in IndexesOf(f.name)
        BY <1>2, <2>2, <3>1, IndexAssumption DEF IndexesOf, GenInv, GenTypeOK, Steady
      <4>2. PICK e \in entries : e.of = f /\ e.index = i
        BY <1>2, <2>2, <3>1, <4>1
      <4> QED BY <1>1, <2>2, <3>1, <4>2
    <3>2. CASE g # f
      <4>1. /\ i \in (steady \cap Indexes) \ (skipped \cup rowid)
            /\ g \in reply \ left
        BY <1>2, <2>0, <2>2, <3>2
      <4>2. service = "mysql" \/ (i.on \notin skipped /\ (i.primary \/ service = "sqlite"))
        BY <1>2, <2>2
      <4>3. \E e \in list : e.of.name = i.on /\ e.index = i
        BY <2>0, <2>2, <4>1, <4>2 DEF Listed
      <4> QED BY <1>1, <4>3
    <3> QED BY <3>1, <3>2
  <2>3. \A e \in list' : e.of.name \in existed' \cup elsewhere' /\ e.index \in existed' \cup {NoIndex}
    <3>1. f.name \in existed \cup elsewhere /\ index \subseteq existed
      BY <1>3 DEF GenInv, Replied, Steady
    <3>2. \A e \in entries : e.of = f /\ e.index \in index \cup {NoIndex}
      OBVIOUS
    <3> QED BY <1>1, <1>2, <2>0, <3>1, <3>2 DEF Listed
  <2>4. service' # "postgres"
    BY <1>2
  <2> QED BY <2>1, <2>2, <2>3, <2>4 DEF Listed
<1>8. ask' \in {"nil", "indexes"} /\ (ask' = "nil" => left' = {}) /\ service' # "postgres"
  BY <1>1, <1>2
<1> QED BY <1>4, <1>5, <1>6, <1>7, <1>8 DEF GenInv

LEMMA IndexesAre ==
  ASSUME GenInv, NEW c
  PROVE  IndexesOf(c) \in SUBSET index /\ IndexesOf(c) \in SUBSET Indexes
BY DEF GenInv, GenTypeOK, IndexesOf

LEMMA MysqlIndexInv ==
  ASSUME GenInv, NEW f \in left, MysqlIndex(f)
  PROVE  GenInv'
<1> DEFINE entries == Described(f, IndexesOf(f.name))
<1>1. /\ ask = "indexes" /\ service = "mysql" /\ f \in left
      /\ Adds(f, entries) /\ skipped' = skipped
  BY DEF MysqlIndex
<1>2. /\ entries \subseteq [of : {f}, index : index \cup {NoIndex}]
      /\ \E e \in entries : e.of = f
      /\ \A i \in IndexesOf(f.name) : \E e \in entries : e.of = f /\ e.index = i
  <2>1. f \in FoundRows /\ IndexesOf(f.name) \in SUBSET index /\ IndexesOf(f.name) \in SUBSET Indexes
    BY IndexesAre DEF GenInv, GenTypeOK
  <2> QED BY <2>1, EntriesAre
<1> HIDE DEF entries
<1>3. skipped \subseteq TableColumns \cup Indexes
  BY DEF GenInv, GenTypeOK
<1> QED BY <1>1, <1>2, <1>3, AddsInv

LEMMA SqliteIndexInv ==
  ASSUME GenInv, NEW f \in left, SqliteIndex(f)
  PROVE  GenInv'
<1> DEFINE listed == IndexesOf(f.name) \ rowid
<1>1. /\ ask = "indexes" /\ service = "sqlite" /\ f \in FoundRows /\ f.name \in TableColumns
      /\ skipped \subseteq TableColumns \cup Indexes
  BY DEF SqliteIndex, GenInv, GenTypeOK, FoundRows
<1>2. IndexesOf(f.name) \in SUBSET index /\ IndexesOf(f.name) \in SUBSET Indexes
  BY IndexesAre
<1>3. ASSUME NEW found \in SUBSET listed, Adds(f, Described(f, found)),
             skipped' = skipped \cup (listed \ found)
      PROVE  GenInv'
  <2> DEFINE entries == Described(f, found)
  <2>1. /\ entries \subseteq [of : {f}, index : index \cup {NoIndex}]
        /\ \E e \in entries : e.of = f
        /\ \A i \in found : \E e \in entries : e.of = f /\ e.index = i
    <3>1. found \in SUBSET Indexes /\ found \in SUBSET index BY <1>2
    <3> QED BY <1>1, <3>1, EntriesAre
  <2>2. Adds(f, entries) BY <1>3
  <2> HIDE DEF entries
  <2>3. skipped \subseteq skipped' /\ skipped' \subseteq TableColumns \cup Indexes
    BY <1>1, <1>2, <1>3
  <2>4. \A i \in IndexesOf(f.name) \ (skipped' \cup rowid) : \E e \in entries : e.of = f /\ e.index = i
    BY <1>3, <2>1
  <2> QED BY <1>1, <2>1, <2>2, <2>3, <2>4, AddsInv
<1>4. ASSUME Adds(f, {}), skipped' = skipped \cup {f.name}
      PROVE  GenInv'
  <2>1. skipped \subseteq skipped' /\ skipped' \subseteq TableColumns \cup Indexes /\ f.name \in skipped'
    BY <1>1, <1>4
  <2> QED BY <1>1, <1>4, <2>1, AddsInv
<1> QED BY <1>3, <1>4 DEF SqliteIndex

\* Of a column's indexes one is chosen at most, and its primary key is.
LEMMA ChosenIs ==
  ASSUME GenTypeOK, NEW c
  PROVE  /\ Chosen(c) \in SUBSET Indexes /\ Chosen(c) \subseteq index
         /\ \A i \in IndexesOf(c) : i.primary => i \in Chosen(c)
         /\ \A i, k \in Chosen(c) : i = k
<1>1. Chosen(c) \subseteq IndexesOf(c) /\ IndexesOf(c) \subseteq Indexes /\ IndexesOf(c) \subseteq index
  BY DEF Chosen, IndexesOf, GenTypeOK
<1>2. \A i \in IndexesOf(c) : i.on = c
  BY DEF IndexesOf
<1>3. \A i \in IndexesOf(c) : i.primary => i \in Chosen(c)
  BY DEF Chosen
<1>4. ASSUME NEW i \in Chosen(c), NEW k \in Chosen(c) PROVE i = k
  <2>1. /\ i \in Indexes /\ k \in Indexes /\ i.on = k.on
        /\ i.id \in Nat /\ k.id \in Nat
    BY <1>1, <1>2, <1>4, IndexAssumption
  <2>2. /\ i.primary \/ (~k.primary /\ i.id <= k.id)
        /\ k.primary \/ (~i.primary /\ k.id <= i.id)
    BY <1>1, <1>4 DEF Chosen
  <2>3. CASE i.primary
    BY <2>1, <2>2, <2>3, IndexAssumption
  <2>4. CASE ~i.primary
    <3>1. i.id = k.id
      BY <2>1, <2>2, <2>4
    <3> QED BY <2>1, <3>1, IndexAssumption
  <2> QED BY <2>3, <2>4
<1> QED BY <1>1, <1>3, <1>4

LEMMA PostgresIndexesInv == ASSUME GenInv, PostgresIndexes PROVE GenInv'
<1> DEFINE Of(f) == Described(f, Chosen(f.name))
<1>1. /\ ask' = "nil" /\ service = "postgres" /\ left' = {}
      /\ UNCHANGED <<tableVars, reply, skipped>>
      /\ list' = UNION {Of(f) : f \in reply}
      /\ Replied
  BY DEF PostgresIndexes, GenInv
<1>2. UNCHANGED <<column, elsewhere, index, rowid, driver, service, steady, existed, changes>>
  BY <1>1 DEF tableVars
<1>3. reply \subseteq FoundRows /\ index \subseteq Indexes BY DEF GenInv, GenTypeOK
<1>4. ASSUME NEW f \in reply
      PROVE  /\ Of(f) \subseteq [of : {f}, index : index \cup {NoIndex}]
             /\ \E e \in Of(f) : e.of = f
             /\ \A i \in IndexesOf(f.name) : i.primary => \E e \in Of(f) : e.of = f /\ e.index = i
             /\ \A g \in reply : g.name = f.name => \A e \in Of(f), o \in Of(g) : e.index = o.index
  <2>1. /\ Chosen(f.name) \in SUBSET Indexes /\ Chosen(f.name) \subseteq index
        /\ \A i \in IndexesOf(f.name) : i.primary => i \in Chosen(f.name)
        /\ \A i, k \in Chosen(f.name) : i = k
    BY ChosenIs DEF GenInv
  <2>2. /\ Of(f) \subseteq [of : {f}, index : Chosen(f.name) \cup {NoIndex}]
        /\ \E e \in Of(f) : e.of = f
        /\ \A i \in Chosen(f.name) : \E e \in Of(f) : e.of = f /\ e.index = i
    BY <1>3, <1>4, <2>1, EntriesAre
  <2>3. ASSUME NEW g \in reply, g.name = f.name, NEW e \in Of(f), NEW o \in Of(g)
        PROVE  e.index = o.index
    <3>1. CASE Chosen(f.name) = {}
      BY <2>3, <3>1 DEF Described
    <3>2. CASE Chosen(f.name) # {}
      <4>1. Of(g) = {[of |-> g, index |-> i] : i \in Chosen(f.name)}
        BY <2>3, <3>2 DEF Described
      <4>2. Of(f) = {[of |-> f, index |-> i] : i \in Chosen(f.name)}
        BY <3>2 DEF Described
      <4>3. e.index \in Chosen(f.name) /\ o.index \in Chosen(f.name)
        BY <2>3, <4>1, <4>2
      <4> QED BY <2>1, <4>3
    <3> QED BY <3>1, <3>2
  <2> HIDE DEF Of
  <2> QED BY <2>1, <2>2, <2>3
<1> HIDE DEF Of
<1>5. \A e \in list' : \E f \in reply : e \in Of(f)
  BY <1>1
<1>6. \A f \in reply : Of(f) \subseteq list'
  BY <1>1
<1>7. list' \subseteq [of : reply, index : Indexes \cup {NoIndex}]
  BY <1>3, <1>4, <1>5
<1>8. GenTypeOK'
  BY <1>1, <1>2, <1>7 DEF GenInv, GenTypeOK
<1>9. Steady'
  BY <1>1, SteadyFrame DEF GenInv
<1>10. Replied'
  BY <1>1, <1>2 DEF Replied
<1>11. Listed'
  <2>1. ASSUME NEW f \in reply' \ left' PROVE \E e \in list' : e.of.name = f.name
    <3>1. f \in reply BY <1>1, <2>1
    <3>2. PICK e \in Of(f) : e.of = f BY <1>4, <3>1
    <3> QED BY <1>6, <3>1, <3>2
  <2>2. ASSUME NEW i \in steady' \cap Indexes, NEW f \in reply' \ left', f.name = i.on, i.primary
        PROVE  \E e \in list' : e.of.name = i.on /\ e.index = i
    <3>1. i \in IndexesOf(f.name)
      BY <1>2, <2>2, IndexAssumption DEF IndexesOf, GenInv, GenTypeOK, Steady
    <3>2. f \in reply
      BY <1>1, <2>2
    <3>3. PICK e \in Of(f) : e.of = f /\ e.index = i
      BY <1>4, <2>2, <3>1, <3>2
    <3> QED BY <1>6, <2>2, <3>2, <3>3
  <2>3. ASSUME NEW e \in list'
        PROVE  e.of.name \in existed' \cup elsewhere' /\ e.index \in existed' \cup {NoIndex}
    <3>1. PICK f \in reply : e \in Of(f) BY <1>5, <2>3
    <3>2. e.of = f /\ e.index \in index \cup {NoIndex} BY <1>4, <3>1
    <3>3. f.name \in existed \cup elsewhere /\ index \subseteq existed
      BY <1>1, <3>1 DEF Replied, GenInv, Steady
    <3> QED BY <1>2, <3>2, <3>3
  <2>4. ASSUME NEW e \in list', NEW o \in list', e.of.name = o.of.name
        PROVE  e.index = o.index /\ (e = o \/ e.of.name \in elsewhere')
    <3>1. PICK f \in reply : e \in Of(f) BY <1>5, <2>4
    <3>2. PICK g \in reply : o \in Of(g) BY <1>5, <2>4
    <3>3. /\ e \in [of : {f}, index : index \cup {NoIndex}]
          /\ o \in [of : {g}, index : index \cup {NoIndex}]
          /\ e.of = f /\ o.of = g
      BY <1>4, <3>1, <3>2
    <3>4. e.index = o.index
      BY <1>4, <2>4, <3>1, <3>2, <3>3
    <3>5. (f.row = 1 /\ g.row = 1) \/ f.name \in elsewhere
      BY <1>1, <2>4, <3>1, <3>2, <3>3 DEF Replied
    <3>6. ASSUME f.row = 1, g.row = 1 PROVE e = o
      <4>1. f \in FoundRows /\ g \in FoundRows /\ f.name = g.name
        BY <1>3, <2>4, <3>1, <3>2, <3>3
      <4>2. f = g
        BY <3>6, <4>1 DEF FoundRows
      <4> QED BY <3>3, <3>4, <4>2
    <3> QED BY <1>2, <3>3, <3>4, <3>5, <3>6
  <2>5. service' = "postgres" BY <1>1, <1>2
  <2> QED BY <2>1, <2>2, <2>3, <2>4, <2>5 DEF Listed
<1> QED BY <1>1, <1>2, <1>8, <1>9, <1>10, <1>11 DEF GenInv

\* Every step keeps the invariant.
LEMMA GenStep == ASSUME GenInv, GenNext PROVE GenInv'
BY NewServiceInv, ChangeInv, QueryFailsInv, AskColumnsInv, PostgresIndexesInv, MysqlIndexInv,
   SqliteIndexInv DEF GenNext

-----------------------------------------------------------------------------
(* Rule conditions *)

\* What the loop knows when it comes to a further condition: no AND has missed,
\* since the first that does ends the loop.
InLoop ==
  /\ \A i \in Counted : effects[i].logic = "AND" => i \in Matching
  /\ JoinedByAnd => result
  /\ JoinedByOr => (result <=> Matching # {})

ConditionInv ==
  /\ effects \in Seq(Effects) /\ result \in BOOLEAN
  /\ status = "idle" => effects = <<>> /\ result = TRUE
  /\ status = "loop" => InLoop
  /\ AllOrAny

LEMMA ConditionInitInv == ConditionInit => ConditionInv
BY DEF ConditionInit, ConditionInv, AllOrAny

LEMMA EvaluateConditionInv ==
  ASSUME ConditionInv, EvaluateCondition PROVE ConditionInv'
<1>1. effects' = <<>> /\ result' = TRUE /\ status' = "loop"
  BY DEF EvaluateCondition, ConditionInv
<1>2. Counted' = {}
  BY <1>1 DEF Counted
<1>3. InLoop'
  BY <1>1, <1>2 DEF InLoop, JoinedByAnd, JoinedByOr
<1> QED BY <1>1, <1>3 DEF ConditionInv, AllOrAny

\* The answer is what the loop has when it ends.
LEMMA InLoopAnswers ==
  ASSUME InLoop
  PROVE  /\ result => \A i \in Counted : effects[i].logic = "AND" => i \in Matching
         /\ JoinedByAnd => (result <=> Matching = Counted)
         /\ JoinedByOr => (result <=> Matching # {})
BY DEF InLoop, JoinedByAnd, Matching

LEMMA EndOfListInv ==
  ASSUME ConditionInv, EndOfList PROVE ConditionInv'
<1>1. status' = "answer" /\ UNCHANGED <<effects, result>> /\ InLoop
  BY DEF EndOfList, ConditionInv
<1>2. AllOrAny'
  BY <1>1, InLoopAnswers DEF AllOrAny, JoinedByAnd, JoinedByOr, Matching, Counted
<1> QED BY <1>1, <1>2 DEF ConditionInv

\* A condition more: what was counted is, and it is itself unless it was
\* skipped.
LEMMA Appended ==
  ASSUME NEW e \in Effects, effects \in Seq(Effects), effects' = Append(effects, e)
  PROVE  LET n == Len(effects) + 1 IN
         /\ n \in Nat /\ \A i \in Counted : i \in Nat /\ i < n /\ effects'[i] = effects[i]
         /\ effects'[n] = e /\ effects' \in Seq(Effects)
         /\ Counted' = IF e.did = "skip" THEN Counted ELSE Counted \cup {n}
         /\ Matching' = IF e.did = "match" THEN Matching \cup {n} ELSE Matching
<1> DEFINE n == Len(effects) + 1
<1>1. Len(effects) \in Nat
  OBVIOUS
<1>2. /\ n \in Nat /\ DOMAIN effects = 1 .. Len(effects)
      /\ DOMAIN effects' = (DOMAIN effects) \cup {n}
  BY <1>1
<1>3. /\ effects'[n] = e /\ effects' \in Seq(Effects)
      /\ \A i \in DOMAIN effects : i \in Nat /\ i < n /\ effects'[i] = effects[i]
  BY <1>1
<1>4. Counted' = IF e.did = "skip" THEN Counted ELSE Counted \cup {n}
  BY <1>2, <1>3 DEF Counted
<1>5. Counted \subseteq DOMAIN effects
  BY DEF Counted
<1>6. Matching' = IF e.did = "match" THEN Matching \cup {n} ELSE Matching
  BY <1>2, <1>3, <1>4, <1>5 DEF Matching
<1> QED BY <1>2, <1>3, <1>4, <1>5, <1>6

\* A condition that is skipped changes nothing.
LEMMA SkipInv ==
  ASSUME ConditionInv, InLoop, NEW e \in Effects, e.did = "skip",
         effects' = Append(effects, e), UNCHANGED <<result, status>>, status = "loop"
  PROVE  ConditionInv'
<1> DEFINE n == Len(effects) + 1
<1>1. effects \in Seq(Effects)
  BY DEF ConditionInv
<1>2. /\ \A i \in Counted : effects'[i] = effects[i]
      /\ effects' \in Seq(Effects) /\ Counted' = Counted /\ Matching' = Matching
  BY <1>1, Appended
<1>3. InLoop'
  BY <1>2 DEF InLoop, JoinedByAnd, JoinedByOr
<1> QED BY <1>2, <1>3 DEF ConditionInv, AllOrAny

\* One that is not makes the result, and ends the loop or not.
LEMMA CountInv ==
  ASSUME ConditionInv, InLoop, NEW e \in Effects, e.did # "skip",
         effects' = Append(effects, e), status = "loop",
         result' = Logic(e.logic, e.did = "match").result,
         status' = IF Logic(e.logic, e.did = "match").stop THEN "answer" ELSE "loop"
  PROVE  ConditionInv'
<1> DEFINE n == Len(effects) + 1
           match == e.did = "match"
<1>1. effects \in Seq(Effects) /\ result \in BOOLEAN /\ match \in BOOLEAN
  BY DEF ConditionInv
<1>2. /\ n \in Nat /\ \A i \in Counted : i \in Nat /\ i < n /\ effects'[i] = effects[i]
      /\ effects'[n] = e /\ effects' \in Seq(Effects)
      /\ Counted' = Counted \cup {n}
      /\ Matching' = IF match THEN Matching \cup {n} ELSE Matching
  BY <1>1, Appended
<1>3. e.logic \in {"AND", "OR", ""}
  BY DEF Effects
<1>4. Matching \subseteq Counted
  BY DEF Matching
<1>5. n \notin Counted /\ (match <=> n \in Matching')
  BY <1>2, <1>4
<1>6. CASE e.logic = "AND"
  <2>1. result' = (result /\ match) /\ status' = IF result /\ match THEN "loop" ELSE "answer"
    BY <1>6 DEF Logic
  <2>2. JoinedByAnd' => JoinedByAnd
    BY <1>2 DEF JoinedByAnd
  <2>3. ~JoinedByOr'
    BY <1>2, <1>6 DEF JoinedByOr
  <2>4. CASE result /\ match
    <3>1. result' = TRUE /\ status' = "loop"
      BY <2>1, <2>4
    <3>2. InLoop'
      BY <1>2, <2>3, <2>4, <3>1 DEF InLoop
    <3> QED BY <1>2, <3>1, <3>2 DEF ConditionInv, AllOrAny
  <2>5. CASE ~(result /\ match)
    <3>1. result' = FALSE /\ status' = "answer"
      BY <2>1, <2>5
    <3>2. JoinedByAnd' => Matching' # Counted'
      BY <1>2, <1>5, <2>2, <2>5 DEF InLoop
    <3> QED BY <1>2, <2>3, <3>1, <3>2 DEF ConditionInv, AllOrAny
  <2> QED BY <2>4, <2>5
<1>7. CASE e.logic = "OR"
  <2>1. result' = (result \/ match) /\ status' = IF result \/ match THEN "answer" ELSE "loop"
    BY <1>7 DEF Logic
  <2>2. ~JoinedByAnd'
    BY <1>2, <1>7 DEF JoinedByAnd
  <2>3. \A i \in Counted' : effects'[i].logic = "AND" => i \in Matching'
    BY <1>2, <1>7 DEF InLoop
  <2>4. JoinedByOr' => (result' <=> Matching' # {})
    <3> SUFFICES ASSUME JoinedByOr' PROVE result' <=> Matching' # {} OBVIOUS
    <3>1. PICK i \in Counted' : /\ effects'[i].logic = ""
                               /\ \A k \in Counted' \ {i} : k > i /\ effects'[k].logic = "OR"
      BY DEF JoinedByOr
    <3>2. i \in Counted /\ effects[i].logic = ""
      BY <1>2, <1>7, <3>1
    <3>3. \A k \in Counted \ {i} : k > i /\ effects[k].logic = "OR"
      BY <1>2, <3>1
    <3>4. JoinedByOr
      BY <3>2, <3>3 DEF JoinedByOr
    <3> QED BY <1>2, <2>1, <3>4 DEF InLoop
  <2>5. result' \in BOOLEAN
    BY <1>1, <2>1
  <2> QED BY <1>2, <2>1, <2>2, <2>3, <2>4, <2>5 DEF ConditionInv, AllOrAny, InLoop
<1>8. CASE e.logic = ""
  <2>1. result' = match /\ status' = "loop"
    BY <1>8 DEF Logic
  <2>2. ~JoinedByAnd'
    BY <1>2, <1>8 DEF JoinedByAnd
  <2>3. ASSUME JoinedByOr' PROVE Counted = {}
    <3>1. PICK i \in Counted' : \A k \in Counted' \ {i} : k > i /\ effects'[k].logic = "OR"
      BY <2>3 DEF JoinedByOr
    <3>2. i = n
      BY <1>2, <1>8, <3>1
    <3>3. \A k \in Counted : k > n
      BY <1>2, <1>5, <3>1, <3>2
    <3> QED BY <1>2, <3>3
  <2>4. JoinedByOr' => (result' <=> Matching' # {})
    BY <1>2, <1>4, <2>1, <2>3
  <2>5. \A i \in Counted' : effects'[i].logic = "AND" => i \in Matching'
    BY <1>2, <1>8 DEF InLoop
  <2>6. InLoop'
    BY <2>2, <2>4, <2>5 DEF InLoop
  <2> QED BY <1>1, <1>2, <2>1, <2>6 DEF ConditionInv, AllOrAny
<1> QED BY <1>3, <1>6, <1>7, <1>8

LEMMA EvaluateInv ==
  ASSUME ConditionInv, NEW c \in Conditions, Evaluate(c)
  PROVE  ConditionInv'
<1> DEFINE did == Compare(c)
           e == [did |-> did, logic |-> c.logic]
<1>0. status = "loop" /\ InLoop
  BY DEF Evaluate, ConditionInv
<1>1. did \in {"match", "miss", "skip", "panic"}
  BY DEF Compare, Match
<1>2. c.logic \in {"AND", "OR", ""}
  BY DEF Conditions
<1>3. /\ did = "panic" => status' = "panic" /\ UNCHANGED <<effects, result>>
      /\ did = "skip" => effects' = Append(effects, e) /\ UNCHANGED <<result, status>>
      /\ did \notin {"skip", "panic"} =>
           /\ effects' = Append(effects, e)
           /\ result' = Logic(c.logic, did = "match").result
           /\ status' = IF Logic(c.logic, did = "match").stop THEN "answer" ELSE "loop"
  BY <1>1 DEF Evaluate
<1> HIDE DEF did
<1>4. CASE did = "panic"
  BY <1>3, <1>4 DEF ConditionInv, AllOrAny
<1>5. CASE did # "panic"
  <2>1. e \in Effects /\ e.did = did /\ e.logic = c.logic
    BY <1>1, <1>2, <1>5 DEF Effects
  <2> HIDE DEF e
  <2>2. CASE did = "skip"
    BY <1>0, <1>3, <2>1, <2>2, SkipInv
  <2>3. CASE did # "skip"
    <3>1. /\ effects' = Append(effects, e)
          /\ result' = Logic(e.logic, e.did = "match").result
          /\ status' = IF Logic(e.logic, e.did = "match").stop THEN "answer" ELSE "loop"
      BY <1>3, <1>5, <2>1, <2>3
    <3> QED BY <1>0, <2>1, <2>3, <3>1, CountInv
  <2> QED BY <2>2, <2>3
<1> QED BY <1>4, <1>5

\* Every step keeps the invariant.
LEMMA ConditionStep == ASSUME ConditionInv, ConditionNext PROVE ConditionInv'
BY EvaluateConditionInv, EndOfListInv, EvaluateInv DEF ConditionNext

LEMMA ConditionInitTyped == ConditionInit => ConditionTypeOK
<1>1. Objects # {}
  <2>1. PICK t \in Texts : t \in DOMAIN NumberOf
    BY NumberAssumption
  <2>2. [text |-> t, number |-> NumberOf[t]] \in Objects
    BY <2>1 DEF Objects, Range
  <2> QED BY <2>2
<1>2. <<>> \in Seq(Effects) /\ Len(<<>>) <= MaxConditions
  BY NumberAssumption
<1>3. (CHOOSE o \in Objects : TRUE) \in Objects
  BY <1>1
<1> QED BY <1>2, <1>3 DEF ConditionInit, ConditionTypeOK

LEMMA ConditionTyped == ASSUME ConditionTypeOK, ConditionNext PROVE ConditionTypeOK'
<1>1. CASE EvaluateCondition
  BY <1>1 DEF EvaluateCondition, ConditionTypeOK
<1>2. CASE EndOfList
  BY <1>2 DEF EndOfList, ConditionTypeOK
<1>3. ASSUME NEW c \in Conditions, Evaluate(c) PROVE ConditionTypeOK'
  <2> DEFINE did == Compare(c)
             e == [did |-> did, logic |-> c.logic]
             next == Logic(c.logic, did = "match")
  <2>1. did \in {"match", "miss", "skip", "panic"} /\ c.logic \in {"AND", "OR", ""}
    BY DEF Compare, Match, Conditions
  <2>2. did # "panic" => e \in Effects
    BY <2>1 DEF Effects
  <2>3. next.result \in BOOLEAN
    BY <2>1 DEF Logic, ConditionTypeOK
  <2>4. /\ Len(effects) < MaxConditions /\ object' = object
        /\ \/ did = "panic" /\ status' = "panic" /\ UNCHANGED <<effects, result>>
           \/ /\ did # "panic" /\ effects' = Append(effects, e)
              /\ result' \in {result, next.result} /\ status' \in {status, "answer", "loop"}
    <3> HIDE DEF did, next
    <3>1. did = "panic" => status' = "panic" /\ UNCHANGED <<effects, result>>
      BY <1>3 DEF Evaluate, did
    <3>2. did = "skip" => effects' = Append(effects, e) /\ UNCHANGED <<result, status>>
      BY <1>3 DEF Evaluate, did
    <3>3. did \in {"match", "miss"} =>
            /\ effects' = Append(effects, e) /\ result' = next.result
            /\ status' = IF next.stop THEN "answer" ELSE "loop"
      BY <1>3 DEF Evaluate, did, next
    <3> QED BY <1>3, <2>1, <3>1, <3>2, <3>3 DEF Evaluate
  <2> HIDE DEF did, e, next
  <2>5. did # "panic" => Append(effects, e) \in Seq(Effects) /\ Len(Append(effects, e)) <= MaxConditions
    BY <2>2, <2>4, NumberAssumption DEF ConditionTypeOK
  <2> QED BY <2>3, <2>4, <2>5 DEF ConditionTypeOK
<1> QED BY <1>1, <1>2, <1>3 DEF ConditionNext

-----------------------------------------------------------------------------
(* Sheets *)

\* What is left of a sequence: its beginning, up to where nothing follows.
LEMMA TrimmedIs ==
  ASSUME NEW S, NEW s \in Seq(S), NEW empty
  PROVE  /\ Trimmed(s, empty) \in Seq(S) /\ Len(Trimmed(s, empty)) \in 0..Len(s)
         /\ \A i \in 1..Len(Trimmed(s, empty)) : Trimmed(s, empty)[i] = s[i]
         /\ \A i \in 1..Len(s) : i > Len(Trimmed(s, empty)) => s[i] = empty
<1> DEFINE K == {i \in DOMAIN s : s[i] # empty} \cup {0}
           k == Max(K)
<1>1. Len(s) \in Nat /\ DOMAIN s = 1..Len(s)
  OBVIOUS
<1>2. K \subseteq Nat /\ K # {} /\ \A n \in K : n <= Len(s)
  BY <1>1
<1>3. \A i \in 1..Len(s) : s[i] # empty => i \in K
  BY <1>1
<1>4. Trimmed(s, empty) = SubSeq(s, 1, k)
  BY DEF Trimmed
<1> HIDE DEF K
<1>5. k \in K /\ \A n \in K : n <= k
  BY <1>1, <1>2, MaxOfNats
<1> HIDE DEF k
<1>6. k \in 0..Len(s)
  <2>1. k \in Nat /\ k <= Len(s)
    BY <1>2, <1>5
  <2> QED BY <1>1, <2>1
<1>7. /\ SubSeq(s, 1, k) \in Seq(S) /\ Len(SubSeq(s, 1, k)) = k
      /\ \A i \in 1..k : SubSeq(s, 1, k)[i] = s[i]
  BY <1>1, <1>6
<1>8. \A i \in 1..Len(s) : i > k => s[i] = empty
  BY <1>2, <1>3, <1>5, <1>6
<1> QED BY <1>4, <1>6, <1>7, <1>8

\* The fields with a tag that GetTag has looked at, each once.
TagsInv ==
  /\ \A i \in 1..looked : model[i].tag # "none" => \E k \in DOMAIN tags : tags[k] = model[i]
  /\ \A k \in DOMAIN tags : \E i \in 1..looked : tags[k] = model[i]
  /\ \A k, l \in DOMAIN tags : tags[k].name = tags[l].name => k = l
  /\ \A k \in DOMAIN tags : tags[k].tag # "none"

SheetInv ==
  /\ SheetTypeOK
  /\ TagsInv
  /\ sheet = "none" => model = <<>> /\ looked = 0 /\ records = <<>>
  /\ sheet \in {"none", "new"} => lines = <<>> /\ sheetData = <<>>
  /\ sheet = "file" => looked = Len(model) /\ lines \in {Lines, <<>>} /\ sheetData = <<>>
  /\ SheetRoundTrip

LEMMA SheetInitInv == SheetInit => SheetInv
<1> SUFFICES ASSUME SheetInit PROVE SheetInv OBVIOUS
<1>1. SheetTypeOK
  <2>1. <<>> \in Seq(Fields) /\ <<>> \in Seq(RecordsOf(<<>>)) /\ Len(<<>>) = 0
    OBVIOUS
  <2> QED BY <2>1, ModelAssumption DEF SheetInit, SheetTypeOK
<1>2. TagsInv
  BY DEF SheetInit, TagsInv
<1> QED BY <1>1, <1>2 DEF SheetInit, SheetInv, SheetRoundTrip

\* What is in the lines of a file: the cells of the records, but for empty ones
\* at the end.
LEMMA LinesAre ==
  ASSUME SheetTypeOK
  PROVE  /\ Len(Lines) \in 0..(Len(records) + 1) /\ DOMAIN Lines = 1..Len(Lines)
         /\ Lines # <<>> => Len(Lines) >= 1
         /\ \A i \in DOMAIN Lines : Len(Lines[i]) <= Len(tags)
         /\ \A i \in DOMAIN records :
              i + 1 > Len(Lines) => \A j \in DOMAIN tags : Cell(records[i], tags[j]) = ""
         /\ \A i \in DOMAIN records :
              i + 1 <= Len(Lines) =>
                /\ DOMAIN Lines[i + 1] \subseteq DOMAIN tags
                /\ \A j \in DOMAIN Lines[i + 1] : Lines[i + 1][j] = Cell(records[i], tags[j])
                /\ \A j \in DOMAIN tags \ DOMAIN Lines[i + 1] : Cell(records[i], tags[j]) = ""
<1> DEFINE cells(i) == [j \in DOMAIN tags |-> Cell(records[i], tags[j])]
           row(i) == Trimmed(cells(i), "")
           V == {Cell(records[i], tags[j]) : i \in DOMAIN records, j \in DOMAIN tags} \cup {"title"}
           rows == [i \in DOMAIN records |-> row(i)]
           all == <<Title>> \o rows
           n == Len(records)
           m == Len(tags)
           l == Len(Lines)
<1>1. /\ m \in Nat /\ DOMAIN tags = 1..m
      /\ n \in Nat /\ DOMAIN records = 1..n
  BY DEF SheetTypeOK
<1>2. \A i \in 1..n : cells(i) \in Seq(V) /\ Len(cells(i)) = m /\ DOMAIN cells(i) = 1..m
  <2> SUFFICES ASSUME NEW i \in 1..n
               PROVE  cells(i) \in Seq(V) /\ Len(cells(i)) = m /\ DOMAIN cells(i) = 1..m
    OBVIOUS
  <2> HIDE DEF m, n
  <2> QED BY <1>1
<1>3. \A i \in 1..n : \A j \in 1..m : cells(i)[j] = Cell(records[i], tags[j])
  BY <1>1
<1>4. Title \in Seq(V) /\ Len(Title) = m
  BY <1>1 DEF Title
<1> HIDE DEF cells, V
<1>5. \A i \in 1..n : row(i) \in Seq(V) /\ Len(row(i)) \in 0..m
  <2> SUFFICES ASSUME NEW i \in 1..n PROVE row(i) \in Seq(V) /\ Len(row(i)) \in 0..m
    OBVIOUS
  <2>1. cells(i) \in Seq(V) /\ Len(cells(i)) = m
    BY <1>2
  <2> HIDE DEF m, n
  <2>2. row(i) \in Seq(V) /\ Len(row(i)) \in 0..Len(cells(i))
    BY <2>1, TrimmedIs
  <2> QED BY <2>1, <2>2
<1>6. \A i \in 1..n : \A j \in 1..Len(row(i)) : row(i)[j] = cells(i)[j]
  <2> SUFFICES ASSUME NEW i \in 1..n PROVE \A j \in 1..Len(row(i)) : row(i)[j] = cells(i)[j]
    OBVIOUS
  <2> DEFINE c == cells(i)
  <2>1. c \in Seq(V)
    BY <1>2
  <2> HIDE DEF c
  <2>2. /\ Trimmed(c, "") \in Seq(V) /\ Len(Trimmed(c, "")) \in 0..Len(c)
        /\ \A j \in 1..Len(Trimmed(c, "")) : Trimmed(c, "")[j] = c[j]
        /\ \A j \in 1..Len(c) : j > Len(Trimmed(c, "")) => c[j] = ""
    BY <2>1, TrimmedIs
  <2> QED BY <2>2 DEF c
<1>7. \A i \in 1..n : \A j \in 1..m : j > Len(row(i)) => cells(i)[j] = ""
  BY <1>2, TrimmedIs
<1>8. rows \in Seq(Seq(V)) /\ Len(rows) = n /\ \A i \in 1..n : rows[i] = row(i)
  <2> HIDE DEF row, m, n
  <2> QED BY <1>1, <1>5
<1>9. Lines = Trimmed(all, <<>>)
  BY DEF Lines, cells
<1> HIDE DEF rows, row
<1>10. /\ all \in Seq(Seq(V)) /\ Len(all) = n + 1
       /\ all[1] = Title /\ \A i \in 1..n : all[i + 1] = rows[i]
  <2> HIDE DEF m, n
  <2> QED BY <1>1, <1>4, <1>8
<1> HIDE DEF all
<1>11. Lines \in Seq(Seq(V)) /\ l \in 0..(n + 1) /\ DOMAIN Lines = 1..l
  BY <1>9, <1>10, TrimmedIs
<1>17. Lines # <<>> => l >= 1
  BY <1>11
<1>12. \A i \in 1..l : Lines[i] = all[i]
  BY <1>9, <1>10, TrimmedIs
<1>13. \A i \in 1..(n + 1) : i > l => all[i] = <<>>
  BY <1>9, <1>10, TrimmedIs
<1> HIDE DEF m, n, l
<1>14. ASSUME NEW i \in 1..l PROVE Len(Lines[i]) <= m
  <2>1. CASE i = 1
    BY <1>1, <1>4, <1>10, <1>12, <1>14, <2>1
  <2>2. CASE i # 1
    <3>1. i - 1 \in 1..n /\ (i - 1) + 1 = i
      BY <1>1, <1>11, <1>14, <2>2
    <3>2. Lines[i] = row(i - 1)
      BY <1>8, <1>10, <1>12, <1>14, <3>1
    <3> QED BY <1>1, <1>5, <3>1, <3>2
  <2> QED BY <2>1, <2>2
<1>15. ASSUME NEW i \in 1..n, i + 1 > l, NEW j \in 1..m
       PROVE  Cell(records[i], tags[j]) = ""
  <2>0. i + 1 \in 1..(n + 1)
    BY <1>1, <1>15
  <2>1. row(i) = <<>>
    BY <1>8, <1>10, <1>13, <1>15, <2>0
  <2>2. Len(row(i)) = 0 /\ j > 0
    BY <1>1, <1>15, <2>1
  <2>3. cells(i)[j] = ""
    BY <1>7, <1>15, <2>2
  <2> QED BY <1>3, <1>15, <2>3
<1>16. ASSUME NEW i \in 1..n, i + 1 <= l
       PROVE  /\ DOMAIN Lines[i + 1] \subseteq 1..m
              /\ \A j \in DOMAIN Lines[i + 1] : Lines[i + 1][j] = Cell(records[i], tags[j])
              /\ \A j \in (1..m) \ DOMAIN Lines[i + 1] : Cell(records[i], tags[j]) = ""
  <2>1. i + 1 \in 1..l
    BY <1>1, <1>11, <1>16
  <2>2. Lines[i + 1] = row(i)
    BY <1>8, <1>10, <1>12, <1>16, <2>1
  <2>3. Len(row(i)) \in 0..m /\ DOMAIN row(i) = 1..Len(row(i))
    BY <1>5, <1>16
  <2>4. \A j \in 1..Len(row(i)) : j \in 1..m /\ row(i)[j] = Cell(records[i], tags[j])
    BY <1>1, <1>3, <1>6, <1>16, <2>3
  <2>5. \A j \in (1..m) \ (1..Len(row(i))) : Cell(records[i], tags[j]) = ""
    <3> SUFFICES ASSUME NEW j \in 1..m, j \notin 1..Len(row(i)) PROVE Cell(records[i], tags[j]) = ""
      OBVIOUS
    <3>1. j > Len(row(i))
      BY <1>1, <2>3
    <3> QED BY <1>3, <1>7, <1>16, <3>1
  <2> QED BY <2>2, <2>3, <2>4, <2>5
<1> QED BY <1>1, <1>11, <1>14, <1>15, <1>16, <1>17 DEF m, n, l


\* GetTag looks at a field more.
LEMMA GetTagInv == ASSUME SheetInv, GetTag PROVE SheetInv'
<1> DEFINE n == looked + 1
           f == model[n]
<1>1. /\ sheet = "new" /\ looked' = n /\ n \in 1..Len(model)
      /\ tags' = IF f.tag = "none" THEN tags ELSE Append(tags, f)
      /\ UNCHANGED <<model, records, lines, sheetData, sheet>> /\ lines = <<>>
  BY DEF GetTag, SheetInv, SheetTypeOK
<1>2. model \in Models /\ model \in Seq(Fields) /\ f \in Fields
  BY <1>1, ModelAssumption DEF SheetInv, SheetTypeOK
<1>3. tags \in Seq(Fields) /\ looked \in Nat /\ Len(tags) \in Nat
  BY <1>1 DEF SheetInv, SheetTypeOK
<1>4. SheetTypeOK'
  BY <1>1, <1>2, <1>3 DEF SheetInv, SheetTypeOK
<1>5. /\ \A k \in DOMAIN tags : k \in DOMAIN tags' /\ tags'[k] = tags[k]
      /\ \A k \in DOMAIN tags' : k \in DOMAIN tags \/ (f.tag # "none" /\ k = Len(tags) + 1)
      /\ f.tag # "none" => Len(tags) + 1 \in DOMAIN tags' /\ tags'[Len(tags) + 1] = f
  BY <1>1, <1>2, <1>3
<1>6. \A k \in DOMAIN tags : tags[k].name # f.name
  <2> SUFFICES ASSUME NEW k \in DOMAIN tags PROVE tags[k].name # f.name OBVIOUS
  <2>1. PICK i \in 1..looked : tags[k] = model[i]
    BY DEF SheetInv, TagsInv
  <2>2. i \in DOMAIN model /\ n \in DOMAIN model /\ i # n
    BY <1>1, <1>2, <1>3
  <2> QED BY <1>2, <2>1, <2>2, ModelAssumption
<1>7. TagsInv'
  <2>1. ASSUME NEW i \in 1..looked', model[i].tag # "none"
        PROVE  \E k \in DOMAIN tags' : tags'[k] = model[i]
    <3>1. CASE i = n
      BY <1>5, <2>1, <3>1
    <3>2. CASE i # n
      <4>1. i \in 1..looked BY <1>1, <1>3, <3>2
      <4> QED BY <1>5, <2>1, <4>1 DEF SheetInv, TagsInv
    <3> QED BY <3>1, <3>2
  <2>2. ASSUME NEW k \in DOMAIN tags' PROVE \E i \in 1..looked' : tags'[k] = model[i]
    <3>1. CASE k \in DOMAIN tags
      <4>1. PICK i \in 1..looked : tags[k] = model[i]
        BY <3>1 DEF SheetInv, TagsInv
      <4>2. i \in 1..looked' BY <1>1, <1>3
      <4> QED BY <1>5, <3>1, <4>1, <4>2
    <3>2. CASE k \notin DOMAIN tags
      <4>1. tags'[k] = model[n] /\ n \in 1..looked'
        BY <1>1, <1>3, <1>5, <3>2
      <4> QED BY <4>1
    <3> QED BY <3>1, <3>2
  <2>3. ASSUME NEW k \in DOMAIN tags', NEW o \in DOMAIN tags', tags'[k].name = tags'[o].name
        PROVE  k = o
    BY <1>5, <1>6, <2>3 DEF SheetInv, TagsInv
  <2>4. \A k \in DOMAIN tags' : tags'[k].tag # "none"
    BY <1>5 DEF SheetInv, TagsInv
  <2> HIDE DEF n, f
  <2> QED BY <1>1, <2>1, <2>2, <2>3, <2>4 DEF TagsInv
<1> QED BY <1>1, <1>4, <1>7 DEF SheetInv, SheetRoundTrip

LEMMA NewExcelInv == ASSUME SheetInv, NewExcel PROVE SheetInv'
<1>1. /\ sheet' = "new" /\ model' \in Models /\ looked = 0 /\ records = <<>> /\ lines = <<>> /\ sheetData = <<>>
      /\ UNCHANGED <<looked, tags, records, lines, sheetData>>
  BY DEF NewExcel, SheetInv
<1>2. Len(model') \in Nat
  BY <1>1, ModelAssumption
<1>3. <<>> \in Seq(RecordsOf(model'))
  OBVIOUS
<1>4. SheetTypeOK'
  BY <1>1, <1>2, <1>3 DEF SheetInv, SheetTypeOK
<1>5. TagsInv'
  <2>1. DOMAIN tags = {} BY <1>1 DEF SheetInv, TagsInv
  <2> QED BY <1>1, <2>1 DEF TagsInv
<1> QED BY <1>1, <1>4, <1>5 DEF SheetInv, SheetRoundTrip

LEMMA RecordInv == ASSUME SheetInv, Record PROVE SheetInv'
<1>1. PICK r \in RecordsOf(model) : records' = Append(records, r)
  BY DEF Record
<1>2. /\ sheet = "new" /\ Len(records) < MaxRecords
      /\ UNCHANGED <<model, looked, tags, lines, sheetData, sheet>> /\ lines = <<>> /\ sheetData = <<>>
  BY DEF Record, Tagged, SheetInv
<1>3. /\ records' \in Seq(RecordsOf(model)) /\ Len(records') = Len(records) + 1
      /\ Len(records) \in Nat
  BY <1>1 DEF SheetInv, SheetTypeOK
<1>4. SheetTypeOK'
  BY <1>2, <1>3, ModelAssumption DEF SheetInv, SheetTypeOK
<1>5. TagsInv'
  BY <1>2 DEF SheetInv, TagsInv
<1> QED BY <1>2, <1>4, <1>5 DEF SheetInv, SheetRoundTrip

LEMMA ExportInv == ASSUME SheetInv, Export PROVE SheetInv'
<1>1. /\ sheet' = "file" /\ looked = Len(model) /\ lines' \in {Lines, <<>>} /\ sheetData = <<>>
      /\ UNCHANGED <<model, looked, tags, records, sheetData>>
  BY DEF Export, Tagged, SheetInv
<1>2. Lines' = Lines
  BY <1>1 DEF Lines, Title, Cell
<1>3. \A i \in DOMAIN lines' : Len(lines'[i]) <= Len(tags)
  <2>1. \A i \in DOMAIN Lines : Len(Lines[i]) <= Len(tags)
    BY LinesAre DEF SheetInv
  <2>2. DOMAIN (<<>>) = {}
    OBVIOUS
  <2> QED BY <1>1, <2>1, <2>2
<1>4. SheetTypeOK'
  BY <1>1, <1>3 DEF SheetInv, SheetTypeOK
<1>5. TagsInv'
  BY <1>1 DEF SheetInv, TagsInv
<1> QED BY <1>1, <1>2, <1>4, <1>5 DEF SheetInv, SheetRoundTrip

LEMMA ExportFailsInv == ASSUME SheetInv, ExportFails PROVE SheetInv'
<1>1. /\ sheet' \in {"error", "panic"} /\ UNCHANGED <<model, looked, tags, records, lines, sheetData>>
  BY DEF ExportFails
<1>2. SheetTypeOK' /\ TagsInv'
  BY <1>1 DEF SheetInv, SheetTypeOK, TagsInv
<1> QED BY <1>1, <1>2 DEF SheetInv, SheetRoundTrip

\* What is read of a line: the cell of every field that can be converted, and
\* nothing of another field.
LEMMA DataIs ==
  ASSUME NEW line, DOMAIN line \subseteq DOMAIN tags, TagsInv
  PROVE  /\ \A j \in DOMAIN line : Converts(tags[j], line[j]) =>
              tags[j].name \in DOMAIN DataOf(line) /\ DataOf(line)[tags[j].name] = line[j]
         /\ \A n \in DOMAIN DataOf(line) :
              \/ DataOf(line)[n] = "new"
              \/ \E j \in DOMAIN line : /\ tags[j].name = n /\ DataOf(line)[n] = line[j]
                                       /\ Converts(tags[j], line[j])
<1> DEFINE read == {j \in DOMAIN line : Converts(tags[j], line[j])}
           names == {tags[j].name : j \in read}
           of(n) == CHOOSE j \in read : tags[j].name = n
           d == [n \in names \cup {"Id"} |-> IF n \in names THEN line[of(n)] ELSE "new"]
<1>1. DataOf(line) = d
  BY DEF DataOf, FieldAt
<1>2. ASSUME NEW j \in read PROVE of(tags[j].name) = j
  <2>1. of(tags[j].name) \in read /\ tags[of(tags[j].name)].name = tags[j].name
    BY <1>2
  <2> QED BY <1>2, <2>1 DEF TagsInv
<1> HIDE DEF of
<1>3. ASSUME NEW j \in read PROVE d[tags[j].name] = line[j]
  BY <1>2, <1>3
<1>4. ASSUME NEW n \in DOMAIN d, d[n] # "new"
      PROVE  \E j \in DOMAIN line : /\ tags[j].name = n /\ d[n] = line[j]
                                    /\ Converts(tags[j], line[j])
  <2>1. n \in names BY <1>4
  <2>2. PICK j \in read : n = tags[j].name BY <2>1
  <2> QED BY <1>3, <2>2
<1>5. \A j \in read : tags[j].name \in DOMAIN d
  OBVIOUS
<1>6. ASSUME NEW j \in DOMAIN line, Converts(tags[j], line[j]) PROVE j \in read
  BY <1>6
<1> HIDE DEF d, read
<1> QED BY <1>1, <1>3, <1>4, <1>5, <1>6

\* What comes back of the records.
LEMMA ImportInv == ASSUME SheetInv, Import PROVE SheetInv'
<1>1. /\ sheet = "file" /\ looked = Len(model) /\ lines \in {Lines, <<>>}
      /\ UNCHANGED <<model, looked, tags, records, lines>>
  BY DEF Import, SheetInv
<1>2. TagsInv'
  BY <1>1 DEF SheetInv, TagsInv
<1>3. CASE sheet' = "panic" /\ UNCHANGED sheetData
  <2>1. SheetTypeOK'
    BY <1>1, <1>3 DEF SheetInv, SheetTypeOK
  <2> QED BY <1>2, <1>3, <2>1 DEF SheetInv, SheetRoundTrip
<1>4. CASE /\ lines # <<>> /\ sheet' = "read"
           /\ sheetData' = [i \in 1..(Len(lines) - 1) |-> DataOf(lines[i + 1])]
  <2> DEFINE n == Len(records)
             l == Len(lines)
  <2>1. /\ n \in Nat /\ DOMAIN records = 1..n /\ l \in 0..(n + 1) /\ DOMAIN lines = 1..l
        /\ lines = Lines
    <3>1. lines = Lines BY <1>1, <1>4
    <3>2. n \in Nat /\ DOMAIN records = 1..n BY DEF SheetInv, SheetTypeOK
    <3>3. Len(Lines) \in 0..(n + 1) /\ DOMAIN Lines = 1..Len(Lines)
      BY LinesAre DEF SheetInv
    <3> QED BY <3>1, <3>2, <3>3
  <2>2. \A i \in 1..n : i + 1 > l => \A j \in DOMAIN tags : Cell(records[i], tags[j]) = ""
    BY <2>1, LinesAre DEF SheetInv
  <2>3. \A i \in 1..n : i + 1 <= l =>
          /\ DOMAIN lines[i + 1] \subseteq DOMAIN tags
          /\ \A j \in DOMAIN lines[i + 1] : lines[i + 1][j] = Cell(records[i], tags[j])
          /\ \A j \in DOMAIN tags \ DOMAIN lines[i + 1] : Cell(records[i], tags[j]) = ""
    BY <2>1, LinesAre DEF SheetInv
  <2>4. l >= 1
    <3>1. Lines # <<>> => Len(Lines) >= 1
      BY LinesAre DEF SheetInv
    <3> QED BY <1>4, <2>1, <3>1
  <2> HIDE DEF l
  <2>5. /\ Len(sheetData') = l - 1 /\ DOMAIN sheetData' = 1..(l - 1)
        /\ \A i \in 1..(l - 1) : sheetData'[i] = DataOf(lines[i + 1])
    BY <1>4, <2>1, <2>4 DEF l
  <2> HIDE DEF n
  <2>6. SheetTypeOK'
    <3>1. Len(sheetData') <= Len(records) BY <2>1, <2>5 DEF n
    <3> QED BY <1>1, <1>4, <3>1 DEF SheetInv, SheetTypeOK
  <2>7. ASSUME NEW i \in 1..n, NEW k \in DOMAIN tags, i > l - 1
        PROVE  Cell(records[i], tags[k]) = ""
    <3>1. i + 1 > l BY <2>1, <2>7
    <3> QED BY <2>2, <3>1
  <2>8. ASSUME NEW i \in 1..(l - 1), NEW k \in DOMAIN model
        PROVE  LET f == model[k] v == records[i][f.name]
                   kept == f.tag = "plain" /\ f.kind \in {"string", "float64", "uint64"} IN
               /\ kept /\ v \notin {"", "big"} =>
                    f.name \in DOMAIN sheetData'[i] /\ sheetData'[i][f.name] = v
               /\ f.name \in DOMAIN sheetData'[i] => sheetData'[i][f.name] \in {v, "", "lost", "new"}
               /\ f.name \in DOMAIN sheetData'[i] /\ sheetData'[i][f.name] \notin {"", "new"} => kept
    <3> DEFINE f == model[k]
               v == records[i][f.name]
               line == lines[i + 1]
    <3>1. i \in 1..n /\ i + 1 <= l
      BY <2>1, <2>4
    <3>2. /\ DOMAIN line \subseteq DOMAIN tags
          /\ \A j \in DOMAIN line : line[j] = Cell(records[i], tags[j])
          /\ \A j \in DOMAIN tags \ DOMAIN line : Cell(records[i], tags[j]) = ""
          /\ sheetData'[i] = DataOf(line)
      BY <2>3, <2>5, <3>1
    <3> HIDE DEF line
    <3>3. /\ \A j \in DOMAIN line : Converts(tags[j], line[j]) =>
               tags[j].name \in DOMAIN sheetData'[i] /\ sheetData'[i][tags[j].name] = line[j]
          /\ \A m \in DOMAIN sheetData'[i] :
               \/ sheetData'[i][m] = "new"
               \/ \E j \in DOMAIN line : /\ tags[j].name = m /\ sheetData'[i][m] = line[j]
                                        /\ Converts(tags[j], line[j])
      <4>1. TagsInv BY DEF SheetInv
      <4>2. /\ \A j \in DOMAIN line : Converts(tags[j], line[j]) =>
                 tags[j].name \in DOMAIN DataOf(line) /\ DataOf(line)[tags[j].name] = line[j]
            /\ \A m \in DOMAIN DataOf(line) :
                 \/ DataOf(line)[m] = "new"
                 \/ \E j \in DOMAIN line : /\ tags[j].name = m /\ DataOf(line)[m] = line[j]
                                          /\ Converts(tags[j], line[j])
        BY <3>2, <4>1, DataIs
      <4>3. sheetData'[i] = DataOf(line)
        BY <3>2
      <4> QED BY ONLY <4>2, <4>3
    <3>4. /\ model \in Models /\ model \in Seq(Fields) /\ f \in Fields /\ k \in 1..looked
          /\ v \in ValuesOf[f.kind]
      <4>1. model # <<>>
        OBVIOUS
      <4>2. model \in Models /\ model \in Seq(Fields)
        BY <4>1, ModelAssumption DEF SheetInv, SheetTypeOK
      <4>3. records[i] \in RecordsOf(model)
        BY <3>1, <2>1 DEF SheetInv, SheetTypeOK, n
      <4> QED BY <1>1, <4>2, <4>3 DEF RecordsOf
    <3>5. \A j \in DOMAIN tags : tags[j].name = f.name => tags[j] = f
      <4> SUFFICES ASSUME NEW j \in DOMAIN tags, tags[j].name = f.name PROVE tags[j] = f
        OBVIOUS
      <4>1. PICK m \in 1..looked : tags[j] = model[m]
        BY DEF SheetInv, TagsInv
      <4>2. m \in DOMAIN model
        BY <1>1, <3>4
      <4> QED BY <3>4, <4>1, <4>2, ModelAssumption
    <3>6. ASSUME f.tag = "plain", f.kind \in {"string", "float64", "uint64"}, v \notin {"", "big"}
          PROVE  f.name \in DOMAIN sheetData'[i] /\ sheetData'[i][f.name] = v
      <4>1. PICK j \in DOMAIN tags : tags[j] = f
        BY <3>4, <3>6 DEF SheetInv, TagsInv
      <4>2. Cell(records[i], tags[j]) = v
        BY <3>6, <4>1 DEF Cell
      <4>3. j \in DOMAIN line /\ line[j] = v
        BY <3>2, <3>6, <4>2
      <4>4. f.kind \in {"float64", "uint64"} => v = "number"
        BY <3>4, <3>6, ModelAssumption DEF Fields
      <4>5. Converts(f, v)
        BY <3>6, <4>4 DEF Converts
      <4> QED BY <3>3, <4>1, <4>3, <4>5
    <3>7. ASSUME f.name \in DOMAIN sheetData'[i]
          PROVE  sheetData'[i][f.name] \in {v, "", "lost", "new"}
      <4>1. CASE sheetData'[i][f.name] = "new"
        BY <4>1
      <4>2. CASE \E j \in DOMAIN line : tags[j].name = f.name /\ sheetData'[i][f.name] = line[j]
        <5>1. PICK j \in DOMAIN line : tags[j].name = f.name /\ sheetData'[i][f.name] = line[j]
          BY <4>2
        <5>2. sheetData'[i][f.name] = Cell(records[i], f)
          BY <3>2, <3>5, <5>1
        <5> QED BY <5>2 DEF Cell
      <4> QED BY <3>3, <3>7, <4>1, <4>2
    <3>8. ASSUME f.name \in DOMAIN sheetData'[i], sheetData'[i][f.name] \notin {"", "new"}
          PROVE  f.tag = "plain" /\ f.kind \in {"string", "float64", "uint64"}
      <4>1. PICK j \in DOMAIN line : /\ tags[j].name = f.name /\ sheetData'[i][f.name] = line[j]
                                     /\ Converts(tags[j], line[j])
        BY <3>3, <3>8
      <4>2. tags[j] = f /\ line[j] = Cell(records[i], f) /\ f.tag # "none"
        BY <3>2, <3>5, <4>1, ZenonT(60) DEF SheetInv, TagsInv
      <4>3. f.tag # "options"
        BY <3>8, <4>1, <4>2 DEF Cell
      <4>4. f.tag = "plain"
        BY <3>4, <4>2, <4>3 DEF Fields
      <4>5. f.kind \in {"string", "float64", "uint64"}
        BY <4>1, <4>2 DEF Converts
      <4> QED BY <4>4, <4>5
    <3> HIDE DEF f, v
    <3> QED BY <3>6, <3>7, <3>8 DEF f, v
  <2>9. SheetRoundTrip'
    <3>1. \A i \in DOMAIN records', k \in DOMAIN tags' :
            i > Len(sheetData') => Cell(records'[i], tags'[k]) = ""
      BY <1>1, <2>1, <2>5, <2>7
    <3>2. \A i \in DOMAIN sheetData', k \in DOMAIN model' :
            LET f == model'[k] v == records'[i][f.name]
                kept == f.tag = "plain" /\ f.kind \in {"string", "float64", "uint64"} IN
            /\ kept /\ v \notin {"", "big"} => f.name \in DOMAIN sheetData'[i] /\ sheetData'[i][f.name] = v
            /\ f.name \in DOMAIN sheetData'[i] => sheetData'[i][f.name] \in {v, "", "lost", "new"}
            /\ f.name \in DOMAIN sheetData'[i] /\ sheetData'[i][f.name] \notin {"", "new"} => kept
      BY <1>1, <2>5, <2>8
    <3> QED BY <3>1, <3>2 DEF SheetRoundTrip, Cell
  <2> QED BY <1>2, <1>4, <2>6, <2>9 DEF SheetInv
<1> QED BY <1>3, <1>4 DEF Import

\* Every step keeps the invariant.
LEMMA SheetStep == ASSUME SheetInv, SheetNext PROVE SheetInv'
BY NewExcelInv, GetTagInv, RecordInv, ExportInv, ExportFailsInv, ImportInv DEF SheetNext

-----------------------------------------------------------------------------
(* Searches *)

\* The condition k is in the statement.
Made(k) == (0 < k /\ k <= made) \/ (k = 0 /\ made = joins + 1)

\* Where what the fields asked for is: filters among the clauses of their
\* condition, unless a later one took their place, and orders in the list of
\* theirs, in the order of the fields.
Collected ==
  /\ \A w \in where : \E i \in DOMAIN filters : filters[i].in = w.in /\ filters[i].clause = w.clause
  /\ \A i \in DOMAIN filters :
       \/ \E w \in where : w.in = filters[i].in /\ w.clause = filters[i].clause
       \/ \E j \in DOMAIN filters :
            j > i /\ filters[j].in = filters[i].in
            /\ Text(filters[j].clause) = Text(filters[i].clause)
  /\ \A k \in 0..MaxFields : \A m \in DOMAIN orders[k] :
       \E i \in DOMAIN sortings : sortings[i].in = k /\ sortings[i].by = orders[k][m]
  /\ \A i \in DOMAIN sortings :
       \E m \in DOMAIN orders[sortings[i].in] : orders[sortings[i].in][m] = sortings[i].by
  /\ \A i, j \in DOMAIN sortings :
       sortings[i].in = sortings[j].in /\ i < j =>
         \E m, n \in DOMAIN orders[sortings[i].in] :
           /\ m < n
           /\ orders[sortings[i].in][m] = sortings[i].by
           /\ orders[sortings[i].in][n] = sortings[j].by

\* The statement has what the conditions have that went to it, and no more.
Stated ==
  /\ \A w \in where : Made(w.in) => w.clause \in statement.where
  /\ \A c \in statement.where : \E w \in where : Made(w.in) /\ w.clause = c
  /\ \A k \in 0..joins : Made(k) =>
       \A m \in DOMAIN orders[k] : \E p \in DOMAIN statement.order : statement.order[p] = orders[k][m]
  /\ \A p \in DOMAIN statement.order : \E k \in 0..joins :
       Made(k) /\ \E m \in DOMAIN orders[k] : statement.order[p] = orders[k][m]

\* One order stands before the other in the statement.
Stands(a, b) ==
  \E p, q \in DOMAIN statement.order : p < q /\ statement.order[p] = a /\ statement.order[q] = b

\* The orders are in the order of the conditions, and of the fields in each.
Ranked ==
  \A k, l \in 0..joins : Made(k) /\ Made(l) =>
    \A m \in DOMAIN orders[k], n \in DOMAIN orders[l] :
      Earlier(k, l) \/ (k = l /\ m < n) => Stands(orders[k][m], orders[l][n])

SearchInv ==
  /\ SearchTypeOK
  /\ Collected
  /\ Stated
  /\ Ranked
  /\ made > 0 => stack = <<>>
  /\ walk = "fields" => made <= joins
  /\ walk = "done" => made = joins + 1

LEMMA SearchInitInv == SearchInit => SearchInv
<1> SUFFICES ASSUME SearchInit PROVE SearchInv OBVIOUS
<1>1. SearchTypeOK
  <2>1. /\ <<0>> \in Seq(-1..0) /\ Len(<<0>>) = 1
        /\ <<>> \in Seq([in : 0..0, type : Types, clause : Clauses]) /\ <<>> \in Seq([in : 0..0, by : Orders])
        /\ <<>> \in Seq(Orders)
    OBVIOUS
  <2>2. Nothing \in Statements
    BY DEF Nothing, Statements
  <2>3. [k \in 0..MaxFields |-> <<>>] \in [0..MaxFields -> Seq(Orders)]
    BY <2>1
  <2> QED BY <2>1, <2>2, <2>3, BoundsAssumption DEF SearchInit, SearchTypeOK
<1>2. Collected
  BY DEF SearchInit, Collected
<1>3. \A k \in 0..joins : ~Made(k)
  BY DEF SearchInit, Made
<1>4. statement.where = {} /\ statement.order = <<>>
  BY DEF SearchInit, Nothing
<1>5. Stated
  BY <1>3, <1>4 DEF SearchInit, Stated
<1>6. Ranked
  BY <1>3 DEF Ranked
<1> QED BY <1>1, <1>2, <1>5, <1>6 DEF SearchInit, SearchInv

LEMMA SortingsTyped ==
  ASSUME SearchTypeOK
  PROVE  /\ \A i \in DOMAIN sortings : sortings[i].in \in 0..joins /\ sortings[i].by \in Orders
         /\ \A i \in DOMAIN filters : filters[i].in \in 0..joins /\ filters[i].clause \in Clauses
         /\ \A w \in where : w.in \in 0..joins /\ w.clause \in Clauses
<1> DEFINE S == [in : 0..joins, by : Orders]
           F == [in : 0..joins, type : Types, clause : Clauses]
           W == [in : 0..joins, clause : Clauses]
<1>1. /\ \A s \in S : s.in \in 0..joins /\ s.by \in Orders
      /\ \A f \in F : f.in \in 0..joins /\ f.clause \in Clauses
      /\ \A w \in W : w.in \in 0..joins /\ w.clause \in Clauses
  OBVIOUS
<1>2. sortings \in Seq(S) /\ filters \in Seq(F) /\ where \subseteq W
  BY DEF SearchTypeOK
<1> HIDE DEF S, F, W
<1>3. (\A i \in DOMAIN sortings : sortings[i] \in S) /\ (\A i \in DOMAIN filters : filters[i] \in F)
  BY <1>2
<1> QED BY <1>1, <1>2, <1>3

\* When every condition is in the statement, it does what was asked.
LEMMA SearchInvImplies == SearchInv => AllAsked
<1> SUFFICES ASSUME SearchInv, walk = "done" PROVE AllAsked
  BY DEF AllAsked
<1>1. joins \in Nat /\ joins <= MaxFields /\ made = joins + 1
  BY BoundsAssumption DEF SearchInv, SearchTypeOK
<1>2. \A k \in 0..joins : Made(k)
  BY <1>1 DEF Made
<1>3. \A w \in where : w.in \in 0..joins
  BY DEF SearchInv, SearchTypeOK
<1>4. \A i \in DOMAIN sortings : sortings[i].in \in 0..joins
  BY SortingsTyped DEF SearchInv
<1>5. 0..joins \subseteq 0..MaxFields
  BY <1>1, BoundsAssumption
<1>6. ASSUME NEW i \in DOMAIN filters
      PROVE  \/ filters[i].clause \in statement.where
             \/ \E j \in DOMAIN filters :
                  j > i /\ filters[j].in = filters[i].in
                  /\ Text(filters[j].clause) = Text(filters[i].clause)
  BY <1>2, <1>3 DEF SearchInv, Collected, Stated
<1>7. \A c \in statement.where : \E i \in DOMAIN filters : filters[i].clause = c
  BY DEF SearchInv, Collected, Stated
<1>8. \A i \in DOMAIN sortings : \E m \in DOMAIN statement.order : statement.order[m] = sortings[i].by
  BY <1>2, <1>4 DEF SearchInv, Collected, Stated
<1>9. \A m \in DOMAIN statement.order : \E i \in DOMAIN sortings : statement.order[m] = sortings[i].by
  BY <1>5 DEF SearchInv, Collected, Stated
<1>10. ASSUME NEW i \in DOMAIN sortings, NEW j \in DOMAIN sortings,
              Earlier(sortings[i].in, sortings[j].in) \/ (sortings[i].in = sortings[j].in /\ i < j)
       PROVE  \E m, n \in DOMAIN statement.order :
                m < n /\ statement.order[m] = sortings[i].by /\ statement.order[n] = sortings[j].by
  <2> DEFINE k == sortings[i].in
             l == sortings[j].in
  <2>1. k \in 0..joins /\ l \in 0..joins /\ Made(k) /\ Made(l)
    BY <1>2, <1>4
  <2>2. PICK m \in DOMAIN orders[k], n \in DOMAIN orders[l] :
          /\ orders[k][m] = sortings[i].by /\ orders[l][n] = sortings[j].by
          /\ Earlier(k, l) \/ (k = l /\ m < n)
    <3>1. CASE Earlier(k, l)
      BY <3>1 DEF SearchInv, Collected
    <3>2. CASE k = l /\ i < j
      BY <3>2 DEF SearchInv, Collected
    <3> QED BY <1>10, <3>1, <3>2
  <2> HIDE DEF k, l
  <2>3. Stands(orders[k][m], orders[l][n])
    BY <2>1, <2>2 DEF SearchInv, Ranked
  <2> QED BY <2>2, <2>3 DEF Stands
<1> QED BY <1>6, <1>7, <1>8, <1>9, <1>10 DEF AllAsked

\* While there are fields, nothing is in the statement.
LEMMA FieldsFrame ==
  ASSUME SearchInv, stack # <<>>, UNCHANGED <<made, statement>>, walk' \in {"fields", "panic"},
         SearchTypeOK', Collected'
  PROVE  SearchInv'
<1>1. made = 0 /\ made' = 0
  BY BoundsAssumption DEF SearchInv, SearchTypeOK
<1>2. joins \in Nat /\ joins' \in Nat
  BY BoundsAssumption DEF SearchInv, SearchTypeOK
<1>3. \A k \in 0..joins : ~Made(k)
  BY <1>1, <1>2 DEF Made
<1>4. ASSUME NEW k \in 0..joins' PROVE ~Made(k)'
  <2>1. k \in Nat /\ 0 # joins' + 1
    <3>1. \A j \in Nat : 0..j \subseteq Nat /\ 0 # j + 1
      OBVIOUS
    <3>2. k \in 0..joins' /\ joins' \in Nat
      BY <1>2
    <3> QED BY ONLY <3>1, <3>2
  <2>2. ~((0 < k /\ k <= 0) \/ (k = 0 /\ 0 = joins' + 1))
    BY <2>1
  <2> QED BY <1>1, <2>2 DEF Made
<1>5. statement.where = {} /\ DOMAIN statement.order = {}
  BY <1>3 DEF SearchInv, SearchTypeOK, Stated
<1>6. Stated'
  BY <1>4, <1>5 DEF Stated, SearchTypeOK
<1>7. Ranked'
  BY <1>4 DEF Ranked
<1>8. made' > 0 => stack' = <<>>
  BY <1>1
<1>9. walk' = "fields" => made' <= joins'
  BY <1>1, <1>2
<1>10. walk' = "done" => made' = joins' + 1
  OBVIOUS
<1> QED BY <1>6, <1>7, <1>8, <1>9, <1>10 DEF SearchInv

\* A sequence over a set is one over every larger set.
LEMMA SeqWider ==
  ASSUME NEW A, NEW B, A \subseteq B, NEW s \in Seq(A)
  PROVE  s \in Seq(B)
OBVIOUS

\* Steps between fields leave what was collected alone.
LEMMA UncollectedFrame ==
  ASSUME SearchInv, UNCHANGED collected
  PROVE  Collected'
BY DEF SearchInv, Collected, collected

LEMMA PanicsInv ==
  ASSUME SearchInv, UNCHANGED dialect, stack # <<>>, Panics
  PROVE  SearchInv'
<1>1. walk' = "panic" /\ UNCHANGED <<stack, joins, collected, made, statement>>
  BY DEF Panics
<1>2. SearchTypeOK'
  BY <1>1 DEF SearchInv, SearchTypeOK, collected
<1> QED BY <1>1, <1>2, UncollectedFrame, FieldsFrame

LEMMA HereTyped ==
  ASSUME SearchTypeOK, stack # <<>>
  PROVE  Here \in -1..joins
<1>1. joins \in Nat /\ stack \in Seq(-1..joins)
  BY BoundsAssumption DEF SearchTypeOK
<1>2. Len(stack) \in 1..Len(stack)
  BY <1>1
<1> QED BY <1>1, <1>2 DEF Here, Last

\* The walk goes into a form or out of it.
LEMMA StackFrame ==
  ASSUME SearchInv, UNCHANGED dialect, stack # <<>>, stack' \in Seq(-1..joins), Len(stack') <= MaxNesting + 1,
         UNCHANGED <<joins, collected, walk, made, statement>>, walk = "fields"
  PROVE  SearchInv'
<1>1. SearchTypeOK'
  BY DEF SearchInv, SearchTypeOK, collected
<1> QED BY <1>1, UncollectedFrame, FieldsFrame

LEMMA UntaggedInv == ASSUME SearchInv, UNCHANGED dialect, Untagged PROVE SearchInv'
<1>1. stack # <<>> /\ walk = "fields"
  BY DEF Untagged, Field
<1>2. CASE Panics
  BY <1>1, <1>2, PanicsInv
<1>3. CASE /\ Deeper /\ stack' = Append(stack, Here)
           /\ UNCHANGED <<joins, collected, walk, made, statement>>
  <2>1. Here \in -1..joins /\ stack \in Seq(-1..joins) /\ Len(stack) \in Nat
    BY <1>1, HereTyped DEF SearchInv, SearchTypeOK
  <2>2. stack' \in Seq(-1..joins) /\ Len(stack') <= MaxNesting + 1
    BY <1>3, <2>1, BoundsAssumption DEF Deeper
  <2> QED BY <1>1, <1>3, <2>2, StackFrame
<1> QED BY <1>2, <1>3 DEF Untagged

LEMMA EndOfFormInv == ASSUME SearchInv, UNCHANGED dialect, EndOfForm PROVE SearchInv'
<1>1. stack # <<>> /\ walk = "fields" /\ UNCHANGED <<joins, collected, walk, made, statement>>
  BY DEF EndOfForm
<1>2. stack \in Seq(-1..joins) /\ Len(stack) \in Nat \ {0} /\ Len(stack) <= MaxNesting + 1
  BY <1>1 DEF SearchInv, SearchTypeOK
<1>3. stack' = SubSeq(stack, 1, Len(stack) - 1)
  BY DEF EndOfForm, Front
<1>4. stack' \in Seq(-1..joins) /\ Len(stack') <= MaxNesting + 1
  <2> DEFINE S == -1..joins
             n == Len(stack) - 1
  <2>1. stack \in Seq(S) /\ n \in 0..Len(stack) /\ n <= MaxNesting + 1
    BY <1>2, BoundsAssumption
  <2>2. stack' = SubSeq(stack, 1, n)
    BY <1>3
  <2> HIDE DEF S, n
  <2>3. n \in Int /\ \A i \in 1..n : stack[i] \in S
    BY <2>1
  <2>4. stack' \in Seq(S) /\ Len(stack') = n
    BY <2>1, <2>2, <2>3
  <2> QED BY <2>1, <2>4 DEF S
<1> QED BY <1>1, <1>4, StackFrame

\* A join is a condition more, of which nothing is asked yet.
LEMMA JoinInv == ASSUME SearchInv, UNCHANGED dialect, Join PROVE SearchInv'
<1>1. stack # <<>> /\ walk = "fields" /\ Len(filters) + Len(sortings) + joins < MaxFields
  BY DEF Join, Field
<1>2. CASE Here = -1
  BY <1>1, <1>2, PanicsInv DEF Join
<1>3. CASE Here # -1
  <2>1. /\ Deeper /\ stack' = Append(stack, IF Here = 0 THEN joins + 1 ELSE -1)
        /\ joins' = IF Here = 0 THEN joins + 1 ELSE joins
        /\ UNCHANGED <<collected, walk, made, statement>>
    BY <1>3 DEF Join
  <2>2. /\ joins \in Nat /\ joins' \in Nat /\ joins' <= MaxFields /\ joins <= joins'
    <3>1. Len(filters) \in Nat /\ Len(sortings) \in Nat /\ joins \in 0..MaxFields
      BY DEF SearchInv, SearchTypeOK
    <3> QED BY <1>1, <2>1, <3>1, BoundsAssumption
  <2>3. stack' \in Seq(-1..joins') /\ Len(stack') <= MaxNesting + 1
    <3>1. stack \in Seq(-1..joins) /\ Len(stack) \in Nat
      BY DEF SearchInv, SearchTypeOK
    <3>2. stack \in Seq(-1..joins')
      <4>1. -1..joins \subseteq -1..joins' BY <2>2
      <4> QED BY <3>1, <4>1, SeqWider
    <3>3. (IF Here = 0 THEN joins + 1 ELSE -1) \in -1..joins'
      BY <2>1, <2>2
    <3> QED BY <2>1, <3>1, <3>2, <3>3, BoundsAssumption DEF Deeper
  <2>4. /\ where \subseteq [in : 0..joins', clause : Clauses]
        /\ filters \in Seq([in : 0..joins', type : Types, clause : Clauses])
        /\ sortings \in Seq([in : 0..joins', by : Orders])
    <3> DEFINE S(n) == [in : 0..n, by : Orders]
               F(n) == [in : 0..n, type : Types, clause : Clauses]
               W(n) == [in : 0..n, clause : Clauses]
    <3>1. S(joins) \subseteq S(joins') /\ F(joins) \subseteq F(joins') /\ W(joins) \subseteq W(joins')
      BY <2>2
    <3>2. where \subseteq W(joins) /\ filters \in Seq(F(joins)) /\ sortings \in Seq(S(joins))
      BY DEF SearchInv, SearchTypeOK
    <3> HIDE DEF S, F, W
    <3>3. where \subseteq W(joins') /\ filters \in Seq(F(joins')) /\ sortings \in Seq(S(joins'))
      BY <3>1, <3>2, SeqWider
    <3> QED BY <3>3 DEF S, F, W
  <2>5. made \in 0..(joins' + 1)
    <3>1. made \in 0..(joins + 1)
      BY DEF SearchInv, SearchTypeOK
    <3>2. \A i, j \in Nat : i <= j => 0..(i + 1) \subseteq 0..(j + 1)
      OBVIOUS
    <3> QED BY ONLY <2>2, <3>1, <3>2
  <2>6. SearchTypeOK'
    <3>1. UNCHANGED <<where, orders, filters, sortings, walk, made, statement>>
      BY <2>1 DEF collected
    <3>2. joins' \in 0..MaxFields /\ dialect' \in Dialects
      BY <2>2, BoundsAssumption DEF SearchInv, SearchTypeOK
    <3>3. orders' \in [0..MaxFields -> Seq(Orders)] /\ walk' \in {"fields", "done", "panic"}
          /\ statement' \in Statements
      BY <3>1 DEF SearchInv, SearchTypeOK
    <3> QED BY <2>3, <2>4, <2>5, <3>1, <3>2, <3>3 DEF SearchTypeOK
  <2> QED BY <1>1, <2>1, <2>6, UncollectedFrame, FieldsFrame
<1> QED BY <1>2, <1>3

\* What was appended is behind what was there.
LEMMA Behind ==
  ASSUME NEW S, NEW s \in Seq(S), NEW e \in S
  PROVE  /\ Append(s, e) \in Seq(S) /\ Len(s) \in Nat
         /\ DOMAIN Append(s, e) = DOMAIN s \cup {Len(s) + 1}
         /\ \A i \in DOMAIN s : Append(s, e)[i] = s[i] /\ i < Len(s) + 1
         /\ Append(s, e)[Len(s) + 1] = e
OBVIOUS

\* A filter takes the place of the one of the same text.
LEMMA FilterInv ==
  ASSUME SearchInv, UNCHANGED dialect, NEW type \in Types, NEW col \in Columns, NEW value \in Values,
         Filter(type, col, value)
  PROVE  SearchInv'
<1> DEFINE c == Clause(type, col, value)
           set == [in |-> Here, clause |-> c]
           new == [in |-> Here, type |-> type, clause |-> c]
           F == [in : 0..joins, type : Types, clause : Clauses]
           W == [in : 0..joins, clause : Clauses]
<1>1. stack # <<>> /\ walk = "fields"
  BY DEF Filter, Field
<1>2. CASE Here = -1
  BY <1>1, <1>2, PanicsInv DEF Filter
<1>3. CASE Here # -1
  <2>1. /\ where' = SetWhere(Here, c) /\ filters' = Append(filters, new)
        /\ UNCHANGED <<stack, joins, orders, sortings, walk, made, statement>>
    BY <1>3 DEF Filter
  <2>2. c \in Clauses
    BY DEF Clauses, Clause, SearchInv, SearchTypeOK
  <2>3. Here \in 0..joins
    <3>1. \A j \in Nat : \A h \in -1..j : h # -1 => h \in 0..j
      OBVIOUS
    <3>2. Here \in -1..joins /\ joins \in Nat
      BY <1>1, HereTyped, BoundsAssumption DEF SearchInv, SearchTypeOK
    <3> QED BY <1>3, <3>1, <3>2
  <2>4. /\ new \in F /\ new.in = Here /\ new.clause = c
        /\ set \in W /\ set.in = Here /\ set.clause = c
    BY <2>2, <2>3
  <2>5. where \subseteq W /\ filters \in Seq(F)
    BY DEF SearchInv, SearchTypeOK
  <2>6. where' = {w \in where : ~(w.in = Here /\ Text(w.clause) = Text(c))} \cup {set}
    BY <2>1 DEF SetWhere
  <2> HIDE DEF c, set, new, F, W
  <2>7. /\ filters' \in Seq(F) /\ Len(filters) \in Nat
        /\ DOMAIN filters' = DOMAIN filters \cup {Len(filters) + 1}
        /\ \A i \in DOMAIN filters : filters'[i] = filters[i] /\ i < Len(filters) + 1
        /\ filters'[Len(filters) + 1] = new
    BY <2>1, <2>4, <2>5, Behind
  <2>8. where' \subseteq W
    BY <2>4, <2>5, <2>6
  <2>9. SearchTypeOK'
    <3>1. /\ where' \subseteq [in : 0..joins', clause : Clauses]
          /\ filters' \in Seq([in : 0..joins', type : Types, clause : Clauses])
      BY <2>1, <2>7, <2>8 DEF F, W
    <3> QED BY <2>1, <3>1 DEF SearchInv, SearchTypeOK
  <2>10. \A w \in where' : \E i \in DOMAIN filters' :
           filters'[i].in = w.in /\ filters'[i].clause = w.clause
    BY <2>4, <2>6, <2>7 DEF SearchInv, Collected
  <2>11. ASSUME NEW i \in DOMAIN filters'
         PROVE  \/ \E w \in where' : w.in = filters'[i].in /\ w.clause = filters'[i].clause
                \/ \E j \in DOMAIN filters' :
                     j > i /\ filters'[j].in = filters'[i].in
                     /\ Text(filters'[j].clause) = Text(filters'[i].clause)
    <3>1. CASE i = Len(filters) + 1
      BY <2>4, <2>6, <2>7, <3>1
    <3>2. CASE i \in DOMAIN filters
      <4>1. filters'[i] = filters[i] /\ Len(filters) + 1 > i /\ Len(filters) + 1 \in DOMAIN filters'
        BY <2>7, <3>2
      <4>2. CASE \E j \in DOMAIN filters :
                   j > i /\ filters[j].in = filters[i].in
                   /\ Text(filters[j].clause) = Text(filters[i].clause)
        BY <2>7, <4>1, <4>2
      <4>3. CASE \E w \in where : w.in = filters[i].in /\ w.clause = filters[i].clause
        <5>1. PICK w \in where : w.in = filters[i].in /\ w.clause = filters[i].clause
          BY <4>3
        <5>2. CASE w \in where'
          BY <4>1, <5>1, <5>2
        <5>3. CASE w \notin where'
          <6>1. w.in = new.in /\ Text(w.clause) = Text(new.clause)
            BY <2>4, <2>6, <5>3
          <6> QED BY <2>7, <4>1, <5>1, <6>1
        <5> QED BY <5>2, <5>3
      <4> QED BY <3>2, <4>2, <4>3 DEF SearchInv, Collected
    <3> QED BY <2>7, <3>1, <3>2
  <2>12. Collected'
    <3>1. Collected
      BY DEF SearchInv
    <3> HIDE DEF Filter
    <3> QED BY ONLY <2>1, <2>10, <2>11, <3>1 DEF Collected
  <2> QED BY <1>1, <2>1, <2>9, <2>12, FieldsFrame
<1> QED BY <1>2, <1>3

\* An order is the last one of its condition.
LEMMA OrderByInv ==
  ASSUME SearchInv, UNCHANGED dialect, NEW col \in Columns, NEW way \in {"asc", "desc"}, OrderBy(col, way)
  PROVE  SearchInv'
<1> DEFINE by == [column |-> col, way |-> way]
           new == [in |-> Here, by |-> by]
           S == [in : 0..joins, by : Orders]
<1>1. stack # <<>> /\ walk = "fields"
  BY DEF OrderBy, Field
<1>2. CASE Here = -1
  BY <1>1, <1>2, PanicsInv DEF OrderBy
<1>3. CASE Here # -1
  <2>1. /\ orders' = [orders EXCEPT ![Here] = Append(orders[Here], by)]
        /\ sortings' = Append(sortings, new)
        /\ UNCHANGED <<stack, joins, where, filters, walk, made, statement>>
    BY <1>3 DEF OrderBy
  <2>2. by \in Orders
    BY DEF Orders
  <2>3. Here \in 0..joins /\ Here \in 0..MaxFields
    <3>1. \A j, b \in Nat : \A h \in -1..j : h # -1 /\ j <= b => h \in 0..j /\ h \in 0..b
      OBVIOUS
    <3>2. Here \in -1..joins /\ joins \in Nat /\ joins <= MaxFields
      BY <1>1, HereTyped, BoundsAssumption DEF SearchInv, SearchTypeOK
    <3> QED BY <1>3, <3>1, <3>2, BoundsAssumption
  <2>4. new \in S /\ new.in = Here /\ new.by = by
    BY <2>2, <2>3
  <2>5. sortings \in Seq(S) /\ orders \in [0..MaxFields -> Seq(Orders)]
    BY DEF SearchInv, SearchTypeOK
  <2> DEFINE h == Here
             old == orders[h]
             s == Len(sortings) + 1
             o == Len(old) + 1
  <2>6. /\ orders' \in [0..MaxFields -> Seq(Orders)]
        /\ orders'[h] = Append(old, by)
        /\ \A k \in (0..MaxFields) \ {h} : orders'[k] = orders[k]
    <3> DEFINE O == Seq(Orders)
               a == Append(old, by)
    <3>1. orders \in [0..MaxFields -> O] /\ h \in 0..MaxFields
      BY <2>3, <2>5
    <3>2. a \in O
      <4>1. old \in O
        BY <3>1
      <4> HIDE DEF old, by
      <4> QED BY <2>2, <4>1
    <3>3. orders' = [orders EXCEPT ![h] = a]
      BY <2>1
    <3> HIDE DEF O, a, h
    <3>4. orders' \in [0..MaxFields -> O] /\ orders'[h] = a
          /\ \A k \in (0..MaxFields) \ {h} : orders'[k] = orders[k]
      BY <3>1, <3>2, <3>3
    <3> QED BY <3>4 DEF O, a
  <2>7. old \in Seq(Orders)
    BY <2>3, <2>5
  <2> HIDE DEF by, new, S
  <2>8. /\ sortings' \in Seq(S) /\ DOMAIN sortings' = DOMAIN sortings \cup {s}
        /\ \A i \in DOMAIN sortings : sortings'[i] = sortings[i] /\ i < s
        /\ sortings'[s] = new
    BY <2>1, <2>4, <2>5, Behind
  <2>9. /\ DOMAIN orders'[h] = DOMAIN old \cup {o}
        /\ \A m \in DOMAIN old : orders'[h][m] = old[m] /\ m < o
        /\ orders'[h][o] = by
    <3> HIDE DEF old
    <3> QED BY <2>2, <2>6, <2>7, Behind
  <2>10. SearchTypeOK'
    <3>1. sortings' \in Seq([in : 0..joins', by : Orders])
      BY <2>1, <2>8 DEF S
    <3> QED BY <2>1, <2>6, <3>1 DEF SearchInv, SearchTypeOK
  <2>11. \A i \in DOMAIN sortings : sortings[i].in \in 0..MaxFields
    <3>1. joins \in 0..MaxFields /\ 0..joins \subseteq 0..MaxFields
      BY BoundsAssumption DEF SearchInv, SearchTypeOK
    <3> QED BY <3>1, SortingsTyped DEF SearchInv
  <2> HIDE DEF h, s, o
  \* What a condition had, it has in the same place.
  <2>12. \A k \in 0..MaxFields : \A m \in DOMAIN orders[k] :
           m \in DOMAIN orders'[k] /\ orders'[k][m] = orders[k][m]
    BY <2>6, <2>9
  <2>13. ASSUME NEW k \in 0..MaxFields, NEW m \in DOMAIN orders'[k]
         PROVE  \E i \in DOMAIN sortings' : sortings'[i].in = k /\ sortings'[i].by = orders'[k][m]
    <3>1. CASE k = h /\ m = o
      BY <2>4, <2>8, <2>9, <3>1 DEF h
    <3>2. CASE m \in DOMAIN orders[k] /\ orders'[k][m] = orders[k][m]
      <4>1. PICK i \in DOMAIN sortings : sortings[i].in = k /\ sortings[i].by = orders[k][m]
        BY <3>2 DEF SearchInv, Collected
      <4> QED BY <2>8, <3>2, <4>1
    <3> QED BY <2>6, <2>9, <3>1, <3>2
  <2>14. ASSUME NEW i \in DOMAIN sortings'
         PROVE  \E m \in DOMAIN orders'[sortings'[i].in] :
                  orders'[sortings'[i].in][m] = sortings'[i].by
    <3>1. CASE i = s
      BY <2>4, <2>8, <2>9, <3>1 DEF h
    <3>2. CASE i \in DOMAIN sortings
      <4>1. PICK m \in DOMAIN orders[sortings[i].in] : orders[sortings[i].in][m] = sortings[i].by
        BY <3>2 DEF SearchInv, Collected
      <4> QED BY <2>8, <2>11, <2>12, <3>2, <4>1
    <3> QED BY <2>8, <3>1, <3>2
  <2>15. ASSUME NEW i \in DOMAIN sortings', NEW j \in DOMAIN sortings',
                sortings'[i].in = sortings'[j].in, i < j
         PROVE  \E m, n \in DOMAIN orders'[sortings'[i].in] :
                  /\ m < n
                  /\ orders'[sortings'[i].in][m] = sortings'[i].by
                  /\ orders'[sortings'[i].in][n] = sortings'[j].by
    <3>0. i \in DOMAIN sortings
      BY <2>5, <2>8, <2>15 DEF s
    <3>1. CASE j = s
      <4>1. PICK m \in DOMAIN old : old[m] = sortings[i].by
        BY <2>4, <2>8, <2>15, <3>0, <3>1 DEF SearchInv, Collected, h
      <4>2. sortings'[i].in = h /\ sortings'[j].by = by
        BY <2>4, <2>8, <2>15, <3>1 DEF h
      <4> QED BY <2>8, <2>9, <3>0, <4>1, <4>2
    <3>2. CASE j \in DOMAIN sortings
      <4>1. PICK m, n \in DOMAIN orders[sortings[i].in] :
              m < n /\ orders[sortings[i].in][m] = sortings[i].by
              /\ orders[sortings[i].in][n] = sortings[j].by
        BY <2>8, <2>15, <3>0, <3>2 DEF SearchInv, Collected
      <4> QED BY <2>8, <2>11, <2>12, <3>0, <3>2, <4>1, ZenonT(60)
    <3> QED BY <2>8, <3>1, <3>2
  <2>16. Collected'
    <3>1. /\ \A w \in where' : \E i \in DOMAIN filters' :
               filters'[i].in = w.in /\ filters'[i].clause = w.clause
          /\ \A i \in DOMAIN filters' :
               \/ \E w \in where' : w.in = filters'[i].in /\ w.clause = filters'[i].clause
               \/ \E j \in DOMAIN filters' :
                    j > i /\ filters'[j].in = filters'[i].in
                    /\ Text(filters'[j].clause) = Text(filters'[i].clause)
      BY <2>1 DEF SearchInv, Collected
    <3>2. \A i, j \in DOMAIN sortings' :
            sortings'[i].in = sortings'[j].in /\ i < j =>
              \E m, n \in DOMAIN orders'[sortings'[i].in] :
                /\ m < n
                /\ orders'[sortings'[i].in][m] = sortings'[i].by
                /\ orders'[sortings'[i].in][n] = sortings'[j].by
      BY <2>15
    <3> QED BY <2>13, <2>14, <3>1, <3>2 DEF Collected
  <2> QED BY <1>1, <2>1, <2>10, <2>16, FieldsFrame
<1> QED BY <1>2, <1>3

LEMMA JoinTextInv == ASSUME SearchInv, UNCHANGED dialect, JoinText PROVE SearchInv'
BY PanicsInv DEF JoinText, Field

\* A sequence behind another one.
LEMMA Concatenated ==
  ASSUME NEW S, NEW s \in Seq(S), NEW t \in Seq(S)
  PROVE  /\ s \o t \in Seq(S) /\ Len(s) \in Nat
         /\ \A p \in DOMAIN s : p \in DOMAIN (s \o t) /\ (s \o t)[p] = s[p] /\ p <= Len(s)
         /\ \A p \in DOMAIN t : Len(s) + p \in DOMAIN (s \o t) /\ (s \o t)[Len(s) + p] = t[p]
                                /\ p \in Nat \ {0}
         /\ \A p \in DOMAIN (s \o t) : p \in DOMAIN s \/ (p - Len(s) \in DOMAIN t /\ (s \o t)[p] = t[p - Len(s)])
OBVIOUS

\* The next condition comes to the statement: its orders are behind those of
\* the conditions before it.
LEMMA MakeConditionInv == ASSUME SearchInv, UNCHANGED dialect, MakeCondition PROVE SearchInv'
<1> DEFINE next == IF made < joins THEN made + 1 ELSE 0
           old == statement.order
           more == orders[next]
<1>1. /\ walk = "fields" /\ stack = <<>>
      /\ statement' = [where |-> statement.where \cup {w.clause : w \in {w \in where : w.in = next}},
                       order |-> old \o more]
      /\ made' = made + 1
      /\ walk' = IF next = 0 THEN "done" ELSE "fields"
      /\ UNCHANGED <<stack, joins, collected>>
  BY DEF MakeCondition
<1>2. /\ made \in Nat /\ joins \in Nat /\ made <= joins /\ joins <= MaxFields
      /\ next \in 0..joins /\ next \in 0..MaxFields
  <2>1. made \in 0..(joins + 1) /\ joins \in 0..MaxFields /\ made <= joins
    BY <1>1 DEF SearchInv, SearchTypeOK
  <2> QED BY <2>1, BoundsAssumption
<1>3. ~Made(next) /\ \A k \in 0..joins : Made(k)' <=> Made(k) \/ k = next
  <2>1. ~Made(next)
    BY <1>2 DEF Made
  <2>2. ASSUME NEW k \in 0..joins PROVE Made(k)' <=> Made(k) \/ k = next
    BY <1>1, <1>2 DEF Made
  <2> QED BY <2>1, <2>2
<1>4. \A k \in 0..joins : Earlier(next, k) => ~Made(k)
  BY <1>2 DEF Made, Earlier
<1>5. old \in Seq(Orders) /\ more \in Seq(Orders)
  BY <1>2 DEF SearchInv, SearchTypeOK, Statements
<1>6. statement'.where = statement.where \cup {w.clause : w \in {w \in where : w.in = next}}
      /\ statement'.order = old \o more
  BY <1>1
<1>7. where' = where /\ orders' = orders /\ joins' = joins
  BY <1>1 DEF collected
<1>8. \A w \in where : w.in \in 0..joins /\ w.clause \in Clauses
  BY SortingsTyped DEF SearchInv
<1> HIDE DEF next, old, more
<1>9. /\ old \o more \in Seq(Orders) /\ Len(old) \in Nat
      /\ \A p \in DOMAIN old : p \in DOMAIN (old \o more) /\ (old \o more)[p] = old[p] /\ p <= Len(old)
      /\ \A p \in DOMAIN more : Len(old) + p \in DOMAIN (old \o more)
                                /\ (old \o more)[Len(old) + p] = more[p] /\ p \in Nat \ {0}
      /\ \A p \in DOMAIN (old \o more) :
           p \in DOMAIN old \/ (p - Len(old) \in DOMAIN more /\ (old \o more)[p] = more[p - Len(old)])
  BY <1>5, Concatenated
<1>10. SearchTypeOK'
  <2>1. statement' \in Statements
    <3>1. statement.where \subseteq Clauses
      BY DEF SearchInv, SearchTypeOK, Statements
    <3>2. statement.where \cup {w.clause : w \in {w \in where : w.in = next}} \subseteq Clauses
      BY <1>8, <3>1
    <3> QED BY <1>1, <1>9, <3>2 DEF Statements
  <2>2. made' \in 0..(joins' + 1)
    BY <1>1, <1>2, <1>7
  <2>3. walk' \in {"fields", "done", "panic"}
    BY <1>1
  <2> QED BY <1>1, <2>1, <2>2, <2>3 DEF SearchInv, SearchTypeOK, collected
<1>11. Collected'
  BY <1>1, UncollectedFrame
<1>12. Stated'
  <2>1. ASSUME NEW w \in where, Made(w.in)' PROVE w.clause \in statement'.where
    BY <1>3, <1>6, <1>8, <2>1 DEF SearchInv, Stated
  <2>2. ASSUME NEW c \in statement'.where PROVE \E w \in where : Made(w.in)' /\ w.clause = c
    <3>1. CASE c \in statement.where
      BY <1>3, <1>8, <3>1 DEF SearchInv, Stated
    <3>2. CASE \E w \in where : w.in = next /\ w.clause = c
      <4>1. PICK w \in where : w.in = next /\ w.clause = c
        BY <3>2
      <4>2. Made(w.in)'
        BY <1>3, <1>8, <4>1
      <4> QED BY <4>1, <4>2
    <3> QED BY <1>6, <2>2, <3>1, <3>2
  <2>3. ASSUME NEW k \in 0..joins, Made(k)', NEW m \in DOMAIN orders[k]
        PROVE  \E p \in DOMAIN (old \o more) : (old \o more)[p] = orders[k][m]
    <3>1. CASE k = next
      BY <1>9, <3>1 DEF more
    <3>2. CASE Made(k)
      <4>1. PICK p \in DOMAIN old : old[p] = orders[k][m]
        BY <3>2 DEF SearchInv, Stated, old
      <4> QED BY <1>9, <4>1
    <3> QED BY <1>3, <2>3, <3>1, <3>2
  <2>4. ASSUME NEW p \in DOMAIN (old \o more)
        PROVE  \E k \in 0..joins : Made(k)' /\ \E m \in DOMAIN orders[k] : (old \o more)[p] = orders[k][m]
    <3>1. CASE p \in DOMAIN old
      <4>1. PICK k \in 0..joins : Made(k) /\ \E m \in DOMAIN orders[k] : old[p] = orders[k][m]
        BY <3>1 DEF SearchInv, Stated, old
      <4>2. Made(k)'
        BY <1>3, <4>1
      <4> QED BY <1>9, <3>1, <4>1, <4>2
    <3>2. CASE p - Len(old) \in DOMAIN more /\ (old \o more)[p] = more[p - Len(old)]
      <4>1. PICK k \in 0..joins : k = next
        BY <1>2
      <4>2. Made(k)' /\ \E m \in DOMAIN orders[k] : (old \o more)[p] = orders[k][m]
        BY <1>3, <3>2, <4>1 DEF more
      <4> QED BY <4>1, <4>2
    <3> QED BY <1>9, <3>1, <3>2
  <2> QED BY <1>6, <1>7, <2>1, <2>2, <2>3, <2>4 DEF Stated
<1>13. Ranked'
  <2> SUFFICES ASSUME NEW k \in 0..joins, NEW l \in 0..joins, Made(k)', Made(l)',
                      NEW m \in DOMAIN orders[k], NEW n \in DOMAIN orders[l],
                      Earlier(k, l) \/ (k = l /\ m < n)
               PROVE  \E p, q \in DOMAIN (old \o more) :
                        p < q /\ (old \o more)[p] = orders[k][m] /\ (old \o more)[q] = orders[l][n]
    BY <1>6, <1>7 DEF Ranked, Stands
  <2>1. CASE Made(k) /\ Made(l)
    <3>1. PICK p, q \in DOMAIN old : p < q /\ old[p] = orders[k][m] /\ old[q] = orders[l][n]
      BY <2>1 DEF SearchInv, Ranked, Stands, old
    <3> QED BY <1>9, <3>1
  <2>2. CASE Made(k) /\ l = next
    <3>1. PICK p \in DOMAIN old : old[p] = orders[k][m]
      BY <2>2 DEF SearchInv, Stated, old
    <3>2. n \in DOMAIN more /\ more[n] = orders[l][n]
      BY <2>2 DEF more
    <3>3. p \in Nat /\ p < Len(old) + n
      BY <1>5, <1>9, <3>1, <3>2
    <3> QED BY <1>9, <3>1, <3>2, <3>3, ZenonT(60)
  <2>3. CASE k = next /\ l = next
    <3>1. m \in DOMAIN more /\ n \in DOMAIN more /\ more[m] = orders[k][m] /\ more[n] = orders[l][n]
      BY <2>3 DEF more
    <3>2. m < n
      BY <1>2, <2>3 DEF Earlier
    <3>3. Len(old) + m < Len(old) + n
      BY <1>9, <3>1, <3>2
    <3> QED BY <1>9, <3>1, <3>3
  <2>4. ~(k = next /\ Made(l))
    BY <1>3, <1>4
  <2> QED BY <1>3, <2>1, <2>2, <2>3, <2>4
<1>14. (walk' = "fields" => made' <= joins') /\ (walk' = "done" => made' = joins' + 1)
  BY <1>1, <1>2, <1>7 DEF next
<1> QED BY <1>1, <1>10, <1>11, <1>12, <1>13, <1>14 DEF SearchInv

LEMMA SearchStep == ASSUME SearchInv, SearchNext PROVE SearchInv'
BY UntaggedInv, JoinTextInv, JoinInv, EndOfFormInv, MakeConditionInv, FilterInv, OrderByInv
   DEF SearchNext

-----------------------------------------------------------------------------
(* All parts *)

QueryInv == SortInv /\ GenInv /\ ConditionTypeOK /\ ConditionInv /\ SheetInv /\ SearchInv

LEMMA SortUnchanged == ASSUME SortInv, UNCHANGED sortVars PROVE SortInv'
BY DEF SortInv, SortTypeOK, Bounded, DistinctSorts, Sound, sortVars

LEMMA GenUnchanged == ASSUME GenInv, UNCHANGED genVars PROVE GenInv'
BY DEF GenInv, GenTypeOK, Steady, Replied, Listed, genVars

LEMMA ConditionUnchanged ==
  ASSUME ConditionTypeOK, ConditionInv, UNCHANGED conditionVars
  PROVE  ConditionTypeOK' /\ ConditionInv'
<1>1. ConditionTypeOK'
  BY DEF ConditionTypeOK, conditionVars
<1> QED BY <1>1 DEF ConditionInv, AllOrAny, InLoop, JoinedByAnd, JoinedByOr, Matching, Counted, conditionVars

LEMMA SheetUnchanged == ASSUME SheetInv, UNCHANGED sheetVars PROVE SheetInv'
<1>1. SheetTypeOK'
  BY DEF SheetInv, SheetTypeOK, sheetVars
<1>2. TagsInv'
  BY DEF SheetInv, TagsInv, sheetVars
<1>3. Lines' = Lines
  BY Zenon DEF Lines, Title, sheetVars
<1>4. SheetRoundTrip'
  BY DEF SheetInv, SheetRoundTrip, sheetVars
<1> QED BY <1>1, <1>2, <1>3, <1>4 DEF SheetInv, sheetVars

LEMMA SearchUnchanged == ASSUME SearchInv, UNCHANGED searchVars PROVE SearchInv'
<1>1. UNCHANGED <<dialect, stack, joins, where, orders, filters, sortings, walk, made, statement>>
  BY DEF searchVars
<1>2. SearchTypeOK'
  BY <1>1 DEF SearchInv, SearchTypeOK
<1>3. Collected'
  BY <1>1, UncollectedFrame DEF collected
<1>4. Stated' /\ Ranked'
  BY <1>1 DEF SearchInv, Stated, Ranked, Stands, Made
<1> QED BY <1>1, <1>2, <1>3, <1>4 DEF SearchInv

LEMMA QueryInitInv == Init => QueryInv
BY SortInitInv, GenInitInv, ConditionInitTyped, ConditionInitInv, SheetInitInv, SearchInitInv
   DEF Init, QueryInv

LEMMA QueryStep == ASSUME QueryInv, [Next]_vars PROVE QueryInv'
<1>1. SortNext \/ UNCHANGED sortVars BY DEF Next, vars
<1>2. GenNext \/ UNCHANGED genVars BY DEF Next, vars
<1>3. ConditionNext \/ UNCHANGED conditionVars BY DEF Next, vars
<1>4. SheetNext \/ UNCHANGED sheetVars BY DEF Next, vars
<1>5. SearchNext \/ UNCHANGED searchVars BY DEF Next, vars
<1>6. ConditionTypeOK' /\ ConditionInv'
  BY <1>3, ConditionStep, ConditionTyped, ConditionUnchanged DEF QueryInv
<1> QED
  BY <1>1, <1>2, <1>4, <1>5, <1>6, SortStep, SortUnchanged, GenStep, GenUnchanged,
     SheetStep, SheetUnchanged, SearchStep, SearchUnchanged DEF QueryInv

\* The parts keep their invariants, whichever of them runs.
THEOREM QueryCorrect == Spec => []QueryInv
BY QueryInitInv, QueryStep, PTL DEF Spec

\* Types of all parts (ResolveSearchQuery, EvaluateCondition, CalculateSort,
\* GetColumn, ExportToPath).
THEOREM QueryTyped == Spec => []TypeOK
<1>1. Init /\ [][Next]_vars => [](part \in {"search", "condition", "sort", "gen", "sheet"})
  <2>1. Init => part \in {"search", "condition", "sort", "gen", "sheet"}
    BY DEF Init
  <2>2. part \in {"search", "condition", "sort", "gen", "sheet"} /\ [Next]_vars =>
          (part \in {"search", "condition", "sort", "gen", "sheet"})'
    BY DEF Next, vars
  <2> QED BY <2>1, <2>2, PTL
<1>2. QueryInv => SearchTypeOK /\ ConditionTypeOK /\ SortTypeOK /\ GenTypeOK /\ SheetTypeOK
  BY DEF QueryInv, SortInv, GenInv, SheetInv, SearchInv
<1>3. QueryInv /\ part \in {"search", "condition", "sort", "gen", "sheet"} => TypeOK
  BY <1>2 DEF TypeOK
<1> QED BY <1>1, <1>3, QueryCorrect, PTL DEF Spec

\* No two rows have the same number unless both were stored by calls that were
\* disturbed (CalculateSort).
THEOREM DistinctSortsCorrect == Spec => []DistinctSorts
<1>1. QueryInv => DistinctSorts
  BY DEF QueryInv, SortInv
<1> QED BY <1>1, QueryCorrect, PTL

\* A row is stored next to its place (CalculateSort).
THEOREM AdjacentCorrect == Spec => Adjacent
<1>1. ASSUME QueryInv, [Next]_vars
      PROVE  [\A c \in Sorters : LET q == calc[c] IN
               q.at = "store" /\ calc'[c].at = "idle" /\ q.want > 0 /\ c \notin disturbed =>
                 \A j \in Rows \ {q.id} :
                   ~(q.new < sort[j] /\ sort[j] < q.want) /\ ~(q.want < sort[j] /\ sort[j] < q.new)]_sortVars
  BY <1>1, SortSound DEF QueryInv
<1> QED BY <1>1, QueryCorrect, PTL DEF Spec, Adjacent

\* Without an error every column that was there all the time is described, and
\* nothing that never was (GetColumn of three databases), but for what Sqlite
\* leaves out, an INTEGER PRIMARY KEY and what other schemas add on Postgres.
THEOREM EveryColumnCorrect == Spec => []EveryColumn
<1>1. QueryInv => EveryColumn
  BY GenInvImplies DEF QueryInv
<1> QED BY <1>1, QueryCorrect, PTL

\* AND means all, and OR behind a first condition without logic means any
\* (EvaluateCondition).  Nothing is proved of the other lists but that no AND
\* that was reached missed in what is accepted.
THEOREM AllOrAnyCorrect == Spec => []AllOrAny
<1>1. QueryInv => AllOrAny
  BY DEF QueryInv, ConditionInv
<1> QED BY <1>1, QueryCorrect, PTL

\* Of what was exported, texts and short numbers of kind float64 and uint64 come
\* back, in their own fields, and nothing else (ExportToPath, ReadExcelIo).
THEOREM SheetRoundTripCorrect == Spec => []SheetRoundTrip
<1>1. QueryInv => SheetRoundTrip
  BY DEF QueryInv, SheetInv
<1> QED BY <1>1, QueryCorrect, PTL

\* Of every field of a form its order, and its clause or a later one of the same
\* column and operator, is in the statement (ResolveSearchQuery, MakeCondition).
THEOREM AllAskedCorrect == Spec => []AllAsked
<1>1. QueryInv => AllAsked
  BY SearchInvImplies DEF QueryInv
<1> QED BY <1>1, QueryCorrect, PTL

=============================================================================
