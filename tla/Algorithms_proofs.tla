------------------------- MODULE Algorithms_proofs -------------------------
(***************************************************************************)
(* Proofs about the algorithms that run to the end within one call: the    *)
(* interval lists of pk-read's ledger (Intervals), for files and lists of  *)
(* every length; the gate against invented names (RefCheck), for every     *)
(* schema, arguments and snapshot; the loading of plugins (PluginLayers),  *)
(* for every catalog and manifest; the trimming of a result (Budget), for  *)
(* documents of every size; what is offered for a misspelt name            *)
(* (Suggestions), for names of every length over any alphabet; the hook    *)
(* that replaces searches (Rewrite), for every command and trace.  What is *)
(* proved of PairRun, and of the reading of commands, by themselves is in  *)
(* PairRun_proofs.  The theorems speak of the modules side by side         *)
(* (Algorithms), as they are checked.                                      *)
(***************************************************************************)
EXTENDS Algorithms, Lists_proofs

-----------------------------------------------------------------------------
(***************************************************************************)
(* The loops of merge, intersect, gaps and of a call that delivers gaps.   *)
(***************************************************************************)
Pair == Int \X Int

LEMMA JoinType ==
    ASSUME NEW out \in Seq(Pair), NEW i \in Pair
    PROVE  Join(out, i) \in Seq(Pair)
<1>1. CASE out # <<>> /\ i[1] <= out[Len(out)][2] + 1
  <2>1. Len(out) \in DOMAIN out /\ out[Len(out)] \in Pair /\ i[2] \in Int
    BY <1>1 DEF Pair
  <2>2. Max({out[Len(out)][2], i[2]}) \in Int
    BY <2>1, OfTwo DEF Pair
  <2>3. [out[Len(out)] EXCEPT ![2] = Max({@, i[2]})] \in Pair
    BY <2>1, <2>2 DEF Pair
  <2>4. Join(out, i) = [out EXCEPT ![Len(out)] = [out[Len(out)] EXCEPT ![2] = Max({@, i[2]})]]
    BY <1>1, <2>1 DEF Join
  <2> HIDE DEF Pair
  <2> QED
    BY <2>1, <2>3, <2>4
<1>2. CASE ~ (out # <<>> /\ i[1] <= out[Len(out)][2] + 1)
  <2>1. Join(out, i) = Append(out, i)
    BY <1>2 DEF Join
  <2> QED
    BY <2>1, AppendProperties
<1> QED
  BY <1>1, <1>2

\* The loop of merge.
LEMMA JoinLoop ==
    ASSUME NEW list \in Seq(Pair)
    PROVE  \E loop : /\ loop[0] = <<>>
                     /\ \A k \in 1..Len(list) : loop[k] = Join(loop[k - 1], list[k])
                     /\ FoldLeft(Join, <<>>, list) = loop[Len(list)]
<1> DEFINE n == Len(list)
           base == <<>>
           step == [x \in Seq(Pair) \X (1..n) |-> Join(x[1], list[x[2]])]
           round(iter, s) == IF s = {} THEN base ELSE Join(iter[s \ {Max(s)}], list[Max(s)])
           chosen == CHOOSE iter : iter = [s \in SUBSET (1..n) |-> round(iter, s)]
<1>1. n \in Nat /\ DOMAIN list = 1..n /\ \A k \in 1..n : list[k] \in Pair
  OBVIOUS
<1>2. FoldLeft(Join, <<>>, list) = chosen[1..n]
  BY <1>1 DEF FoldLeft, MapThenFoldSet
<1>3. step \in [Seq(Pair) \X (1..n) -> Seq(Pair)]
  BY <1>1, JoinType
<1>4. base \in Seq(Pair)
  BY EmptySeq
<1> HIDE DEF n, base
<1>5. PICK iter : IsFold(iter, Seq(Pair), n, base, step)
  <2> HIDE DEF step
  <2> QED
    BY <1>1, <1>3, <1>4, FoldExists
<1>6. ASSUME NEW s \in SUBSET (1..n) PROVE Turn(iter, step, base, s) = round(iter, s)
  <2>1. CASE s = {}
    BY <2>1 DEF Turn
  <2>2. CASE s # {}
    <3>1. Max(s) \in 1..n
      BY <1>1, <2>2, MaxIsLargest
    <3>2. iter[s \ {Max(s)}] \in Seq(Pair)
      BY <1>5 DEF IsFold
    <3>3. step[<<iter[s \ {Max(s)}], Max(s)>>] = Join(iter[s \ {Max(s)}], list[Max(s)])
      BY <3>1, <3>2
    <3> QED
      BY <2>2, <3>3 DEF Turn
  <2> QED
    BY <2>1, <2>2
<1>7. iter = [s \in SUBSET (1..n) |-> round(iter, s)]
  <2> HIDE DEF round
  <2>1. iter = [s \in SUBSET (1..n) |-> iter[s]]
    BY <1>5 DEF IsFold
  <2> QED
    BY <1>5, <1>6, <2>1 DEF IsFold
<1>8. chosen = [s \in SUBSET (1..n) |-> round(chosen, s)]
  <2> HIDE DEF round
  <2> QED
    BY <1>7
<1>9. chosen[1..0] = base /\ \A k \in 1..n : chosen[1..k] = Join(chosen[1..(k - 1)], list[k])
  <2> HIDE DEF chosen
  <2>1. 1..0 = {} /\ {} \in SUBSET (1..n)
    OBVIOUS
  <2>2. ASSUME NEW k \in 1..n PROVE chosen[1..k] = Join(chosen[1..(k - 1)], list[k])
    <3>1. k \in Nat \ {0} /\ 1..k \in SUBSET (1..n)
      BY <1>1
    <3>2. chosen[1..k] = round(chosen, 1..k)
      BY <1>8, <3>1
    <3> QED
      BY <3>1, <3>2, MaxOfSegment
  <2> QED
    BY <1>8, <2>1, <2>2
<1> DEFINE loop == [k \in 0..n |-> chosen[1..k]]
<1> HIDE DEF chosen
<1>10. loop[0] = base /\ (\A k \in 1..n : loop[k] = Join(loop[k - 1], list[k])) /\ loop[n] = chosen[1..n]
  BY <1>1, <1>9
<1> HIDE DEF loop
<1> QED
  BY <1>2, <1>10 DEF n, base

LEMMA KeepType ==
    ASSUME NEW out \in Seq(Pair), NEW a \in Int, NEW b \in Int
    PROVE  Keep(out, <<a, b>>) \in Seq(Pair)
<1>1. <<a, b>> \in Pair
  BY DEF Pair
<1> QED
  BY <1>1, AppendProperties DEF Keep

LEMMA ClipType ==
    ASSUME NEW i \in Pair, NEW want \in Pair
    PROVE  /\ Clip(i, want) \in Pair
           /\ Clip(i, want)[1] = IF i[1] >= want[1] THEN i[1] ELSE want[1]
           /\ Clip(i, want)[2] = IF i[2] <= want[2] THEN i[2] ELSE want[2]
<1>1. i[1] \in Int /\ i[2] \in Int /\ want[1] \in Int /\ want[2] \in Int
  BY DEF Pair
<1> QED
  BY <1>1, OfTwo DEF Clip, Pair

LEMMA KeepClipType ==
    ASSUME NEW out \in Seq(Pair), NEW i \in Pair, NEW want \in Pair
    PROVE  Keep(out, Clip(i, want)) \in Seq(Pair)
BY ClipType, AppendProperties DEF Keep

\* The loop of intersect.
LEMMA ClipLoop ==
    ASSUME NEW list \in Seq(Pair), NEW want \in Pair
    PROVE  \E loop : /\ loop[0] = <<>>
                     /\ \A k \in 1..Len(list) : loop[k] = Keep(loop[k - 1], Clip(list[k], want))
                     /\ intersect(list, want) = loop[Len(list)]
<1> DEFINE n == Len(list)
           base == <<>>
           step == [x \in Seq(Pair) \X (1..n) |-> Keep(x[1], Clip(list[x[2]], want))]
           round(iter, s) == IF s = {} THEN base ELSE Keep(iter[s \ {Max(s)}], Clip(list[Max(s)], want))
           chosen == CHOOSE iter : iter = [s \in SUBSET (1..n) |-> round(iter, s)]
<1>1. n \in Nat /\ DOMAIN list = 1..n /\ \A k \in 1..n : list[k] \in Pair
  OBVIOUS
<1>2. intersect(list, want) = chosen[1..n]
  BY <1>1 DEF intersect, FoldLeft, MapThenFoldSet
<1>3. step \in [Seq(Pair) \X (1..n) -> Seq(Pair)]
  BY <1>1, KeepClipType
<1>4. base \in Seq(Pair)
  BY EmptySeq
<1> HIDE DEF n, base
<1>5. PICK iter : IsFold(iter, Seq(Pair), n, base, step)
  <2> HIDE DEF step
  <2> QED
    BY <1>1, <1>3, <1>4, FoldExists
<1>6. ASSUME NEW s \in SUBSET (1..n) PROVE Turn(iter, step, base, s) = round(iter, s)
  <2>1. CASE s = {}
    BY <2>1 DEF Turn
  <2>2. CASE s # {}
    <3>1. Max(s) \in 1..n
      BY <1>1, <2>2, MaxIsLargest
    <3>2. iter[s \ {Max(s)}] \in Seq(Pair)
      BY <1>5 DEF IsFold
    <3>3. step[<<iter[s \ {Max(s)}], Max(s)>>] = Keep(iter[s \ {Max(s)}], Clip(list[Max(s)], want))
      BY <3>1, <3>2
    <3> QED
      BY <2>2, <3>3 DEF Turn
  <2> QED
    BY <2>1, <2>2
<1>7. iter = [s \in SUBSET (1..n) |-> round(iter, s)]
  <2> HIDE DEF round
  <2>1. iter = [s \in SUBSET (1..n) |-> iter[s]]
    BY <1>5 DEF IsFold
  <2> QED
    BY <1>5, <1>6, <2>1 DEF IsFold
<1>8. chosen = [s \in SUBSET (1..n) |-> round(chosen, s)]
  <2> HIDE DEF round
  <2> QED
    BY <1>7
<1>9. chosen[1..0] = base /\ \A k \in 1..n : chosen[1..k] = Keep(chosen[1..(k - 1)], Clip(list[k], want))
  <2> HIDE DEF chosen
  <2>1. 1..0 = {} /\ {} \in SUBSET (1..n)
    OBVIOUS
  <2>2. ASSUME NEW k \in 1..n PROVE chosen[1..k] = Keep(chosen[1..(k - 1)], Clip(list[k], want))
    <3>1. k \in Nat \ {0} /\ 1..k \in SUBSET (1..n)
      BY <1>1
    <3>2. chosen[1..k] = round(chosen, 1..k)
      BY <1>8, <3>1
    <3> QED
      BY <3>1, <3>2, MaxOfSegment
  <2> QED
    BY <1>8, <2>1, <2>2
<1> DEFINE loop == [k \in 0..n |-> chosen[1..k]]
<1> HIDE DEF chosen
<1>10. loop[0] = base /\ (\A k \in 1..n : loop[k] = Keep(loop[k - 1], Clip(list[k], want))) /\ loop[n] = chosen[1..n]
  BY <1>1, <1>9
<1> HIDE DEF loop
<1> QED
  BY <1>2, <1>10 DEF n, base

\* What the loop of gaps has made and where it is.
Swept == [out : Seq(Pair), cursor : Int]

LEMMA SweepType ==
    ASSUME NEW acc \in Swept, NEW i \in Pair
    PROVE  /\ Sweep(acc, i) \in Swept
           /\ Sweep(acc, i).out = Keep(acc.out, <<acc.cursor, i[1] - 1>>)
           /\ Sweep(acc, i).cursor = IF acc.cursor >= i[2] + 1 THEN acc.cursor ELSE i[2] + 1
<1>1. acc.out \in Seq(Pair) /\ acc.cursor \in Int /\ i[1] - 1 \in Int /\ i[2] + 1 \in Int
  BY DEF Swept, Pair
<1>2. Keep(acc.out, <<acc.cursor, i[1] - 1>>) \in Seq(Pair)
  BY <1>1, KeepType
<1>3. Max({acc.cursor, i[2] + 1}) = IF acc.cursor >= i[2] + 1 THEN acc.cursor ELSE i[2] + 1
  BY <1>1, OfTwo
<1> QED
  BY <1>1, <1>2, <1>3 DEF Sweep, Swept

\* The loop of gaps.
LEMMA SweepLoop ==
    ASSUME NEW list \in Seq(Pair), NEW first \in Int
    PROVE  \E loop : /\ loop[0] = [out |-> <<>>, cursor |-> first]
                     /\ \A k \in 1..Len(list) : loop[k] = Sweep(loop[k - 1], list[k])
                     /\ FoldLeft(Sweep, [out |-> <<>>, cursor |-> first], list) = loop[Len(list)]
<1> DEFINE n == Len(list)
           base == [out |-> <<>>, cursor |-> first]
           step == [x \in Swept \X (1..n) |-> Sweep(x[1], list[x[2]])]
           round(iter, s) == IF s = {} THEN base ELSE Sweep(iter[s \ {Max(s)}], list[Max(s)])
           chosen == CHOOSE iter : iter = [s \in SUBSET (1..n) |-> round(iter, s)]
<1>1. n \in Nat /\ DOMAIN list = 1..n /\ \A k \in 1..n : list[k] \in Pair
  OBVIOUS
<1>2. FoldLeft(Sweep, [out |-> <<>>, cursor |-> first], list) = chosen[1..n]
  BY <1>1 DEF FoldLeft, MapThenFoldSet
<1>3. step \in [Swept \X (1..n) -> Swept]
  BY <1>1, SweepType
<1>4. base \in Swept
  BY EmptySeq DEF Swept
<1> HIDE DEF n, base
<1>5. PICK iter : IsFold(iter, Swept, n, base, step)
  <2> HIDE DEF step
  <2> QED
    BY <1>1, <1>3, <1>4, FoldExists
<1>6. ASSUME NEW s \in SUBSET (1..n) PROVE Turn(iter, step, base, s) = round(iter, s)
  <2>1. CASE s = {}
    BY <2>1 DEF Turn
  <2>2. CASE s # {}
    <3>1. Max(s) \in 1..n
      BY <1>1, <2>2, MaxIsLargest
    <3>2. iter[s \ {Max(s)}] \in Swept
      BY <1>5 DEF IsFold
    <3>3. step[<<iter[s \ {Max(s)}], Max(s)>>] = Sweep(iter[s \ {Max(s)}], list[Max(s)])
      BY <3>1, <3>2
    <3> QED
      BY <2>2, <3>3 DEF Turn
  <2> QED
    BY <2>1, <2>2
<1>7. iter = [s \in SUBSET (1..n) |-> round(iter, s)]
  <2> HIDE DEF round
  <2>1. iter = [s \in SUBSET (1..n) |-> iter[s]]
    BY <1>5 DEF IsFold
  <2> QED
    BY <1>5, <1>6, <2>1 DEF IsFold
<1>8. chosen = [s \in SUBSET (1..n) |-> round(chosen, s)]
  <2> HIDE DEF round
  <2> QED
    BY <1>7
<1>9. chosen[1..0] = base /\ \A k \in 1..n : chosen[1..k] = Sweep(chosen[1..(k - 1)], list[k])
  <2> HIDE DEF chosen
  <2>1. 1..0 = {} /\ {} \in SUBSET (1..n)
    OBVIOUS
  <2>2. ASSUME NEW k \in 1..n PROVE chosen[1..k] = Sweep(chosen[1..(k - 1)], list[k])
    <3>1. k \in Nat \ {0} /\ 1..k \in SUBSET (1..n)
      BY <1>1
    <3>2. chosen[1..k] = round(chosen, 1..k)
      BY <1>8, <3>1
    <3> QED
      BY <3>1, <3>2, MaxOfSegment
  <2> QED
    BY <1>8, <2>1, <2>2
<1> DEFINE loop == [k \in 0..n |-> chosen[1..k]]
<1> HIDE DEF chosen
<1>10. loop[0] = base /\ (\A k \in 1..n : loop[k] = Sweep(loop[k - 1], list[k])) /\ loop[n] = chosen[1..n]
  BY <1>1, <1>9
<1> HIDE DEF loop
<1> QED
  BY <1>2, <1>10 DEF n, base

-----------------------------------------------------------------------------
(***************************************************************************)
(* merge: sorting keeps the intervals, and joining keeps their lines.      *)
(***************************************************************************)
\* The intervals of a list that go before its i-th, and that one.
Ahead(v, i) == {j \in DOMAIN v : Before(v[j], v[i]) \/ (v[j] = v[i] /\ j <= i)}

LEMMA AheadIs ==
    ASSUME NEW v \in Seq(Pair), NEW i \in DOMAIN v, NEW j \in DOMAIN v
    PROVE  /\ v[i][1] \in Int /\ v[i][2] \in Int /\ i \in Int
           /\ j \in Ahead(v, i) <=>
                 \/ v[j][1] < v[i][1]
                 \/ v[j][1] = v[i][1] /\ v[j][2] < v[i][2]
                 \/ v[j][1] = v[i][1] /\ v[j][2] = v[i][2] /\ j <= i
<1>1. v[i] \in Pair /\ v[j] \in Pair /\ i \in Int
  OBVIOUS
<1>2. v[i] = v[j] <=> v[j][1] = v[i][1] /\ v[j][2] = v[i][2]
  <2>1. \A p \in Pair : p = <<p[1], p[2]>>
    BY DEF Pair
  <2> QED
    BY <1>1, <2>1
<1> QED
  BY <1>1, <1>2 DEF Ahead, Before, Pair

LEMMA LaterStill ==
    ASSUME NEW a \in Int, NEW b \in Int, NEW i \in Int, NEW c \in Int, NEW d \in Int, NEW j \in Int,
           NEW e \in Int, NEW f \in Int, NEW m \in Int,
           c < a \/ (c = a /\ d < b) \/ (c = a /\ d = b /\ j <= i),
           e < c \/ (e = c /\ f < d) \/ (e = c /\ f = d /\ m <= j)
    PROVE  e < a \/ (e = a /\ f < b) \/ (e = a /\ f = b /\ m <= i)
OBVIOUS

LEMMA AheadOfAhead ==
    ASSUME NEW v \in Seq(Pair), NEW i \in DOMAIN v, NEW j \in Ahead(v, i), NEW m \in Ahead(v, j)
    PROVE  m \in Ahead(v, i)
<1>1. j \in DOMAIN v /\ m \in DOMAIN v
  BY DEF Ahead
<1>2. /\ v[i][1] \in Int /\ v[i][2] \in Int /\ i \in Int
      /\ v[j][1] \in Int /\ v[j][2] \in Int /\ j \in Int
      /\ v[m][1] \in Int /\ v[m][2] \in Int /\ m \in Int
  BY <1>1, AheadIs
<1>3. \/ v[j][1] < v[i][1]
      \/ v[j][1] = v[i][1] /\ v[j][2] < v[i][2]
      \/ v[j][1] = v[i][1] /\ v[j][2] = v[i][2] /\ j <= i
  BY <1>1, AheadIs
<1>4. \/ v[m][1] < v[j][1]
      \/ v[m][1] = v[j][1] /\ v[m][2] < v[j][2]
      \/ v[m][1] = v[j][1] /\ v[m][2] = v[j][2] /\ m <= j
  BY <1>1, AheadIs
<1>5. \/ v[m][1] < v[i][1]
      \/ v[m][1] = v[i][1] /\ v[m][2] < v[i][2]
      \/ v[m][1] = v[i][1] /\ v[m][2] = v[i][2] /\ m <= i
  BY <1>2, <1>3, <1>4, LaterStill
<1> QED
  BY <1>1, <1>5, AheadIs

\* Places are those of a permutation.
LEMMA PlacesAreTaken ==
    ASSUME NEW v \in Seq(Pair), NEW k \in DOMAIN v
    PROVE  \E i \in DOMAIN v : Place(v, i) = k
<1> DEFINE n == Len(v)
           place == [i \in 1..n |-> Place(v, i)]
<1>1. n \in Nat /\ DOMAIN v = 1..n /\ 1 \in Int /\ n \in Int
  OBVIOUS
<1> HIDE DEF n
<1>2. IsFiniteSet(1..n) /\ Cardinality(1..n) = n
  BY <1>1, FS_Interval
<1>3. \A i \in 1..n : i \in DOMAIN v
  BY <1>1
<1>4. ASSUME NEW i \in 1..n
      PROVE  /\ Ahead(v, i) \in SUBSET (1..n) /\ IsFiniteSet(Ahead(v, i)) /\ i \in Ahead(v, i)
             /\ Place(v, i) = Cardinality(Ahead(v, i)) /\ Place(v, i) \in 1..n
  <2>1. Ahead(v, i) \in SUBSET (1..n) /\ i \in Ahead(v, i) /\ Place(v, i) = Cardinality(Ahead(v, i))
    BY <1>1 DEF Ahead, Place
  <2>2. IsFiniteSet(Ahead(v, i)) /\ Cardinality(Ahead(v, i)) \in Nat /\ Cardinality(Ahead(v, i)) <= n
    BY <1>2, <2>1, FS_Subset, FS_CardinalityType
  <2>3. Cardinality(Ahead(v, i)) # 0
    BY <2>1, <2>2, FS_EmptySet
  <2> QED
    BY <1>1, <2>1, <2>2, <2>3
<1>5. ASSUME NEW i \in 1..n, NEW j \in 1..n, i # j, j \in Ahead(v, i)
      PROVE  Place(v, i) # Place(v, j)
  <2>1. i \notin Ahead(v, j)
    <3> DEFINE a == v[i][1]
               b == v[i][2]
               c == v[j][1]
               d == v[j][2]
    <3>1. a \in Int /\ b \in Int /\ c \in Int /\ d \in Int /\ i \in Int /\ j \in Int
      BY <1>3, <1>5, AheadIs
    <3>2. c < a \/ (c = a /\ d < b) \/ (c = a /\ d = b /\ j <= i)
      BY <1>3, <1>5, AheadIs
    <3>3. i \in Ahead(v, j) => a < c \/ (a = c /\ b < d) \/ (a = c /\ b = d /\ i <= j)
      BY <1>3, <1>5, AheadIs
    <3> HIDE DEF a, b, c, d
    <3> QED
      BY <1>5, <3>1, <3>2, <3>3
  <2>2. ASSUME NEW m \in Ahead(v, j) PROVE m \in Ahead(v, i)
    BY <1>3, <1>5, AheadOfAhead
  <2>3. Ahead(v, j) \in SUBSET Ahead(v, i) /\ Ahead(v, i) # Ahead(v, j)
    BY <1>4, <2>1, <2>2
  <2> QED
    BY <1>4, <2>3, FS_Subset
<1>6. ASSUME NEW i \in 1..n, NEW j \in 1..n, i # j PROVE Place(v, i) # Place(v, j)
  <2>1. i \in Ahead(v, j) \/ j \in Ahead(v, i)
    BY <1>3, <1>6, AheadIs
  <2> QED
    BY <1>5, <1>6, <2>1
<1>7. place \in Injection(1..n, 1..n)
  <2>1. place \in [1..n -> 1..n] /\ \A i, j \in 1..n : place[i] = place[j] => i = j
    BY <1>4, <1>6
  <2> HIDE DEF place
  <2> QED
    BY <2>1, Fun_IsInj
<1>8. place \in Surjection(1..n, 1..n)
  BY <1>2, <1>7, FS_Injection
<1>9. \E i \in 1..n : place[i] = k
  BY <1>1, <1>8 DEF Surjection
<1> QED
  BY <1>1, <1>9

LEMMA SortedIs ==
    ASSUME NEW v \in Seq(Pair)
    PROVE  /\ Sorted(v) \in Seq(Pair)
           /\ \A k \in DOMAIN Sorted(v) : \E i \in DOMAIN v : Sorted(v)[k] = v[i]
           /\ \A i \in DOMAIN v : \E k \in DOMAIN Sorted(v) : Sorted(v)[k] = v[i]
           /\ \A j, k \in DOMAIN Sorted(v) : j < k => Sorted(v)[j][1] <= Sorted(v)[k][1]
<1> DEFINE from == [k \in DOMAIN v |-> CHOOSE i \in DOMAIN v : Place(v, i) = k]
<1>1. Sorted(v) = [k \in DOMAIN v |-> v[from[k]]]
  BY DEF Sorted
<1>2. \A k \in DOMAIN v : from[k] \in DOMAIN v /\ Place(v, from[k]) = k
  BY PlacesAreTaken
<1> HIDE DEF from
<1>3. DOMAIN v = 1..Len(v) /\ Len(v) \in Nat /\ \A i \in DOMAIN v : v[i] \in Pair
  OBVIOUS
<1>4. Sorted(v) \in Seq(Pair) /\ DOMAIN Sorted(v) = DOMAIN v
      /\ \A k \in DOMAIN v : Sorted(v)[k] = v[from[k]]
  BY <1>1, <1>2, <1>3
<1>5. \A i \in DOMAIN v : IsFiniteSet(Ahead(v, i)) /\ Place(v, i) = Cardinality(Ahead(v, i))
  <2> SUFFICES ASSUME NEW i \in DOMAIN v PROVE IsFiniteSet(Ahead(v, i)) /\ Place(v, i) = Cardinality(Ahead(v, i))
    OBVIOUS
  <2>1. 1 \in Int /\ Len(v) \in Int
    BY <1>3
  <2>2. IsFiniteSet(1..Len(v))
    BY <2>1, FS_Interval
  <2>3. Ahead(v, i) \in SUBSET (1..Len(v)) /\ Place(v, i) = Cardinality(Ahead(v, i))
    BY <1>3 DEF Ahead, Place
  <2> QED
    BY <2>2, <2>3, FS_Subset
<1>6. ASSUME NEW i \in DOMAIN v, NEW j \in DOMAIN v, v[i][1] < v[j][1]
      PROVE  Place(v, i) < Place(v, j)
  <2>2. ASSUME NEW m \in Ahead(v, i) PROVE m \in Ahead(v, j)
    <3>1. m \in DOMAIN v
      BY DEF Ahead
    <3> QED
      BY <1>6, <3>1, AheadIs
  <2>3. j \in Ahead(v, j) /\ j \notin Ahead(v, i)
    BY <1>6, AheadIs
  <2>4. Ahead(v, i) \in SUBSET Ahead(v, j) /\ Ahead(v, i) # Ahead(v, j)
    BY <2>2, <2>3
  <2>5. /\ Cardinality(Ahead(v, i)) <= Cardinality(Ahead(v, j))
        /\ Cardinality(Ahead(v, i)) # Cardinality(Ahead(v, j))
        /\ Cardinality(Ahead(v, i)) \in Nat /\ Cardinality(Ahead(v, j)) \in Nat
    BY <1>5, <2>4, FS_Subset, FS_CardinalityType
  <2> QED
    BY <1>5, <2>5
<1>7. ASSUME NEW i \in DOMAIN v PROVE \E k \in DOMAIN v : from[k] = i
  <2>1. from \in Injection(DOMAIN v, DOMAIN v)
    <3>1. from \in [DOMAIN v -> DOMAIN v]
      BY <1>2 DEF from
    <3>2. \A j, k \in DOMAIN v : from[j] = from[k] => j = k
      BY <1>2
    <3> QED
      BY <3>1, <3>2, Fun_IsInj
  <2>2. IsFiniteSet(DOMAIN v)
    <3>1. 1 \in Int /\ Len(v) \in Int
      BY <1>3
    <3> QED
      BY <1>3, <3>1, FS_Interval
  <2>3. from \in Surjection(DOMAIN v, DOMAIN v)
    BY <2>1, <2>2, FS_Injection
  <2> QED
    BY <2>3 DEF Surjection
<1>8. ASSUME NEW j \in DOMAIN v, NEW k \in DOMAIN v, j < k PROVE Sorted(v)[j][1] <= Sorted(v)[k][1]
  <2>1. from[j] \in DOMAIN v /\ from[k] \in DOMAIN v /\ j \in Int /\ k \in Int
    BY <1>2, <1>3
  <2>2. v[from[k]][1] < v[from[j]][1] => Place(v, from[k]) < Place(v, from[j])
    BY <1>6, <2>1
  <2>3. ~ (v[from[k]][1] < v[from[j]][1])
    BY <1>2, <1>8, <2>1, <2>2
  <2>4. v[from[k]][1] \in Int /\ v[from[j]][1] \in Int
    BY <2>1, AheadIs
  <2> QED
    BY <1>4, <2>3, <2>4
<1>9. \A k \in DOMAIN Sorted(v) : \E i \in DOMAIN v : Sorted(v)[k] = v[i]
  BY <1>2, <1>4
<1>10. \A i \in DOMAIN v : \E k \in DOMAIN Sorted(v) : Sorted(v)[k] = v[i]
  BY <1>4, <1>7
<1>11. \A j, k \in DOMAIN Sorted(v) : j < k => Sorted(v)[j][1] <= Sorted(v)[k][1]
  BY <1>4, <1>8
<1> QED
  BY <1>4, <1>9, <1>10, <1>11

\* A line is in one of the intervals of a list.
Holds(v, x) == \E k \in DOMAIN v : v[k][1] <= x /\ x <= v[k][2]

\* Between two of its intervals a list leaves a line out.
Apart(v) == \A j, k \in DOMAIN v : j < k => v[j][2] + 1 < v[k][1]

LEMMA LinesAre ==
    ASSUME NEW v \in Seq(Pair), NEW x
    PROVE  x \in LinesOf(v) <=> x \in Int /\ Holds(v, x)
<1>1. \A k \in DOMAIN v : v[k][1] \in Int /\ v[k][2] \in Int
  BY DEF Pair
<1>2. x \in LinesOf(v) <=> \E k \in DOMAIN v : x \in v[k][1]..v[k][2]
  BY DEF LinesOf
<1> QED
  BY <1>1, <1>2 DEF Holds

LEMMA JoinIs ==
    ASSUME NEW out \in Seq(Pair), NEW i \in Pair, Apart(out),
           \A m \in DOMAIN out : out[m][1] <= i[1]
    PROVE  /\ Apart(Join(out, i))
           /\ \A m \in DOMAIN Join(out, i) : Join(out, i)[m][1] <= i[1]
           /\ \A x \in Int : Holds(Join(out, i), x) <=> Holds(out, x) \/ (i[1] <= x /\ x <= i[2])
<1> DEFINE n == Len(out)
           new == Join(out, i)
<1>1. /\ n \in Nat /\ DOMAIN out = 1..n /\ i[1] \in Int /\ i[2] \in Int
      /\ \A m \in 1..n : out[m] \in Pair /\ out[m][1] \in Int /\ out[m][2] \in Int
      /\ n = Len(out) /\ (out # <<>> => n \in 1..n)
  BY DEF Pair
<1> HIDE DEF n
<1>2. CASE out # <<>> /\ i[1] <= out[n][2] + 1
  <2> DEFINE top == IF out[n][2] >= i[2] THEN out[n][2] ELSE i[2]
  <2>1. n \in 1..n
    BY <1>1, <1>2
  <2>2. new = [out EXCEPT ![n] = [out[n] EXCEPT ![2] = top]]
    <3>1. Max({out[n][2], i[2]}) = top
      BY <1>1, <2>1, OfTwo
    <3>2. [out EXCEPT ![n][2] = Max({@, i[2]})] = [out EXCEPT ![n] = [out[n] EXCEPT ![2] = top]]
      BY <1>1, <2>1, <3>1
    <3> QED
      BY <1>1, <1>2, <3>2 DEF Join
  <2>3. [out[n] EXCEPT ![2] = top][1] = out[n][1] /\ [out[n] EXCEPT ![2] = top][2] = top
    BY <1>1, <2>1 DEF Pair
  <2>4. /\ DOMAIN new = 1..n /\ new[n][1] = out[n][1] /\ new[n][2] = top
        /\ \A m \in 1..n : m # n => new[m] = out[m]
    <3>1. DOMAIN new = 1..n /\ new[n] = [out[n] EXCEPT ![2] = top]
          /\ \A m \in 1..n : m # n => new[m] = out[m]
      BY <1>1, <2>1, <2>2
    <3> QED
      BY <2>3, <3>1
  <2>5. top \in Int /\ top >= out[n][2] /\ top >= i[2] /\ (top = out[n][2] \/ top = i[2])
    BY <1>1, <2>1
  <2> HIDE DEF new, top
  <2>6. \A m \in 1..n : new[m][1] = out[m][1]
    BY <2>4
  <2>7. Apart(new)
    <3> SUFFICES ASSUME NEW j \in 1..n, NEW k \in 1..n, j < k PROVE new[j][2] + 1 < new[k][1]
      BY <2>4 DEF Apart
    <3>1. j # n
      BY <1>1, SMTT(30)
    <3>2. new[j] = out[j] /\ out[j][2] + 1 < out[k][1]
      BY <1>1, <2>4, <3>1, Zenon DEF Apart
    <3> QED
      BY <2>6, <3>2
  <2>8. \A m \in DOMAIN new : new[m][1] <= i[1]
    BY <1>1, <2>4, <2>6
  <2>9. ASSUME NEW x \in Int PROVE Holds(new, x) <=> Holds(out, x) \/ (i[1] <= x /\ x <= i[2])
    <3>1. (new[n][1] <= x /\ x <= new[n][2])
             <=> (out[n][1] <= x /\ x <= out[n][2]) \/ (i[1] <= x /\ x <= i[2])
      <4>1. out[n][1] <= i[1] /\ i[1] <= out[n][2] + 1
        BY <1>1, <1>2, <2>1
      <4>2. /\ new[n][1] = out[n][1] /\ new[n][2] = top /\ top \in Int /\ top >= out[n][2]
            /\ top >= i[2] /\ (top = out[n][2] \/ top = i[2])
            /\ out[n][1] \in Int /\ out[n][2] \in Int /\ i[1] \in Int /\ i[2] \in Int
        BY <1>1, <2>1, <2>4, <2>5
      <4> QED
        BY <4>1, <4>2, SMTT(30)
    <3>2. Holds(new, x) <=> (\E m \in 1..n : m # n /\ out[m][1] <= x /\ x <= out[m][2])
                               \/ (new[n][1] <= x /\ x <= new[n][2])
      BY <2>1, <2>4, SMTT(30) DEF Holds
    <3>3. Holds(out, x) <=> (\E m \in 1..n : m # n /\ out[m][1] <= x /\ x <= out[m][2])
                               \/ (out[n][1] <= x /\ x <= out[n][2])
      BY <1>1, <2>1 DEF Holds
    <3> QED
      BY <3>1, <3>2, <3>3
  <2> QED
    BY <2>7, <2>8, <2>9 DEF new
<1>3. CASE ~ (out # <<>> /\ i[1] <= out[n][2] + 1)
  <2>1. new = Append(out, i)
    BY <1>1, <1>3 DEF Join
  <2>2. DOMAIN new = 1..(n + 1) /\ new[n + 1] = i /\ \A m \in 1..n : new[m] = out[m]
    BY <1>1, <2>1
  <2> HIDE DEF new
  <2>3. ASSUME NEW j \in 1..n PROVE out[j][2] + 1 < i[1]
    <3>1. n \in 1..n /\ out # <<>>
      BY <1>1
    <3>2. out[n][2] + 1 < i[1]
      BY <1>1, <1>3, <3>1
    <3>3. CASE j = n
      BY <3>2, <3>3
    <3>4. CASE j < n
      <4>1. out[j][2] + 1 < out[n][1] /\ out[n][1] <= i[1]
        BY <1>1, <3>1, <3>4 DEF Apart
      <4> QED
        BY <1>1, <3>1, <4>1
    <3>5. j = n \/ j < n
      <4>1. n \in Nat
        BY <1>1
      <4> QED
        BY <4>1
    <3> QED
      BY <3>3, <3>4, <3>5
  <2>4. Apart(new)
    <3> SUFFICES ASSUME NEW j \in 1..(n + 1), NEW k \in 1..(n + 1), j < k PROVE new[j][2] + 1 < new[k][1]
      BY <2>2 DEF Apart
    <3>1. CASE k = n + 1
      <4>1. j \in 1..n
        <5>1. n \in Nat
          BY <1>1
        <5> QED
          BY <3>1, <5>1
      <4> QED
        BY <2>2, <2>3, <3>1, <4>1
    <3>2. CASE k # n + 1
      <4>1. j \in 1..n /\ k \in 1..n
        BY <1>1, <3>2
      <4> QED
        BY <1>1, <2>2, <4>1 DEF Apart
    <3> QED
      BY <3>1, <3>2
  <2>5. \A m \in DOMAIN new : new[m][1] <= i[1]
    BY <1>1, <2>2
  <2>6. \A x \in Int : Holds(new, x) <=> Holds(out, x) \/ (i[1] <= x /\ x <= i[2])
    <3>1. \A m : m \in 1..(n + 1) <=> m \in 1..n \/ m = n + 1
      BY <1>1
    <3> QED
      BY <1>1, <2>2, <3>1 DEF Holds
  <2> QED
    BY <2>4, <2>5, <2>6, SMTT(30) DEF new
<1> QED
  BY <1>2, <1>3

\* merge keeps the lines of a list, and leaves its intervals apart.
LEMMA MergeIs ==
    ASSUME NEW v \in Seq(Pair)
    PROVE  merge(v) \in Seq(Pair) /\ Apart(merge(v)) /\ LinesOf(merge(v)) = LinesOf(v)
<1> DEFINE list == Sorted(v)
           n == Len(list)
<1>1. /\ list \in Seq(Pair) /\ n \in Nat /\ DOMAIN list = 1..n
      /\ \A k \in 1..n : list[k] \in Pair /\ \E i \in DOMAIN v : list[k] = v[i]
      /\ \A i \in DOMAIN v : \E k \in 1..n : list[k] = v[i]
      /\ \A j, k \in 1..n : j < k => list[j][1] <= list[k][1]
  <2>1. list \in Seq(Pair)
    BY SortedIs
  <2>2. n \in Nat /\ DOMAIN list = 1..n /\ \A k \in 1..n : list[k] \in Pair
    <3> HIDE DEF list
    <3> QED
      BY <2>1
  <2>3. \A k \in DOMAIN list : \E i \in DOMAIN v : list[k] = v[i]
    BY SortedIs
  <2>4. \A i \in DOMAIN v : \E k \in DOMAIN list : list[k] = v[i]
    BY SortedIs
  <2>5. \A j, k \in DOMAIN list : j < k => list[j][1] <= list[k][1]
    BY SortedIs
  <2> HIDE DEF list
  <2> QED
    BY <2>1, <2>2, <2>3, <2>4, <2>5
<1>2. merge(v) = FoldLeft(Join, <<>>, list)
  BY DEF merge
<1> HIDE DEF list, n
<1>3. PICK loop : /\ loop[0] = <<>>
                  /\ \A k \in 1..n : loop[k] = Join(loop[k - 1], list[k])
                  /\ merge(v) = loop[n]
  BY <1>1, <1>2, JoinLoop DEF n
<1> DEFINE Made(k, x) == \E l \in 1..k : list[l][1] <= x /\ x <= list[l][2]
           Good(k) == /\ loop[k] \in Seq(Pair) /\ Apart(loop[k])
                      /\ \A m \in DOMAIN loop[k], l \in 1..n : k < l => loop[k][m][1] <= list[l][1]
                      /\ \A x \in Int : Holds(loop[k], x) <=> Made(k, x)
           T == {k \in Nat : k <= n => Good(k)}
<1>4. Good(0)
  <2>1. loop[0] = <<>> /\ <<>> \in Seq(Pair) /\ DOMAIN <<>> = {}
    BY <1>3, EmptySeq
  <2> QED
    BY <2>1 DEF Apart, Holds
<1>5. ASSUME NEW k \in Nat, k + 1 <= n, Good(k) PROVE Good(k + 1)
  <2> DEFINE i == list[k + 1]
             new == loop[k + 1]
  <2>1. k + 1 \in 1..n /\ k < k + 1 /\ (k + 1) - 1 = k
    <3>1. k \in Nat /\ n \in Nat /\ k + 1 <= n
      BY <1>1, <1>5
    <3> QED
      BY <3>1
  <2>2. i \in Pair /\ i[1] \in Int /\ i[2] \in Int /\ loop[k] \in Seq(Pair) /\ Apart(loop[k])
        /\ \A m \in DOMAIN loop[k] : loop[k][m][1] <= i[1]
    BY <1>1, <1>5, <2>1 DEF Pair
  <2>3. new = Join(loop[k], i)
    BY <1>3, <2>1
  <2>4. /\ new \in Seq(Pair) /\ Apart(new)
        /\ \A m \in DOMAIN new : new[m][1] <= i[1]
        /\ \A x \in Int : Holds(new, x) <=> Holds(loop[k], x) \/ (i[1] <= x /\ x <= i[2])
    <3> HIDE DEF new, i
    <3> QED
      BY <2>2, <2>3, JoinType, JoinIs
  <2>5. ASSUME NEW m \in DOMAIN new, NEW l \in 1..n, k + 1 < l PROVE new[m][1] <= list[l][1]
    <3>1. new[m][1] <= i[1] /\ i[1] <= list[l][1]
      BY <1>1, <2>1, <2>4, <2>5
    <3>2. list[l] \in Pair
      BY <1>1
    <3> HIDE DEF new, i
    <3>3. new[m] \in Pair
      BY <2>4
    <3>4. new[m][1] \in Int /\ list[l][1] \in Int /\ i[1] \in Int
      BY <2>2, <3>2, <3>3 DEF Pair
    <3> QED
      BY <3>1, <3>4
  <2>6. ASSUME NEW x \in Int PROVE Holds(new, x) <=> Made(k + 1, x)
    <3>1. \A l : l \in 1..(k + 1) <=> l \in 1..k \/ l = k + 1
      OBVIOUS
    <3>2. Made(k + 1, x) <=> Made(k, x) \/ (i[1] <= x /\ x <= i[2])
      BY <3>1
    <3>3. Holds(loop[k], x) <=> Made(k, x)
      BY <1>5
    <3> QED
      BY <2>4, <3>2, <3>3
  <2> HIDE DEF Made
  <2> QED
    BY <2>4, <2>5, <2>6
<1>6. Good(n)
  <2> HIDE DEF Good
  <2>1. T \in SUBSET Nat /\ 0 \in T
    BY <1>4
  <2>2. ASSUME NEW k \in T PROVE k + 1 \in T
    BY <1>1, <1>5
  <2>3. T = Nat
    <3> HIDE DEF T
    <3> QED
      BY <2>1, <2>2, InductiveSet
  <2>4. n \in Nat /\ n <= n
    BY <1>1
  <2> QED
    BY <2>3, <2>4
<1>7. merge(v) \in Seq(Pair) /\ Apart(merge(v))
  BY <1>3, <1>6
<1>8. ASSUME NEW x PROVE x \in LinesOf(merge(v)) <=> x \in LinesOf(v)
  <2>1. x \in Int => (Holds(merge(v), x) <=> Made(n, x))
    BY <1>3, <1>6
  <2>2. Made(n, x) <=> Holds(v, x)
    BY <1>1 DEF Holds
  <2> QED
    BY <1>7, <2>1, <2>2, LinesAre
<1> QED
  BY <1>7, <1>8

-----------------------------------------------------------------------------
(***************************************************************************)
(* intersect and gaps: what is there of a range and what is not.           *)
(***************************************************************************)
\* Each interval is one of at least a line.
Upright(v) == \A k \in DOMAIN v : v[k][1] <= v[k][2]

LEMMA KeepIs ==
    ASSUME NEW out \in Seq(Pair), NEW i \in Pair
    PROVE  /\ Keep(out, i) \in Seq(Pair)
           /\ \A m \in DOMAIN Keep(out, i) : \/ m \in DOMAIN out /\ Keep(out, i)[m] = out[m]
                                             \/ Keep(out, i)[m] = i /\ i[1] <= i[2]
           /\ Apart(out) /\ (i[1] <= i[2] => \A m \in DOMAIN out : out[m][2] + 1 < i[1])
              => Apart(Keep(out, i))
           /\ \A x \in Int : Holds(Keep(out, i), x) <=> Holds(out, x) \/ (i[1] <= x /\ x <= i[2])
<1> DEFINE n == Len(out)
           new == Keep(out, i)
<1>1. n \in Nat /\ DOMAIN out = 1..n /\ i[1] \in Int /\ i[2] \in Int
  BY DEF Pair
<1>2. CASE i[1] <= i[2]
  <2>1. new = Append(out, i)
    BY <1>2 DEF Keep
  <2>2. new \in Seq(Pair) /\ DOMAIN new = 1..(n + 1) /\ new[n + 1] = i /\ \A m \in 1..n : new[m] = out[m]
    BY <1>1, <2>1
  <2> HIDE DEF new, n
  <2>3. \A m : m \in 1..(n + 1) <=> m \in 1..n \/ m = n + 1
    BY <1>1
  <2>4. ASSUME Apart(out), \A m \in DOMAIN out : out[m][2] + 1 < i[1] PROVE Apart(new)
    <3> SUFFICES ASSUME NEW j \in 1..(n + 1), NEW k \in 1..(n + 1), j < k PROVE new[j][2] + 1 < new[k][1]
      BY <2>2 DEF Apart
    <3>1. CASE k = n + 1
      <4>1. j \in 1..n
        BY <1>1, <3>1
      <4> QED
        BY <1>1, <2>2, <2>4, <3>1, <4>1
    <3>2. CASE k # n + 1
      <4>1. j \in 1..n /\ k \in 1..n
        BY <1>1, <3>2
      <4> QED
        BY <1>1, <2>2, <2>4, <4>1 DEF Apart
    <3> QED
      BY <3>1, <3>2
  <2>5. \A x \in Int : Holds(new, x) <=> Holds(out, x) \/ (i[1] <= x /\ x <= i[2])
    BY <1>1, <2>2, <2>3 DEF Holds
  <2>6. \A m \in DOMAIN new : \/ m \in DOMAIN out /\ new[m] = out[m]
                              \/ new[m] = i /\ i[1] <= i[2]
    BY <1>1, <1>2, <2>2, <2>3
  <2> QED
    BY <1>2, <2>2, <2>4, <2>5, <2>6 DEF new
<1>3. CASE ~ (i[1] <= i[2])
  <2>1. Keep(out, i) = out
    BY <1>3 DEF Keep
  <2>2. \A x \in Int : ~ (i[1] <= x /\ x <= i[2])
    BY <1>1, <1>3
  <2> QED
    BY <2>1, <2>2
<1> QED
  BY <1>2, <1>3

\* Within reaches of want, what a list is made of.
Within(v, want) == \A k \in DOMAIN v : want[1] <= v[k][1] /\ v[k][2] <= want[2]

LEMMA IntersectIs ==
    ASSUME NEW have \in Seq(Pair), NEW want \in Pair, Apart(have)
    PROVE  /\ intersect(have, want) \in Seq(Pair)
           /\ Apart(intersect(have, want)) /\ Upright(intersect(have, want))
           /\ Within(intersect(have, want), want)
           /\ LinesOf(intersect(have, want)) = LinesOf(have) \cap want[1]..want[2]
<1> DEFINE n == Len(have)
<1>1. /\ n \in Nat /\ DOMAIN have = 1..n /\ want[1] \in Int /\ want[2] \in Int
      /\ \A k \in 1..n : have[k] \in Pair /\ have[k][1] \in Int /\ have[k][2] \in Int
  BY DEF Pair
<1>2. PICK loop : /\ loop[0] = <<>>
                  /\ \A k \in 1..n : loop[k] = Keep(loop[k - 1], Clip(have[k], want))
                  /\ intersect(have, want) = loop[n]
  BY ClipLoop
<1> HIDE DEF n
<1> DEFINE In(x) == want[1] <= x /\ x <= want[2]
           Made(k, x) == \E l \in 1..k : have[l][1] <= x /\ x <= have[l][2]
           Good(k) == /\ loop[k] \in Seq(Pair) /\ Apart(loop[k]) /\ Upright(loop[k]) /\ Within(loop[k], want)
                      /\ \A m \in DOMAIN loop[k], l \in 1..n : k < l => loop[k][m][2] + 1 < have[l][1]
                      /\ \A x \in Int : Holds(loop[k], x) <=> In(x) /\ Made(k, x)
           T == {k \in Nat : k <= n => Good(k)}
<1>3. Good(0)
  <2>1. loop[0] = <<>> /\ <<>> \in Seq(Pair) /\ DOMAIN <<>> = {}
    BY <1>2, EmptySeq
  <2> QED
    BY <2>1 DEF Apart, Holds, Upright, Within
<1>4. ASSUME NEW k \in Nat, k + 1 <= n, Good(k) PROVE Good(k + 1)
  <2> DEFINE i == have[k + 1]
             c == Clip(i, want)
             old == loop[k]
             new == loop[k + 1]
  <2>1. k + 1 \in 1..n /\ k < k + 1 /\ (k + 1) - 1 = k
    <3>1. k \in Nat /\ n \in Nat /\ k + 1 <= n
      BY <1>1, <1>4
    <3> QED
      BY <3>1
  <2>2. i \in Pair /\ i[1] \in Int /\ i[2] \in Int /\ new = Keep(old, c)
    BY <1>1, <1>2, <2>1
  <2>3. /\ old \in Seq(Pair) /\ Apart(old) /\ Upright(old) /\ Within(old, want)
        /\ \A m \in DOMAIN old, l \in 1..n : k < l => old[m][2] + 1 < have[l][1]
        /\ \A x \in Int : Holds(old, x) <=> In(x) /\ Made(k, x)
    BY <1>4
  <2>4. /\ c \in Pair
        /\ c[1] = IF i[1] >= want[1] THEN i[1] ELSE want[1]
        /\ c[2] = IF i[2] <= want[2] THEN i[2] ELSE want[2]
    <3> HIDE DEF i
    <3> QED
      BY <2>2, ClipType
  <2> HIDE DEF i, c, old, new
  <2>5. /\ c[1] \in Int /\ c[2] \in Int /\ i[1] <= c[1] /\ want[1] <= c[1] /\ c[2] <= i[2] /\ c[2] <= want[2]
        /\ \A x \in Int : (c[1] <= x /\ x <= c[2]) <=> In(x) /\ i[1] <= x /\ x <= i[2]
    BY <1>1, <2>2, <2>4
  <2>6. \A m \in DOMAIN old : old[m][1] \in Int /\ old[m][2] \in Int
    BY <2>3 DEF Pair
  <2>7. \A m \in DOMAIN old : old[m][2] + 1 < c[1]
    <3>1. \A m \in DOMAIN old : old[m][2] + 1 < i[1]
      BY <2>1, <2>3 DEF i
    <3> QED
      BY <2>2, <2>5, <2>6, <3>1
  <2>8. /\ new \in Seq(Pair) /\ Apart(new)
        /\ \A m \in DOMAIN new : \/ m \in DOMAIN old /\ new[m] = old[m]
                                 \/ new[m] = c /\ c[1] <= c[2]
        /\ \A x \in Int : Holds(new, x) <=> Holds(old, x) \/ (c[1] <= x /\ x <= c[2])
    <3>1. old \in Seq(Pair) /\ c \in Pair
      BY <2>3, <2>4
    <3>2. /\ Keep(old, c) \in Seq(Pair)
          /\ \A m \in DOMAIN Keep(old, c) : \/ m \in DOMAIN old /\ Keep(old, c)[m] = old[m]
                                            \/ Keep(old, c)[m] = c /\ c[1] <= c[2]
          /\ Apart(old) /\ (c[1] <= c[2] => \A m \in DOMAIN old : old[m][2] + 1 < c[1])
             => Apart(Keep(old, c))
          /\ \A x \in Int : Holds(Keep(old, c), x) <=> Holds(old, x) \/ (c[1] <= x /\ x <= c[2])
      BY <3>1, KeepIs
    <3> QED
      BY <2>2, <2>3, <2>7, <3>2
  <2>9. Upright(new) /\ Within(new, want)
    BY <2>3, <2>5, <2>8 DEF Upright, Within
  <2>10. ASSUME NEW m \in DOMAIN new, NEW l \in 1..n, k + 1 < l PROVE new[m][2] + 1 < have[l][1]
    <3>1. CASE m \in DOMAIN old /\ new[m] = old[m]
      <4>1. k < l
        BY <2>1, <2>10, <1>1
      <4> QED
        BY <2>3, <3>1, <4>1
    <3>2. CASE new[m] = c
      <4>1. i[2] + 1 < have[l][1] /\ have[l][1] \in Int
        BY <1>1, <2>1, <2>10 DEF Apart, i
      <4> QED
        BY <2>2, <2>5, <3>2, <4>1
    <3> QED
      BY <2>8, <3>1, <3>2
  <2>11. ASSUME NEW x \in Int PROVE Holds(new, x) <=> In(x) /\ Made(k + 1, x)
    <3>1. \A l : l \in 1..(k + 1) <=> l \in 1..k \/ l = k + 1
      OBVIOUS
    <3>2. Made(k + 1, x) <=> Made(k, x) \/ (i[1] <= x /\ x <= i[2])
      BY <3>1 DEF i
    <3>3. Holds(old, x) <=> In(x) /\ Made(k, x)
      BY <2>3
    <3>4. (c[1] <= x /\ x <= c[2]) <=> In(x) /\ i[1] <= x /\ x <= i[2]
      BY <2>5
    <3> HIDE DEF Made, In
    <3> QED
      BY <2>8, <3>2, <3>3, <3>4
  <2> HIDE DEF Made, In
  <2> QED
    BY <2>8, <2>9, <2>10, <2>11 DEF new
<1>5. Good(n)
  <2> HIDE DEF Good
  <2>1. T \in SUBSET Nat /\ 0 \in T
    BY <1>3
  <2>2. ASSUME NEW k \in T PROVE k + 1 \in T
    BY <1>1, <1>4
  <2>3. T = Nat
    <3> HIDE DEF T
    <3> QED
      BY <2>1, <2>2, InductiveSet
  <2> QED
    BY <1>1, <2>3
<1>6. /\ intersect(have, want) \in Seq(Pair) /\ Apart(intersect(have, want)) /\ Upright(intersect(have, want))
      /\ Within(intersect(have, want), want)
      /\ \A x \in Int : Holds(intersect(have, want), x) <=> In(x) /\ Made(n, x)
  BY <1>2, <1>5
<1>7. ASSUME NEW x
      PROVE  x \in LinesOf(intersect(have, want)) <=> x \in LinesOf(have) /\ x \in want[1]..want[2]
  <2>1. Made(n, x) <=> Holds(have, x)
    BY <1>1 DEF Holds
  <2>2. x \in want[1]..want[2] <=> x \in Int /\ In(x)
    BY <1>1
  <2>3. x \in LinesOf(intersect(have, want)) <=> x \in Int /\ Holds(intersect(have, want), x)
    BY <1>6, LinesAre
  <2>4. x \in LinesOf(have) <=> x \in Int /\ Holds(have, x)
    BY LinesAre
  <2> HIDE DEF Made, In
  <2> QED
    BY <1>6, <2>1, <2>2, <2>3, <2>4
<1> QED
  BY <1>6, <1>7

\* gaps leaves of a range what intersect does not find.
LEMMA GapsAre ==
    ASSUME NEW have \in Seq(Pair), NEW want \in Pair, Apart(have)
    PROVE  /\ gaps(have, want) \in Seq(Pair) /\ Upright(gaps(have, want))
           /\ LinesOf(gaps(have, want)) = want[1]..want[2] \ LinesOf(have)
<1> DEFINE list == intersect(have, want)
           n == Len(list)
           first == want[1]
           last == want[2]
<1>1. /\ list \in Seq(Pair) /\ Apart(list) /\ Upright(list) /\ Within(list, want)
      /\ LinesOf(list) = LinesOf(have) \cap want[1]..want[2]
  BY IntersectIs
<1>2. gaps(have, want) = Keep(FoldLeft(Sweep, [out |-> <<>>, cursor |-> first], list).out,
                              <<FoldLeft(Sweep, [out |-> <<>>, cursor |-> first], list).cursor, last>>)
  BY DEF gaps
<1> HIDE DEF list
<1>3. /\ n \in Nat /\ DOMAIN list = 1..n /\ first \in Int /\ last \in Int
      /\ \A k \in 1..n : list[k] \in Pair /\ list[k][1] \in Int /\ list[k][2] \in Int
  BY <1>1 DEF Pair
<1>4. PICK loop : /\ loop[0] = [out |-> <<>>, cursor |-> first]
                  /\ \A k \in 1..n : loop[k] = Sweep(loop[k - 1], list[k])
                  /\ FoldLeft(Sweep, [out |-> <<>>, cursor |-> first], list) = loop[n]
  BY <1>1, <1>3, SweepLoop
<1>5. gaps(have, want) = Keep(loop[n].out, <<loop[n].cursor, last>>)
  BY <1>2, <1>4
<1>6. \A k \in 1..n : first <= list[k][1] /\ list[k][1] <= list[k][2] /\ list[k][2] <= last
  BY <1>1, <1>3 DEF Upright, Within
<1>7. \A j, k \in 1..n : j < k => list[j][2] + 1 < list[k][1]
  BY <1>1, <1>3 DEF Apart
<1> HIDE DEF n, first, last
<1> DEFINE Made(k, x) == \E l \in 1..k : list[l][1] <= x /\ x <= list[l][2]
           At(k, c) == /\ first <= c /\ (c = first \/ c <= last + 1)
                       /\ \A l \in 1..n : k < l => c <= list[l][1]
                       /\ \A x \in Int : Made(k, x) => x < c
           Left(k, out, c) == \A x \in Int : Holds(out, x) <=> first <= x /\ x < c /\ ~ Made(k, x)
           Good(k) == /\ loop[k] \in Swept /\ Upright(loop[k].out)
                      /\ At(k, loop[k].cursor) /\ Left(k, loop[k].out, loop[k].cursor)
           T == {k \in Nat : k <= n => Good(k)}
<1>8. Good(0)
  <2>1. <<>> \in Seq(Pair) /\ DOMAIN <<>> = {}
    BY EmptySeq
  <2>2. loop[0] \in Swept /\ loop[0].out = <<>> /\ loop[0].cursor = first
    BY <1>3, <1>4, <2>1 DEF Swept
  <2>3. Upright(<<>>) /\ \A x : ~ Holds(<<>>, x) /\ ~ Made(0, x)
    BY <2>1 DEF Upright, Holds
  <2>4. At(0, first)
    BY <1>3, <1>6, <2>3
  <2>5. Left(0, <<>>, first)
    BY <1>3, <2>3
  <2> HIDE DEF At, Left
  <2> QED
    BY <2>2, <2>3, <2>4, <2>5
<1>9. ASSUME NEW k \in Nat, k + 1 <= n, Good(k) PROVE Good(k + 1)
  <2> DEFINE i == list[k + 1]
             out == loop[k].out
             c == loop[k].cursor
             g == <<c, i[1] - 1>>
  <2>1. k + 1 \in 1..n /\ k < k + 1 /\ (k + 1) - 1 = k
    <3>1. k \in Nat /\ n \in Nat /\ k + 1 <= n
      BY <1>3, <1>9
    <3> QED
      BY <3>1
  <2>2. /\ i \in Pair /\ i[1] \in Int /\ i[2] \in Int
        /\ first <= i[1] /\ i[1] <= i[2] /\ i[2] <= last
    BY <1>3, <1>6, <2>1
  <2>3. loop[k + 1] = Sweep(loop[k], i)
    BY <1>4, <2>1
  <2>4. out \in Seq(Pair) /\ c \in Int /\ loop[k] \in Swept /\ Upright(out) /\ At(k, c) /\ Left(k, out, c)
    BY <1>9 DEF Swept
  <2>5. c <= i[1] /\ first <= c
    BY <2>1, <2>4
  <2> HIDE DEF i
  <2>6. /\ loop[k + 1] \in Swept /\ loop[k + 1].out = Keep(out, g)
        /\ loop[k + 1].cursor = IF c >= i[2] + 1 THEN c ELSE i[2] + 1
    BY <2>2, <2>3, <2>4, SweepType
  <2>7. loop[k + 1].cursor = i[2] + 1
    <3> HIDE DEF c
    <3> QED
      BY <2>2, <2>4, <2>5, <2>6
  <2>8. g \in Pair /\ g[1] = c /\ g[2] = i[1] - 1
    BY <2>2, <2>4 DEF Pair
  <2> HIDE DEF out, c, g
  <2>9. /\ Keep(out, g) \in Seq(Pair)
        /\ \A m \in DOMAIN Keep(out, g) : \/ m \in DOMAIN out /\ Keep(out, g)[m] = out[m]
                                          \/ Keep(out, g)[m] = g /\ g[1] <= g[2]
        /\ \A x \in Int : Holds(Keep(out, g), x) <=> Holds(out, x) \/ (g[1] <= x /\ x <= g[2])
    BY <2>4, <2>8, KeepIs
  <2>10. Upright(Keep(out, g))
    BY <2>4, <2>9 DEF Upright
  <2>11. \A x \in Int : Made(k + 1, x) <=> Made(k, x) \/ (i[1] <= x /\ x <= i[2])
    <3>1. \A l : l \in 1..(k + 1) <=> l \in 1..k \/ l = k + 1
      OBVIOUS
    <3> QED
      BY <3>1 DEF i
  <2>12. \A x \in Int : Made(k, x) => x < c
    BY <2>4
  <2>13. At(k + 1, i[2] + 1)
    <3>1. first <= i[2] + 1 /\ i[2] + 1 <= last + 1
      BY <1>3, <2>2
    <3>2. ASSUME NEW l \in 1..n, k + 1 < l PROVE i[2] + 1 <= list[l][1]
      <4>1. i[2] + 1 < list[l][1] /\ list[l][1] \in Int
        BY <1>3, <1>7, <2>1, <3>2 DEF i
      <4> QED
        BY <2>2, <4>1
    <3>3. ASSUME NEW x \in Int, Made(k + 1, x) PROVE x < i[2] + 1
      <4>1. Made(k, x) => x < c
        BY <2>12
      <4>2. Made(k, x) \/ (i[1] <= x /\ x <= i[2])
        BY <2>11, <3>3
      <4> HIDE DEF Made
      <4> QED
        BY <2>2, <2>4, <2>5, <4>1, <4>2
    <3> HIDE DEF Made
    <3> QED
      BY <3>1, <3>2, <3>3
  <2>14. Left(k + 1, Keep(out, g), i[2] + 1)
    <3> SUFFICES ASSUME NEW x \in Int
                 PROVE  Holds(Keep(out, g), x) <=> first <= x /\ x < i[2] + 1 /\ ~ Made(k + 1, x)
      OBVIOUS
    <3>1. Holds(Keep(out, g), x) <=> Holds(out, x) \/ (c <= x /\ x <= i[1] - 1)
      BY <2>8, <2>9
    <3>2. Holds(out, x) <=> first <= x /\ x < c /\ ~ Made(k, x)
      BY <2>4
    <3>3. Made(k + 1, x) <=> Made(k, x) \/ (i[1] <= x /\ x <= i[2])
      BY <2>11
    <3>4. Made(k, x) => x < c
      BY <2>12
    <3>5. i[1] \in Int /\ i[2] \in Int /\ c \in Int /\ first \in Int /\ first <= c /\ c <= i[1] /\ i[1] <= i[2]
      BY <1>3, <2>2, <2>4, <2>5
    <3> HIDE DEF Made, i, c
    <3>6. CASE x < c
      <4>1. x < i[2] + 1 /\ ~ (c <= x) /\ ~ (i[1] <= x)
        BY <3>5, <3>6
      <4> QED
        BY <3>1, <3>2, <3>3, <3>6, <4>1, Zenon
    <3>7. CASE c <= x
      <4>1. ~ (x < c) /\ first <= x
        BY <3>5, <3>7
      <4>2. x <= i[1] - 1 <=> x < i[2] + 1 /\ ~ (i[1] <= x /\ x <= i[2])
        BY <3>5
      <4> QED
        BY <3>1, <3>2, <3>3, <3>4, <3>7, <4>1, <4>2, Zenon
    <3>8. x < c \/ c <= x
      BY <3>5
    <3> QED
      BY <3>6, <3>7, <3>8
  <2> HIDE DEF At, Left
  <2> QED
    BY <2>6, <2>7, <2>10, <2>13, <2>14
<1>10. Good(n)
  <2> HIDE DEF Good
  <2>1. T \in SUBSET Nat /\ 0 \in T
    BY <1>8
  <2>2. ASSUME NEW k \in T PROVE k + 1 \in T
    BY <1>3, <1>9
  <2>3. T = Nat
    <3> HIDE DEF T
    <3> QED
      BY <2>1, <2>2, InductiveSet
  <2> QED
    BY <1>3, <2>3
<1> DEFINE out == loop[n].out
           c == loop[n].cursor
           g == <<c, last>>
<1>11. out \in Seq(Pair) /\ c \in Int /\ Upright(out) /\ At(n, c) /\ Left(n, out, c)
  BY <1>10 DEF Swept
<1>12. g \in Pair /\ g[1] = c /\ g[2] = last
  BY <1>3, <1>11 DEF Pair
<1> HIDE DEF out, c, g
<1>13. /\ Keep(out, g) \in Seq(Pair)
       /\ \A m \in DOMAIN Keep(out, g) : \/ m \in DOMAIN out /\ Keep(out, g)[m] = out[m]
                                         \/ Keep(out, g)[m] = g /\ g[1] <= g[2]
       /\ \A x \in Int : Holds(Keep(out, g), x) <=> Holds(out, x) \/ (g[1] <= x /\ x <= g[2])
  BY <1>11, <1>12, KeepIs
<1>14. Upright(Keep(out, g))
  BY <1>11, <1>13 DEF Upright
<1>15. ASSUME NEW x PROVE x \in LinesOf(Keep(out, g)) <=> x \in want[1]..want[2] /\ x \notin LinesOf(have)
  <2>1. x \in LinesOf(Keep(out, g)) <=> x \in Int /\ Holds(Keep(out, g), x)
    BY <1>13, LinesAre
  <2>2. x \in LinesOf(list) <=> x \in Int /\ Made(n, x)
    BY <1>1, <1>3, LinesAre DEF Holds
  <2>3. x \in want[1]..want[2] <=> x \in Int /\ first <= x /\ x <= last
    BY <1>3 DEF first, last
  <2>4. x \in LinesOf(list) <=> x \in LinesOf(have) /\ x \in want[1]..want[2]
    BY <1>1
  <2>5. CASE x \in Int
    <3>1. Holds(Keep(out, g), x) <=> Holds(out, x) \/ (c <= x /\ x <= last)
      BY <1>12, <1>13, <2>5
    <3>2. Holds(out, x) <=> first <= x /\ x < c /\ ~ Made(n, x)
      BY <1>11, <2>5
    <3>3. Made(n, x) => x < c
      BY <1>11, <2>5
    <3>4. first <= c /\ (c = first \/ c <= last + 1)
      BY <1>11
    <3> HIDE DEF Made
    <3>5. Holds(Keep(out, g), x) <=> first <= x /\ x <= last /\ ~ Made(n, x)
      BY <1>3, <1>11, <2>5, <3>1, <3>2, <3>3, <3>4
    <3> QED
      BY <2>1, <2>2, <2>3, <2>4, <2>5, <3>5
  <2> QED
    BY <2>1, <2>3, <2>5
<1>16. gaps(have, want) = Keep(out, g)
  BY <1>5 DEF out, c, g
<1> QED
  BY <1>13, <1>14, <1>15, <1>16

LEMMA SendType ==
    ASSUME NEW v \in Seq(Pair), NEW sent \in Pair
    PROVE  merge(Append(v, sent)) \in Seq(Pair)
<1>1. Append(v, sent) \in Seq(Pair)
  BY AppendProperties
<1> QED
  BY <1>1, MergeIs

\* The deliveries of one call, one gap after the other.
LEMMA SendLoop ==
    ASSUME NEW list \in Seq(Pair), NEW v \in Seq(Pair)
    PROVE  \E loop : /\ loop[0] = v
                     /\ \A k \in 1..Len(list) : loop[k] = merge(Append(loop[k - 1], list[k]))
                     /\ FoldLeft(LAMBDA w, sent : merge(Append(w, sent)), v, list) = loop[Len(list)]
<1> DEFINE n == Len(list)
           base == v
           step == [x \in Seq(Pair) \X (1..n) |-> merge(Append(x[1], list[x[2]]))]
           round(iter, s) == IF s = {} THEN base ELSE merge(Append(iter[s \ {Max(s)}], list[Max(s)]))
           chosen == CHOOSE iter : iter = [s \in SUBSET (1..n) |-> round(iter, s)]
<1>1. n \in Nat /\ DOMAIN list = 1..n /\ \A k \in 1..n : list[k] \in Pair
  OBVIOUS
<1>2. FoldLeft(LAMBDA w, sent : merge(Append(w, sent)), v, list) = chosen[1..n]
  BY <1>1 DEF FoldLeft, MapThenFoldSet
<1>3. step \in [Seq(Pair) \X (1..n) -> Seq(Pair)]
  BY <1>1, SendType
<1>4. base \in Seq(Pair)
  OBVIOUS
<1> HIDE DEF n, base
<1>5. PICK iter : IsFold(iter, Seq(Pair), n, base, step)
  <2> HIDE DEF step
  <2> QED
    BY <1>1, <1>3, <1>4, FoldExists
<1>6. ASSUME NEW s \in SUBSET (1..n) PROVE Turn(iter, step, base, s) = round(iter, s)
  <2>1. CASE s = {}
    BY <2>1 DEF Turn
  <2>2. CASE s # {}
    <3>1. Max(s) \in 1..n
      BY <1>1, <2>2, MaxIsLargest
    <3>2. iter[s \ {Max(s)}] \in Seq(Pair)
      BY <1>5 DEF IsFold
    <3>3. step[<<iter[s \ {Max(s)}], Max(s)>>] = merge(Append(iter[s \ {Max(s)}], list[Max(s)]))
      BY <3>1, <3>2
    <3> QED
      BY <2>2, <3>3 DEF Turn
  <2> QED
    BY <2>1, <2>2
<1>7. iter = [s \in SUBSET (1..n) |-> round(iter, s)]
  <2> HIDE DEF round
  <2>1. iter = [s \in SUBSET (1..n) |-> iter[s]]
    BY <1>5 DEF IsFold
  <2> QED
    BY <1>5, <1>6, <2>1 DEF IsFold
<1>8. chosen = [s \in SUBSET (1..n) |-> round(chosen, s)]
  <2> HIDE DEF round
  <2> QED
    BY <1>7
<1>9. chosen[1..0] = base /\ \A k \in 1..n : chosen[1..k] = merge(Append(chosen[1..(k - 1)], list[k]))
  <2> HIDE DEF chosen
  <2>1. 1..0 = {} /\ {} \in SUBSET (1..n)
    OBVIOUS
  <2>2. ASSUME NEW k \in 1..n PROVE chosen[1..k] = merge(Append(chosen[1..(k - 1)], list[k]))
    <3>1. k \in Nat \ {0} /\ 1..k \in SUBSET (1..n)
      BY <1>1
    <3>2. chosen[1..k] = round(chosen, 1..k)
      BY <1>8, <3>1
    <3> QED
      BY <3>1, <3>2, MaxOfSegment
  <2> QED
    BY <1>8, <2>1, <2>2
<1> DEFINE loop == [k \in 0..n |-> chosen[1..k]]
<1> HIDE DEF chosen
<1>10. loop[0] = base /\ (\A k \in 1..n : loop[k] = merge(Append(loop[k - 1], list[k]))) /\ loop[n] = chosen[1..n]
  BY <1>1, <1>9
<1> HIDE DEF loop
<1> QED
  BY <1>2, <1>10 DEF n, base

LEMMA AppendedLines ==
    ASSUME NEW v \in Seq(Pair), NEW sent \in Pair
    PROVE  LinesOf(Append(v, sent)) = LinesOf(v) \cup sent[1]..sent[2]
<1> DEFINE n == Len(v)
           new == Append(v, sent)
<1>1. /\ n \in Nat /\ DOMAIN v = 1..n /\ DOMAIN new = 1..(n + 1)
      /\ new[n + 1] = sent /\ \A m \in 1..n : new[m] = v[m]
  OBVIOUS
<1> HIDE DEF n, new
<1>2. \A m : m \in 1..(n + 1) <=> m \in 1..n \/ m = n + 1
  BY <1>1
<1>3. LinesOf(new) = LinesOf(v) \cup sent[1]..sent[2]
  BY <1>1, <1>2 DEF LinesOf
<1> QED
  BY <1>3 DEF new

LEMMA DeliveredLines ==
    ASSUME NEW v \in Seq(Pair), NEW sent \in Pair
    PROVE  /\ merge(Append(v, sent)) \in Seq(Pair) /\ Apart(merge(Append(v, sent)))
           /\ LinesOf(merge(Append(v, sent))) = LinesOf(v) \cup sent[1]..sent[2]
<1>1. Append(v, sent) \in Seq(Pair)
  BY AppendProperties
<1> QED
  BY <1>1, MergeIs, AppendedLines

LEMMA SendIs ==
    ASSUME NEW list \in Seq(Pair), NEW v \in Seq(Pair), Apart(v)
    PROVE  LET w == FoldLeft(LAMBDA u, sent : merge(Append(u, sent)), v, list)
           IN  w \in Seq(Pair) /\ Apart(w) /\ LinesOf(w) = LinesOf(v) \cup LinesOf(list)
<1> DEFINE n == Len(list)
           w == FoldLeft(LAMBDA u, sent : merge(Append(u, sent)), v, list)
<1>1. n \in Nat /\ DOMAIN list = 1..n /\ \A k \in 1..n : list[k] \in Pair
  OBVIOUS
<1>2. PICK loop : /\ loop[0] = v
                  /\ \A k \in 1..n : loop[k] = merge(Append(loop[k - 1], list[k]))
                  /\ w = loop[n]
  BY SendLoop
<1> HIDE DEF n, w
<1> DEFINE Sent(k, x) == \E l \in 1..k : x \in list[l][1]..list[l][2]
           Good(k) == /\ loop[k] \in Seq(Pair) /\ Apart(loop[k])
                      /\ \A x : x \in LinesOf(loop[k]) <=> x \in LinesOf(v) \/ Sent(k, x)
           T == {k \in Nat : k <= n => Good(k)}
<1>3. Good(0)
  BY <1>2
<1>4. ASSUME NEW k \in Nat, k + 1 <= n, Good(k) PROVE Good(k + 1)
  <2> DEFINE i == list[k + 1]
  <2>1. k + 1 \in 1..n /\ (k + 1) - 1 = k
    <3>1. k \in Nat /\ n \in Nat /\ k + 1 <= n
      BY <1>1, <1>4
    <3> QED
      BY <3>1
  <2>2. i \in Pair /\ loop[k] \in Seq(Pair)
    BY <1>1, <1>4, <2>1
  <2>3. loop[k + 1] = merge(Append(loop[k], i))
    BY <1>2, <2>1
  <2>4. \A x : Sent(k + 1, x) <=> Sent(k, x) \/ x \in i[1]..i[2]
    <3>1. \A l : l \in 1..(k + 1) <=> l \in 1..k \/ l = k + 1
      OBVIOUS
    <3> QED
      BY <3>1
  <2> HIDE DEF i, Sent
  <2>5. /\ loop[k + 1] \in Seq(Pair) /\ Apart(loop[k + 1])
        /\ LinesOf(loop[k + 1]) = LinesOf(loop[k]) \cup i[1]..i[2]
    BY <2>2, <2>3, DeliveredLines
  <2> QED
    BY <1>4, <2>4, <2>5
<1>5. Good(n)
  <2> HIDE DEF Good
  <2>1. T \in SUBSET Nat /\ 0 \in T
    BY <1>3
  <2>2. ASSUME NEW k \in T PROVE k + 1 \in T
    BY <1>1, <1>4
  <2>3. T = Nat
    <3> HIDE DEF T
    <3> QED
      BY <2>1, <2>2, InductiveSet
  <2> QED
    BY <1>1, <2>3
<1>6. \A x : x \in LinesOf(list) <=> Sent(n, x)
  BY <1>1 DEF LinesOf
<1>7. w \in Seq(Pair) /\ Apart(w) /\ LinesOf(w) = LinesOf(v) \cup LinesOf(list)
  <2> HIDE DEF Sent
  <2> QED
    BY <1>2, <1>5, <1>6
<1> QED
  BY <1>7 DEF w

-----------------------------------------------------------------------------
(***************************************************************************)
(* What a file's ledger holds after any number of deliveries.              *)
(***************************************************************************)
\* The list is of intervals, apart, and denotes the lines delivered.
ListInv == intervals \in Seq(Pair) /\ Apart(intervals) /\ LinesOf(intervals) = held

LEMMA RangesArePairs == Ranges \subseteq Pair
BY BoundsAssumption DEF Ranges, Pair

\* What main withholds of a range and what it sends.
LEMMA AnswersAre ==
    ASSUME NEW v \in Seq(Pair), Apart(v), NEW want \in Pair
    PROVE  LET known == intersect(v, want)
               missing == gaps(known, want)
           IN  /\ LinesOf(known) = LinesOf(v) \cap want[1]..want[2]
               /\ missing \in Seq(Pair) /\ Upright(missing)
               /\ LinesOf(missing) = want[1]..want[2] \ LinesOf(v)
<1> DEFINE known == intersect(v, want)
<1>1. known \in Seq(Pair) /\ Apart(known) /\ LinesOf(known) = LinesOf(v) \cap want[1]..want[2]
  BY IntersectIs
<1> HIDE DEF known
<1>2. /\ gaps(known, want) \in Seq(Pair) /\ Upright(gaps(known, want))
      /\ LinesOf(gaps(known, want)) = want[1]..want[2] \ LinesOf(known)
  BY <1>1, GapsAre
<1> QED
  BY <1>1, <1>2 DEF known

LEMMA InitList == Init => ListInv
<1> SUFFICES ASSUME Init PROVE ListInv
  OBVIOUS
<1>1. intervals = <<>> /\ held = {} /\ <<>> \in Seq(Pair) /\ DOMAIN <<>> = {}
  BY EmptySeq DEF Init
<1> QED
  BY <1>1 DEF ListInv, Apart, LinesOf

LEMMA NextList == ListInv /\ [Next]_vars => ListInv'
<1> SUFFICES ASSUME ListInv, [Next]_vars PROVE ListInv'
  OBVIOUS
<1>1. intervals \in Seq(Pair) /\ Apart(intervals) /\ LinesOf(intervals) = held
  BY DEF ListInv
<1>2. ASSUME NEW sent \in Ranges, Deliver(sent) PROVE ListInv'
  <2>1. intervals' = merge(Append(intervals, sent)) /\ held' = held \cup sent[1]..sent[2] /\ sent \in Pair
    BY <1>2, RangesArePairs DEF Deliver
  <2>2. /\ merge(Append(intervals, sent)) \in Seq(Pair) /\ Apart(merge(Append(intervals, sent)))
        /\ LinesOf(merge(Append(intervals, sent))) = LinesOf(intervals) \cup sent[1]..sent[2]
    BY <1>1, <2>1, DeliveredLines
  <2>3. intervals' \in Seq(Pair) /\ Apart(intervals') /\ LinesOf(intervals') = held'
    BY <1>1, <2>1, <2>2
  <2> QED
    BY <2>3 DEF ListInv, Apart, LinesOf
<1>3. ASSUME NEW sent \in Ranges, DeliverChanged(sent) PROVE ListInv'
  <2>1. intervals' = merge(<<sent>>) /\ held' = sent[1]..sent[2] /\ sent \in Pair
    BY <1>3, RangesArePairs DEF DeliverChanged
  <2>2. <<sent>> \in Seq(Pair) /\ DOMAIN <<sent>> = {1} /\ <<sent>>[1] = sent
    BY <2>1
  <2>3. LinesOf(<<sent>>) = sent[1]..sent[2]
    BY <2>2 DEF LinesOf
  <2>4. intervals' \in Seq(Pair) /\ Apart(intervals') /\ LinesOf(intervals') = held'
    BY <2>1, <2>2, <2>3, MergeIs
  <2> QED
    BY <2>4 DEF ListInv, Apart, LinesOf
<1>4. ASSUME NEW want \in Ranges, DeliverGaps(want) PROVE ListInv'
  <2> DEFINE missing == gaps(intersect(intervals, want), want)
  <2>1. /\ intervals' = FoldLeft(LAMBDA u, sent : merge(Append(u, sent)), intervals, missing)
        /\ held' = held \cup want[1]..want[2] /\ want \in Pair
    BY <1>4, RangesArePairs DEF DeliverGaps
  <2>2. missing \in Seq(Pair) /\ LinesOf(missing) = want[1]..want[2] \ LinesOf(intervals)
    BY <1>1, <2>1, AnswersAre
  <2> HIDE DEF missing
  <2>3. intervals' \in Seq(Pair) /\ Apart(intervals') /\ LinesOf(intervals') = LinesOf(intervals) \cup LinesOf(missing)
    BY <1>1, <2>1, <2>2, SendIs
  <2>4. LinesOf(intervals') = held'
    BY <1>1, <2>1, <2>2, <2>3
  <2> QED
    BY <2>3, <2>4 DEF ListInv, Apart, LinesOf
<1>5. CASE UNCHANGED vars
  BY <1>1, <1>5 DEF vars, ListInv, Apart, LinesOf
<1> QED
  BY <1>2, <1>3, <1>4, <1>5 DEF Next

LEMMA ListAlways == Spec => []ListInv
<1> QED
  BY InitList, NextList, PTL DEF Spec

\* However long the list of a file grows (state.rs, merge and covered), it denotes
\* the lines delivered since the file last changed, and stays sorted, merged and
\* non-overlapping, as FileState's comment says.
THEOREM ListsDenoteDeliveries == Spec => []ListDenotesDelivered
<1>1. ListInv => ListDenotesDelivered
  BY DEF ListInv, Apart, ListDenotesDelivered
<1> QED
  BY <1>1, ListAlways, PTL

\* Of every range that can be asked for, what pk-read withholds (intersect) and
\* what it sends (gaps) are the range, without a line twice or left out, and each
\* gap it prints is of at least a line.
THEOREM AnswersPartition == Spec => []AnswersArePartitions
<1>1. ListInv => AnswersArePartitions
  <2> SUFFICES ASSUME ListInv, NEW want \in Ranges
               PROVE  /\ LinesOf(intersect(intervals, want)) = held \cap want[1]..want[2]
                      /\ LinesOf(gaps(intersect(intervals, want), want)) = (want[1]..want[2]) \ held
                      /\ Upright(gaps(intersect(intervals, want), want))
    BY DEF AnswersArePartitions, Upright
  <2>1. intervals \in Seq(Pair) /\ Apart(intervals) /\ LinesOf(intervals) = held /\ want \in Pair
    BY RangesArePairs DEF ListInv
  <2> QED
    BY <2>1, AnswersAre
<1> QED
  BY <1>1, ListAlways, PTL

-----------------------------------------------------------------------------
(***************************************************************************)
(* The gate against invented names (RefCheck).                             *)
(***************************************************************************)
\* What RefCheck says of finite sets is what it says of them here.
LEMMA SameSets ==
    ASSUME NEW S
    PROVE  (R!IsFiniteSet(S) <=> IsFiniteSet(S)) /\ R!Cardinality(S) = Cardinality(S)
<1>1. R!IsFiniteSet(S) <=> IsFiniteSet(S)
  BY DEF R!IsFiniteSet, IsFiniteSet
<1>2. R!Cardinality(S) = Cardinality(S)
  BY DEF R!Cardinality, Cardinality
<1> QED
  BY <1>1, <1>2

\* What a snapshot's tables are like.
TablesAre(tables) == IsFiniteSet(tables) /\ \A t \in tables : t = <<t[1], t[2]>>

\* Table finds what a name means: nothing, or the one table.
LEMMA TableIs ==
    ASSUME NEW db, TablesAre(DOMAIN db.tables), NEW name
    PROVE  R!Means(db, name) = {R!Table(db, name)} \ {R!Absent}
<1> DEFINE tables == DOMAIN db.tables
           ending == {t \in tables : <<t[2]>> = name}
<1>1. \A t \in tables : t # R!Absent /\ t # <<t[2]>> /\ \A u \in tables : t # <<u[2]>>
  <2> SUFFICES ASSUME NEW t \in tables, NEW u PROVE t # R!Absent /\ t # <<u[2]>>
    OBVIOUS
  <2>1. t = <<t[1], t[2]>>
    BY DEF TablesAre
  <2>2. Len(<<t[1], t[2]>>) = 2
    OBVIOUS
  <2>3. Len(t) = 2
    BY <2>1, <2>2, Zenon
  <2>4. t # R!Absent
    BY <2>3 DEF R!Absent
  <2>5. t # <<u[2]>>
    <3> SUFFICES ASSUME t = <<u[2]>> PROVE FALSE
      OBVIOUS
    <3>1. Len(<<u[2]>>) = 1
      OBVIOUS
    <3>2. Len(t) = 1
      BY <3>1, Zenon
    <3> QED
      BY <2>3, <3>2
  <2> QED
    BY <2>4, <2>5
<1>2. CASE name \in tables
  <2>1. R!Table(db, name) = name
    BY <1>2 DEF R!Table
  <2>2. R!Means(db, name) = {name}
    BY <1>1, <1>2 DEF R!Means
  <2> QED
    BY <1>1, <1>2, <2>1, <2>2
<1>3. CASE name \notin tables /\ Cardinality(ending) = 1
  <2>1. IsFiniteSet(ending)
    BY FS_Subset DEF TablesAre
  <2>2. PICK t : ending = {t}
    BY <1>3, <2>1, FS_CardinalityType, FS_Singleton
  <2>3. R!Table(db, name) = t
    BY <1>3, <2>2, SameSets DEF R!Table
  <2>4. R!Means(db, name) = {t}
    <3>1. t \in tables /\ <<t[2]>> = name /\ \A m \in tables : <<m[2]>> = name => m = t
      BY <2>2
    <3>2. \A m \in tables : m[2] = t[2] => m = t
      BY <3>1
    <3>3. \A m : m \in R!Means(db, name) <=>
             m \in tables /\ (m = name \/ (name = <<m[2]>> /\ \A u \in tables : u[2] = m[2] => u = m))
      BY DEF R!Means
    <3> HIDE DEF tables, ending
    <3>4. \A m : m \in R!Means(db, name) <=> m = t
      BY <1>3, <3>1, <3>2, <3>3
    <3> QED
      BY <3>4
  <2> QED
    BY <1>1, <2>2, <2>3, <2>4
<1>4. CASE name \notin tables /\ Cardinality(ending) # 1
  <2>1. R!Table(db, name) = R!Absent
    BY <1>4, SameSets DEF R!Table
  <2>2. \A t : ending # {t}
    BY <1>4, FS_Singleton
  <2>3. R!Means(db, name) = {}
    <3> SUFFICES ASSUME NEW m \in R!Means(db, name) PROVE FALSE
      OBVIOUS
    <3>1. m \in tables /\ (m = name \/ (name = <<m[2]>> /\ \A u \in tables : u[2] = m[2] => u = m))
      BY DEF R!Means
    <3>2. m \in ending /\ \A u \in ending : <<u[2]>> = <<m[2]>>
      BY <1>4, <3>1
    <3>3. \A u \in ending : u \in tables /\ u[2] = m[2]
      <4>1. \A a, b : <<a>> = <<b>> => a = b
        OBVIOUS
      <4> QED
        BY <3>2, <4>1
    <3>4. ending = {m}
      <4> HIDE DEF tables
      <4>1. \A u \in ending : u = m
        BY <1>4, <3>1, <3>3
      <4> HIDE DEF ending
      <4> QED
        BY <3>2, <4>1
    <3> QED
      BY <2>2, <3>4
  <2> QED
    BY <2>1, <2>3
<1> QED
  BY <1>2, <1>3, <1>4

LEMMA AbsentMeansNothing ==
    ASSUME NEW db, TablesAre(DOMAIN db.tables)
    PROVE  R!Means(db, R!Absent) = {}
<1> SUFFICES ASSUME NEW t \in DOMAIN db.tables PROVE t # R!Absent /\ R!Absent # <<t[2]>>
  BY DEF R!Means
<1>1. t = <<t[1], t[2]>>
  BY DEF TablesAre
<1>2. Len(<<t[1], t[2]>>) = 2 /\ Len(<<t[2]>>) = 1 /\ Len(<<>>) = 0
  OBVIOUS
<1> QED
  BY <1>1, <1>2 DEF R!Absent

\* A text at an annotation is real, said without the resolver.
RealText(reference, text) ==
    LET db == loaded[reference.source]
    IN  /\ reference.source \in DOMAIN loaded
        /\ CASE reference.kind = "table" -> R!Means(db, text) # {}
             [] reference.kind = "column" ->
                  reference.parent /\ \E t \in R!Means(db, input.root.table) : text \in R!Columns(db, t)
             [] reference.kind = "function" -> text \in db.functions
             [] reference.kind = "enum" -> text \in DOMAIN db.enums
             [] OTHER -> FALSE

LoadedAre == \A name \in DOMAIN loaded : TablesAre(DOMAIN loaded[name].tables)

\* The resolver knows exactly what is real.
LEMMA ResolveIs ==
    ASSUME LoadedAre, NEW reference, NEW text
    PROVE  R!resolve(loaded, reference, text, R!Parent(reference)) = "known" <=> RealText(reference, text)
<1> DEFINE db == loaded[reference.source]
           parent == R!Parent(reference)
           named == input.root.table
<1>1. CASE reference.source \notin DOMAIN loaded
  <2>1. R!resolve(loaded, reference, text, parent) = "unknown_source"
    BY <1>1 DEF R!resolve
  <2> QED
    BY <1>1, <2>1 DEF RealText
<1>2. CASE reference.source \in DOMAIN loaded
  <2>1. TablesAre(DOMAIN db.tables)
    BY <1>2 DEF LoadedAre
  <2> HIDE DEF db, named, parent
  <2>2. \A name : R!Means(db, name) = {R!Table(db, name)} \ {R!Absent}
    BY <2>1, TableIs
  <2>3. R!Means(db, R!Absent) = {}
    BY <2>1, AbsentMeansNothing
  <2>4. CASE reference.kind = "table"
    <3>1. R!resolve(loaded, reference, text, parent) = "known" <=> R!Table(db, text) # R!Absent
      BY <1>2, <2>4 DEF R!resolve, R!resolve_table, db
    <3>2. RealText(reference, text) <=> R!Means(db, text) # {}
      BY <1>2, <2>4 DEF RealText, db
    <3> QED
      BY <2>2, <3>1, <3>2 DEF parent
  <2>5. CASE reference.kind = "column"
    <3>1. RealText(reference, text) <=>
             reference.parent /\ \E t \in R!Means(db, named) : text \in R!Columns(db, t)
      BY <1>2, <2>5 DEF RealText, db, named
    <3>2. CASE parent # R!Absent
      <4>1. reference.parent /\ parent = named
        BY <3>2 DEF parent, named, R!Parent
      <4>2. R!resolve(loaded, reference, text, parent) = "known" <=> R!resolve_column(db, parent, text)
        BY <1>2, <2>5, <3>2 DEF R!resolve, db
      <4> QED
        BY <2>2, <3>1, <4>1, <4>2 DEF R!resolve_column, parent
    <3>3. CASE parent = R!Absent
      <4>1. reference.parent => named = R!Absent
        BY <3>3 DEF parent, named, R!Parent
      <4>2. R!resolve(loaded, reference, text, parent) = "unknown_source"
        BY <1>2, <2>5, <3>3 DEF R!resolve, db
      <4> QED
        BY <2>3, <3>1, <4>1, <4>2 DEF parent
    <3> QED
      BY <3>2, <3>3
  <2>6. CASE reference.kind \notin {"table", "column"}
    BY <1>2, <2>6 DEF R!resolve, RealText, db
  <2> QED
    BY <2>4, <2>5, <2>6
<1> QED
  BY <1>1, <1>2

\* What the gate has decided, from the arguments it still has.
Decided ==
    /\ schema \in Schemas /\ loaded \in Snapshots
    /\ verdict = "run" => R!Problems = {}
    /\ verdict = "refused" => R!Problems # {}

LEMMA DecidedAlways == R!Spec => []Decided
<1>1. R!Init => Decided
  BY DEF R!Init, Decided
<1>2. Decided /\ [R!Next]_R!vars => Decided'
  <2> SUFFICES ASSUME Decided, [R!Next]_R!vars PROVE Decided'
    OBVIOUS
  <2>1. schema' = schema /\ input' = input /\ loaded' = loaded
    BY DEF R!Next, R!check, R!vars
  <2>2. R!Problems' = R!Problems
    BY <2>1 DEF R!Problems, R!Problem, R!Walked, R!Texts, R!Annotation, R!Parent
  <2>3. CASE R!check
    BY <2>1, <2>2, <2>3 DEF R!check, Decided
  <2>4. CASE verdict' = verdict
    BY <2>1, <2>2, <2>4 DEF Decided
  <2> QED
    BY <2>3, <2>4 DEF R!Next, R!vars
<1> QED
  BY <1>1, <1>2, PTL DEF R!Spec

\* No tool runs with an invented name, and none with real ones only is refused (refs.rs,
\* check): for every annotated schema, arguments and snapshots.
LEMMA GateAlone ==
    ASSUME R!Introspected
    PROVE  R!Spec => []R!GateIsExact
<1>1. Decided => R!GateIsExact
  <2> SUFFICES ASSUME Decided PROVE R!NoInventedName /\ R!NoFalseRefusal
    BY DEF R!GateIsExact
  <2>1. LoadedAre
    BY SameSets DEF Decided, R!Introspected, LoadedAre, TablesAre
  <2>2. ASSUME NEW n \in R!Walked
        PROVE  /\ n[1] \in R!Objects /\ n[2] \in R!Keys /\ n \in R!Walked
               /\ R!Annotation(n).form \in {"malformed", "ref"}
               /\ R!Real(n[1], n[2]) <=> /\ R!Annotation(n).source \in DOMAIN loaded
                                         /\ \A text \in R!Texts(n[1], n[2]) : RealText(R!Annotation(n), text)
    <3>1. n[1] \in R!Objects /\ n[2] \in R!Keys /\ R!Annotation(n).form # "none"
      BY DEF R!Walked
    <3>2. R!Annotation(n).form \in {"malformed", "ref"}
      BY <3>1, SMTT(30) DEF Decided, R!Introspected, R!Annotation
    <3>3. R!Real(n[1], n[2]) <=> /\ R!Annotation(n).source \in DOMAIN loaded
                                 /\ \A text \in R!Texts(n[1], n[2]) : RealText(R!Annotation(n), text)
      BY DEF R!Real, RealText, R!Annotation
    <3> QED
      BY <3>1, <3>2, <3>3
  <2>3. ASSUME NEW n \in R!Walked, NEW text \in R!Texts(n[1], n[2])
        PROVE  R!Problem(n, text) <=> R!Annotation(n).form = "malformed" \/ ~ RealText(R!Annotation(n), text)
    BY <2>1, ResolveIs DEF R!Problem
  <2>4. R!Problems = {} <=> \A n \in R!Walked : \A text \in R!Texts(n[1], n[2]) : ~ R!Problem(n, text)
    <3>1. ASSUME NEW n \in R!Walked, NEW text \in R!Texts(n[1], n[2]), R!Problem(n, text)
          PROVE  <<n, text>> \in R!Problems
      BY <3>1 DEF R!Problems
    <3>2. ASSUME NEW p \in R!Problems
          PROVE  \E n \in R!Walked : \E text \in R!Texts(n[1], n[2]) : R!Problem(n, text)
      BY DEF R!Problems
    <3> QED
      BY <3>1, <3>2
  <2>5. R!NoInventedName
    <3> SUFFICES ASSUME verdict = "run", NEW n \in R!Annotated
                 PROVE  R!Annotation(n).form = "ref" /\ R!Real(n[1], n[2])
      BY DEF R!NoInventedName
    <3>1. n \in R!Walked /\ R!Texts(n[1], n[2]) # {}
      BY DEF R!Annotated
    <3>2. \A text \in R!Texts(n[1], n[2]) : ~ R!Problem(n, text)
      BY <2>4, <3>1 DEF Decided
    <3>3. R!Annotation(n).form # "malformed" /\ \A text \in R!Texts(n[1], n[2]) : RealText(R!Annotation(n), text)
      BY <2>3, <3>1, <3>2
    <3> QED
      <4>1. R!Annotation(n).source \in DOMAIN loaded
        BY <3>1, <3>3 DEF RealText
      <4> QED
        BY <2>2, <3>1, <3>3, <4>1
  <2>6. R!NoFalseRefusal
    <3> SUFFICES ASSUME verdict = "refused"
                 PROVE  \E n \in R!Annotated : R!Annotation(n).form = "malformed" \/ ~ R!Real(n[1], n[2])
      BY DEF R!NoFalseRefusal
    <3>1. PICK n \in R!Walked : \E text \in R!Texts(n[1], n[2]) : R!Problem(n, text)
      BY <2>4 DEF Decided
    <3>2. PICK text \in R!Texts(n[1], n[2]) : R!Problem(n, text)
      BY <3>1
    <3>3. n \in R!Annotated
      BY DEF R!Annotated
    <3>4. R!Annotation(n).form = "malformed" \/ ~ RealText(R!Annotation(n), text)
      BY <2>3, <3>2
    <3> QED
      BY <2>2, <3>3, <3>4
  <2> QED
    BY <2>5, <2>6
<1> QED
  BY <1>1, DecidedAlways, PTL

-----------------------------------------------------------------------------
(***************************************************************************)
(* The loading of plugins (PluginLayers).                                  *)
(***************************************************************************)
\* What the manifests ls declare, and what of it comes before entry e of layer l.
DeclaredIn(ls) == {d \in (1..2) \X (1..MaxEntries) : ls[d[1]][1] = "entries" /\ d[2] <= Len(ls[d[1]][2])}
AnswerIn(ls, d) == ls[d[1]][2][d[2]]
Past(ls, l, e) == {d \in DeclaredIn(ls) : d[1] < l \/ (d[1] = l /\ d[2] < e)}

\* Of the entries past, a name is registered to the last one that reported it.
NameAt(ls, done, reg, own, n) ==
    LET claims == {d \in done : AnswerIn(ls, d) = n}
    IN  /\ claims = {} => reg[n] = (IF n \in Native THEN <<"native">> ELSE <<>>) /\ own[n] = 0
        /\ claims # {} => /\ reg[n] \in claims /\ own[n] = reg[n][1]
                          /\ \A d \in claims : d = reg[n] \/ Before(d, reg[n])

\* An entry past is registered, reported, or shadowed by a later one.
EntryAt(ls, reg, ps, sh, d) ==
    \/ AnswerIn(ls, d) = "fails" /\ d \in ps
    \/ AnswerIn(ls, d) \in Names /\ reg[AnswerIn(ls, d)] = d
    \/ AnswerIn(ls, d) \in Names /\ <<AnswerIn(ls, d), d[1]>> \in sh

PlaceInv ==
    /\ layers \in [1..2 -> L!Manifests] /\ layer \in 1..3 /\ entry \in Nat
    /\ entry > 0 => layer \in 1..2 /\ layers[layer][1] = "entries" /\ entry <= Len(layers[layer][2])

Accounted(ls, done, reg, own, ps, sh) ==
    /\ reg = [n \in Names |-> reg[n]] /\ own = [n \in Names |-> own[n]]
    /\ \A n \in Names : NameAt(ls, done, reg, own, n)
    /\ \A d \in done : EntryAt(ls, reg, ps, sh, d)

ClaimsInv == Accounted(layers, Past(layers, layer, entry), registry, owner, problems, shadowed)

\* A manifest with entries lists answers, as many as there may be.
LEMMA ManifestIs ==
    ASSUME L!Named, NEW m \in L!Manifests, m[1] = "entries"
    PROVE  m[2] \in Seq(L!Answers) /\ Len(m[2]) <= MaxEntries
<1>1. PICK es \in L!BoundedSeq(L!Answers, MaxEntries) : m = <<"entries", es>>
  BY DEF L!Manifests
<1>2. PICK k \in 0..MaxEntries : es \in [1..k -> L!Answers]
  BY DEF L!BoundedSeq, L!SeqOf
<1>3. k \in Nat /\ es \in Seq(L!Answers) /\ Len(es) = k
  BY <1>2 DEF L!Named
<1> QED
  BY <1>1, <1>2, <1>3 DEF L!Named

\* The next entry is declared, after all that are past; where there is none, the layer is past.
LEMMA PastIs ==
    ASSUME L!Named, NEW ls \in [1..2 -> L!Manifests], NEW l \in 1..2, NEW e \in Nat
    PROVE  /\ Past(ls, 1, 0) = {} /\ Past(ls, l, 1) = Past(ls, l, 0) /\ Past(ls, 3, 0) = DeclaredIn(ls)
           /\ ls[l][1] # "entries" => Past(ls, l + 1, 0) = Past(ls, l, 0)
           /\ ls[l][1] = "entries" => Past(ls, l + 1, 0) = Past(ls, l, Len(ls[l][2]) + 1)
           /\ ls[l][1] = "entries" /\ e > 0 /\ e <= Len(ls[l][2]) =>
                 /\ Past(ls, l, e + 1) = Past(ls, l, e) \cup {<<l, e>>} /\ <<l, e>> \notin Past(ls, l, e)
                 /\ \A d \in Past(ls, l, e) : Before(d, <<l, e>>)
                 /\ AnswerIn(ls, <<l, e>>) = ls[l][2][e] /\ ls[l][2][e] \in L!Answers
<1>1. /\ \A d \in DeclaredIn(ls) : d[1] \in 1..2 /\ d[2] \in Nat \ {0} /\ d = <<d[1], d[2]>>
                                    /\ ls[d[1]][1] = "entries" /\ d[2] <= Len(ls[d[1]][2])
      /\ l = 1 \/ l = 2
  BY DEF DeclaredIn, L!Named
<1>2. Past(ls, 1, 0) = {}
  BY <1>1 DEF Past
<1>3. Past(ls, l, 1) = Past(ls, l, 0)
  <2>1. \A d \in DeclaredIn(ls) : ~ (d[2] < 1) /\ ~ (d[2] < 0)
    BY <1>1
  <2> QED
    BY <2>1 DEF Past
<1>4. Past(ls, 3, 0) = DeclaredIn(ls)
  <2>1. \A d \in DeclaredIn(ls) : d[1] < 3
    BY <1>1
  <2> QED
    BY <2>1 DEF Past
<1>5. ASSUME ls[l][1] # "entries" PROVE Past(ls, l + 1, 0) = Past(ls, l, 0)
  <2>1. \A d \in DeclaredIn(ls) : /\ ~ (d[2] < 0) /\ d[1] # l
                                  /\ d[1] < l + 1 <=> d[1] < l
    BY <1>1, <1>5
  <2> QED
    BY <2>1 DEF Past
<1>6. ASSUME ls[l][1] = "entries" PROVE Past(ls, l + 1, 0) = Past(ls, l, Len(ls[l][2]) + 1)
  <2>1. ls[l][2] \in Seq(L!Answers)
    BY <1>6, ManifestIs
  <2>2. Len(ls[l][2]) \in Nat
    BY <2>1
  <2>3. ASSUME NEW d \in DeclaredIn(ls)
        PROVE  d[1] < l + 1 \/ (d[1] = l + 1 /\ d[2] < 0)
               <=> d[1] < l \/ (d[1] = l /\ d[2] < Len(ls[l][2]) + 1)
    <3>1. CASE d[1] = l
      BY <1>1, <2>2, <3>1
    <3>2. CASE d[1] # l
      BY <1>1, <2>2, <3>2
    <3> QED
      BY <3>1, <3>2
  <2> QED
    BY <2>3 DEF Past
<1>7. ASSUME ls[l][1] = "entries", e > 0, e <= Len(ls[l][2])
      PROVE  /\ Past(ls, l, e + 1) = Past(ls, l, e) \cup {<<l, e>>} /\ <<l, e>> \notin Past(ls, l, e)
             /\ \A d \in Past(ls, l, e) : Before(d, <<l, e>>)
             /\ AnswerIn(ls, <<l, e>>) = ls[l][2][e] /\ ls[l][2][e] \in L!Answers
  <2>1. ls[l][2] \in Seq(L!Answers) /\ Len(ls[l][2]) <= MaxEntries
    BY <1>7, ManifestIs
  <2>2. Len(ls[l][2]) \in Nat /\ MaxEntries \in Nat
    BY <2>1 DEF L!Named
  <2>3. e \in 1..Len(ls[l][2]) /\ e \in 1..MaxEntries
    BY <1>7, <2>1, <2>2
  <2>4. <<l, e>> \in DeclaredIn(ls)
    BY <1>7, <2>3 DEF DeclaredIn
  <2>5. ASSUME NEW d \in DeclaredIn(ls)
        PROVE  /\ (d[1] < l \/ (d[1] = l /\ d[2] < e + 1)) <=> (d[1] < l \/ (d[1] = l /\ d[2] < e) \/ d = <<l, e>>)
               /\ d = <<l, e>> => ~ (d[1] < l \/ (d[1] = l /\ d[2] < e))
    <3>1. d[1] \in 1..2 /\ d[2] \in Nat /\ d = <<d[1], d[2]>>
      BY <1>1
    <3>2. d = <<l, e>> <=> d[1] = l /\ d[2] = e
      BY <3>1
    <3> QED
      BY <3>1, <3>2
  <2>6. Past(ls, l, e + 1) = Past(ls, l, e) \cup {<<l, e>>} /\ <<l, e>> \notin Past(ls, l, e)
    BY <2>4, <2>5 DEF Past
  <2>7. \A d \in Past(ls, l, e) : Before(d, <<l, e>>)
    BY DEF Past, Before
  <2>8. AnswerIn(ls, <<l, e>>) = ls[l][2][e] /\ ls[l][2][e] \in L!Answers
    BY <2>1, <2>3 DEF AnswerIn
  <2> QED
    BY <2>6, <2>7, <2>8
<1> QED
  BY <1>2, <1>3, <1>4, <1>5, <1>6, <1>7

LEMMA InitLayers == L!Init => PlaceInv
BY DEF L!Init, PlaceInv

LEMMA NextPlace == ASSUME L!Named PROVE PlaceInv /\ [L!Next]_L!vars => PlaceInv'
<1> SUFFICES ASSUME PlaceInv, [L!Next]_L!vars PROVE PlaceInv'
  OBVIOUS
<1>1. layers \in [1..2 -> L!Manifests] /\ layer \in 1..3 /\ entry \in Nat /\ Len(layers) = 2
  BY DEF PlaceInv
<1>2. CASE L!SkipMissing
  BY <1>1, <1>2 DEF L!SkipMissing, L!Loaded, L!NextLayer, PlaceInv
<1>3. CASE L!RefuseManifest
  BY <1>1, <1>3 DEF L!RefuseManifest, L!Loaded, L!NextLayer, PlaceInv
<1>4. CASE L!ParseManifest
  <2>1. layer \in 1..2 /\ layers' = layers /\ layers[layer][1] = "entries"
    BY <1>1, <1>4 DEF L!ParseManifest, L!Loaded
  <2>2. layers[layer][2] \in Seq(L!Answers)
    BY <1>1, <2>1, ManifestIs
  <2>3. CASE layer' = layer + 1 /\ entry' = 0
    BY <1>1, <2>1, <2>3 DEF PlaceInv
  <2>4. CASE layers[layer][2] # <<>> /\ entry' = 1 /\ layer' = layer
    <3>1. 1 <= Len(layers[layer][2])
      BY <2>2, <2>4
    <3> QED
      BY <1>1, <2>1, <2>4, <3>1 DEF PlaceInv
  <2> QED
    BY <1>4, <2>3, <2>4 DEF L!ParseManifest, L!NextLayer, L!Entries
<1>5. CASE L!Discover
  <2>1. layer \in 1..2 /\ layers' = layers /\ layers[layer][1] = "entries" /\ entry > 0 /\ entry <= Len(layers[layer][2])
    BY <1>1, <1>5 DEF L!Discover, L!Loaded, PlaceInv
  <2>2. layers[layer][2] \in Seq(L!Answers)
    BY <1>1, <2>1, ManifestIs
  <2>3. Len(layers[layer][2]) \in Nat
    BY <2>2
  <2>4. CASE layer' = layer + 1 /\ entry' = 0
    BY <1>1, <2>1, <2>4 DEF PlaceInv
  <2>5. CASE entry # Len(layers[layer][2]) /\ entry' = entry + 1 /\ layer' = layer
    <3>1. entry + 1 <= Len(layers[layer][2])
      BY <1>1, <2>1, <2>3, <2>5
    <3> QED
      BY <1>1, <2>1, <2>5, <3>1 DEF PlaceInv
  <2> QED
    BY <1>5, <2>4, <2>5 DEF L!Discover, L!NextLayer, L!Entries
<1>6. CASE UNCHANGED L!vars
  BY <1>6 DEF L!vars, PlaceInv
<1> QED
  BY <1>2, <1>3, <1>4, <1>5, <1>6 DEF L!Next

\* An entry that reports a name takes it from whichever entry past had it.
LEMMA NameIsTaken ==
    ASSUME NEW ls, NEW done, NEW reg, NEW own, NEW ps, NEW sh, NEW d0, NEW a \in Names,
           AnswerIn(ls, d0) = a, d0 \notin done, \A d \in done : Before(d, d0) /\ d[1] \in 1..2,
           Accounted(ls, done, reg, own, ps, sh),
           NEW reg2, reg2 = [reg EXCEPT ![a] = d0], NEW own2, own2 = [own EXCEPT ![a] = d0[1]],
           NEW sh2, sh2 = IF own[a] = 0 THEN sh ELSE sh \cup {<<a, own[a]>>}
    PROVE  Accounted(ls, done \cup {d0}, reg2, own2, ps, sh2)
<1> USE DEF Accounted
<1> DEFINE claims(p, n) == {d \in p : AnswerIn(ls, d) = n}
<1>1. /\ reg2[a] = d0 /\ own2[a] = d0[1] /\ \A n \in Names \ {a} : reg2[n] = reg[n] /\ own2[n] = own[n]
      /\ reg2 = [n \in Names |-> reg2[n]] /\ own2 = [n \in Names |-> own2[n]]
  OBVIOUS
<1>2. ASSUME NEW n \in Names PROVE NameAt(ls, done \cup {d0}, reg2, own2, n)
  <2>1. CASE n = a
    <3>1. d0 \in claims(done \cup {d0}, n) /\ \A d \in claims(done \cup {d0}, n) : d = d0 \/ Before(d, d0)
      BY <2>1
    <3> QED
      BY <1>1, <2>1, <3>1 DEF NameAt
  <2>2. CASE n # a
    <3>1. claims(done \cup {d0}, n) = claims(done, n)
      BY <2>2
    <3>2. reg2[n] = reg[n] /\ own2[n] = own[n]
      BY <1>1, <2>2
    <3> QED
      BY <3>1, <3>2 DEF NameAt
  <2> QED
    BY <2>1, <2>2
<1>3. ASSUME NEW d \in done \cup {d0} PROVE EntryAt(ls, reg2, ps, sh2, d)
  <2>1. CASE d = d0
    BY <1>1, <2>1 DEF EntryAt
  <2>2. CASE d \in done /\ AnswerIn(ls, d) \in Names /\ reg[AnswerIn(ls, d)] = d
    <3>1. CASE AnswerIn(ls, d) = a
      <4>1. d \in claims(done, a)
        BY <2>2, <3>1
      <4>2. own[a] = reg[a][1] /\ reg[a] = d
        BY <2>2, <3>1, <4>1 DEF NameAt
      <4>3. d[1] # 0
        BY <2>2
      <4>4. <<a, d[1]>> \in sh2
        BY <4>2, <4>3
      <4> QED
        BY <3>1, <4>4 DEF EntryAt
    <3>2. CASE AnswerIn(ls, d) # a
      BY <1>1, <2>2, <3>2 DEF EntryAt
    <3> QED
      BY <3>1, <3>2
  <2>3. CASE d \in done /\ ~ (AnswerIn(ls, d) \in Names /\ reg[AnswerIn(ls, d)] = d)
    BY <2>3 DEF EntryAt
  <2> QED
    BY <2>1, <2>2, <2>3
<1> QED
  BY <1>1, <1>2, <1>3

\* An entry that fails is among the problems, and leaves the names alone.
LEMMA FailureIsReported ==
    ASSUME L!Named, NEW ls, NEW done, NEW reg, NEW own, NEW ps, NEW sh, NEW d0, AnswerIn(ls, d0) = "fails",
           Accounted(ls, done, reg, own, ps, sh)
    PROVE  Accounted(ls, done \cup {d0}, reg, own, ps \cup {d0}, sh)
<1> USE DEF Accounted
<1>1. ASSUME NEW n \in Names PROVE NameAt(ls, done \cup {d0}, reg, own, n)
  <2>1. {d \in done \cup {d0} : AnswerIn(ls, d) = n} = {d \in done : AnswerIn(ls, d) = n}
    BY DEF L!Named
  <2> QED
    BY <2>1 DEF NameAt
<1>2. ASSUME NEW d \in done \cup {d0} PROVE EntryAt(ls, reg, ps \cup {d0}, sh, d)
  BY DEF EntryAt
<1> QED
  BY <1>1, <1>2

LEMMA InitClaims == ASSUME L!Named PROVE L!Init => ClaimsInv
<1> SUFFICES ASSUME L!Init PROVE ClaimsInv
  OBVIOUS
<1>1. layers \in [1..2 -> L!Manifests] /\ layer = 1 /\ entry = 0
      /\ registry = [n \in Names |-> IF n \in Native THEN <<"native">> ELSE <<>>] /\ owner = [n \in Names |-> 0]
  BY DEF L!Init
<1>2. Past(layers, 1, 0) = {}
  <2>1. 1 \in 1..2 /\ 0 \in Nat
    OBVIOUS
  <2> QED
    BY <1>1, <2>1, PastIs
<1> QED
  BY <1>1, <1>2 DEF ClaimsInv, Accounted, NameAt

LEMMA NextClaims == ASSUME L!Named PROVE PlaceInv /\ ClaimsInv /\ [L!Next]_L!vars => ClaimsInv'
<1> SUFFICES ASSUME PlaceInv, ClaimsInv, [L!Next]_L!vars PROVE ClaimsInv'
  OBVIOUS
<1> DEFINE done == Past(layers, layer, entry)
<1>1. layers \in [1..2 -> L!Manifests] /\ layer \in 1..3 /\ entry \in Nat /\ Len(layers) = 2
  BY DEF PlaceInv
<1>2. Accounted(layers, done, registry, owner, problems, shadowed)
  BY DEF ClaimsInv
<1>3. ASSUME layers' = layers, registry' = registry, owner' = owner, shadowed' = shadowed,
             problems \subseteq problems', Past(layers, layer', entry') = done
      PROVE  ClaimsInv'
  <2> HIDE DEF done
  <2>1. Accounted(layers, done, registry, owner, problems', shadowed)
    BY <1>2, <1>3 DEF Accounted, EntryAt
  <2> QED
    BY <1>2, <1>3, <2>1 DEF ClaimsInv
<1>4. CASE L!SkipMissing \/ L!RefuseManifest
  <2>1. /\ layers' = layers /\ registry' = registry /\ owner' = owner /\ shadowed' = shadowed
        /\ problems \subseteq problems' /\ layer' = layer + 1 /\ entry' = 0 /\ layer \in 1..2
        /\ layers[layer] \in {<<"missing">>, <<"bad">>}
    BY <1>1, <1>4 DEF L!SkipMissing, L!RefuseManifest, L!NextLayer, L!Loaded
  <2>2. layers[layer][1] # "entries" /\ entry = 0
    BY <1>1, <2>1 DEF PlaceInv
  <2>3. Past(layers, layer + 1, 0) = Past(layers, layer, 0)
    BY <1>1, <2>1, <2>2, PastIs
  <2> QED
    BY <1>3, <2>1, <2>2, <2>3
<1>5. CASE L!ParseManifest
  <2>1. /\ layers' = layers /\ registry' = registry /\ owner' = owner /\ shadowed' = shadowed /\ problems' = problems
        /\ layer \in 1..2 /\ layers[layer][1] = "entries" /\ entry = 0
    BY <1>1, <1>5 DEF L!ParseManifest, L!Loaded
  <2>2. CASE layers[layer][2] = <<>> /\ layer' = layer + 1 /\ entry' = 0
    <3>1. Past(layers, layer + 1, 0) = Past(layers, layer, Len(<<>>) + 1)
      BY <1>1, <2>1, <2>2, PastIs
    <3>2. Len(<<>>) + 1 = 1
      OBVIOUS
    <3>3. Past(layers, layer, 1) = Past(layers, layer, 0)
      BY <1>1, <2>1, PastIs
    <3>4. Past(layers, layer', entry') = done
      BY <2>1, <2>2, <3>1, <3>2, <3>3
    <3> QED
      BY <1>3, <2>1, <3>4
  <2>3. CASE entry' = 1 /\ layer' = layer
    <3>1. Past(layers, layer', entry') = done
      BY <1>1, <2>1, <2>3, PastIs
    <3> QED
      BY <1>3, <2>1, <3>1
  <2> QED
    BY <1>5, <2>2, <2>3 DEF L!ParseManifest, L!NextLayer, L!Entries
<1>6. CASE L!Discover
  <2> DEFINE a == layers[layer][2][entry]
             d0 == <<layer, entry>>
  <2>1. layer \in 1..2 /\ layers' = layers /\ layers[layer][1] = "entries" /\ entry > 0 /\ entry <= Len(layers[layer][2])
    BY <1>1, <1>6 DEF L!Discover, L!Loaded, PlaceInv
  <2>2. /\ Past(layers, layer, entry + 1) = done \cup {d0} /\ d0 \notin done
        /\ \A d \in done : Before(d, d0) /\ d[1] \in 1..2
        /\ AnswerIn(layers, d0) = a /\ a \in L!Answers
    <3>1. \A d \in done : d[1] \in 1..2
      BY DEF Past, DeclaredIn
    <3>2. /\ Past(layers, layer, entry + 1) = done \cup {d0} /\ d0 \notin done
          /\ \A d \in done : Before(d, d0)
          /\ AnswerIn(layers, d0) = a /\ a \in L!Answers
      BY <1>1, <2>1, PastIs
    <3> QED
      BY <3>1, <3>2
  <2>3. Past(layers, layer', entry') = done \cup {d0}
    <3>1. CASE entry = Len(layers[layer][2]) /\ layer' = layer + 1 /\ entry' = 0
      BY <1>1, <2>1, <2>2, <3>1, PastIs
    <3>2. CASE entry' = entry + 1 /\ layer' = layer
      BY <2>2, <3>2
    <3> QED
      BY <1>6, <3>1, <3>2 DEF L!Discover, L!NextLayer, L!Entries
  <2>4. CASE a = "fails"
    <3>1. registry' = registry /\ owner' = owner /\ shadowed' = shadowed /\ problems' = problems \cup {d0}
      BY <1>6, <2>4 DEF L!Discover, L!Entries
    <3> HIDE DEF done, d0, a
    <3>2. Accounted(layers, done \cup {d0}, registry, owner, problems \cup {d0}, shadowed)
      BY <1>2, <2>2, <2>4, FailureIsReported
    <3> QED
      BY <1>2, <2>1, <2>3, <3>1, <3>2 DEF ClaimsInv
  <2>5. CASE a # "fails"
    <3> DEFINE reg2 == [registry EXCEPT ![a] = d0]
               own2 == [owner EXCEPT ![a] = d0[1]]
               sh2 == IF owner[a] = 0 THEN shadowed ELSE shadowed \cup {<<a, owner[a]>>}
    <3>1. /\ a # "hangs"
          /\ registry' = reg2 /\ owner' = own2 /\ problems' = problems /\ shadowed' = sh2
      BY <1>6, <2>5 DEF L!Discover, L!Entries
    <3>2. a \in Names
      BY <2>2, <2>5, <3>1 DEF L!Answers
    <3> HIDE DEF done, d0, a
    <3>3. Accounted(layers, done \cup {d0}, reg2, own2, problems, sh2)
      <4>1. /\ reg2 = [registry EXCEPT ![a] = d0] /\ own2 = [owner EXCEPT ![a] = d0[1]]
            /\ sh2 = IF owner[a] = 0 THEN shadowed ELSE shadowed \cup {<<a, owner[a]>>}
        OBVIOUS
      <4> HIDE DEF reg2, own2, sh2
      <4> QED
        BY <1>2, <2>2, <3>2, <4>1, NameIsTaken
    <3> HIDE DEF reg2, own2, sh2
    <3> QED
      BY <2>1, <2>3, <3>1, <3>3 DEF ClaimsInv
  <2> QED
    BY <2>4, <2>5
<1>7. CASE UNCHANGED L!vars
  <2>1. /\ layers' = layers /\ registry' = registry /\ owner' = owner /\ shadowed' = shadowed /\ problems' = problems
        /\ layer' = layer /\ entry' = entry
    BY <1>7 DEF L!vars
  <2> QED
    BY <1>3, <2>1
<1> QED
  BY <1>4, <1>5, <1>6, <1>7 DEF L!Next

\* When the layers are loaded, each name belongs to the last entry that reported it, and
\* every declared entry is registered, among the problems, or reported as shadowed
\* (plugin/src/lib.rs, register_layers): for manifests of every length and any names.
LEMMA EntriesAlone ==
    ASSUME L!Named
    PROVE  L!Spec => []L!EntriesAreAccounted
<1>1. L!Init => PlaceInv /\ ClaimsInv
  BY InitLayers, InitClaims
<1>2. PlaceInv /\ ClaimsInv /\ [L!Next]_L!vars => (PlaceInv /\ ClaimsInv)'
  BY NextPlace, NextClaims
<1>3. PlaceInv /\ ClaimsInv => L!EntriesAreAccounted
  <2> SUFFICES ASSUME PlaceInv, ClaimsInv, L!Loaded PROVE L!EntriesAreAccounted
    BY DEF L!EntriesAreAccounted, L!LastLayerWins, L!EveryEntryAccounted
  <2>1. layers \in [1..2 -> L!Manifests] /\ layer \in 1..3 /\ entry \in Nat /\ Len(layers) = 2
    BY DEF PlaceInv
  <2>2. layer = 3 /\ entry = 0
    BY <2>1 DEF L!Loaded, PlaceInv
  <2>3. Past(layers, 3, 0) = L!Declared
    <3>1. 1 \in 1..2 /\ 0 \in Nat
      OBVIOUS
    <3>2. Past(layers, 3, 0) = DeclaredIn(layers)
      BY <2>1, <3>1, PastIs
    <3> QED
      BY <3>2 DEF DeclaredIn, L!Declared
  <2>4. /\ \A n \in Names : NameAt(layers, L!Declared, registry, owner, n)
        /\ \A d \in L!Declared : EntryAt(layers, registry, problems, shadowed, d)
    BY <2>2, <2>3 DEF ClaimsInv, Accounted
  <2>5. L!LastLayerWins
    <3> SUFFICES ASSUME NEW n \in Names
                 PROVE  IF L!Claims(n) = {} THEN registry[n] = IF n \in Native THEN <<"native">> ELSE <<>>
                        ELSE /\ registry[n] \in L!Claims(n)
                             /\ \A d \in L!Claims(n) : d = registry[n] \/ L!Earlier(d, registry[n])
      BY DEF L!LastLayerWins
    <3>1. L!Claims(n) = {d \in L!Declared : AnswerIn(layers, d) = n}
      BY DEF L!Claims, L!AnswerOf, AnswerIn
    <3>2. \A c, d : L!Earlier(c, d) <=> Before(c, d)
      BY DEF L!Earlier, Before
    <3> QED
      BY <2>4, <3>1, <3>2 DEF NameAt
  <2>6. L!EveryEntryAccounted
    BY <2>4 DEF L!EveryEntryAccounted, EntryAt, AnswerIn, L!AnswerOf
  <2> QED
    BY <2>5, <2>6 DEF L!EntriesAreAccounted
<1> QED
  BY <1>1, <1>2, <1>3, PTL DEF L!Spec

-----------------------------------------------------------------------------
(***************************************************************************)
(* The trimming of a result (Budget).                                      *)
(***************************************************************************)
LEMMA BudgetOfTwo ==
    ASSUME NEW a \in Int, NEW b \in Int
    PROVE  /\ B!Max({a, b}) = IF a >= b THEN a ELSE b
           /\ B!Min({a, b}) = IF a <= b THEN a ELSE b
<1>1. \A x \in {a, b} : (\A y \in {a, b} : x >= y) <=> x = IF a >= b THEN a ELSE b
  OBVIOUS
<1>2. \A x \in {a, b} : (\A y \in {a, b} : x <= y) <=> x = IF a <= b THEN a ELSE b
  OBVIOUS
<1> QED
  BY <1>1, <1>2 DEF B!Max, B!Min

LEMMA SameSizes ==
    ASSUME NEW S
    PROVE  B!Cardinality(S) = Cardinality(S)
BY DEF B!Cardinality, Cardinality, B!IsFiniteSet, IsFiniteSet

\* Sizes are summed up.
LEMMA SumIs ==
    ASSUME NEW s \in Seq(Int)
    PROVE  \E run : RunningSums(s, run) /\ B!Sum(s) = run[Len(s)]
<1>1. B!Sum(s) = Total(s)
  BY DEF B!Sum, Total
<1> QED
  BY <1>1, TotalIs

\* A list that is no longer than another, and nowhere larger, takes no more bytes; it takes
\* fewer if an item of it is smaller, or if items went and there were several.
LEMMA FewerBytes ==
    ASSUME NEW s \in Seq(Nat), NEW t \in Seq(Nat), Len(t) <= Len(s), \A i \in 1..Len(t) : t[i] <= s[i]
    PROVE  /\ B!ListBytes(s) \in Nat /\ B!ListBytes(t) \in Nat
           /\ B!ListBytes(t) <= B!ListBytes(s)
           /\ (\E i \in 1..Len(t) : t[i] < s[i]) => B!ListBytes(t) < B!ListBytes(s)
           /\ Len(t) < Len(s) /\ Len(s) > 1 => B!ListBytes(t) < B!ListBytes(s)
           /\ B!Sum(t) \in Nat /\ B!Sum(s) \in Nat /\ B!Sum(t) <= B!Sum(s)
           /\ (\E i \in 1..Len(t) : t[i] < s[i]) => B!Sum(t) < B!Sum(s)
<1>1. s \in Seq(Int) /\ t \in Seq(Int) /\ Len(s) \in Nat /\ Len(t) \in Nat /\ Len(t) \in 0..Len(s)
  OBVIOUS
<1>2. PICK r : RunningSums(s, r) /\ B!Sum(s) = r[Len(s)]
  BY <1>1, SumIs
<1>3. PICK q : RunningSums(t, q) /\ B!Sum(t) = q[Len(t)]
  BY <1>1, SumIs
<1>4. r[Len(s)] \in Nat /\ r[Len(t)] \in Nat /\ r[Len(t)] <= r[Len(s)]
  BY <1>1, <1>2, SumsRise
<1>5. q[Len(t)] \in Nat
  <2>1. Len(t) \in 0..Len(t)
    BY <1>1
  <2> QED
    BY <1>3, <2>1, SumsRise
<1>6. /\ q[Len(t)] <= r[Len(t)]
      /\ (\E i \in 1..Len(t) : t[i] < s[i]) => q[Len(t)] < r[Len(t)]
  BY <1>1, <1>2, <1>3, SumsAgree
<1> DEFINE a == B!Sum(s)
           b == B!Sum(t)
           Smaller == \E i \in 1..Len(t) : t[i] < s[i]
           m == Len(s)
           n == Len(t)
<1>7. a \in Nat /\ b \in Nat /\ b <= a /\ (Smaller => b < a) /\ m \in Nat /\ n \in Nat /\ n <= m
  BY <1>1, <1>2, <1>3, <1>4, <1>5, <1>6
<1>8. B!ListBytes(s) = 2 + a + (IF m = 0 THEN 0 ELSE m - 1) /\ B!ListBytes(t) = 2 + b + (IF n = 0 THEN 0 ELSE n - 1)
  BY DEF B!ListBytes
<1>9. Smaller => n > 0
  BY <1>1
<1> HIDE DEF a, b, Smaller, m, n
<1>10. /\ B!ListBytes(s) \in Nat /\ B!ListBytes(t) \in Nat
       /\ B!ListBytes(t) <= B!ListBytes(s)
       /\ Smaller => B!ListBytes(t) < B!ListBytes(s)
       /\ n < m /\ m > 1 => B!ListBytes(t) < B!ListBytes(s)
  BY <1>7, <1>8, <1>9
<1> QED
  BY <1>7, <1>10 DEF a, b, Smaller, m, n

-----------------------------------------------------------------------------
Item == [own : Nat, sub : Seq(Nat)]
Doc == Seq(Seq(Item))

\* Items and lists are measured in bytes.
LEMMA ItemsHaveSizes ==
    ASSUME NEW list \in Seq(Item)
    PROVE  /\ B!Sizes(list) \in Seq(Nat) /\ Len(B!Sizes(list)) = Len(list)
           /\ \A i \in 1..Len(list) : B!Sizes(list)[i] = list[i].own + B!ListBytes(list[i].sub)
           /\ \A i \in 1..Len(list) : list[i] \in Item /\ B!ListBytes(list[i].sub) \in Nat
           /\ B!ListBytes(B!Sizes(list)) \in Nat
<1>1. DOMAIN list = 1..Len(list) /\ Len(list) \in Nat
  OBVIOUS
<1>2. ASSUME NEW i \in 1..Len(list)
      PROVE  list[i] \in Item /\ B!ListBytes(list[i].sub) \in Nat /\ B!ItemBytes(list[i]) \in Nat
  <2>1. list[i] \in Item
    OBVIOUS
  <2>2. list[i].sub \in Seq(Nat) /\ list[i].own \in Nat
    BY <2>1 DEF Item
  <2>3. B!ListBytes(list[i].sub) \in Nat
    <3>1. Len(list[i].sub) <= Len(list[i].sub) /\ \A j \in 1..Len(list[i].sub) : list[i].sub[j] <= list[i].sub[j]
      BY <2>2
    <3> QED
      BY <2>2, <3>1, FewerBytes
  <2> QED
    BY <2>1, <2>2, <2>3 DEF B!ItemBytes
<1>3. B!Sizes(list) = [i \in 1..Len(list) |-> B!ItemBytes(list[i])]
  BY <1>1 DEF B!Sizes
<1>4. B!Sizes(list) \in Seq(Nat) /\ Len(B!Sizes(list)) = Len(list)
  BY <1>1, <1>2, <1>3
<1>5. \A i \in 1..Len(list) : B!Sizes(list)[i] = list[i].own + B!ListBytes(list[i].sub)
  BY <1>3 DEF B!ItemBytes
<1>6. B!ListBytes(B!Sizes(list)) \in Nat
  <2> DEFINE s == B!Sizes(list)
  <2>1. s \in Seq(Nat)
    BY <1>4
  <2> HIDE DEF s
  <2>2. Len(s) <= Len(s) /\ \A j \in 1..Len(s) : s[j] <= s[j]
    BY <2>1
  <2>3. B!ListBytes(s) \in Nat
    BY <2>1, <2>2, FewerBytes
  <2> QED
    BY <2>3 DEF s
<1> QED
  BY <1>2, <1>4, <1>5, <1>6

\* Where one list of a document takes fewer bytes, so does the document.
LEMMA MeasureFalls ==
    ASSUME B!Sized, NEW doc \in Doc, NEW less \in Doc, Len(less) = Len(doc), NEW f \in 1..Len(doc),
           \A g \in 1..Len(doc) : g # f => less[g] = doc[g]
    PROVE  /\ B!measure(doc) \in Nat /\ B!measure(less) \in Nat
           /\ B!ListBytes(B!Sizes(less[f])) <= B!ListBytes(B!Sizes(doc[f])) => B!measure(less) <= B!measure(doc)
           /\ B!ListBytes(B!Sizes(less[f])) < B!ListBytes(B!Sizes(doc[f])) => B!measure(less) < B!measure(doc)
<1> DEFINE s == [g \in DOMAIN doc |-> B!ListBytes(B!Sizes(doc[g]))]
           t == [g \in DOMAIN less |-> B!ListBytes(B!Sizes(less[g]))]
<1>1. DOMAIN doc = 1..Len(doc) /\ DOMAIN less = 1..Len(doc) /\ Len(doc) \in Nat
  BY DEF Doc
<1>2. \A g \in 1..Len(doc) : doc[g] \in Seq(Item) /\ less[g] \in Seq(Item)
  BY DEF Doc
<1>3. \A g \in 1..Len(doc) : B!ListBytes(B!Sizes(doc[g])) \in Nat /\ B!ListBytes(B!Sizes(less[g])) \in Nat
  BY <1>2, ItemsHaveSizes
<1>4. s \in Seq(Nat) /\ t \in Seq(Nat) /\ Len(s) = Len(doc) /\ Len(t) = Len(doc)
  BY <1>1, <1>3
<1>5. \A g \in 1..Len(doc) : s[g] = B!ListBytes(B!Sizes(doc[g])) /\ t[g] = B!ListBytes(B!Sizes(less[g]))
  BY <1>1
<1>6. B!measure(doc) = BaseBytes + B!Sum(s) /\ B!measure(less) = BaseBytes + B!Sum(t) /\ BaseBytes \in Nat
  BY DEF B!measure, B!Sized
<1> HIDE DEF s, t
<1>7. B!Sum(s) \in Nat /\ B!Sum(t) \in Nat
  <2>1. Len(s) <= Len(s) /\ Len(t) <= Len(t) /\ (\A g \in 1..Len(s) : s[g] <= s[g]) /\ \A g \in 1..Len(t) : t[g] <= t[g]
    <3>1. ASSUME NEW u \in Seq(Nat) PROVE Len(u) <= Len(u) /\ \A g \in 1..Len(u) : u[g] <= u[g]
      <4>1. Len(u) \in Nat /\ \A g \in 1..Len(u) : u[g] \in Nat
        OBVIOUS
      <4> QED
        BY <4>1
    <3> QED
      BY <1>4, <3>1
  <2> QED
    BY <1>4, <2>1, FewerBytes
<1>8. ASSUME t[f] <= s[f] PROVE B!Sum(t) <= B!Sum(s) /\ (t[f] < s[f] => B!Sum(t) < B!Sum(s))
  <2>1. \A g \in 1..Len(t) : t[g] <= s[g]
    <3>1. \A g \in 1..Len(doc) : t[g] \in Nat /\ s[g] \in Nat
      BY <1>4
    <3>2. ASSUME NEW g \in 1..Len(doc) PROVE t[g] <= s[g]
      <4>1. CASE g = f
        BY <1>8, <4>1
      <4>2. CASE g # f
        <5>1. t[g] = s[g]
          BY <1>5, <4>2
        <5> QED
          BY <3>1, <5>1
      <4> QED
        BY <4>1, <4>2
    <3> QED
      BY <1>4, <3>2
  <2>2. Len(t) <= Len(s) /\ f \in 1..Len(t)
    BY <1>1, <1>4
  <2> QED
    BY <1>4, <2>1, <2>2, FewerBytes
<1>9. t[f] \in Nat /\ s[f] \in Nat
  BY <1>4
<1> QED
  BY <1>5, <1>6, <1>7, <1>8, <1>9

LEMMA PathsAre ==
    ASSUME NEW doc \in Doc, NEW p
    PROVE  p \in B!Paths(doc) <=> \/ \E f \in 1..Len(doc) : p = <<f>>
                                  \/ \E f \in 1..Len(doc) : \E i \in 1..Len(doc[f]) : p = <<f, i>>
<1>1. DOMAIN doc = 1..Len(doc) /\ \A f \in 1..Len(doc) : DOMAIN doc[f] = 1..Len(doc[f])
  BY DEF Doc
<1> QED
  BY <1>1 DEF B!Paths

LEMMA HeadIs ==
    ASSUME NEW X, NEW s \in Seq(X), NEW k \in Nat, k <= Len(s)
    PROVE  SubSeq(s, 1, k) \in Seq(X) /\ Len(SubSeq(s, 1, k)) = k /\ \A j \in 1..k : SubSeq(s, 1, k)[j] = s[j]
OBVIOUS

\* What trimming a list leaves: fewer bytes, no new path, and every other list that is
\* still there as long as it was.
LEMMA TruncateIs ==
    ASSUME B!Sized, NEW doc \in Doc, NEW p \in B!Paths(doc), NEW k \in Nat, k <= B!Length(doc, p)
    PROVE  LET less == B!Truncate(doc, p, k)
           IN  /\ less \in Doc /\ Len(less) = Len(doc) /\ B!Length(doc, p) \in Nat
               /\ B!measure(doc) \in Nat /\ B!measure(less) \in Nat
               /\ B!measure(less) <= B!measure(doc)
               /\ k < B!Length(doc, p) /\ B!Length(doc, p) > 1 => B!measure(less) < B!measure(doc)
               /\ B!Paths(less) \subseteq B!Paths(doc)
               /\ B!Length(less, p) = k
               /\ \A q \in B!Paths(less) : q # p => B!Length(less, q) = B!Length(doc, q)
<1> DEFINE less == B!Truncate(doc, p, k)
<1>1. CASE \E f \in 1..Len(doc) : p = <<f>>
  <2>1. PICK f \in 1..Len(doc) : p = <<f>>
    BY <1>1
  <2> DEFINE cut == SubSeq(doc[f], 1, k)
  <2>2. Len(p) = 1 /\ p[1] = f /\ doc[f] \in Seq(Item) /\ DOMAIN doc = 1..Len(doc) /\ Len(doc) \in Nat
    BY <2>1 DEF Doc
  <2>3. B!Length(doc, p) = Len(doc[f]) /\ Len(doc[f]) \in Nat
    BY <2>2 DEF B!Length
  <2>4. less = [doc EXCEPT ![f] = cut]
    BY <2>2 DEF B!Truncate
  <2>5. cut \in Seq(Item) /\ Len(cut) = k /\ \A i \in 1..k : cut[i] = doc[f][i]
    BY <2>2, <2>3
  <2> HIDE DEF cut, less
  <2>6. less \in Doc /\ Len(less) = Len(doc) /\ less[f] = cut /\ \A g \in 1..Len(doc) : g # f => less[g] = doc[g]
    BY <2>2, <2>4, <2>5 DEF Doc
  <2>7. /\ B!ListBytes(B!Sizes(cut)) <= B!ListBytes(B!Sizes(doc[f]))
        /\ k < Len(doc[f]) /\ Len(doc[f]) > 1 => B!ListBytes(B!Sizes(cut)) < B!ListBytes(B!Sizes(doc[f]))
    <3> DEFINE s == B!Sizes(doc[f])
               t == B!Sizes(cut)
    <3>1. /\ s \in Seq(Nat) /\ t \in Seq(Nat) /\ Len(s) = Len(doc[f]) /\ Len(t) = k
          /\ \A i \in 1..k : t[i] = s[i]
      <4>1. /\ s \in Seq(Nat) /\ Len(s) = Len(doc[f])
            /\ \A i \in 1..Len(doc[f]) : s[i] = doc[f][i].own + B!ListBytes(doc[f][i].sub)
        BY <2>2, ItemsHaveSizes
      <4>2. /\ t \in Seq(Nat) /\ Len(t) = Len(cut)
            /\ \A i \in 1..Len(cut) : t[i] = cut[i].own + B!ListBytes(cut[i].sub)
        BY <2>5, ItemsHaveSizes
      <4> HIDE DEF s, t
      <4>3. \A i \in 1..k : i \in 1..Len(doc[f])
        BY <2>3
      <4> QED
        BY <4>1, <4>2, <4>3, <2>5
    <3> HIDE DEF s, t
    <3>2. Len(t) <= Len(s) /\ \A i \in 1..Len(t) : t[i] <= s[i]
      <4>1. \A i \in 1..k : t[i] \in Nat
        BY <3>1
      <4> QED
        BY <2>3, <3>1, <4>1
    <3>3. /\ B!ListBytes(t) <= B!ListBytes(s)
          /\ Len(t) < Len(s) /\ Len(s) > 1 => B!ListBytes(t) < B!ListBytes(s)
      BY <3>1, <3>2, FewerBytes
    <3> QED
      BY <3>1, <3>3 DEF s, t
  <2>8. /\ B!measure(doc) \in Nat /\ B!measure(less) \in Nat /\ B!measure(less) <= B!measure(doc)
        /\ k < Len(doc[f]) /\ Len(doc[f]) > 1 => B!measure(less) < B!measure(doc)
    BY <2>6, <2>7, MeasureFalls
  <2>9. ASSUME NEW g \in 1..Len(doc) PROVE Len(less[g]) \in Nat /\ Len(less[g]) <= Len(doc[g]) /\ Len(doc[g]) \in Nat
    <3>1. Len(doc[g]) \in Nat
      BY DEF Doc
    <3>2. CASE g = f
      <4>1. Len(less[g]) = k
        BY <2>5, <2>6, <3>2
      <4> QED
        BY <2>3, <3>1, <3>2, <4>1
    <3>3. CASE g # f
      BY <2>6, <3>1, <3>3
    <3> QED
      BY <3>2, <3>3
  <2>10. ASSUME NEW q \in B!Paths(less) PROVE q \in B!Paths(doc) /\ (q # p => B!Length(less, q) = B!Length(doc, q))
    <3>1. CASE \E g \in 1..Len(less) : q = <<g>>
      <4>1. PICK g \in 1..Len(doc) : q = <<g>>
        BY <3>1, <2>6
      <4>2. q \in B!Paths(doc)
        BY <4>1, PathsAre
      <4>3. q # p => g # f
        BY <4>1, <2>1
      <4>4. Len(q) = 1 /\ q[1] = g
        BY <4>1
      <4> QED
        BY <2>6, <4>1, <4>2, <4>3, <4>4 DEF B!Length
    <3>2. CASE \E g \in 1..Len(less) : \E i \in 1..Len(less[g]) : q = <<g, i>>
      <4>1. PICK g \in 1..Len(doc) : \E i \in 1..Len(less[g]) : q = <<g, i>>
        BY <3>2, <2>6
      <4>2. PICK i \in 1..Len(less[g]) : q = <<g, i>>
        BY <4>1
      <4>3. i \in 1..Len(doc[g])
        BY <2>9
      <4>4. q \in B!Paths(doc)
        BY <4>2, <4>3, PathsAre
      <4>5. less[g][i] = doc[g][i]
        <5>1. CASE g = f
          <6>1. i \in 1..k
            BY <2>5, <2>6, <5>1
          <6> QED
            BY <2>5, <2>6, <5>1, <6>1
        <5>2. CASE g # f
          BY <2>6, <5>2
        <5> QED
          BY <5>1, <5>2
      <4>6. Len(q) = 2 /\ q[1] = g /\ q[2] = i
        BY <4>2
      <4> QED
        BY <4>4, <4>5, <4>6 DEF B!Length
    <3> QED
      BY <2>6, <3>1, <3>2, PathsAre
  <2>11. B!Length(less, p) = k
    BY <2>2, <2>5, <2>6 DEF B!Length
  <2> QED
    BY <2>3, <2>6, <2>8, <2>10, <2>11 DEF less
<1>2. CASE \E f \in 1..Len(doc) : \E i \in 1..Len(doc[f]) : p = <<f, i>>
  <2>1. PICK f \in 1..Len(doc) : \E i \in 1..Len(doc[f]) : p = <<f, i>>
    BY <1>2
  <2>2. PICK i \in 1..Len(doc[f]) : p = <<f, i>>
    BY <2>1
  <2>3. /\ Len(p) = 2 /\ p[1] = f /\ p[2] = i /\ doc[f] \in Seq(Item)
        /\ DOMAIN doc = 1..Len(doc) /\ Len(doc) \in Nat /\ Len(doc[f]) \in Nat
        /\ DOMAIN doc[f] = 1..Len(doc[f])
    BY <2>2 DEF Doc
  <2>4. doc[f][i] \in Item /\ doc[f][i].sub \in Seq(Nat) /\ doc[f][i].own \in Nat
    <3>1. doc[f][i] \in Item
      BY <2>3
    <3> QED
      BY <3>1 DEF Item
  <2>5. B!Length(doc, p) = Len(doc[f][i].sub) /\ Len(doc[f][i].sub) \in Nat
    BY <2>3, <2>4 DEF B!Length
  <2> DEFINE cut == SubSeq(doc[f][i].sub, 1, k)
             short == [doc[f][i] EXCEPT !.sub = cut]
             row == [doc[f] EXCEPT ![i] = short]
  <2>6. less = [doc EXCEPT ![f] = row]
    BY <2>3 DEF B!Truncate
  <2>7. cut \in Seq(Nat) /\ Len(cut) = k /\ \A j \in 1..k : cut[j] = doc[f][i].sub[j]
    <3>1. k <= Len(doc[f][i].sub)
      BY <2>5
    <3> QED
      BY <2>4, <3>1, HeadIs
  <2> HIDE DEF cut
  <2>8. short \in Item /\ short.own = doc[f][i].own /\ short.sub = cut
    <3>1. short = [own |-> doc[f][i].own, sub |-> cut]
      BY <2>4 DEF Item
    <3> QED
      BY <2>4, <2>7, <3>1 DEF Item
  <2> HIDE DEF short
  <2>9. row \in Seq(Item) /\ Len(row) = Len(doc[f]) /\ row[i] = short /\ \A j \in 1..Len(doc[f]) : j # i => row[j] = doc[f][j]
    BY <2>3, <2>8
  <2> HIDE DEF row, less
  <2>10. less \in Doc /\ Len(less) = Len(doc) /\ less[f] = row /\ \A g \in 1..Len(doc) : g # f => less[g] = doc[g]
    BY <2>3, <2>6, <2>9 DEF Doc
  <2>11. /\ B!ListBytes(cut) \in Nat /\ B!ListBytes(doc[f][i].sub) \in Nat
         /\ B!ListBytes(cut) <= B!ListBytes(doc[f][i].sub)
         /\ k < Len(doc[f][i].sub) /\ Len(doc[f][i].sub) > 1 => B!ListBytes(cut) < B!ListBytes(doc[f][i].sub)
    <3> DEFINE s == doc[f][i].sub
    <3>1. s \in Seq(Nat) /\ cut \in Seq(Nat) /\ Len(cut) <= Len(s)
      BY <2>4, <2>5, <2>7
    <3>2. \A j \in 1..Len(cut) : cut[j] <= s[j]
      <4>1. \A j \in 1..Len(cut) : cut[j] \in Nat /\ cut[j] = s[j]
        BY <2>7
      <4> QED
        BY <4>1
    <3> HIDE DEF s
    <3>3. /\ B!ListBytes(cut) \in Nat /\ B!ListBytes(s) \in Nat
          /\ B!ListBytes(cut) <= B!ListBytes(s)
          /\ Len(cut) < Len(s) /\ Len(s) > 1 => B!ListBytes(cut) < B!ListBytes(s)
      BY <3>1, <3>2, FewerBytes
    <3> QED
      BY <2>7, <3>3 DEF s
  <2>12. /\ B!ListBytes(B!Sizes(row)) <= B!ListBytes(B!Sizes(doc[f]))
         /\ k < Len(doc[f][i].sub) /\ Len(doc[f][i].sub) > 1 => B!ListBytes(B!Sizes(row)) < B!ListBytes(B!Sizes(doc[f]))
    <3> DEFINE s == B!Sizes(doc[f])
               t == B!Sizes(row)
    <3>1. /\ s \in Seq(Nat) /\ Len(s) = Len(doc[f])
          /\ \A j \in 1..Len(doc[f]) : s[j] = doc[f][j].own + B!ListBytes(doc[f][j].sub)
      BY <2>3, ItemsHaveSizes
    <3>2. /\ t \in Seq(Nat) /\ Len(t) = Len(row)
          /\ \A j \in 1..Len(row) : t[j] = row[j].own + B!ListBytes(row[j].sub)
      BY <2>9, ItemsHaveSizes
    <3> HIDE DEF s, t
    <3>3. \A j \in 1..Len(doc[f]) : s[j] \in Nat /\ t[j] \in Nat
      <4>1. s \in Seq(Nat) /\ t \in Seq(Nat) /\ Len(s) = Len(doc[f]) /\ Len(t) = Len(doc[f])
        BY <3>1, <3>2, <2>9
      <4> QED
        BY <4>1, ElementOfSeq
    <3>4. \A j \in 1..Len(doc[f]) : j # i => t[j] = s[j]
      BY <3>1, <3>2, <2>9
    <3>5. s[i] = doc[f][i].own + B!ListBytes(doc[f][i].sub) /\ t[i] = doc[f][i].own + B!ListBytes(cut)
      BY <3>1, <3>2, <2>8, <2>9
    <3>6. t[i] <= s[i] /\ (k < Len(doc[f][i].sub) /\ Len(doc[f][i].sub) > 1 => t[i] < s[i])
      BY <3>5, <2>4, <2>11
    <3>7. Len(t) <= Len(s) /\ i \in 1..Len(t) /\ \A j \in 1..Len(t) : t[j] <= s[j]
      <4>1. Len(t) = Len(s) /\ Len(t) = Len(doc[f]) /\ i \in 1..Len(doc[f])
        BY <2>9, <3>1, <3>2
      <4>2. ASSUME NEW j \in 1..Len(doc[f]) PROVE t[j] <= s[j]
        BY <3>3, <3>4, <3>6
      <4> QED
        BY <2>3, <4>1, <4>2
    <3>8. B!ListBytes(t) <= B!ListBytes(s) /\ (t[i] < s[i] => B!ListBytes(t) < B!ListBytes(s))
      BY <3>1, <3>2, <3>7, FewerBytes
    <3> QED
      BY <3>6, <3>8 DEF s, t
  <2>13. /\ B!measure(doc) \in Nat /\ B!measure(less) \in Nat /\ B!measure(less) <= B!measure(doc)
         /\ k < Len(doc[f][i].sub) /\ Len(doc[f][i].sub) > 1 => B!measure(less) < B!measure(doc)
    BY <2>10, <2>12, MeasureFalls
  <2>14. ASSUME NEW q \in B!Paths(less) PROVE q \in B!Paths(doc) /\ (q # p => B!Length(less, q) = B!Length(doc, q))
    <3>0. \A g \in 1..Len(doc) : Len(less[g]) = Len(doc[g])
      BY <2>9, <2>10
    <3>1. CASE \E g \in 1..Len(less) : q = <<g>>
      <4>1. PICK g \in 1..Len(doc) : q = <<g>>
        BY <3>1, <2>10
      <4>2. q \in B!Paths(doc)
        BY <4>1, PathsAre
      <4>3. Len(q) = 1 /\ q[1] = g
        BY <4>1
      <4> QED
        BY <3>0, <4>2, <4>3 DEF B!Length
    <3>2. CASE \E g \in 1..Len(less) : \E j \in 1..Len(less[g]) : q = <<g, j>>
      <4>1. PICK g \in 1..Len(doc) : \E j \in 1..Len(less[g]) : q = <<g, j>>
        BY <3>2, <2>10
      <4>2. PICK j \in 1..Len(doc[g]) : q = <<g, j>>
        BY <3>0, <4>1
      <4>3. q \in B!Paths(doc)
        BY <4>2, PathsAre
      <4>4. q # p => less[g][j] = doc[g][j]
        BY <2>2, <2>9, <2>10, <4>2
      <4>5. Len(q) = 2 /\ q[1] = g /\ q[2] = j
        BY <4>2
      <4> QED
        BY <4>3, <4>4, <4>5 DEF B!Length
    <3> QED
      BY <2>10, <3>1, <3>2, PathsAre
  <2>15. B!Length(less, p) = k
    BY <2>3, <2>7, <2>8, <2>9, <2>10 DEF B!Length
  <2> QED
    BY <2>5, <2>10, <2>13, <2>14, <2>15 DEF less
<1> QED
  BY <1>1, <1>2, PathsAre

-----------------------------------------------------------------------------
\* Of finitely many things in order, one is before all others.
LEMMA TopExists ==
    ASSUME NEW S, IsFiniteSet(S), S # {}, NEW order,
           \A a, b \in S : a = b \/ <<a, b>> \in order \/ <<b, a>> \in order,
           \A a, b, c \in S : <<a, b>> \in order /\ <<b, c>> \in order => <<a, c>> \in order
    PROVE  \E top \in S : \A a \in S \ {top} : <<a, top>> \in order
<1> DEFINE Topped(A) == \E top \in A : \A a \in A \ {top} : <<a, top>> \in order
           Good(n) == \A A \in SUBSET S : Cardinality(A) = n /\ A # {} => Topped(A)
           T == {n \in Nat : Good(n)}
<1>1. Good(0)
  <2>1. ASSUME NEW A \in SUBSET S, Cardinality(A) = 0, A # {} PROVE FALSE
    BY <2>1, FS_Subset, FS_EmptySet
  <2> QED
    BY <2>1
<1>2. ASSUME NEW n \in Nat, Good(n) PROVE Good(n + 1)
  <2>1. ASSUME NEW A \in SUBSET S, Cardinality(A) = n + 1, A # {} PROVE Topped(A)
    <3>1. PICK a \in A : TRUE
      BY <2>1
    <3> DEFINE rest == A \ {a}
    <3>2. IsFiniteSet(A)
      BY FS_Subset
    <3>3. Cardinality(rest) = n
      <4>1. Cardinality(rest) = Cardinality(A) - 1
        BY <3>1, <3>2, FS_RemoveElement
      <4> QED
        BY <2>1, <4>1
    <3>4. CASE rest = {}
      BY <3>4
    <3>5. CASE rest # {}
      <4>1. Topped(rest)
        BY <1>2, <3>3, <3>5
      <4>2. PICK top \in rest : \A b \in rest \ {top} : <<b, top>> \in order
        BY <4>1
      <4>3. a \in S /\ top \in S /\ a # top /\ \A b \in A : b = a \/ b \in rest
        BY <4>2
      <4>4. CASE <<a, top>> \in order
        <5>1. \A b \in A \ {top} : <<b, top>> \in order
          BY <4>2, <4>3, <4>4
        <5> QED
          BY <5>1, <4>2
      <4>5. CASE <<top, a>> \in order
        <5>1. ASSUME NEW b \in A \ {a} PROVE <<b, a>> \in order
          <6>1. b \in S /\ (b = top \/ <<b, top>> \in order)
            BY <4>2
          <6> QED
            BY <4>3, <4>5, <6>1
        <5> QED
          BY <5>1, <3>1
      <4> QED
        BY <4>3, <4>4, <4>5
    <3> QED
      BY <3>4, <3>5
  <2> HIDE DEF Topped
  <2> QED
    BY <2>1
<1>3. T = Nat
  <2> HIDE DEF Good
  <2>1. T \in SUBSET Nat /\ 0 \in T
    BY <1>1
  <2>2. ASSUME NEW m \in T PROVE m + 1 \in T
    BY <1>2
  <2> HIDE DEF T
  <2> QED
    BY <2>1, <2>2, InductiveSet
<1>4. Cardinality(S) \in Nat
  BY FS_CardinalityType
<1>5. Good(Cardinality(S))
  <2> HIDE DEF Good
  <2> QED
    BY <1>3, <1>4
<1>6. Topped(S)
  <2> HIDE DEF Topped
  <2> QED
    BY <1>5
<1> QED
  BY <1>6

LEMMA ImagesAreFinite ==
    ASSUME NEW S, IsFiniteSet(S), NEW g
    PROVE  IsFiniteSet({g[x] : x \in S})
<1> DEFINE h == [x \in S |-> g[x]]
<1>1. h \in Surjection(S, {g[x] : x \in S})
  BY DEF Surjection
<1> QED
  BY <1>1, FS_Surjection

\* Every list of a document has a length and a size, and there are finitely many.
LEMMA ListsHaveSizes ==
    ASSUME NEW doc \in Doc
    PROVE  /\ IsFiniteSet(B!Paths(doc))
           /\ \A p \in B!Paths(doc) : B!Length(doc, p) \in Nat /\ B!PathBytes(doc, p) \in Nat
           /\ \A p \in B!Paths(doc) : \/ Len(p) = 1 /\ p[1] \in Nat /\ p = <<p[1]>>
                                      \/ Len(p) = 2 /\ p[1] \in Nat /\ p[2] \in Nat /\ p = <<p[1], p[2]>>
<1>1. DOMAIN doc = 1..Len(doc) /\ Len(doc) \in Nat
  BY DEF Doc
<1>2. \A f \in 1..Len(doc) : doc[f] \in Seq(Item) /\ Len(doc[f]) \in Nat /\ DOMAIN doc[f] = 1..Len(doc[f])
  BY DEF Doc
<1>3. IsFiniteSet(B!Paths(doc))
  <2> DEFINE Inner(f) == {<<f, i>> : i \in 1..Len(doc[f])}
             Of == [f \in 1..Len(doc) |-> {<<f>>} \union Inner(f)]
  <2>1. ASSUME NEW f \in 1..Len(doc) PROVE IsFiniteSet({<<f>>} \union Inner(f))
    <3> DEFINE g == [i \in 1..Len(doc[f]) |-> <<f, i>>]
    <3>1. IsFiniteSet(1..Len(doc[f]))
      <4>1. 0 + 1 \in Int /\ Len(doc[f]) \in Int
        BY <1>2
      <4> QED
        BY <4>1, FS_Interval
    <3>2. Inner(f) = {g[i] : i \in 1..Len(doc[f])}
      OBVIOUS
    <3> HIDE DEF g
    <3>3. IsFiniteSet(Inner(f))
      BY <3>1, <3>2, ImagesAreFinite
    <3> HIDE DEF Inner
    <3>4. IsFiniteSet({<<f>>})
      BY FS_Singleton
    <3> QED
      BY <3>3, <3>4, FS_Union
  <2>2. IsFiniteSet(1..Len(doc))
    BY <1>1, FS_Interval
  <2>3. B!Paths(doc) = UNION {Of[f] : f \in 1..Len(doc)}
    BY <1>1, <1>2 DEF B!Paths
  <2>5. \A s \in {Of[f] : f \in 1..Len(doc)} : IsFiniteSet(s)
    <3> HIDE DEF Inner
    <3> QED
      BY <2>1
  <2> HIDE DEF Of
  <2>4. IsFiniteSet({Of[f] : f \in 1..Len(doc)})
    BY <2>2, ImagesAreFinite
  <2> QED
    BY <2>3, <2>4, <2>5, FS_UNION
<1>4. ASSUME NEW p \in B!Paths(doc), NEW f \in 1..Len(doc), p = <<f>>
      PROVE  /\ B!Length(doc, p) \in Nat /\ B!PathBytes(doc, p) \in Nat
             /\ Len(p) = 1 /\ p[1] \in Nat /\ p = <<p[1]>>
  <2>1. Len(p) = 1 /\ p[1] = f
    BY <1>4
  <2>2. B!ListBytes(B!Sizes(doc[f])) \in Nat
    BY <1>2, ItemsHaveSizes
  <2> QED
    BY <1>1, <1>2, <1>4, <2>1, <2>2 DEF B!Length, B!PathBytes
<1>5. ASSUME NEW p \in B!Paths(doc), NEW f \in 1..Len(doc), NEW i \in 1..Len(doc[f]), p = <<f, i>>
      PROVE  /\ B!Length(doc, p) \in Nat /\ B!PathBytes(doc, p) \in Nat
             /\ Len(p) = 2 /\ p[1] \in Nat /\ p[2] \in Nat /\ p = <<p[1], p[2]>>
  <2>1. Len(p) = 2 /\ p[1] = f /\ p[2] = i
    BY <1>5
  <2>2. doc[f][i] \in Item /\ B!ListBytes(doc[f][i].sub) \in Nat
    BY <1>2, ItemsHaveSizes
  <2>3. Len(doc[f][i].sub) \in Nat
    BY <2>2 DEF Item
  <2> QED
    BY <1>1, <1>2, <1>5, <2>1, <2>2, <2>3 DEF B!Length, B!PathBytes
<1> QED
  BY <1>3, <1>4, <1>5, PathsAre

\* largest_array finds a list where there is one of several items.
LEMMA LargestIs ==
    ASSUME NEW doc \in Doc, B!Candidates(doc) # {}
    PROVE  B!largest_array(doc) \in B!Candidates(doc)
<1> DEFINE C == B!Candidates(doc)
           After(q, p) == \/ B!PathBytes(doc, q) < B!PathBytes(doc, p)
                          \/ B!PathBytes(doc, q) = B!PathBytes(doc, p) /\ B!Earlier(p, q)
           order == {d \in C \X C : After(d[1], d[2])}
<1>1. IsFiniteSet(C)
  <2>1. C \subseteq B!Paths(doc)
    BY DEF B!Candidates
  <2> QED
    BY <2>1, ListsHaveSizes, FS_Subset
<1>2. \A p \in C : B!PathBytes(doc, p) \in Nat
  BY ListsHaveSizes DEF B!Candidates
<1>3. \A p \in C : \/ Len(p) = 1 /\ p[1] \in Nat /\ p = <<p[1]>>
                   \/ Len(p) = 2 /\ p[1] \in Nat /\ p[2] \in Nat /\ p = <<p[1], p[2]>>
  BY ListsHaveSizes DEF B!Candidates
<1>4. \A p, q \in C : p = q \/ B!Earlier(p, q) \/ B!Earlier(q, p)
  BY <1>3 DEF B!Earlier
<1>5. \A p, q, r \in C : B!Earlier(p, q) /\ B!Earlier(q, r) => B!Earlier(p, r)
  BY <1>3 DEF B!Earlier
<1> HIDE DEF C
<1>6. \A p, q \in C : p = q \/ After(p, q) \/ After(q, p)
  BY <1>2, <1>4
<1>7. ASSUME NEW p \in C, NEW q \in C, NEW r \in C, After(p, q), After(q, r) PROVE After(p, r)
  BY <1>2, <1>5, <1>7
<1> HIDE DEF After
<1>8. \A p, q \in C : <<p, q>> \in order <=> After(p, q)
  OBVIOUS
<1> HIDE DEF order
<1>9. \E top \in C : \A q \in C \ {top} : <<q, top>> \in order
  <2>1. C # {}
    BY DEF C
  <2>2. \A p, q \in C : p = q \/ <<p, q>> \in order \/ <<q, p>> \in order
    BY <1>6, <1>8
  <2>3. \A p, q, r \in C : <<p, q>> \in order /\ <<q, r>> \in order => <<p, r>> \in order
    BY <1>7, <1>8
  <2> QED
    BY <1>1, <2>1, <2>2, <2>3, TopExists
<1>10. \E top \in C : \A q \in C \ {top} : After(q, top)
  BY <1>8, <1>9
<1>11. (CHOOSE top \in C : \A q \in C \ {top} : After(q, top)) \in C
  BY <1>10
<1> QED
  BY <1>11 DEF C, After, B!largest_array

\* What trim_at keeps: fewer than there are, and no fewer than it may.
LEMMA KeptIs ==
    ASSUME B!Sized, budget \in Budgets, NEW doc \in Doc, NEW p \in B!Candidates(doc), NEW over \in Nat, over > 0,
           B!Length(doc, p) > budget.min_items
    PROVE  /\ B!Keep(doc, p, over) \in Nat /\ budget.min_items \in Nat
           /\ budget.min_items <= B!Keep(doc, p, over) /\ B!Keep(doc, p, over) < B!Length(doc, p)
<1> DEFINE total == B!Length(doc, p)
           bytes == B!PathBytes(doc, p)
           per_item == B!Max({bytes \div total, 1})
<1>1. total \in Nat /\ bytes \in Nat /\ total > 1
  BY ListsHaveSizes DEF B!Candidates
<1>2. budget.min_items \in Nat /\ total > budget.min_items
  BY DEF B!Sized
<1>3. B!Keep(doc, p, over) = total - B!Min({over \div per_item + 1, total - budget.min_items})
  BY DEF B!Keep
<1> HIDE DEF total, bytes
<1>4. bytes \div total \in Int
  BY <1>1
<1>5. per_item \in Int /\ per_item >= 1
  BY <1>4, BudgetOfTwo
<1> HIDE DEF per_item
<1>6. over \div per_item \in Nat
  BY <1>5
<1>7. DEFINE drop == over \div per_item + 1
             spare == total - budget.min_items
<1>8. B!Min({drop, spare}) = IF drop <= spare THEN drop ELSE spare
  <2>1. drop \in Int /\ spare \in Int
    BY <1>1, <1>2, <1>6
  <2> HIDE DEF drop, spare
  <2> QED
    BY <2>1, BudgetOfTwo
<1>9. drop \in Nat /\ drop >= 1 /\ spare \in Nat /\ spare >= 1
  BY <1>1, <1>2, <1>6
<1>10. B!Keep(doc, p, over) = total - B!Min({drop, spare})
  BY <1>3
<1>11. spare = total - budget.min_items
  OBVIOUS
<1> HIDE DEF drop, spare
<1>12. total - B!Min({drop, spare}) \in Nat /\ budget.min_items <= total - B!Min({drop, spare}) /\ total - B!Min({drop, spare}) < total
  BY <1>1, <1>2, <1>8, <1>9, <1>11
<1> QED
  BY <1>2, <1>10, <1>12 DEF total

-----------------------------------------------------------------------------
\* The notes es on a document v of which o is left: each list once, with what it was
\* and, where it is still there, what it is; and no list shorter without one.
Elision(v) == [path : B!Paths(v), kept : Nat, total : Nat]

NoteOn(v, o, e) ==
    /\ e.total = B!Length(v, e.path) /\ e.total > 1 /\ e.kept < e.total
    /\ e.path \in B!Paths(o) => e.kept = B!Length(o, e.path)

Noted(v, o, es) ==
    /\ es \in Seq(Elision(v)) /\ B!Paths(o) \subseteq B!Paths(v)
    /\ \A i, j \in 1..Len(es) : es[i].path = es[j].path => i = j
    /\ \A i \in 1..Len(es) : NoteOn(v, o, es[i])
    /\ \A p \in B!Paths(o) : (\E i \in 1..Len(es) : es[i].path = p) \/ B!Length(o, p) = B!Length(v, p)

LEMMA NotedAtFirst == ASSUME NEW v \in Doc PROVE Noted(v, v, <<>>)
<1>1. <<>> \in Seq(Elision(v)) /\ Len(<<>>) = 0
  OBVIOUS
<1> QED
  BY <1>1 DEF Noted

\* A turn keeps the notes true.
LEMMA NotedAfter ==
    ASSUME B!Sized, NEW v \in Doc, NEW o \in Doc, NEW es, Noted(v, o, es),
           NEW p \in B!Candidates(o), NEW k \in Nat, k < B!Length(o, p),
           NEW less, less = B!Truncate(o, p, k), NEW more, more = B!Elide(es, p, k, B!Length(o, p))
    PROVE  Noted(v, less, more)
<1>1. p \in B!Paths(o) /\ B!Length(o, p) \in Nat /\ B!Length(o, p) > 1
  BY ListsHaveSizes DEF B!Candidates
<1>2. /\ B!Paths(less) \subseteq B!Paths(o) /\ B!Length(less, p) = k
      /\ \A q \in B!Paths(less) : q # p => B!Length(less, q) = B!Length(o, q)
  BY <1>1, TruncateIs
<1>3. /\ es \in Seq(Elision(v)) /\ B!Paths(o) \subseteq B!Paths(v) /\ Len(es) \in Nat /\ DOMAIN es = 1..Len(es)
      /\ \A i, j \in 1..Len(es) : es[i].path = es[j].path => i = j
      /\ \A i \in 1..Len(es) : NoteOn(v, o, es[i]) /\ es[i] \in Elision(v)
      /\ \A q \in B!Paths(o) : (\E i \in 1..Len(es) : es[i].path = q) \/ B!Length(o, q) = B!Length(v, q)
  BY DEF Noted
<1>4. CASE \E i \in DOMAIN es : es[i].path = p
  <2>1. PICK n \in 1..Len(es) : es[n].path = p
    BY <1>3, <1>4, SMTT(30)
  <2>2. more = [i \in 1..Len(es) |-> IF es[i].path = p THEN [es[i] EXCEPT !.kept = k] ELSE es[i]]
    BY <1>3, <1>4 DEF B!Elide
  <2> DEFINE mine == [es[n] EXCEPT !.kept = k]
  <2>3. \A i \in 1..Len(es) : more[i] = IF i = n THEN mine ELSE es[i]
    BY <1>3, <2>1, <2>2
  <2>4. mine \in Elision(v) /\ mine.path = p /\ mine.kept = k /\ mine.total = es[n].total
    <3>1. es[n] \in Elision(v)
      BY <1>3
    <3> QED
      BY <2>1, <3>1 DEF Elision
  <2> HIDE DEF mine
  <2>5. more \in Seq(Elision(v)) /\ Len(more) = Len(es)
    <3>1. \A i \in 1..Len(es) : more[i] \in Elision(v)
      BY <1>3, <2>3, <2>4
    <3>2. more = [i \in 1..Len(es) |-> more[i]]
      BY <2>2
    <3> QED
      BY <1>3, <3>1, <3>2
  <2>6. \A i \in 1..Len(es) : more[i].path = es[i].path
    BY <2>1, <2>3, <2>4
  <2>7. NoteOn(v, less, mine)
    <3>1. es[n].total = B!Length(v, p) /\ es[n].total > 1 /\ es[n].kept < es[n].total /\ es[n].kept = B!Length(o, p)
      BY <1>1, <1>3, <2>1 DEF NoteOn
    <3>2. es[n].total \in Nat
      BY <1>3 DEF Elision
    <3> QED
      BY <1>1, <1>2, <2>4, <3>1, <3>2 DEF NoteOn
  <2>8. ASSUME NEW i \in 1..Len(es), i # n PROVE NoteOn(v, less, es[i])
    BY <1>2, <1>3, <2>1, <2>8 DEF NoteOn
  <2>9. ASSUME NEW q \in B!Paths(less) PROVE (\E i \in 1..Len(more) : more[i].path = q) \/ B!Length(less, q) = B!Length(v, q)
    <3>1. CASE q = p
      BY <2>1, <2>5, <2>6, <3>1
    <3>2. CASE q # p
      BY <1>2, <1>3, <2>5, <2>6, <3>2
    <3> QED
      BY <3>1, <3>2
  <2>10. \A i \in 1..Len(more) : NoteOn(v, less, more[i])
    BY <2>3, <2>5, <2>7, <2>8
  <2>11. \A i, j \in 1..Len(more) : more[i].path = more[j].path => i = j
    BY <1>3, <2>5, <2>6
  <2> QED
    BY <1>2, <1>3, <2>5, <2>9, <2>10, <2>11 DEF Noted
<1>5. CASE ~ \E i \in DOMAIN es : es[i].path = p
  <2> DEFINE mine == [path |-> p, kept |-> k, total |-> B!Length(o, p)]
  <2>1. more = Append(es, mine)
    BY <1>5 DEF B!Elide
  <2>2. mine \in Elision(v) /\ mine.path = p /\ mine.kept = k /\ mine.total = B!Length(o, p)
    BY <1>1, <1>3 DEF Elision
  <2> HIDE DEF mine
  <2>3. /\ more \in Seq(Elision(v)) /\ Len(more) = Len(es) + 1 /\ more[Len(es) + 1] = mine
        /\ \A i \in 1..Len(es) : more[i] = es[i]
    BY <1>3, <2>1, <2>2
  <2>4. \A i \in 1..(Len(es) + 1) : i \in 1..Len(es) \/ i = Len(es) + 1
    BY <1>3
  <2>5. B!Length(o, p) = B!Length(v, p)
    BY <1>1, <1>3, <1>5
  <2>6. NoteOn(v, less, mine)
    BY <1>1, <1>2, <2>2, <2>5 DEF NoteOn
  <2>7. ASSUME NEW i \in 1..Len(es) PROVE NoteOn(v, less, es[i])
    <3>1. es[i].path # p
      BY <1>3, <1>5
    <3> QED
      BY <1>2, <1>3, <3>1 DEF NoteOn
  <2>8. \A i \in 1..Len(more) : NoteOn(v, less, more[i])
    BY <2>3, <2>4, <2>6, <2>7
  <2>9. ASSUME NEW i \in 1..Len(more), NEW j \in 1..Len(more), more[i].path = more[j].path PROVE i = j
    <3>1. \A a \in 1..Len(es) : es[a].path # p
      BY <1>3, <1>5
    <3> QED
      BY <1>3, <2>2, <2>3, <2>4, <2>9, <3>1
  <2>10. ASSUME NEW q \in B!Paths(less) PROVE (\E i \in 1..Len(more) : more[i].path = q) \/ B!Length(less, q) = B!Length(v, q)
    <3>1. CASE q = p
      <4>1. Len(es) + 1 \in 1..Len(more) /\ more[Len(es) + 1].path = p
        BY <1>3, <2>2, <2>3
      <4> QED
        BY <3>1, <4>1
    <3>2. CASE q # p
      <4>1. \A i \in 1..Len(es) : i \in 1..Len(more)
        BY <1>3, <2>3
      <4> QED
        BY <1>2, <1>3, <2>3, <3>2, <4>1
    <3> QED
      BY <3>1, <3>2
  <2> QED
    BY <1>2, <1>3, <2>3, <2>8, <2>9, <2>10 DEF Noted
<1> QED
  BY <1>4, <1>5

TrimInv ==
    /\ value \in Doc /\ trimmed \in Doc /\ budget \in Budgets /\ cap \in Nat /\ pass \in {1, 2}
    /\ pc \in {"trim", "trimmed", "done"}
    /\ Noted(value, trimmed, elisions)

\* One turn of the loop: what it drops, and from where.
LEMMA TurnIs ==
    ASSUME B!Sized, TrimInv, B!Trim
    PROVE  \E p \in B!Candidates(trimmed) : \E k \in Nat :
              /\ k < B!Length(trimmed, p) /\ budget.min_items <= k
              /\ trimmed' = B!Truncate(trimmed, p, k) /\ elisions' = B!Elide(elisions, p, k, B!Length(trimmed, p))
              /\ pc' = IF k <= budget.min_items THEN "trimmed" ELSE "trim"
              /\ B!measure(trimmed') < B!measure(trimmed) /\ trimmed' \in Doc
<1> DEFINE p == B!largest_array(trimmed)
           over == B!measure(trimmed) - cap
           k == B!Keep(trimmed, p, over)
<1>1. p \in B!Candidates(trimmed) /\ trimmed \in Doc
  BY LargestIs DEF TrimInv, B!Trim
<1>2. B!Length(trimmed, p) \in Nat /\ B!Length(trimmed, p) > 1 /\ p \in B!Paths(trimmed)
  BY <1>1, ListsHaveSizes DEF B!Candidates
<1>3. B!measure(trimmed) \in Nat
  <2>1. 0 \in Nat /\ 0 <= B!Length(trimmed, p)
    BY <1>2
  <2> QED
    BY <1>1, <1>2, <2>1, TruncateIs
<1>4. over \in Nat /\ over > 0
  BY <1>3 DEF TrimInv, B!Trim
<1>5. B!Length(trimmed, p) > budget.min_items /\ budget \in Budgets
  BY DEF TrimInv, B!Trim
<1>6. /\ trimmed' = B!Truncate(trimmed, p, k) /\ elisions' = B!Elide(elisions, p, k, B!Length(trimmed, p))
      /\ pc' = IF k <= budget.min_items THEN "trimmed" ELSE "trim"
  BY DEF B!Trim
<1> HIDE DEF p, over
<1>7. k \in Nat /\ budget.min_items <= k /\ k < B!Length(trimmed, p)
  BY <1>1, <1>4, <1>5, KeptIs
<1> HIDE DEF k
<1>8. B!measure(trimmed') < B!measure(trimmed) /\ trimmed' \in Doc
  <2>1. k <= B!Length(trimmed, p)
    BY <1>2, <1>7
  <2> QED
    BY <1>1, <1>2, <1>6, <1>7, <2>1, TruncateIs
<1> QED
  BY <1>1, <1>6, <1>7, <1>8

LEMMA InitTrim == ASSUME B!Sized PROVE B!Init => TrimInv
<1> SUFFICES ASSUME B!Init PROVE TrimInv
  OBVIOUS
<1>1. value \in Doc /\ trimmed = value /\ elisions = <<>> /\ budget \in Budgets /\ cap = budget.max_bytes
  BY DEF B!Init, B!Sized, Doc, Item
<1>2. budget.max_bytes \in Nat
  BY <1>1 DEF B!Sized
<1>3. Noted(value, trimmed, elisions)
  BY <1>1, NotedAtFirst
<1> QED
  BY <1>1, <1>2, <1>3 DEF TrimInv, B!Init

LEMMA NextTrim == ASSUME B!Sized PROVE TrimInv /\ [B!Next]_B!vars => TrimInv'
<1> SUFFICES ASSUME TrimInv, [B!Next]_B!vars PROVE TrimInv'
  OBVIOUS
<1>1. CASE B!Trim
  <2>1. UNCHANGED <<value, budget, cap, pass>>
    BY <1>1 DEF B!Trim
  <2>2. PICK p \in B!Candidates(trimmed) : \E k \in Nat :
              /\ k < B!Length(trimmed, p)
              /\ trimmed' = B!Truncate(trimmed, p, k) /\ elisions' = B!Elide(elisions, p, k, B!Length(trimmed, p))
              /\ pc' = IF k <= budget.min_items THEN "trimmed" ELSE "trim"
              /\ trimmed' \in Doc
    BY <1>1, TurnIs
  <2>3. PICK k \in Nat :
              /\ k < B!Length(trimmed, p)
              /\ trimmed' = B!Truncate(trimmed, p, k) /\ elisions' = B!Elide(elisions, p, k, B!Length(trimmed, p))
              /\ pc' = IF k <= budget.min_items THEN "trimmed" ELSE "trim"
              /\ trimmed' \in Doc
    BY <2>2
  <2>4. value \in Doc /\ trimmed \in Doc /\ Noted(value, trimmed, elisions)
    BY DEF TrimInv
  <2>5. Noted(value, trimmed', elisions')
    BY <2>3, <2>4, NotedAfter
  <2> QED
    BY <2>1, <2>3, <2>5 DEF TrimInv
<1>2. CASE B!Stop
  BY <1>2 DEF TrimInv, B!Stop
<1>3. CASE B!Reserve
  <2>1. trimmed' = value /\ elisions' = <<>> /\ pass' = 2 /\ pc' = "trim" /\ UNCHANGED <<value, budget>>
    BY <1>3 DEF B!Reserve
  <2>2. cap' \in Nat
    <3>1. elisions # <<>> /\ elisions \in Seq(Elision(value)) /\ budget \in Budgets
      BY <1>3 DEF B!Reserve, TrimInv, Noted
    <3>2. Len(elisions) \in Nat /\ NoteBase \in Nat /\ NoteEach \in Nat /\ budget.max_bytes \in Nat
      BY <3>1 DEF B!Sized
    <3>3. B!NoteBytes(elisions) = NoteBase + NoteEach * Len(elisions)
      BY <3>1 DEF B!NoteBytes
    <3>4. NoteEach * Len(elisions) \in Nat
      BY <3>2
    <3> DEFINE left == budget.max_bytes - B!NoteBytes(elisions)
    <3>5. left \in Int
      BY <3>2, <3>3, <3>4
    <3>6. cap' = B!Max({0, left})
      BY <1>3 DEF B!Reserve
    <3> HIDE DEF left
    <3>7. B!Max({0, left}) = IF 0 >= left THEN 0 ELSE left
      BY <3>5, BudgetOfTwo
    <3> QED
      BY <3>5, <3>6, <3>7
  <2>3. Noted(value, value, <<>>) /\ value \in Doc
    BY NotedAtFirst DEF TrimInv
  <2> QED
    BY <2>1, <2>2, <2>3 DEF TrimInv
<1>4. CASE B!Annotate
  BY <1>4 DEF TrimInv, B!Annotate
<1>5. CASE UNCHANGED B!vars
  BY <1>5 DEF TrimInv, B!vars
<1> QED
  BY <1>1, <1>2, <1>3, <1>4, <1>5 DEF B!Next

LEMMA TrimAlways == ASSUME B!Sized PROVE B!Spec => []TrimInv
<1> QED
  BY InitTrim, NextTrim, PTL DEF B!Spec

\* Whatever a tool returned and whatever the budget: the note on a trimmed result lists
\* each list that has become shorter once, with the length it had and the length it has.
LEMMA NoteAlone == ASSUME B!Sized PROVE B!Spec => []B!NoteIsTruthful
<1>1. TrimInv => B!NoteIsTruthful
  <2> SUFFICES ASSUME TrimInv PROVE B!NoteIsTruthful
    OBVIOUS
  <2>1. /\ elisions \in Seq(Elision(value)) /\ B!Paths(trimmed) \subseteq B!Paths(value)
        /\ DOMAIN elisions = 1..Len(elisions)
        /\ \A i, j \in DOMAIN elisions : elisions[i].path = elisions[j].path => i = j
        /\ \A i \in DOMAIN elisions : NoteOn(value, trimmed, elisions[i])
        /\ \A p \in B!Paths(trimmed) :
              (\E i \in DOMAIN elisions : elisions[i].path = p) \/ B!Length(trimmed, p) = B!Length(value, p)
    <3>1. elisions \in Seq(Elision(value))
      BY DEF TrimInv, Noted
    <3>2. DOMAIN elisions = 1..Len(elisions)
      BY <3>1
    <3> QED
      BY <3>1, <3>2 DEF TrimInv, Noted
  <2>2. ASSUME NEW p \in B!Paths(trimmed), B!Length(trimmed, p) < B!Length(value, p)
        PROVE  B!Cardinality({i \in DOMAIN elisions : elisions[i].path = p}) = 1
    <3>1. B!Length(trimmed, p) # B!Length(value, p)
      <4>1. B!Length(trimmed, p) \in Nat
        BY ListsHaveSizes DEF TrimInv
      <4>2. B!Length(value, p) \in Nat
        BY <2>1, ListsHaveSizes DEF TrimInv
      <4> QED
        BY <2>2, <4>1, <4>2
    <3>2. PICK i \in DOMAIN elisions : elisions[i].path = p
      BY <2>1, <3>1
    <3>3. {j \in DOMAIN elisions : elisions[j].path = p} = {i}
      BY <2>1, <3>2
    <3>4. Cardinality({i}) = 1
      BY FS_Singleton
    <3>5. B!Cardinality({i}) = Cardinality({i})
      BY SameSizes
    <3> QED
      BY <3>3, <3>4, <3>5
  <2>3. \A i \in DOMAIN elisions :
          /\ elisions[i].total = B!Length(value, elisions[i].path)
          /\ elisions[i].kept < elisions[i].total
          /\ B!PathIn(trimmed, elisions[i].path) => elisions[i].kept = B!Length(trimmed, elisions[i].path)
    BY <2>1 DEF NoteOn, B!PathIn
  <2> QED
    BY <2>2, <2>3 DEF B!NoteIsTruthful
<1> QED
  BY <1>1, TrimAlways, PTL

\* Whatever a tool returned and whatever the budget: each turn of apply's loop leaves
\* fewer bytes, however poor its estimate of the items to drop.
LEMMA TurnsAlone == ASSUME B!Sized PROVE B!Spec => B!EveryTurnShrinks
<1>1. TrimInv /\ [B!Next]_B!vars =>
        [pc = "trim" /\ pass' = pass /\ elisions' # elisions => B!measure(trimmed') < B!measure(trimmed)]_B!vars
  <2> SUFFICES ASSUME TrimInv, B!Next, pc = "trim", pass' = pass, elisions' # elisions
               PROVE  B!measure(trimmed') < B!measure(trimmed)
    OBVIOUS
  <2>1. CASE B!Trim
    BY <2>1, TurnIs
  <2>2. CASE B!Stop
    BY <2>2 DEF B!Stop
  <2>3. CASE B!Reserve
    BY <2>3 DEF B!Reserve
  <2>4. CASE B!Annotate
    BY <2>4 DEF B!Annotate
  <2> QED
    BY <2>1, <2>2, <2>3, <2>4 DEF B!Next
<1> QED
  BY <1>1, TrimAlways, PTL DEF B!Spec, B!EveryTurnShrinks

-----------------------------------------------------------------------------
\* A result whose one list is of scalars, or of items with no list of several in them.
OneFlat(v) == Len(v) = 1 /\ \A i \in DOMAIN v[1] : Len(v[1][i].sub) <= 1
Only == <<1>>
Cut(v, n) == B!Truncate(v, Only, n)

\* Cutting such a result twice is cutting it once, further; what is left still has but
\* one list to cut.
LEMMA CutIs ==
    ASSUME B!Sized, NEW v \in Doc, OneFlat(v)
    PROVE  /\ Only \in B!Paths(v) /\ B!Length(v, Only) = Len(v[1]) /\ Len(v[1]) \in Nat
           /\ v = Cut(v, B!Length(v, Only))
           /\ \A n \in 0..Len(v[1]) :
                 /\ Cut(v, n) \in Doc /\ B!Length(Cut(v, n), Only) = n /\ B!measure(Cut(v, n)) \in Nat
                 /\ Only \in B!Paths(Cut(v, n))
                 /\ B!Candidates(Cut(v, n)) \subseteq {Only}
                 /\ \A k \in 0..n : Cut(Cut(v, n), k) = Cut(v, k) /\ B!measure(Cut(v, k)) <= B!measure(Cut(v, n))
<1> DEFINE list == v[1]
<1>1. /\ list \in Seq(Item) /\ Len(list) \in Nat /\ DOMAIN v = {1} /\ v = <<list>> /\ 1 \in 1..Len(v)
      /\ \A i \in 1..Len(list) : Len(list[i].sub) <= 1
  <2>1. Len(v) = 1 /\ v \in Seq(Seq(Item))
    BY DEF OneFlat, Doc
  <2>2. v[1] \in Seq(Item)
    <3>1. 1 \in 1..Len(v)
      BY <2>1
    <3> QED
      BY <2>1, <3>1, ElementOfSeq
  <2>3. DOMAIN v[1] = 1..Len(v[1])
    BY <2>2
  <2> QED
    BY <2>1, <2>2, <2>3 DEF OneFlat
<1>2. Only \in B!Paths(v) /\ B!Length(v, Only) = Len(list)
  BY <1>1, PathsAre DEF Only, B!Length
<1>3. ASSUME NEW n \in Nat PROVE Cut(v, n) = <<SubSeq(list, 1, n)>>
  BY <1>1 DEF Cut, Only, B!Truncate
<1>4. v = Cut(v, Len(list))
  <2>1. SubSeq(list, 1, Len(list)) = list
    BY <1>1
  <2> QED
    BY <1>1, <1>3, <2>1
<1>5. ASSUME NEW n \in 0..Len(list)
      PROVE  /\ Cut(v, n) \in Doc /\ B!Length(Cut(v, n), Only) = n /\ B!measure(Cut(v, n)) \in Nat
             /\ Only \in B!Paths(Cut(v, n))
             /\ B!Candidates(Cut(v, n)) \subseteq {Only}
  <2> DEFINE o == Cut(v, n)
  <2>1. n \in Nat /\ n <= B!Length(v, Only)
    BY <1>1, <1>2
  <2>2. /\ o \in Doc /\ Len(o) = Len(v) /\ B!measure(o) \in Nat /\ B!Length(o, Only) = n
        /\ B!Paths(o) \subseteq B!Paths(v)
        /\ \A q \in B!Paths(o) : q # Only => B!Length(o, q) = B!Length(v, q)
    BY <1>2, <2>1, TruncateIs DEF Cut
  <2>3. Only \in B!Paths(o)
    <3>1. 1 \in 1..Len(o)
      BY <1>1, <2>2
    <3> HIDE DEF o
    <3> QED
      BY <2>2, <3>1, PathsAre DEF Only
  <2>4. ASSUME NEW q \in B!Candidates(o), q # Only PROVE FALSE
    <3>1. q \in B!Paths(v) /\ B!Length(v, q) > 1
      BY <2>2, <2>4 DEF B!Candidates
    <3>2. (\E f \in 1..Len(v) : q = <<f>>) \/ (\E f \in 1..Len(v) : \E i \in 1..Len(v[f]) : q = <<f, i>>)
      BY <3>1, PathsAre
    <3>3. 1..Len(v) = {1}
      BY DEF OneFlat
    <3>4. PICK i \in 1..Len(list) : q = <<1, i>>
      BY <2>4, <3>2, <3>3 DEF Only
    <3>5. Len(q) = 2 /\ q[1] = 1 /\ q[2] = i
      BY <3>4
    <3>6. B!Length(v, q) = Len(list[i].sub)
      BY <3>5 DEF B!Length
    <3>7. Len(list[i].sub) \in Nat
      BY <1>1 DEF Item
    <3> QED
      BY <1>1, <3>1, <3>6, <3>7
  <2> QED
    BY <2>2, <2>3, <2>4
<1>6. ASSUME NEW n \in 0..Len(list), NEW k \in 0..n
      PROVE  Cut(Cut(v, n), k) = Cut(v, k) /\ B!measure(Cut(v, k)) <= B!measure(Cut(v, n))
  <2>1. n \in Nat /\ k \in Nat /\ k <= n /\ k <= Len(list) /\ n <= Len(list)
    BY <1>1
  <2>2. Cut(Cut(v, n), k) = <<SubSeq(SubSeq(list, 1, n), 1, k)>>
    <3>1. Cut(v, n) = <<SubSeq(list, 1, n)>>
      BY <1>3
    <3>2. <<SubSeq(list, 1, n)>>[1] = SubSeq(list, 1, n) /\ DOMAIN <<SubSeq(list, 1, n)>> = {1}
      OBVIOUS
    <3> QED
      BY <3>1, <3>2 DEF Cut, Only, B!Truncate
  <2>3. SubSeq(SubSeq(list, 1, n), 1, k) = SubSeq(list, 1, k)
    BY <1>1, <2>1
  <2>4. Cut(Cut(v, n), k) = Cut(v, k)
    BY <1>3, <2>1, <2>2, <2>3
  <2>5. Cut(v, n) \in Doc /\ Only \in B!Paths(Cut(v, n)) /\ B!Length(Cut(v, n), Only) = n
    BY <1>5
  <2>6. B!measure(Cut(Cut(v, n), k)) <= B!measure(Cut(v, n))
    <3> DEFINE o == Cut(v, n)
    <3>1. o \in Doc /\ Only \in B!Paths(o) /\ k <= B!Length(o, Only)
      BY <2>1, <2>5
    <3> HIDE DEF o
    <3>2. B!measure(B!Truncate(o, Only, k)) <= B!measure(o)
      BY <2>1, <3>1, TruncateIs
    <3> QED
      BY <3>2 DEF o, Cut
  <2> QED
    BY <2>4, <2>6
<1> QED
  BY <1>1, <1>2, <1>4, <1>5, <1>6

Least == B!Max({1, budget.min_items})

\* In such a result the note is of one elision, and the loop ends where the result fits
\* or has no more items than it must have.
FitInv ==
    OneFlat(value) =>
        LET n == B!Length(trimmed, Only)
        IN  /\ n \in 0..B!Length(value, Only) /\ trimmed = Cut(value, n)
            /\ pass = 1 => cap = budget.max_bytes
            /\ pass = 2 => cap = B!Max({0, budget.max_bytes - (NoteBase + NoteEach)})
            /\ pc # "trim" => B!measure(trimmed) <= cap \/ n <= Least
            /\ pc = "done" /\ pass = 1 => elisions = <<>>

LEMMA LeastIs ==
    ASSUME B!Sized, budget \in Budgets
    PROVE  Least \in Nat /\ Least >= 1 /\ budget.min_items \in Nat /\ budget.min_items <= Least
<1>1. budget.min_items \in Nat
  BY DEF B!Sized
<1>2. Least = IF 1 >= budget.min_items THEN 1 ELSE budget.min_items
  BY <1>1, BudgetOfTwo DEF Least
<1> QED
  BY <1>1, <1>2

LEMMA OneElision ==
    ASSUME B!Sized, TrimInv, OneFlat(value)
    PROVE  Len(elisions) \in {0, 1} /\ elisions \in Seq(Elision(value)) /\ (Len(elisions) = 0 => elisions = <<>>)
<1>1. /\ elisions \in Seq(Elision(value)) /\ value \in Doc
      /\ \A i, j \in 1..Len(elisions) : elisions[i].path = elisions[j].path => i = j
      /\ \A i \in 1..Len(elisions) : NoteOn(value, trimmed, elisions[i])
  BY DEF TrimInv, Noted
<1>2. B!Candidates(value) \subseteq {Only}
  <2>1. Len(value[1]) \in 0..Len(value[1]) /\ value = Cut(value, Len(value[1]))
    BY <1>1, CutIs
  <2> QED
    BY <1>1, <2>1, CutIs
<1>3. ASSUME NEW i \in 1..Len(elisions) PROVE elisions[i].path = Only
  <2>1. elisions[i] \in Elision(value) /\ NoteOn(value, trimmed, elisions[i])
    BY <1>1
  <2>2. elisions[i].path \in B!Candidates(value)
    BY <2>1 DEF Elision, NoteOn, B!Candidates
  <2> QED
    BY <1>2, <2>2
<1>4. Len(elisions) \in Nat
  BY <1>1
<1>5. ~ (Len(elisions) > 1)
  <2> SUFFICES ASSUME Len(elisions) > 1 PROVE FALSE
    OBVIOUS
  <2>1. 1 \in 1..Len(elisions) /\ 2 \in 1..Len(elisions)
    BY <1>4
  <2> QED
    BY <1>1, <1>3, <2>1
<1>6. Len(elisions) \in {0, 1}
  <2> DEFINE n == Len(elisions)
  <2>1. n \in Nat /\ ~ (n > 1)
    BY <1>4, <1>5
  <2> HIDE DEF n
  <2>2. n = 0 \/ n = 1
    BY <2>1
  <2> QED
    BY <2>2 DEF n
<1>7. Len(elisions) = 0 => elisions = <<>>
  BY <1>1, EmptySeq
<1> QED
  BY <1>1, <1>6, <1>7

LEMMA InitFit == ASSUME B!Sized PROVE B!Init => FitInv
<1> SUFFICES ASSUME B!Init, OneFlat(value) PROVE FitInv
  BY DEF FitInv
<1>1. value \in Doc /\ trimmed = value
  BY DEF B!Init, B!Sized, Doc, Item
<1>2. B!Length(value, Only) \in 0..B!Length(value, Only) /\ value = Cut(value, B!Length(value, Only))
  BY <1>1, CutIs
<1> QED
  BY <1>1, <1>2 DEF FitInv, B!Init

LEMMA NextFit == ASSUME B!Sized PROVE TrimInv /\ FitInv /\ [B!Next]_B!vars => FitInv'
<1> SUFFICES ASSUME TrimInv, FitInv, [B!Next]_B!vars, OneFlat(value)' PROVE FitInv'
  BY DEF FitInv
<1> DEFINE n == B!Length(trimmed, Only)
           most == B!Length(value, Only)
<1>1. value' = value /\ budget' = budget
  BY DEF B!Next, B!vars, B!Trim, B!Stop, B!Reserve, B!Annotate
<1>2. OneFlat(value)
  BY <1>1 DEF OneFlat
<1>3. value \in Doc /\ trimmed \in Doc /\ budget \in Budgets /\ pass \in {1, 2}
  BY DEF TrimInv
<1>4. /\ most \in Nat /\ most = Len(value[1])
      /\ n \in 0..most /\ trimmed = Cut(value, n)
      /\ pass = 1 => cap = budget.max_bytes
      /\ pass = 2 => cap = B!Max({0, budget.max_bytes - (NoteBase + NoteEach)})
      /\ pc # "trim" => B!measure(trimmed) <= cap \/ n <= Least
      /\ pc = "done" /\ pass = 1 => elisions = <<>>
  BY <1>2, <1>3, CutIs DEF FitInv
<1>5. /\ Only \in B!Paths(trimmed) /\ B!Candidates(trimmed) \subseteq {Only}
      /\ \A k \in 0..n : Cut(trimmed, k) = Cut(value, k) /\ B!Length(Cut(value, k), Only) = k
  <2>1. \A k \in 0..n : k \in 0..most
    BY <1>4
  <2> QED
    BY <1>2, <1>3, <1>4, <2>1, CutIs
<1>6. CASE B!Trim
  <2>1. UNCHANGED <<value, budget, cap, pass>>
    BY <1>6 DEF B!Trim
  <2>2. PICK p \in B!Candidates(trimmed) : \E k \in Nat :
              /\ k < B!Length(trimmed, p) /\ trimmed' = B!Truncate(trimmed, p, k)
              /\ pc' = IF k <= budget.min_items THEN "trimmed" ELSE "trim"
    BY <1>6, TurnIs
  <2>3. PICK k \in Nat :
              /\ k < B!Length(trimmed, p) /\ trimmed' = B!Truncate(trimmed, p, k)
              /\ pc' = IF k <= budget.min_items THEN "trimmed" ELSE "trim"
    BY <2>2
  <2>4. p = Only
    BY <1>5
  <2>5. k \in 0..n /\ k \in 0..most
    BY <1>4, <2>3, <2>4
  <2>6. trimmed' = Cut(value, k) /\ B!Length(trimmed', Only) = k
    BY <1>5, <2>3, <2>4, <2>5 DEF Cut
  <2>7. pc' # "trim" => k <= Least
    <3>1. Least \in Nat /\ budget.min_items \in Nat /\ budget.min_items <= Least
      BY <1>3, LeastIs
    <3> QED
      BY <2>3, <3>1
  <2>8. pc' # "done" /\ Least' = Least
    BY <1>1, <2>3 DEF Least
  <2> HIDE DEF n, most
  <2> QED
    BY <1>4, <2>1, <2>5, <2>6, <2>7, <2>8 DEF FitInv, most
<1>7. CASE B!Stop
  <2>1. UNCHANGED <<value, budget, trimmed, elisions, cap, pass>> /\ pc' = "trimmed"
    BY <1>7 DEF B!Stop
  <2>2. B!measure(trimmed) <= cap \/ n <= Least
    <3>1. Least \in Nat /\ Least >= 1 /\ budget.min_items \in Nat /\ budget.min_items <= Least
      BY <1>3, LeastIs
    <3>2. CASE B!measure(trimmed) <= cap
      BY <3>2
    <3>3. CASE B!Candidates(trimmed) = {}
      <4>1. ~ (n > 1)
        BY <1>5, <3>3 DEF B!Candidates
      <4> QED
        BY <1>4, <3>1, <4>1
    <3>4. CASE B!Candidates(trimmed) # {} /\ B!Length(trimmed, B!largest_array(trimmed)) <= budget.min_items
      <4>1. B!largest_array(trimmed) = Only
        BY <1>3, <1>5, <3>4, LargestIs
      <4> QED
        BY <1>4, <3>1, <3>4, <4>1
    <3> QED
      BY <1>7, <3>2, <3>3, <3>4 DEF B!Stop
  <2>3. Least' = Least
    BY <2>1 DEF Least
  <2> QED
    BY <1>4, <2>1, <2>2, <2>3 DEF FitInv
<1>8. CASE B!Reserve
  <2>1. /\ trimmed' = value /\ elisions' = <<>> /\ pass' = 2 /\ pc' = "trim" /\ elisions # <<>>
        /\ cap' = B!Max({0, budget.max_bytes - B!NoteBytes(elisions)})
    BY <1>8 DEF B!Reserve
  <2>2. B!NoteBytes(elisions) = NoteBase + NoteEach
    <3>1. Len(elisions) = 1
      BY <1>2, <2>1, OneElision
    <3>2. NoteEach * 1 = NoteEach
      BY DEF B!Sized
    <3> QED
      BY <2>1, <3>1, <3>2 DEF B!NoteBytes
  <2>3. most \in 0..most /\ value = Cut(value, most)
    BY <1>2, <1>3, <1>4, CutIs
  <2> HIDE DEF most
  <2> QED
    BY <1>1, <2>1, <2>2, <2>3 DEF FitInv, most
<1>9. CASE B!Annotate
  <2>1. UNCHANGED <<value, budget, trimmed, elisions, cap, pass>> /\ pc = "trimmed" /\ (pass = 2 \/ elisions = <<>>)
    BY <1>9 DEF B!Annotate
  <2>2. Least' = Least
    BY <2>1 DEF Least
  <2> QED
    BY <1>4, <2>1, <2>2 DEF FitInv
<1>10. CASE UNCHANGED B!vars
  <2>1. UNCHANGED <<value, budget, trimmed, elisions, cap, pass, pc>>
    BY <1>10 DEF B!vars
  <2>2. Least' = Least
    BY <2>1 DEF Least
  <2> QED
    BY <1>4, <2>1, <2>2 DEF FitInv
<1> QED
  BY <1>6, <1>7, <1>8, <1>9, <1>10 DEF B!Next

LEMMA FitAlways == ASSUME B!Sized PROVE B!Spec => [](TrimInv /\ FitInv)
<1> QED
  BY InitTrim, NextTrim, InitFit, NextFit, PTL DEF B!Spec

\* A result with one list of plain items, of any length and any sizes, that can meet its
\* budget with the note on it and the items it must keep, is delivered within the budget.
LEMMA OneListAlone == ASSUME B!Sized PROVE B!Spec => []B!OneListFits
<1>1. TrimInv /\ FitInv => B!OneListFits
  <2> DEFINE n == B!Length(trimmed, Only)
             most == B!Length(value, Only)
             low == B!Min({most, Least})
             note == NoteBase + NoteEach
  <2> SUFFICES ASSUME TrimInv, FitInv, pc = "done", OneFlat(value),
                      B!measure(Cut(value, low)) + note <= budget.max_bytes
               PROVE  B!measure(trimmed) + B!NoteBytes(elisions) <= budget.max_bytes
    <3>1. NoteBase \in Int /\ NoteEach \in Int
      BY DEF B!Sized
    <3>2. ASSUME OneFlat(value), TrimInv PROVE B!measure(Cut(value, low)) \in Int
      <4>1. value \in Doc /\ budget \in Budgets
        BY <3>2 DEF TrimInv
      <4>2. most \in Nat /\ Least \in Nat /\ most = Len(value[1])
        BY <3>2, <4>1, CutIs, LeastIs
      <4> HIDE DEF most
      <4>3. low \in 0..most
        <5>1. most \in Int /\ Least \in Int
          BY <4>2
        <5>2. low = IF most <= Least THEN most ELSE Least
          BY <5>1, BudgetOfTwo
        <5> QED
          BY <4>2, <5>2
      <4> HIDE DEF low
      <4>4. B!measure(Cut(value, low)) \in Nat
        BY <3>2, <4>1, <4>2, <4>3, CutIs
      <4> QED
        BY <4>4
    <3> HIDE DEF low
    <3> QED
      BY <3>1, <3>2 DEF B!OneListFits, B!Done, B!Delivered, OneFlat, Cut, low, Least, Only
  <2>1. value \in Doc /\ budget \in Budgets /\ pass \in {1, 2}
    BY DEF TrimInv
  <2>2. /\ most \in Nat /\ most = Len(value[1]) /\ n \in 0..most /\ trimmed = Cut(value, n)
        /\ pass = 1 => cap = budget.max_bytes /\ elisions = <<>>
        /\ pass = 2 => cap = B!Max({0, budget.max_bytes - note})
        /\ B!measure(trimmed) <= cap \/ n <= Least
    BY <2>1, CutIs DEF FitInv
  <2>3. Least \in Nat
    BY <2>1, LeastIs
  <2>4. note \in Nat /\ budget.max_bytes \in Nat
    BY <2>1 DEF B!Sized
  <2>5. /\ elisions = <<>> => B!NoteBytes(elisions) = 0
        /\ elisions # <<>> => B!NoteBytes(elisions) = note
    <3>1. elisions # <<>> => Len(elisions) = 1
      BY OneElision
    <3>2. NoteEach * 1 = NoteEach
      BY DEF B!Sized
    <3> QED
      BY <3>1, <3>2 DEF B!NoteBytes
  <2> HIDE DEF most, n, note
  <2>6. low = IF most <= Least THEN most ELSE Least
    <3>1. most \in Int /\ Least \in Int
      BY <2>2, <2>3
    <3> QED
      BY <3>1, BudgetOfTwo
  <2>7. low \in 0..most
    BY <2>2, <2>3, <2>6
  <2> HIDE DEF low
  <2>8. B!measure(trimmed) \in Nat /\ B!measure(Cut(value, low)) \in Nat
    BY <2>1, <2>2, <2>7, CutIs
  <2>9. n <= Least => B!measure(trimmed) <= B!measure(Cut(value, low))
    <3> SUFFICES ASSUME n <= Least PROVE B!measure(trimmed) <= B!measure(Cut(value, low))
      OBVIOUS
    <3>1. n \in 0..low
      BY <2>2, <2>3, <2>6
    <3> QED
      BY <2>1, <2>2, <2>7, <3>1, CutIs
  <2>10. CASE pass = 1
    BY <2>2, <2>4, <2>5, <2>8, <2>9, <2>10
  <2>11. CASE pass = 2
    <3> DEFINE left == budget.max_bytes - note
    <3>1. left \in Int /\ left >= B!measure(Cut(value, low)) /\ left >= 0
      BY <2>4, <2>8
    <3>2. cap = left
      <4>1. left \in Int /\ cap = B!Max({0, left})
        BY <2>2, <2>11, <3>1
      <4> HIDE DEF left
      <4> QED
        BY <3>1, <4>1, BudgetOfTwo
    <3>3. B!measure(trimmed) <= left
      BY <2>2, <2>8, <2>9, <3>1, <3>2
    <3> QED
      BY <2>4, <2>5, <2>8, <3>3
  <2> QED
    BY <2>1, <2>10, <2>11
<1> QED
  BY <1>1, FitAlways, PTL

-----------------------------------------------------------------------------
(***************************************************************************)
(* Suggestions.  The distance of two texts is the last entry of a table    *)
(* that is made row by row (IsTable); what an entry is at most 1 for is    *)
(* known from its three neighbours (Lists_proofs, NearInTable), so a name  *)
(* that is a slip away is one away, and none else is.  What is offered is  *)
(* taken from the front of a strict order, one after the other, and what   *)
(* is left comes before nothing that was taken.                            *)
(***************************************************************************)

\* Suggestions and this module take the same operators from the library.
LEMMA NamesLibrary ==
    ASSUME NEW S
    PROVE  /\ G!Min(S) = Min(S) /\ G!Max(S) = Max(S) /\ G!Cardinality(S) = Cardinality(S)
           /\ G!IsFiniteSet(S) <=> IsFiniteSet(S)
<1>1. G!Min(S) = Min(S)
  BY DEF G!Min, Min
<1>2. G!Max(S) = Max(S)
  BY DEF G!Max, Max
<1>3. G!Cardinality(S) = Cardinality(S)
  BY DEF G!Cardinality, Cardinality
<1>4. G!IsFiniteSet(S) <=> IsFiniteSet(S)
  BY DEF G!IsFiniteSet, IsFiniteSet
<1> QED
  BY <1>1, <1>2, <1>3, <1>4

\* One entry of a row, from the three next to it.
Entry(a, b, prev, cur, i, j) == Min({prev[j + 1] + 1, cur[Len(cur)] + 1, prev[j] + Cost(a[i], b[j])})

\* The rows of a table whose columns are n letters and the start.
Rows(n) == {r \in Seq(Nat) : Len(r) = n + 1}

\* A row is made of numbers.
LEMMA EntryType ==
    ASSUME NEW a, NEW b, NEW n \in Nat, NEW prev \in Rows(n), NEW cur \in Seq(Nat), Len(cur) > 0, NEW i, NEW j \in 1..n
    PROVE  Entry(a, b, prev, cur, i, j) \in Nat
<1>1. j \in 1..Len(prev) /\ j + 1 \in 1..Len(prev) /\ prev \in Seq(Nat)
  BY DEF Rows
<1>2. Len(cur) \in 1..Len(cur)
  OBVIOUS
<1>3. prev[j] \in Nat /\ prev[j + 1] \in Nat /\ cur[Len(cur)] \in Nat
  BY <1>1, <1>2, ElementOfSeq
<1>4. Cost(a[i], b[j]) \in Nat
  BY DEF Cost
<1> DEFINE x == prev[j + 1]
           y == cur[Len(cur)]
           z == prev[j]
           c == Cost(a[i], b[j])
<1>5. x \in Nat /\ y \in Nat /\ z \in Nat /\ c \in Nat
  BY <1>3, <1>4
<1>6. Min({x + 1, y + 1, z + c}) \in Nat
  <2> HIDE DEF x, y, z, c
  <2>1. x + 1 \in Nat /\ y + 1 \in Nat /\ z + c \in Nat
    BY <1>5
  <2> QED
    BY <2>1, OfThree
<1> QED
  BY <1>6 DEF Entry

\* What the inner loop has made after each letter.
IsRowLoop(loop, a, b, prev, i, first) ==
    /\ loop[0] = <<first>>
    /\ \A k \in 1..Len(b) : loop[k] = Append(loop[k - 1], Entry(a, b, prev, loop[k - 1], i, k))
    /\ G!Row(a, b, prev, i, first) = loop[Len(b)]

\* The inner loop of edit_distance.
LEMMA RowLoop ==
    ASSUME NEW A, NEW a \in Seq(A), NEW b \in Seq(A), NEW prev \in Rows(Len(b)), NEW i \in 1..Len(a), NEW first \in Nat
    PROVE  \E loop : IsRowLoop(loop, a, b, prev, i, first)
<1> DEFINE n == Len(b)
           base == <<first>>
           S == {c \in Seq(Nat) : Len(c) > 0}
           step == [x \in S \X (1..n) |-> Append(x[1], Entry(a, b, prev, x[1], i, x[2]))]
           index == [j \in DOMAIN b |-> j]
           made(cur, j) == Append(cur, G!Min({prev[j + 1] + 1, G!Last(cur) + 1, prev[j] + (IF a[i] = b[j] THEN 0 ELSE 1)}))
           round(iter, s) == IF s = {} THEN base ELSE made(iter[s \ {G!Max(s)}], index[G!Max(s)])
           chosen == CHOOSE iter : iter = [s \in SUBSET DOMAIN index |-> round(iter, s)]
<1>1. n \in Nat /\ DOMAIN b = 1..n /\ DOMAIN index = 1..n /\ \A k \in 1..n : index[k] = k
  OBVIOUS
<1>2. G!Row(a, b, prev, i, first) = chosen[DOMAIN index]
  BY DEF G!Row, G!FoldLeft, G!MapThenFoldSet
<1>3. \A cur, j : made(cur, j) = Append(cur, Entry(a, b, prev, cur, i, j))
  <2> SUFFICES ASSUME NEW cur, NEW j PROVE made(cur, j) = Append(cur, Entry(a, b, prev, cur, i, j))
    OBVIOUS
  <2>1. G!Last(cur) = cur[Len(cur)]
    BY DEF G!Last
  <2>2. Entry(a, b, prev, cur, i, j) = Min({prev[j + 1] + 1, cur[Len(cur)] + 1, prev[j] + (IF a[i] = b[j] THEN 0 ELSE 1)})
    BY DEF Entry, Cost
  <2> QED
    BY <2>1, <2>2, NamesLibrary
<1> HIDE DEF made, index
<1>4. step \in [S \X (1..n) -> S]
  <2> SUFFICES ASSUME NEW cur \in S, NEW j \in 1..n PROVE Append(cur, Entry(a, b, prev, cur, i, j)) \in S
    OBVIOUS
  <2>1. Entry(a, b, prev, cur, i, j) \in Nat
    BY <1>1, EntryType
  <2> DEFINE new == Entry(a, b, prev, cur, i, j)
  <2> HIDE DEF new
  <2>2. Append(cur, new) \in Seq(Nat) /\ Len(Append(cur, new)) > 0
    BY <2>1, AppendProperties, LenProperties DEF new
  <2> QED
    BY <2>2 DEF new
<1>5. base \in S
  OBVIOUS
<1> HIDE DEF n, base, S
<1>6. PICK iter : IsFold(iter, S, n, base, step)
  <2> HIDE DEF step
  <2> QED
    BY <1>1, <1>4, <1>5, FoldExists
<1>7. ASSUME NEW s \in SUBSET (1..n) PROVE Turn(iter, step, base, s) = round(iter, s)
  <2>1. CASE s = {}
    BY <2>1 DEF Turn
  <2>2. CASE s # {}
    <3>1. Max(s) \in 1..n /\ G!Max(s) = Max(s) /\ index[Max(s)] = Max(s)
      BY <1>1, <2>2, MaxIsLargest, NamesLibrary
    <3>2. iter[s \ {Max(s)}] \in S
      BY <1>6 DEF IsFold
    <3>3. step[<<iter[s \ {Max(s)}], Max(s)>>] = made(iter[s \ {Max(s)}], Max(s))
      BY <1>3, <3>1, <3>2
    <3> QED
      BY <2>2, <3>1, <3>3 DEF Turn
  <2> QED
    BY <2>1, <2>2
<1>8. iter = [s \in SUBSET DOMAIN index |-> round(iter, s)]
  <2> HIDE DEF round
  <2>1. iter = [s \in SUBSET (1..n) |-> iter[s]]
    BY <1>6 DEF IsFold
  <2> QED
    BY <1>1, <1>6, <1>7, <2>1 DEF IsFold
<1>9. chosen = [s \in SUBSET DOMAIN index |-> round(chosen, s)]
  <2> HIDE DEF round
  <2> QED
    BY <1>8
<1>10. /\ chosen[1..0] = base
       /\ \A k \in 1..n : chosen[1..k] = Append(chosen[1..(k - 1)], Entry(a, b, prev, chosen[1..(k - 1)], i, k))
  <2> HIDE DEF chosen
  <2>1. 1..0 = {} /\ {} \in SUBSET DOMAIN index
    OBVIOUS
  <2>2. ASSUME NEW k \in 1..n
        PROVE  chosen[1..k] = Append(chosen[1..(k - 1)], Entry(a, b, prev, chosen[1..(k - 1)], i, k))
    <3>1. k \in Nat \ {0} /\ 1..k \in SUBSET DOMAIN index
      BY <1>1
    <3>2. chosen[1..k] = round(chosen, 1..k)
      BY <1>9, <3>1
    <3>3. G!Max(1..k) = k /\ (1..k) \ {k} = 1..(k - 1) /\ 1..k # {} /\ index[k] = k
      BY <1>1, <3>1, MaxOfSegment, NamesLibrary
    <3>4. chosen[1..k] = made(chosen[1..(k - 1)], k)
      BY <3>2, <3>3
    <3> QED
      BY <1>3, <3>4
  <2> QED
    BY <1>9, <2>1, <2>2
<1> DEFINE loop == [k \in 0..n |-> chosen[1..k]]
<1> HIDE DEF chosen
<1>11. /\ loop[0] = base
       /\ \A k \in 1..n : loop[k] = Append(loop[k - 1], Entry(a, b, prev, loop[k - 1], i, k))
       /\ loop[n] = chosen[DOMAIN index]
  <2>1. \A k \in 0..n : loop[k] = chosen[1..k]
    OBVIOUS
  <2>2. 0 \in 0..n /\ n \in 0..n /\ \A k \in 1..n : k \in 0..n /\ k - 1 \in 0..n
    BY <1>1
  <2> HIDE DEF loop
  <2> QED
    BY <1>1, <1>10, <2>1, <2>2
<1> HIDE DEF loop
<1> QED
  BY <1>2, <1>11 DEF n, base, IsRowLoop

\* A row has one entry more than the text has letters, each made from its three neighbours.
LEMMA RowIs ==
    ASSUME NEW A, NEW a \in Seq(A), NEW b \in Seq(A), NEW prev \in Rows(Len(b)), NEW i \in 1..Len(a), NEW first \in Nat
    PROVE  LET r == G!Row(a, b, prev, i, first)
           IN  /\ r \in Rows(Len(b)) /\ r[1] = first
               /\ \A j \in 1..Len(b) : r[j + 1] = Min({prev[j + 1] + 1, r[j] + 1, prev[j] + Cost(a[i], b[j])})
<1>0. PICK loop : IsRowLoop(loop, a, b, prev, i, first)
  BY RowLoop
<1> DEFINE n == Len(b)
<1>1. /\ loop[0] = <<first>>
      /\ \A k \in 1..n : loop[k] = Append(loop[k - 1], Entry(a, b, prev, loop[k - 1], i, k))
      /\ G!Row(a, b, prev, i, first) = loop[n]
  BY <1>0 DEF IsRowLoop
<1>2. n \in Nat /\ prev \in Rows(n)
  OBVIOUS
<1> HIDE DEF n
<1> DEFINE Rule(r, j) == r[j + 1] = Min({prev[j + 1] + 1, r[j] + 1, prev[j] + Cost(a[i], b[j])})
           Good(k) == /\ loop[k] \in Seq(Nat) /\ Len(loop[k]) = k + 1 /\ loop[k][1] = first
                      /\ \A j \in 1..k : Rule(loop[k], j)
           T == {k \in Nat : k <= n => Good(k)}
<1>3. Good(0)
  BY <1>1
<1>4. ASSUME NEW k \in Nat, k + 1 <= n, Good(k) PROVE Good(k + 1)
  <2> DEFINE cur == loop[k]
             new == Entry(a, b, prev, cur, i, k + 1)
             next == loop[k + 1]
  <2>1. k + 1 \in 1..n /\ (k + 1) - 1 = k
    BY <1>4, <1>2
  <2>2. next = Append(cur, new)
    BY <1>1, <2>1
  <2>3. cur \in Seq(Nat) /\ Len(cur) = k + 1 /\ Len(cur) > 0 /\ cur[1] = first /\ \A j \in 1..k : Rule(cur, j)
    <3> HIDE DEF Rule
    <3>1. loop[k] \in Seq(Nat) /\ Len(loop[k]) = k + 1 /\ loop[k][1] = first /\ \A j \in 1..k : Rule(loop[k], j)
      BY <1>4
    <3>2. k + 1 > 0
      OBVIOUS
    <3> QED
      BY <3>1, <3>2
  <2>4. new \in Nat
    BY <1>2, <2>1, <2>3, EntryType
  <2>5. new = Min({prev[(k + 1) + 1] + 1, cur[k + 1] + 1, prev[k + 1] + Cost(a[i], b[k + 1])})
    BY <2>3 DEF Entry
  <2> HIDE DEF cur, new, next
  <2>6. next \in Seq(Nat) /\ Len(next) = (k + 1) + 1 /\ (\A j \in 1..(k + 1) : next[j] = cur[j]) /\ next[(k + 1) + 1] = new
    BY <2>2, <2>3, <2>4, AppendProperties, LenProperties
  <2>7. next[1] = first
    BY <2>1, <2>3, <2>6
  <2>8. ASSUME NEW j \in 1..(k + 1) PROVE Rule(next, j)
    <3>1. CASE j = k + 1
      <4>1. k + 1 \in 1..(k + 1)
        OBVIOUS
      <4>2. next[k + 1] = cur[k + 1]
        BY <2>6, <4>1
      <4> QED
        BY <2>5, <2>6, <3>1, <4>2
    <3>2. CASE j # k + 1
      <4>1. j \in 1..k /\ j + 1 \in 1..(k + 1)
        BY <3>2
      <4>2. next[j] = cur[j] /\ next[j + 1] = cur[j + 1]
        BY <2>6, <4>1
      <4> QED
        BY <2>3, <4>1, <4>2
    <3> QED
      BY <3>1, <3>2
  <2> HIDE DEF Rule
  <2> QED
    BY <2>6, <2>7, <2>8 DEF next
<1>5. T = Nat
  <2> HIDE DEF Good
  <2>1. T \in SUBSET Nat /\ 0 \in T
    BY <1>3
  <2>2. ASSUME NEW k \in T PROVE k + 1 \in T
    BY <1>2, <1>4
  <2> HIDE DEF T
  <2> QED
    BY <2>1, <2>2, InductiveSet
<1>6. Good(n)
  <2> HIDE DEF Good
  <2> QED
    BY <1>2, <1>5
<1> DEFINE r == G!Row(a, b, prev, i, first)
<1>7. r = loop[n]
  BY <1>1
<1> HIDE DEF r
<1>8. r \in Rows(n) /\ r[1] = first /\ \A j \in 1..n : Rule(r, j)
  <2> HIDE DEF Rule
  <2> QED
    BY <1>6, <1>7 DEF Rows
<1> QED
  BY <1>8 DEF n, r

\* The row a table starts with.
FirstRow(n) == [j \in 1..(n + 1) |-> j - 1]

\* The rows the outer loop makes.
IsTableLoop(rows, a, b) ==
    /\ rows[0] = FirstRow(Len(b))
    /\ \A k \in 1..Len(a) : rows[k] = G!Row(a, b, rows[k - 1], k, k)
    /\ G!edit_distance(a, b) = rows[Len(a)][Len(rows[Len(a)])]

\* The first row and those made from one another have one entry more than the text has letters.
LEMMA RowType ==
    ASSUME NEW A, NEW a \in Seq(A), NEW b \in Seq(A)
    PROVE  /\ FirstRow(Len(b)) \in Rows(Len(b))
           /\ \A prev \in Rows(Len(b)), i \in 1..Len(a) : G!Row(a, b, prev, i, i) \in Rows(Len(b))
<1>1. FirstRow(Len(b)) \in Rows(Len(b))
  <2>1. Len(b) + 1 \in Nat /\ \A j \in 1..(Len(b) + 1) : j - 1 \in Nat
    OBVIOUS
  <2> QED
    BY <2>1 DEF FirstRow, Rows
<1>2. ASSUME NEW prev \in Rows(Len(b)), NEW i \in 1..Len(a) PROVE G!Row(a, b, prev, i, i) \in Rows(Len(b))
  <2>1. i \in Nat
    OBVIOUS
  <2> QED
    BY <2>1, RowIs
<1> QED
  BY <1>1, <1>2

\* The outer loop of edit_distance.
LEMMA TableLoop ==
    ASSUME NEW A, NEW a \in Seq(A), NEW b \in Seq(A)
    PROVE  \E rows : IsTableLoop(rows, a, b)
<1> DEFINE n == Len(a)
           base == FirstRow(Len(b))
           S == Rows(Len(b))
           step == [x \in S \X (1..n) |-> G!Row(a, b, x[1], x[2], x[2])]
           index == [i \in DOMAIN a |-> i]
           round(iter, s) ==
               IF s = {} THEN [j \in 1..(Len(b) + 1) |-> j - 1]
               ELSE G!Row(a, b, iter[s \ {G!Max(s)}], index[G!Max(s)], index[G!Max(s)])
           chosen == CHOOSE iter : iter = [s \in SUBSET DOMAIN index |-> round(iter, s)]
<1>1. n \in Nat /\ DOMAIN a = 1..n /\ DOMAIN index = 1..n /\ \A k \in 1..n : index[k] = k
  OBVIOUS
<1>2. G!edit_distance(a, b) = chosen[DOMAIN index][Len(chosen[DOMAIN index])]
  BY DEF G!edit_distance, G!FoldLeft, G!MapThenFoldSet, G!Last
<1> HIDE DEF index
<1>4. step \in [S \X (1..n) -> S]
  BY RowType
<1>5. base \in S
  BY RowType
<1>6. PICK iter : IsFold(iter, S, n, base, step)
  <2> HIDE DEF step, S, base, n
  <2> QED
    BY <1>1, <1>4, <1>5, FoldExists
<1>7. ASSUME NEW s \in SUBSET (1..n) PROVE Turn(iter, step, base, s) = round(iter, s)
  <2> HIDE DEF n, S
  <2>1. CASE s = {}
    BY <2>1 DEF Turn, FirstRow
  <2>2. CASE s # {}
    <3>1. Max(s) \in 1..n /\ G!Max(s) = Max(s) /\ index[Max(s)] = Max(s)
      BY <1>1, <2>2, MaxIsLargest, NamesLibrary
    <3>2. iter[s \ {Max(s)}] \in S
      BY <1>6 DEF IsFold
    <3>3. step[<<iter[s \ {Max(s)}], Max(s)>>] = G!Row(a, b, iter[s \ {Max(s)}], Max(s), Max(s))
      BY <3>1, <3>2
    <3> QED
      BY <2>2, <3>1, <3>3 DEF Turn
  <2> QED
    BY <2>1, <2>2
<1> HIDE DEF n, S
<1>8. iter = [s \in SUBSET DOMAIN index |-> round(iter, s)]
  <2> HIDE DEF round, base, step
  <2>1. iter = [s \in SUBSET (1..n) |-> iter[s]]
    BY <1>6 DEF IsFold
  <2> QED
    BY <1>1, <1>6, <1>7, <2>1 DEF IsFold
<1>9. chosen = [s \in SUBSET DOMAIN index |-> round(chosen, s)]
  <2> HIDE DEF round
  <2> QED
    BY <1>8
<1>10. /\ chosen[1..0] = base
       /\ \A k \in 1..n : chosen[1..k] = G!Row(a, b, chosen[1..(k - 1)], k, k)
  <2> HIDE DEF chosen
  <2>1. 1..0 = {} /\ {} \in SUBSET DOMAIN index
    OBVIOUS
  <2>2. ASSUME NEW k \in 1..n PROVE chosen[1..k] = G!Row(a, b, chosen[1..(k - 1)], k, k)
    <3>1. k \in Nat \ {0} /\ 1..k \in SUBSET DOMAIN index
      BY <1>1
    <3>2. chosen[1..k] = round(chosen, 1..k)
      BY <1>9, <3>1
    <3>3. G!Max(1..k) = k /\ (1..k) \ {k} = 1..(k - 1) /\ 1..k # {} /\ index[k] = k
      BY <1>1, <3>1, MaxOfSegment, NamesLibrary
    <3> QED
      BY <3>2, <3>3
  <2> QED
    BY <1>9, <2>1, <2>2 DEF FirstRow
<1> DEFINE rows == [k \in 0..n |-> chosen[1..k]]
<1> HIDE DEF chosen, base
<1>11. /\ rows[0] = base
       /\ \A k \in 1..n : rows[k] = G!Row(a, b, rows[k - 1], k, k)
       /\ rows[n] = chosen[DOMAIN index]
  <2>1. \A k \in 0..n : rows[k] = chosen[1..k]
    OBVIOUS
  <2>2. 0 \in 0..n /\ n \in 0..n /\ \A k \in 1..n : k \in 0..n /\ k - 1 \in 0..n
    BY <1>1
  <2> HIDE DEF rows
  <2> QED
    BY <1>1, <1>10, <2>1, <2>2
<1> HIDE DEF rows
<1> QED
  BY <1>2, <1>11 DEF n, base, IsTableLoop

\* edit_distance is the last entry of the table of its two texts.
LEMMA DistanceTable ==
    ASSUME NEW A, NEW a \in Seq(A), NEW b \in Seq(A)
    PROVE  \E e : IsTable(e, a, b) /\ G!edit_distance(a, b) = e[Len(a), Len(b)]
<1>0. PICK rows : IsTableLoop(rows, a, b)
  BY TableLoop
<1> DEFINE n == Len(a)
           m == Len(b)
           Good(k) == rows[k] \in Rows(m)
           T == {k \in Nat : k <= n => Good(k)}
           e == [x \in (0..n) \X (0..m) |-> rows[x[1]][x[2] + 1]]
<1>1. /\ rows[0] = FirstRow(m) /\ G!edit_distance(a, b) = rows[n][Len(rows[n])]
      /\ \A k \in 1..n : rows[k] = G!Row(a, b, rows[k - 1], k, k)
  BY <1>0 DEF IsTableLoop
<1>2. n \in Nat /\ m \in Nat /\ 0 \in 0..n /\ n \in 0..n /\ 0 \in 0..m /\ m \in 0..m
  OBVIOUS
<1>3. FirstRow(m) \in Rows(m) /\ \A prev \in Rows(m), i \in 1..n : G!Row(a, b, prev, i, i) \in Rows(m)
  BY RowType
<1>4. ASSUME NEW prev \in Rows(m), NEW i \in 1..n
      PROVE  LET r == G!Row(a, b, prev, i, i)
             IN  r[1] = i /\ \A j \in 1..m : r[j + 1] = Min({prev[j + 1] + 1, r[j] + 1, prev[j] + Cost(a[i], b[j])})
  <2>1. i \in Nat
    OBVIOUS
  <2> QED
    BY <2>1, RowIs
<1> HIDE DEF n, m
<1>5. T = Nat
  <2>1. T \in SUBSET Nat /\ 0 \in T
    BY <1>1, <1>3
  <2>2. ASSUME NEW k \in T PROVE k + 1 \in T
    <3>1. k \in Nat /\ k + 1 \in Nat
      OBVIOUS
    <3>2. ASSUME k + 1 <= n PROVE Good(k + 1)
      <4>1. k + 1 \in 1..n /\ (k + 1) - 1 = k /\ k <= n
        BY <1>2, <3>1, <3>2
      <4>2. rows[k + 1] = G!Row(a, b, rows[k], k + 1, k + 1)
        BY <1>1, <4>1
      <4> QED
        BY <1>3, <4>1, <4>2
    <3> QED
      BY <3>1, <3>2
  <2> HIDE DEF T
  <2> QED
    BY <2>1, <2>2, InductiveSet
<1>6. \A k \in 0..n : rows[k] \in Rows(m)
  <2> SUFFICES ASSUME NEW k \in 0..n PROVE rows[k] \in Rows(m)
    OBVIOUS
  <2>1. k \in Nat /\ k <= n
    BY <1>2
  <2> QED
    BY <1>5, <2>1
<1>7. \A i \in 0..n, j \in 0..m : e[i, j] = rows[i][j + 1]
  OBVIOUS
<1>8. e \in [(0..n) \X (0..m) -> Nat]
  <2>1. ASSUME NEW i \in 0..n, NEW j \in 0..m PROVE rows[i][j + 1] \in Nat
    <3>1. rows[i] \in Seq(Nat) /\ Len(rows[i]) = m + 1
      BY <1>6 DEF Rows
    <3>2. j + 1 \in 1..Len(rows[i])
      BY <1>2, <3>1
    <3> QED
      BY <3>1, <3>2, ElementOfSeq
  <2> QED
    BY <2>1
<1> HIDE DEF e, T
<1>9. ASSUME NEW j \in 0..m PROVE e[0, j] = j
  <2>1. j + 1 \in 1..(m + 1) /\ (j + 1) - 1 = j
    BY <1>2
  <2>2. FirstRow(m)[j + 1] = j
    BY <2>1 DEF FirstRow
  <2> QED
    BY <1>1, <1>2, <1>7, <2>2
<1>10. ASSUME NEW i \in 1..n
       PROVE  /\ rows[i][1] = i /\ i \in 0..n /\ i - 1 \in 0..n
              /\ \A j \in 1..m : rows[i][j + 1] = Min({rows[i - 1][j + 1] + 1, rows[i][j] + 1, rows[i - 1][j] + Cost(a[i], b[j])})
  <2>1. i - 1 \in 0..n /\ i \in 0..n
    BY <1>2
  <2>2. rows[i - 1] \in Rows(m)
    BY <1>6, <2>1
  <2>3. rows[i] = G!Row(a, b, rows[i - 1], i, i)
    BY <1>1
  <2> QED
    BY <1>4, <2>1, <2>2, <2>3
<1>11. ASSUME NEW i \in 0..n PROVE e[i, 0] = i
  <2>1. e[i, 0] = rows[i][1]
    <3>1. 0 + 1 = 1
      OBVIOUS
    <3> QED
      BY <1>2, <1>7, <3>1
  <2>2. CASE i = 0
    BY <1>2, <1>9, <2>2
  <2>3. CASE i # 0
    <3>1. i \in 1..n
      BY <1>2, <2>3
    <3> QED
      BY <1>10, <2>1, <3>1
  <2> QED
    BY <2>2, <2>3
<1>12. ASSUME NEW i \in 1..n, NEW j \in 1..m
       PROVE  e[i, j] = Min({e[i - 1, j] + 1, e[i, j - 1] + 1, e[i - 1, j - 1] + Cost(a[i], b[j])})
  <2>1. j \in 0..m /\ j - 1 \in 0..m /\ (j - 1) + 1 = j
    BY <1>2
  <2>2. i \in 0..n /\ i - 1 \in 0..n
    BY <1>10
  <2>3. e[i, j] = rows[i][j + 1] /\ e[i - 1, j] = rows[i - 1][j + 1]
    BY <1>7, <2>1, <2>2
  <2>4. e[i, j - 1] = rows[i][j] /\ e[i - 1, j - 1] = rows[i - 1][j]
    BY <1>7, <2>1, <2>2
  <2> QED
    BY <1>10, <2>3, <2>4
<1>13. IsTable(e, a, b)
  BY <1>8, <1>9, <1>11, <1>12 DEF IsTable, n, m
<1>14. G!edit_distance(a, b) = e[n, m]
  <2>1. Len(rows[n]) = m + 1
    BY <1>2, <1>6 DEF Rows
  <2> QED
    BY <1>1, <1>2, <1>7, <2>1
<1> QED
  BY <1>13, <1>14 DEF n, m

\* Nothing apart are equal texts, one apart those that differ by one letter.
LEMMA DistanceIs ==
    ASSUME NEW A, NEW a \in Seq(A), NEW b \in Seq(A)
    PROVE  /\ G!edit_distance(a, b) \in Nat
           /\ G!edit_distance(a, b) <= 0 <=> a = b
           /\ G!edit_distance(a, b) <= 1 <=> OneApart(a, b, Len(a), Len(b))
<1>1. PICK e : IsTable(e, a, b) /\ G!edit_distance(a, b) = e[Len(a), Len(b)]
  BY DistanceTable
<1>2. Len(a) \in Nat /\ Len(b) \in Nat /\ Len(a) \in 0..Len(a) /\ Len(b) \in 0..Len(b)
  OBVIOUS
<1>3. e[Len(a), Len(b)] \in Nat
  BY <1>1, <1>2 DEF IsTable
<1>4. /\ e[Len(a), Len(b)] <= 0 <=> Equal(a, b, Len(a), Len(b))
      /\ e[Len(a), Len(b)] <= 1 <=> OneApart(a, b, Len(a), Len(b))
  BY <1>1, <1>2, NearInTable
<1>5. Equal(a, b, Len(a), Len(b)) <=> a = b
  <2>1. Equal(a, b, Len(a), Len(b)) => a = b
    BY SeqEqual DEF Equal
  <2>2. a = b => Equal(a, b, Len(a), Len(b))
    BY DEF Equal
  <2> QED
    BY <2>1, <2>2
<1> QED
  BY <1>1, <1>3, <1>4, <1>5

\* What is left when one letter is left out.
LEMMA RemoveAtIs ==
    ASSUME NEW A, NEW s \in Seq(A), NEW i \in 1..Len(s)
    PROVE  LET r == G!RemoveAt(s, i)
           IN  /\ r \in Seq(A) /\ Len(r) = Len(s) - 1
               /\ \A k \in 1..(Len(s) - 1) : r[k] = IF k < i THEN s[k] ELSE s[k + 1]
<1> DEFINE n == Len(s)
           p == SubSeq(s, 1, i - 1)
           q == SubSeq(s, i + 1, n)
<1>1. n \in Nat /\ i \in Nat /\ 1 <= i /\ i <= n
  OBVIOUS
<1>2. p \in Seq(A) /\ Len(p) = i - 1 /\ \A k \in 1..(i - 1) : p[k] = s[k]
  <2>1. i - 1 \in 0..n /\ 1 \in Int
    BY <1>1
  <2>2. \A k \in 1..(i - 1) : 1 + k - 1 = k
    BY <1>1
  <2>3. IF 1 <= i - 1 THEN i - 1 - 1 + 1 = i - 1 ELSE i - 1 = 0
    BY <1>1
  <2>4. \A k \in 1..(i - 1) : s[k] \in A
    BY <1>1, ElementOfSeq
  <2> DEFINE l == i - 1
  <2>5. l \in Int /\ 1 \in Int /\ l - 1 + 1 = l
    BY <1>1
  <2> HIDE DEF l
  <2>6. /\ SubSeq(s, 1, l) \in Seq(A) /\ Len(SubSeq(s, 1, l)) = IF 1 <= l THEN l - 1 + 1 ELSE 0
        /\ \A k \in 1..l - 1 + 1 : SubSeq(s, 1, l)[k] = s[1 + k - 1]
    BY <2>4, <2>5, SubSeqProperties DEF l
  <2> QED
    BY <2>2, <2>3, <2>5, <2>6 DEF l
<1>3. q \in Seq(A) /\ Len(q) = n - i /\ \A k \in 1..(n - i) : q[k] = s[i + k]
  <2>1. i + 1 \in 1..(n + 1) /\ n \in 0..n /\ n - (i + 1) + 1 = n - i
    BY <1>1
  <2>2. \A k \in 1..(n - i) : (i + 1) + k - 1 = i + k
    BY <1>1
  <2>3. \A k \in (i + 1)..n : s[k] \in A
    BY <1>1, ElementOfSeq
  <2> DEFINE l == i + 1
  <2>4. l \in Int /\ n \in Int /\ n - l + 1 = n - i /\ (IF l <= n THEN n - l + 1 ELSE 0) = n - i
    BY <1>1
  <2> HIDE DEF l
  <2>5. \A k \in l..n : s[k] \in A
    BY <2>3 DEF l
  <2>6. q = SubSeq(s, l, n)
    BY DEF l
  <2> HIDE DEF q, n
  <2>7. /\ q \in Seq(A) /\ Len(q) = IF l <= n THEN n - l + 1 ELSE 0
        /\ \A k \in 1..n - l + 1 : q[k] = s[l + k - 1]
    BY <2>4, <2>5, <2>6, SubSeqProperties
  <2>8. Len(q) = n - i
    BY <2>4, <2>7
  <2>9. ASSUME NEW k \in 1..(n - i) PROVE q[k] = s[i + k]
    <3>1. k \in 1..n - l + 1 /\ l + k - 1 = i + k
      BY <2>2, <2>4 DEF l
    <3> QED
      BY <2>7, <3>1
  <2> QED
    BY <2>7, <2>8, <2>9
<1> DEFINE r == G!RemoveAt(s, i)
<1>4. r = p \o q
  BY DEF G!RemoveAt
<1> HIDE DEF p, q, n, r
<1>5. r \in Seq(A) /\ Len(r) = n - 1
  <2>1. r \in Seq(A) /\ Len(r) = Len(p) + Len(q)
    BY <1>2, <1>3, <1>4, ConcatProperties
  <2>2. (i - 1) + (n - i) = n - 1
    BY <1>1
  <2> QED
    BY <1>2, <1>3, <2>1, <2>2
<1>6. ASSUME NEW k \in 1..(n - 1) PROVE r[k] = IF k < i THEN s[k] ELSE s[k + 1]
  <2>1. k \in 1..(Len(p) + Len(q))
    BY <1>1, <1>2, <1>3
  <2>2. r[k] = IF k <= Len(p) THEN p[k] ELSE q[k - Len(p)]
    BY <1>2, <1>3, <1>4, <2>1, ConcatProperties
  <2>3. CASE k < i
    <3>1. k <= Len(p) /\ k \in 1..(i - 1)
      BY <1>1, <1>2, <2>3
    <3> QED
      BY <1>2, <2>2, <2>3, <3>1
  <2>4. CASE ~ (k < i)
    <3>1. ~ (k <= Len(p)) /\ k - Len(p) \in 1..(n - i) /\ i + (k - Len(p)) = k + 1
      BY <1>1, <1>2, <2>4
    <3> QED
      BY <1>3, <2>2, <2>4, <3>1
  <2> QED
    BY <2>3, <2>4
<1> QED
  BY <1>5, <1>6 DEF n, r

\* A letter as it is compared.
Small(x) == IF x \in DOMAIN G!Capitals THEN G!Capitals[x] ELSE x
SmallLetters(A) == {Small(x) : x \in A}

\* A name in small letters.
LEMMA LowerIs ==
    ASSUME NEW A, NEW s \in Seq(A)
    PROVE  /\ G!Lower(s) \in Seq(SmallLetters(A)) /\ Len(G!Lower(s)) = Len(s)
           /\ \A k \in 1..Len(s) : G!Lower(s)[k] = Small(s[k])
<1>1. G!Lower(s) = [k \in 1..Len(s) |-> Small(s[k])]
  BY DEF G!Lower, Small
<1>2. Len(s) \in Nat /\ \A k \in 1..Len(s) : Small(s[k]) \in SmallLetters(A)
  BY ElementOfSeq DEF SmallLetters
<1> QED
  BY <1>1, <1>2

\* A letter may be left out before or after.
LEMMA LowerOfRemoved ==
    ASSUME NEW A, NEW s \in Seq(A), NEW i \in 1..Len(s)
    PROVE  G!Lower(G!RemoveAt(s, i)) = G!RemoveAt(G!Lower(s), i)
<1> DEFINE Bs == SmallLetters(A)
           r == G!RemoveAt(s, i)
           low == G!Lower(s)
           x == G!Lower(r)
           y == G!RemoveAt(low, i)
<1>1. r \in Seq(A) /\ Len(r) = Len(s) - 1 /\ \A k \in 1..(Len(s) - 1) : r[k] = IF k < i THEN s[k] ELSE s[k + 1]
  BY RemoveAtIs
<1>2. low \in Seq(Bs) /\ Len(low) = Len(s) /\ \A k \in 1..Len(s) : low[k] = Small(s[k])
  BY LowerIs
<1>3. x \in Seq(Bs) /\ Len(x) = Len(s) - 1 /\ \A k \in 1..(Len(s) - 1) : x[k] = Small(r[k])
  <2> HIDE DEF r
  <2> QED
    BY <1>1, LowerIs
<1>4. y \in Seq(Bs) /\ Len(y) = Len(s) - 1 /\ \A k \in 1..(Len(s) - 1) : y[k] = IF k < i THEN low[k] ELSE low[k + 1]
  <2> HIDE DEF low, Bs
  <2> QED
    BY <1>2, RemoveAtIs
<1> HIDE DEF Bs, r, low, x, y
<1>5. ASSUME NEW k \in 1..Len(x) PROVE x[k] = y[k]
  <2>1. k \in 1..(Len(s) - 1) /\ k \in 1..Len(s) /\ k + 1 \in 1..Len(s)
    BY <1>3
  <2>2. x[k] = Small(r[k]) /\ low[k] = Small(s[k]) /\ low[k + 1] = Small(s[k + 1])
    BY <1>2, <1>3, <2>1
  <2>3. CASE k < i
    BY <1>1, <1>4, <2>1, <2>2, <2>3
  <2>4. CASE ~ (k < i)
    BY <1>1, <1>4, <2>1, <2>2, <2>4
  <2> QED
    BY <2>3, <2>4
<1>6. x = y
  BY <1>3, <1>4, <1>5, SeqEqual
<1> QED
  BY <1>6 DEF x, y, r, low

\* One text is the other less a letter.
LEMMA RemovedIs ==
    ASSUME NEW A, NEW a \in Seq(A), NEW b \in Seq(A), NEW i \in 1..Len(a)
    PROVE  G!RemoveAt(a, i) = b <=>
               Len(a) = Len(b) + 1 /\ (\A k \in 1..(i - 1) : a[k] = b[k]) /\ \A k \in i..Len(b) : a[k + 1] = b[k]
<1> DEFINE r == G!RemoveAt(a, i)
           Like == Len(a) = Len(b) + 1 /\ (\A k \in 1..(i - 1) : a[k] = b[k]) /\ \A k \in i..Len(b) : a[k + 1] = b[k]
<1>1. r \in Seq(A) /\ Len(r) = Len(a) - 1 /\ \A k \in 1..(Len(a) - 1) : r[k] = IF k < i THEN a[k] ELSE a[k + 1]
  BY RemoveAtIs
<1>2. Len(a) \in Nat /\ Len(b) \in Nat /\ i \in Nat /\ 1 <= i /\ i <= Len(a)
  OBVIOUS
<1> HIDE DEF r
<1>3. ASSUME r = b PROVE Like
  <2>1. Len(a) = Len(b) + 1
    BY <1>1, <1>2, <1>3
  <2>2. ASSUME NEW k \in 1..(i - 1) PROVE a[k] = b[k]
    <3>1. k \in 1..(Len(a) - 1) /\ k < i
      BY <1>2
    <3> QED
      BY <1>1, <1>3, <3>1
  <2>3. ASSUME NEW k \in i..Len(b) PROVE a[k + 1] = b[k]
    <3>1. k \in 1..(Len(a) - 1) /\ ~ (k < i)
      BY <1>2, <2>1
    <3> QED
      BY <1>1, <1>3, <3>1
  <2> QED
    BY <2>1, <2>2, <2>3
<1>4. ASSUME Like PROVE r = b
  <2>1. ASSUME NEW k \in 1..Len(r) PROVE r[k] = b[k]
    <3>1. k \in 1..(Len(a) - 1) /\ k \in 1..Len(b)
      BY <1>1, <1>2, <1>4
    <3>2. CASE k < i
      <4>1. k \in 1..(i - 1)
        BY <1>2, <3>2
      <4> QED
        BY <1>1, <1>4, <3>1, <3>2, <4>1
    <3>3. CASE ~ (k < i)
      <4>1. k \in i..Len(b)
        BY <1>2, <3>1, <3>3
      <4> QED
        BY <1>1, <1>4, <3>1, <3>3, <4>1
    <3> QED
      BY <3>2, <3>3
  <2>2. Len(r) = Len(b)
    BY <1>1, <1>2, <1>4
  <2> QED
    BY <1>1, <2>1, <2>2, SeqEqual
<1> QED
  BY <1>3, <1>4 DEF r

\* Two texts are the same less the same letter.
LEMMA BothRemoved ==
    ASSUME NEW A, NEW a \in Seq(A), NEW b \in Seq(A), Len(a) = Len(b), NEW i \in 1..Len(a)
    PROVE  G!RemoveAt(a, i) = G!RemoveAt(b, i) <=> \A k \in 1..Len(a) : k # i => a[k] = b[k]
<1> DEFINE r == G!RemoveAt(b, i)
<1>1. r \in Seq(A) /\ Len(r) = Len(a) - 1 /\ \A k \in 1..(Len(a) - 1) : r[k] = IF k < i THEN b[k] ELSE b[k + 1]
  BY RemoveAtIs
<1> HIDE DEF r
<1>2. Len(a) \in Nat /\ i \in Nat /\ 1 <= i /\ i <= Len(a)
  OBVIOUS
<1>3. G!RemoveAt(a, i) = r <=>
          Len(a) = Len(r) + 1 /\ (\A k \in 1..(i - 1) : a[k] = r[k]) /\ \A k \in i..Len(r) : a[k + 1] = r[k]
  BY <1>1, RemovedIs
<1>4. ASSUME G!RemoveAt(a, i) = r, NEW k \in 1..Len(a), k # i PROVE a[k] = b[k]
  <2>1. CASE k < i
    <3>1. k \in 1..(i - 1) /\ k \in 1..(Len(a) - 1)
      BY <1>2, <2>1
    <3> QED
      BY <1>1, <1>3, <1>4, <2>1, <3>1
  <2>2. CASE ~ (k < i)
    <3>1. k - 1 \in i..Len(r) /\ k - 1 \in 1..(Len(a) - 1) /\ (k - 1) + 1 = k /\ ~ (k - 1 < i)
      BY <1>1, <1>2, <1>4, <2>2
    <3> QED
      BY <1>1, <1>3, <1>4, <3>1
  <2> QED
    BY <2>1, <2>2
<1>5. ASSUME \A k \in 1..Len(a) : k # i => a[k] = b[k] PROVE G!RemoveAt(a, i) = r
  <2>1. Len(a) = Len(r) + 1
    BY <1>1, <1>2
  <2>2. ASSUME NEW k \in 1..(i - 1) PROVE a[k] = r[k]
    <3>1. k \in 1..Len(a) /\ k # i /\ k < i /\ k \in 1..(Len(a) - 1)
      BY <1>2
    <3> QED
      BY <1>1, <1>5, <3>1
  <2>3. ASSUME NEW k \in i..Len(r) PROVE a[k + 1] = r[k]
    <3>1. k + 1 \in 1..Len(a) /\ k + 1 # i /\ ~ (k < i) /\ k \in 1..(Len(a) - 1)
      BY <1>1, <1>2
    <3> QED
      BY <1>1, <1>5, <3>1
  <2> QED
    BY <1>3, <2>1, <2>2, <2>3
<1> QED
  BY <1>4, <1>5 DEF r

\* Names that capitals, or a letter too many, too few or wrong, tell apart, and no others,
\* are at most one apart.
LEMMA NearIsApart ==
    ASSUME NEW A, NEW s \in Seq(A), NEW t \in Seq(A)
    PROVE  /\ G!edit_distance(G!Lower(s), G!Lower(t)) \in Nat
           /\ G!edit_distance(G!Lower(s), G!Lower(t)) <= 0 <=> G!Same(s, t)
           /\ G!edit_distance(G!Lower(s), G!Lower(t)) <= 1 <=> G!Same(s, t) \/ G!Slip(s, t)
<1> DEFINE Bs == SmallLetters(A)
           a == G!Lower(s)
           b == G!Lower(t)
<1>1. a \in Seq(Bs) /\ Len(a) = Len(s) /\ b \in Seq(Bs) /\ Len(b) = Len(t)
  BY LowerIs
<1>2. Len(a) \in Nat /\ Len(b) \in Nat
  BY <1>1
<1>3. G!Same(s, t) <=> a = b
  BY DEF G!Same
<1>4. (\E i \in DOMAIN s : G!Same(G!RemoveAt(s, i), t)) <=> OneTooMany(a, b, Len(a), Len(b))
  <2>1. \A i \in DOMAIN s : i \in 1..Len(a) /\ (G!Same(G!RemoveAt(s, i), t) <=> G!RemoveAt(a, i) = b)
    BY <1>1, LowerOfRemoved DEF G!Same
  <2>2. DOMAIN s = 1..Len(a)
    BY <1>1
  <2> HIDE DEF a, b, Bs
  <2>3. ASSUME NEW i \in 1..Len(a)
        PROVE  G!RemoveAt(a, i) = b <=>
                   Len(a) = Len(b) + 1 /\ (\A k \in 1..(i - 1) : a[k] = b[k]) /\ \A k \in i..Len(b) : a[k + 1] = b[k]
    BY <1>1, RemovedIs
  <2>4. (\E i \in 1..Len(a) : G!RemoveAt(a, i) = b) <=> OneTooMany(a, b, Len(a), Len(b))
    BY <2>3 DEF OneTooMany
  <2> QED
    BY <2>1, <2>2, <2>4
<1>5. (\E i \in DOMAIN t : G!Same(s, G!RemoveAt(t, i))) <=> OneTooMany(b, a, Len(b), Len(a))
  <2>1. \A i \in DOMAIN t : i \in 1..Len(b) /\ (G!Same(s, G!RemoveAt(t, i)) <=> G!RemoveAt(b, i) = a)
    BY <1>1, LowerOfRemoved DEF G!Same
  <2>2. DOMAIN t = 1..Len(b)
    BY <1>1
  <2> HIDE DEF a, b, Bs
  <2>3. ASSUME NEW i \in 1..Len(b)
        PROVE  G!RemoveAt(b, i) = a <=>
                   Len(b) = Len(a) + 1 /\ (\A k \in 1..(i - 1) : b[k] = a[k]) /\ \A k \in i..Len(a) : b[k + 1] = a[k]
    BY <1>1, RemovedIs
  <2>4. (\E i \in 1..Len(b) : G!RemoveAt(b, i) = a) <=> OneTooMany(b, a, Len(b), Len(a))
    BY <2>3 DEF OneTooMany
  <2> QED
    BY <2>1, <2>2, <2>4
<1>6. (Len(s) = Len(t) /\ \E i \in DOMAIN s : ~G!Same(s, t) /\ G!Same(G!RemoveAt(s, i), G!RemoveAt(t, i))) <=>
          a # b /\ OneWrong(a, b, Len(a), Len(b))
  <2>1. ASSUME Len(s) = Len(t), NEW i \in DOMAIN s
        PROVE  i \in 1..Len(a) /\ (G!Same(G!RemoveAt(s, i), G!RemoveAt(t, i)) <=> \A k \in 1..Len(a) : k # i => a[k] = b[k])
    <3>1. i \in 1..Len(s) /\ i \in 1..Len(t) /\ i \in 1..Len(a) /\ Len(a) = Len(b)
      BY <1>1, <2>1
    <3>2. G!Same(G!RemoveAt(s, i), G!RemoveAt(t, i)) <=> G!RemoveAt(a, i) = G!RemoveAt(b, i)
      BY <3>1, LowerOfRemoved DEF G!Same
    <3> HIDE DEF a, b, Bs
    <3>3. G!RemoveAt(a, i) = G!RemoveAt(b, i) <=> \A k \in 1..Len(a) : k # i => a[k] = b[k]
      BY <1>1, <3>1, BothRemoved
    <3> QED
      BY <3>1, <3>2, <3>3
  <2>2. DOMAIN s = 1..Len(a)
    BY <1>1
  <2> HIDE DEF a, b, Bs
  <2> QED
    BY <1>1, <1>3, <2>1, <2>2 DEF OneWrong
<1> HIDE DEF a, b, Bs
<1>7. /\ G!edit_distance(a, b) \in Nat
      /\ G!edit_distance(a, b) <= 0 <=> a = b
      /\ G!edit_distance(a, b) <= 1 <=> OneApart(a, b, Len(a), Len(b))
  BY <1>1, DistanceIs
<1>8. a = b <=> Equal(a, b, Len(a), Len(b))
  <2>1. Equal(a, b, Len(a), Len(b)) => a = b
    BY <1>1, SeqEqual DEF Equal
  <2>2. a = b => Equal(a, b, Len(a), Len(b))
    BY DEF Equal
  <2> QED
    BY <2>1, <2>2
<1>9. OneApart(a, b, Len(a), Len(b)) <=> G!Same(s, t) \/ G!Slip(s, t)
  BY <1>3, <1>4, <1>5, <1>6, <1>8 DEF OneApart, G!Slip
<1> QED
  BY <1>3, <1>7, <1>9 DEF a, b

\* A place of a letter in the alphabet.
PlaceOf(letter) == CHOOSE i \in DOMAIN Alphabet : Alphabet[i] = letter
\* A place of a text in the order of letters, 0 beyond its end.
Rank(s, k) == IF k <= Len(s) THEN PlaceOf(s[k]) ELSE 0
Lexically(s, t) == \E k \in Nat \ {0} : (\A i \in 1..(k - 1) : Rank(s, i) = Rank(t, i)) /\ Rank(s, k) < Rank(t, k)

\* A letter has its place, and no other letter has it.
LEMMA RankIs ==
    ASSUME G!Spelt, NEW s \in G!Words
    PROVE  /\ \A k \in Nat \ {0} : Rank(s, k) \in Nat
           /\ \A k \in 1..Len(s) : Rank(s, k) = PlaceOf(s[k]) /\ Rank(s, k) > 0 /\ Alphabet[Rank(s, k)] = s[k]
<1> DEFINE Letters == G!Range(Alphabet)
<1>1. Alphabet \in Seq(Letters) /\ s \in Seq(Letters) /\ Len(s) \in Nat
  BY DEF G!Spelt, G!Words
<1>2. ASSUME NEW x \in Letters PROVE PlaceOf(x) \in 1..Len(Alphabet) /\ Alphabet[PlaceOf(x)] = x
  <2>1. \E i \in DOMAIN Alphabet : Alphabet[i] = x
    BY DEF G!Range
  <2>2. PlaceOf(x) \in DOMAIN Alphabet /\ Alphabet[PlaceOf(x)] = x
    BY <2>1 DEF PlaceOf
  <2> HIDE DEF Letters
  <2> QED
    BY <1>1, <2>2
<1> HIDE DEF Letters
<1>3. ASSUME NEW k \in 1..Len(s)
      PROVE  Rank(s, k) = PlaceOf(s[k]) /\ Rank(s, k) \in Nat /\ Rank(s, k) > 0 /\ Alphabet[Rank(s, k)] = s[k]
  <2>1. s[k] \in Letters /\ k <= Len(s)
    BY <1>1, ElementOfSeq
  <2>2. Rank(s, k) = PlaceOf(s[k])
    BY <2>1 DEF Rank
  <2> QED
    BY <1>2, <2>1, <2>2
<1>4. ASSUME NEW k \in Nat \ {0} PROVE Rank(s, k) \in Nat
  <2>1. CASE k <= Len(s)
    <3>1. k \in 1..Len(s)
      BY <1>1, <2>1
    <3> QED
      BY <1>3, <3>1
  <2>2. CASE ~ (k <= Len(s))
    BY <2>2 DEF Rank
  <2> QED
    BY <2>1, <2>2
<1> QED
  BY <1>3, <1>4

\* Precedes is the order of the letters' places, text by text.
LEMMA PrecedesIs ==
    ASSUME G!Spelt, NEW s \in G!Words, NEW t \in G!Words
    PROVE  G!Precedes(s, t) <=> Lexically(s, t)
<1> DEFINE differ == {i \in DOMAIN s \intersect DOMAIN t : s[i] # t[i]}
           first == Min(differ)
<1>1. /\ DOMAIN s = 1..Len(s) /\ Len(s) \in Nat /\ DOMAIN t = 1..Len(t) /\ Len(t) \in Nat
      /\ \A i : i \in differ <=> i \in 1..Len(s) /\ i \in 1..Len(t) /\ s[i] # t[i]
  BY DEF G!Words
<1>2. G!Precedes(s, t) <=> IF differ = {} THEN Len(s) < Len(t) ELSE PlaceOf(s[first]) < PlaceOf(t[first])
  <2>1. G!Min(differ) = first
    <3> HIDE DEF differ
    <3> QED
      BY NamesLibrary
  <2> QED
    BY <2>1 DEF G!Precedes, PlaceOf
<1>3. differ # {} => first \in differ /\ \A i \in differ : first <= i
  <2>1. differ \in SUBSET Nat
    BY <1>1
  <2> HIDE DEF differ
  <2> QED
    BY <2>1, MinIsLeast
<1>4. /\ \A k \in Nat \ {0} : Rank(s, k) \in Nat /\ Rank(t, k) \in Nat
      /\ \A k \in 1..Len(s) : Rank(s, k) = PlaceOf(s[k]) /\ Rank(s, k) > 0 /\ Alphabet[Rank(s, k)] = s[k]
      /\ \A k \in 1..Len(t) : Rank(t, k) = PlaceOf(t[k]) /\ Rank(t, k) > 0 /\ Alphabet[Rank(t, k)] = t[k]
  BY RankIs
<1>5. \A k \in Nat : /\ k > Len(s) => Rank(s, k) = 0
                     /\ k > Len(t) => Rank(t, k) = 0
  BY <1>1 DEF Rank
<1> HIDE DEF differ, first
<1>6. ASSUME NEW i \in 1..Len(s), i \in 1..Len(t) PROVE i \in differ <=> Rank(s, i) # Rank(t, i)
  <2>1. i \in differ <=> s[i] # t[i]
    BY <1>1, <1>6
  <2>2. Rank(s, i) = PlaceOf(s[i]) /\ Rank(t, i) = PlaceOf(t[i]) /\ Alphabet[Rank(s, i)] = s[i] /\ Alphabet[Rank(t, i)] = t[i]
    BY <1>4, <1>6
  <2> QED
    BY <2>1, <2>2
<1>7. ASSUME G!Precedes(s, t) PROVE Lexically(s, t)
  <2>1. CASE differ = {}
    <3> DEFINE k == Len(s) + 1
    <3>1. Len(s) < Len(t) /\ k \in Nat \ {0} /\ k \in 1..Len(t) /\ k > Len(s)
      BY <1>1, <1>2, <1>7, <2>1
    <3>2. ASSUME NEW i \in 1..(k - 1) PROVE Rank(s, i) = Rank(t, i)
      <4>1. i \in 1..Len(s) /\ i \in 1..Len(t)
        BY <1>1, <3>1
      <4> QED
        BY <1>6, <2>1, <4>1
    <3>3. Rank(s, k) = 0 /\ Rank(t, k) > 0
      BY <1>4, <1>5, <3>1
    <3>4. Rank(s, k) < Rank(t, k)
      BY <1>4, <3>1, <3>3
    <3> HIDE DEF k
    <3> QED
      BY <3>1, <3>2, <3>4 DEF Lexically
  <2>2. CASE differ # {}
    <3>1. first \in 1..Len(s) /\ first \in 1..Len(t) /\ first \in Nat \ {0}
      BY <1>1, <1>3, <2>2
    <3>2. PlaceOf(s[first]) < PlaceOf(t[first])
      BY <1>2, <1>7, <2>2
    <3>3. Rank(s, first) < Rank(t, first)
      BY <1>4, <3>1, <3>2
    <3>4. ASSUME NEW i \in 1..(first - 1) PROVE Rank(s, i) = Rank(t, i)
      <4>1. i \in 1..Len(s) /\ i \in 1..Len(t) /\ ~ (first <= i)
        BY <1>1, <3>1
      <4>2. i \notin differ
        BY <1>3, <2>2, <4>1
      <4> QED
        BY <1>6, <4>1, <4>2
    <3> QED
      BY <3>1, <3>3, <3>4 DEF Lexically
  <2> QED
    BY <2>1, <2>2
<1>8. ASSUME Lexically(s, t) PROVE G!Precedes(s, t)
  <2>1. PICK k \in Nat \ {0} : (\A i \in 1..(k - 1) : Rank(s, i) = Rank(t, i)) /\ Rank(s, k) < Rank(t, k)
    BY <1>8 DEF Lexically
  <2>2. Rank(s, k) \in Nat /\ Rank(t, k) \in Nat
    BY <1>4
  <2>3. k <= Len(t)
    BY <1>1, <1>5, <2>1, <2>2
  <2>4. \A i \in differ : k <= i
    <3> SUFFICES ASSUME NEW i \in differ, ~ (k <= i) PROVE FALSE
      OBVIOUS
    <3>1. i \in 1..Len(s) /\ i \in 1..Len(t) /\ i \in 1..(k - 1)
      BY <1>1
    <3> QED
      BY <1>6, <2>1, <3>1
  <2>5. CASE k <= Len(s)
    <3>1. k \in 1..Len(s) /\ k \in 1..Len(t)
      BY <1>1, <2>3, <2>5
    <3>2. k \in differ
      BY <1>6, <2>1, <2>2, <3>1
    <3>3. first = k
      <4>1. first \in differ /\ first <= k /\ k <= first /\ first \in Nat
        BY <1>1, <1>3, <2>4, <3>2
      <4> QED
        BY <4>1
    <3> QED
      BY <1>2, <1>4, <2>1, <3>1, <3>2, <3>3
  <2>6. CASE ~ (k <= Len(s))
    <3>1. differ = {}
      <4> SUFFICES ASSUME NEW i \in differ PROVE FALSE
        OBVIOUS
      <4>1. i \in Nat /\ i <= Len(s) /\ k <= i
        BY <1>1, <2>4
      <4> QED
        BY <1>1, <2>6, <4>1
    <3>2. Len(s) < Len(t)
      BY <1>1, <2>3, <2>6
    <3> QED
      BY <1>2, <3>1, <3>2
  <2> QED
    BY <2>5, <2>6
<1> QED
  BY <1>7, <1>8

\* It is a strict order.
LEMMA PrecedesInOrder ==
    ASSUME G!Spelt, NEW s \in G!Words, NEW t \in G!Words, NEW u \in G!Words
    PROVE  ~G!Precedes(s, s) /\ (G!Precedes(s, t) /\ G!Precedes(t, u) => G!Precedes(s, u))
<1>1. \A k \in Nat \ {0} : Rank(s, k) \in Nat /\ Rank(t, k) \in Nat /\ Rank(u, k) \in Nat
  BY RankIs
<1>2. ~Lexically(s, s)
  BY <1>1 DEF Lexically
<1>3. ASSUME Lexically(s, t), Lexically(t, u) PROVE Lexically(s, u)
  <2>1. PICK k \in Nat \ {0} : (\A i \in 1..(k - 1) : Rank(s, i) = Rank(t, i)) /\ Rank(s, k) < Rank(t, k)
    BY <1>3 DEF Lexically
  <2>2. PICK l \in Nat \ {0} : (\A i \in 1..(l - 1) : Rank(t, i) = Rank(u, i)) /\ Rank(t, l) < Rank(u, l)
    BY <1>3 DEF Lexically
  <2> DEFINE m == IF k <= l THEN k ELSE l
  <2>3. m \in Nat \ {0} /\ m <= k /\ m <= l
    OBVIOUS
  <2>4. ASSUME NEW i \in 1..(m - 1) PROVE Rank(s, i) = Rank(u, i)
    <3>1. i \in 1..(k - 1) /\ i \in 1..(l - 1)
      BY <2>3
    <3> QED
      BY <2>1, <2>2, <3>1
  <2>5. Rank(s, m) < Rank(u, m)
    <3>1. CASE k = l
      BY <1>1, <2>1, <2>2, <3>1
    <3>2. CASE k < l
      <4>1. k \in 1..(l - 1) /\ m = k
        BY <3>2
      <4> QED
        BY <1>1, <2>1, <2>2, <4>1
    <3>3. CASE l < k
      <4>1. l \in 1..(k - 1) /\ m = l
        BY <3>3
      <4> QED
        BY <1>1, <2>1, <2>2, <4>1
    <3> QED
      BY <3>1, <3>2, <3>3
  <2> HIDE DEF m
  <2> QED
    BY <2>3, <2>4, <2>5 DEF Lexically
<1> QED
  BY <1>2, <1>3, PrecedesIs

\* A candidate with its distance.
IsScored(s) == s.name \in G!Words /\ s.distance \in Nat

\* So is the nearer first, then the earlier.
LEMMA BeforeInOrder ==
    ASSUME G!Spelt, NEW s, NEW t, NEW u, IsScored(s), IsScored(t), IsScored(u)
    PROVE  ~G!Before(s, s) /\ (G!Before(s, t) /\ G!Before(t, u) => G!Before(s, u))
<1>1. ~G!Precedes(s.name, s.name) /\ (G!Precedes(s.name, t.name) /\ G!Precedes(t.name, u.name) => G!Precedes(s.name, u.name))
  BY PrecedesInOrder DEF IsScored
<1>2. s.distance \in Nat /\ t.distance \in Nat /\ u.distance \in Nat
  BY DEF IsScored
<1> QED
  BY <1>1, <1>2 DEF G!Before

\* First is one of them, and nothing comes before it.
LEMMA FirstIs ==
    ASSUME G!Spelt, NEW S, IsFiniteSet(S), S # {}, \A s \in S : IsScored(s)
    PROVE  G!First(S) \in S /\ \A t \in S : ~G!Before(t, G!First(S))
<1> DEFINE order == {p \in S \X S : G!Before(p[1], p[2])}
<1>1. \A s, t \in S : <<s, t>> \in order <=> G!Before(s, t)
  OBVIOUS
<1>2. \A s \in S : <<s, s>> \notin order
  BY <1>1, BeforeInOrder
<1>3. \A s, t, u \in S : <<s, t>> \in order /\ <<t, u>> \in order => <<s, u>> \in order
  BY <1>1, BeforeInOrder
<1> HIDE DEF order
<1>4. \E s \in S : \A t \in S : <<t, s>> \notin order
  BY <1>2, <1>3, FirstExists
<1>5. \E s \in S : \A t \in S : ~G!Before(t, s)
  BY <1>1, <1>4
<1> QED
  BY <1>5 DEF G!First

\* The next that is taken, and all that are taken, one after the other.
Extend(list, S) == Append(list, G!First(S \ G!Range(list)))
IsSorting(sorted, text, candidates) ==
    LET S == G!Close(G!Scored(text, candidates))
    IN  /\ sorted[0] = <<>>
        /\ \A k \in 1..Cardinality(S) : sorted[k] = Extend(sorted[k - 1], S)
        /\ G!best_matches(text, candidates) = sorted[Min({3, Cardinality(S)})]

\* The candidates that are close, one after the other.
LEMMA SortingExists ==
    ASSUME G!Spelt, NEW text \in G!Words, NEW candidates,
           IsFiniteSet(G!Close(G!Scored(text, candidates))),
           \A s \in G!Close(G!Scored(text, candidates)) : IsScored(s)
    PROVE  \E sorted : IsSorting(sorted, text, candidates)
<1> DEFINE S == G!Close(G!Scored(text, candidates))
           n == Cardinality(S)
           U == S \union {G!First({})}
           step == [x \in Seq(U) \X (1..n) |-> Extend(x[1], S)]
           body(f, k) == IF k = 0 THEN <<>> ELSE Append(f[k - 1], G!First(S \ G!Range(f[k - 1])))
           chosen == CHOOSE f : f = [k \in 0..G!Cardinality(S) |-> body(f, k)]
<1>1. G!best_matches(text, candidates) = chosen[G!Min({3, G!Cardinality(S)})]
  BY DEF G!best_matches
<1>2. IsFiniteSet(S) /\ n \in Nat /\ \A s \in S : IsScored(s)
  BY FS_CardinalityType
<1> HIDE DEF S
<1>3. G!Cardinality(S) = n /\ G!Min({3, n}) = Min({3, n})
  BY NamesLibrary
<1> HIDE DEF n
<1>4. step \in [Seq(U) \X (1..n) -> Seq(U)]
  <2> SUFFICES ASSUME NEW list \in Seq(U), NEW k \in 1..n PROVE Extend(list, S) \in Seq(U)
    OBVIOUS
  <2> DEFINE rest == S \ G!Range(list)
  <2>1. G!First(rest) \in U
    <3>1. IsFiniteSet(rest) /\ \A s \in rest : IsScored(s)
      BY <1>2, FS_Subset
    <3>2. rest \subseteq S
      OBVIOUS
    <3> HIDE DEF rest
    <3>3. CASE rest = {}
      BY <3>3
    <3>4. CASE rest # {}
      <4>1. G!First(rest) \in rest
        BY <3>1, <3>4, FirstIs
      <4> QED
        BY <3>2, <4>1
    <3> QED
      BY <3>3, <3>4
  <2> HIDE DEF rest, U
  <2>2. Append(list, G!First(rest)) \in Seq(U)
    BY <2>1, AppendProperties
  <2> QED
    BY <2>2 DEF Extend, rest
<1>5. <<>> \in Seq(U)
  OBVIOUS
<1> HIDE DEF U
<1>6. PICK iter : IsFold(iter, Seq(U), n, <<>>, step)
  <2> HIDE DEF step
  <2> QED
    BY <1>2, <1>4, <1>5, FoldExists
<1> DEFINE f == [k \in 0..n |-> iter[1..k]]
<1>7. f[0] = <<>> /\ \A k \in 1..n : f[k] = Extend(f[k - 1], S)
  <2>1. \A k \in 0..n : f[k] = iter[1..k] /\ 1..k \in SUBSET (1..n)
    BY <1>2
  <2>2. 0 \in 0..n /\ \A k \in 1..n : k \in 0..n /\ k - 1 \in 0..n
    BY <1>2
  <2> HIDE DEF f
  <2>3. f[0] = <<>>
    <3>1. 1..0 = {}
      OBVIOUS
    <3>2. f[0] = iter[{}]
      BY <2>1, <2>2, <3>1
    <3> HIDE DEF step
    <3> QED
      BY <1>6, <3>2 DEF IsFold, Turn
  <2>4. ASSUME NEW k \in 1..n PROVE f[k] = Extend(f[k - 1], S)
    <3>1. k \in Nat \ {0} /\ 1..k # {}
      BY <1>2
    <3>2. Max(1..k) = k /\ (1..k) \ {k} = 1..(k - 1)
      BY <3>1, MaxOfSegment
    <3>3. iter[1..k] = step[<<iter[1..(k - 1)], k>>]
      <4> HIDE DEF step
      <4> QED
        BY <1>6, <2>1, <2>2, <3>1, <3>2 DEF IsFold, Turn
    <3>4. iter[1..(k - 1)] \in Seq(U)
      BY <1>6, <2>1, <2>2 DEF IsFold
    <3>5. iter[1..k] = Extend(iter[1..(k - 1)], S)
      BY <3>3, <3>4
    <3> QED
      BY <2>1, <2>2, <3>5
  <2> QED
    BY <2>3, <2>4
<1>8. f = [k \in 0..n |-> body(f, k)]
  <2>1. ASSUME NEW k \in 0..n PROVE f[k] = body(f, k)
    <3> HIDE DEF f
    <3>1. CASE k = 0
      BY <1>7, <3>1
    <3>2. CASE k # 0
      <4>1. k \in 1..n
        BY <1>2, <3>2
      <4> QED
        BY <1>7, <3>2, <4>1 DEF Extend
    <3> QED
      BY <3>1, <3>2
  <2>2. f = [k \in 0..n |-> f[k]]
    OBVIOUS
  <2> HIDE DEF f, body
  <2> QED
    BY <2>1, <2>2
<1>9. chosen = [k \in 0..n |-> body(chosen, k)]
  <2> HIDE DEF f, body
  <2> QED
    BY <1>3, <1>8
<1>10. chosen[0] = <<>> /\ \A k \in 1..n : chosen[k] = Extend(chosen[k - 1], S)
  <2> HIDE DEF chosen
  <2>1. 0 \in 0..n /\ \A k \in 1..n : k \in 0..n /\ k # 0
    BY <1>2
  <2>2. \A k \in 0..n : chosen[k] = body(chosen, k)
    <3> HIDE DEF body
    <3> QED
      BY <1>9
  <2> QED
    BY <2>1, <2>2 DEF Extend
<1> HIDE DEF chosen
<1> QED
  BY <1>1, <1>3, <1>10 DEF IsSorting, S, n

\* The list is of what there is, in order, and what is left comes before nothing on it.
InOrder(list, S) ==
    /\ list \in Seq(S)
    /\ \A i, j \in 1..Len(list) : i < j => ~G!Before(list[j], list[i])
    /\ \A s \in S \ G!Range(list), i \in 1..Len(list) : ~G!Before(s, list[i])

\* What is on a list made longer.
LEMMA RangeOfAppend ==
    ASSUME NEW S, NEW list \in Seq(S), NEW x
    PROVE  G!Range(Append(list, x)) = G!Range(list) \union {x}
<1> DEFINE n == Len(list)
           more == Append(list, x)
<1>1. n \in Nat /\ DOMAIN list = 1..n /\ DOMAIN more = 1..(n + 1) /\ more[n + 1] = x /\ \A i \in 1..n : more[i] = list[i]
  OBVIOUS
<1> HIDE DEF n, more
<1>2. \A i \in 1..(n + 1) : i \in 1..n \/ i = n + 1
  BY <1>1
<1>3. n + 1 \in 1..(n + 1) /\ \A i \in 1..n : i \in 1..(n + 1)
  BY <1>1
<1>4. \A y : y \in G!Range(more) => y \in G!Range(list) \union {x}
  BY <1>1, <1>2 DEF G!Range
<1>5. \A y : y \in G!Range(list) \union {x} => y \in G!Range(more)
  BY <1>1, <1>3 DEF G!Range
<1> QED
  BY <1>4, <1>5 DEF more

\* The list is still in order with the first of what is left.
LEMMA ExtendIs ==
    ASSUME G!Spelt, NEW S, IsFiniteSet(S), \A s \in S : IsScored(s),
           NEW list, InOrder(list, S), IsFiniteSet(G!Range(list)), S \ G!Range(list) # {}
    PROVE  LET more == Extend(list, S)
           IN  /\ InOrder(more, S) /\ Len(more) = Len(list) + 1
               /\ IsFiniteSet(G!Range(more)) /\ Cardinality(G!Range(more)) = Cardinality(G!Range(list)) + 1
<1> DEFINE rest == S \ G!Range(list)
           x == G!First(rest)
           more == Append(list, x)
           n == Len(list)
<1>1. IsFiniteSet(rest) /\ rest # {} /\ rest \subseteq S /\ \A s \in rest : IsScored(s)
  BY FS_Subset
<1>2. x \in rest /\ \A t \in rest : ~G!Before(t, x)
  <2> HIDE DEF rest
  <2> QED
    BY <1>1, FirstIs
<1>3. Extend(list, S) = more
  BY DEF Extend
<1> HIDE DEF x
<1>4. list \in Seq(S) /\ x \in S /\ x \notin G!Range(list)
  BY <1>2 DEF InOrder
<1>5. n \in Nat /\ more \in Seq(S) /\ Len(more) = n + 1 /\ (\A i \in 1..n : more[i] = list[i]) /\ more[n + 1] = x
  BY <1>4, AppendProperties, LenProperties
<1>6. G!Range(more) = G!Range(list) \union {x}
  BY <1>4, RangeOfAppend
<1>7. IsFiniteSet(G!Range(more)) /\ Cardinality(G!Range(more)) = Cardinality(G!Range(list)) + 1
  BY <1>4, <1>6, FS_AddElement
<1> HIDE DEF more, n
<1>8. ASSUME NEW i \in 1..(n + 1), NEW j \in 1..(n + 1), i < j PROVE ~G!Before(more[j], more[i])
  <2>1. i \in 1..n /\ more[i] = list[i] /\ (j \in 1..n \/ j = n + 1)
    BY <1>5, <1>8
  <2>2. CASE j \in 1..n
    BY <1>5, <1>8, <2>1, <2>2 DEF InOrder, n
  <2>3. CASE j = n + 1
    BY <1>2, <1>5, <2>1, <2>3 DEF InOrder, n
  <2> QED
    BY <2>1, <2>2, <2>3
<1>9. ASSUME NEW s \in S \ G!Range(more), NEW i \in 1..(n + 1) PROVE ~G!Before(s, more[i])
  <2>1. s \in rest
    BY <1>6
  <2>2. CASE i = n + 1
    BY <1>2, <1>5, <2>1, <2>2
  <2>3. CASE i # n + 1
    <3>1. i \in 1..n /\ more[i] = list[i]
      BY <1>5, <2>3
    <3> QED
      BY <2>1, <3>1 DEF InOrder, n
  <2> QED
    BY <2>2, <2>3
<1>10. InOrder(more, S)
  BY <1>5, <1>8, <1>9 DEF InOrder
<1> QED
  BY <1>3, <1>5, <1>7, <1>10 DEF n

\* The three best of what is close, in order, or all of it where it is less.
LEMMA BestAre ==
    ASSUME G!Spelt, NEW text \in G!Words, NEW candidates, NEW S, S = G!Close(G!Scored(text, candidates)),
           IsFiniteSet(S), \A s \in S : IsScored(s)
    PROVE  LET list == G!best_matches(text, candidates)
           IN  InOrder(list, S) /\ Len(list) \in 0..3 /\ (Len(list) < 3 => S \subseteq G!Range(list))
<1>1. PICK sorted : IsSorting(sorted, text, candidates)
  BY SortingExists
<1> DEFINE n == Cardinality(S)
<1>2. /\ n \in Nat /\ sorted[0] = <<>>
      /\ \A k \in 1..n : sorted[k] = Extend(sorted[k - 1], S)
      /\ G!best_matches(text, candidates) = sorted[Min({3, n})]
  BY <1>1, FS_CardinalityType DEF IsSorting
<1> HIDE DEF n
<1> DEFINE Good(k) == /\ InOrder(sorted[k], S) /\ Len(sorted[k]) = k
                      /\ IsFiniteSet(G!Range(sorted[k])) /\ Cardinality(G!Range(sorted[k])) = k
           T == {k \in Nat : k <= n => Good(k)}
<1>3. Good(0)
  <2>1. G!Range(<<>>) = {}
    BY DEF G!Range
  <2>2. InOrder(<<>>, S) /\ Len(<<>>) = 0
    BY DEF InOrder
  <2> QED
    BY <1>2, <2>1, <2>2, FS_EmptySet
<1>4. ASSUME NEW k \in Nat, k + 1 <= n, Good(k) PROVE Good(k + 1)
  <2>1. k + 1 \in 1..n /\ (k + 1) - 1 = k
    BY <1>2, <1>4
  <2>2. sorted[k + 1] = Extend(sorted[k], S)
    BY <1>2, <2>1
  <2>3. S \ G!Range(sorted[k]) # {}
    <3> SUFFICES ASSUME S \subseteq G!Range(sorted[k]) PROVE FALSE
      OBVIOUS
    <3>1. n <= k
      BY <1>4, FS_Subset DEF n
    <3> QED
      BY <1>2, <1>4, <3>1
  <2> DEFINE list == sorted[k]
  <2>4. InOrder(list, S) /\ Len(list) = k /\ IsFiniteSet(G!Range(list)) /\ Cardinality(G!Range(list)) = k /\ S \ G!Range(list) # {}
    BY <1>4, <2>3
  <2> HIDE DEF list
  <2>5. LET more == Extend(list, S)
        IN  /\ InOrder(more, S) /\ Len(more) = Len(list) + 1
            /\ IsFiniteSet(G!Range(more)) /\ Cardinality(G!Range(more)) = Cardinality(G!Range(list)) + 1
    BY <2>4, ExtendIs
  <2> QED
    BY <2>2, <2>4, <2>5 DEF list
<1>5. T = Nat
  <2> HIDE DEF Good
  <2>1. T \in SUBSET Nat /\ 0 \in T
    BY <1>3
  <2>2. ASSUME NEW k \in T PROVE k + 1 \in T
    BY <1>2, <1>4
  <2> HIDE DEF T
  <2> QED
    BY <2>1, <2>2, InductiveSet
<1> DEFINE m == Min({3, n})
<1>6. m \in Nat /\ m <= 3 /\ m <= n /\ (m = 3 \/ m = n)
  <2> DEFINE pair == {3, n}
  <2>1. pair \in SUBSET Nat /\ pair # {} /\ 3 \in pair /\ n \in pair /\ \A x \in pair : x = 3 \/ x = n
    BY <1>2
  <2> HIDE DEF pair
  <2>2. Min(pair) \in pair /\ \A y \in pair : Min(pair) <= y
    BY <2>1, MinIsLeast
  <2> QED
    BY <2>1, <2>2 DEF pair
<1> HIDE DEF m
<1>7. Good(m)
  <2> HIDE DEF Good
  <2> QED
    BY <1>5, <1>6
<1> DEFINE list == G!best_matches(text, candidates)
<1>8. list = sorted[m]
  BY <1>2 DEF m
<1> HIDE DEF list
<1>9. ASSUME Len(list) < 3 PROVE S \subseteq G!Range(list)
  <2>1. m = n
    BY <1>6, <1>7, <1>8, <1>9
  <2>2. Cardinality(G!Range(list)) = Cardinality(S)
    BY <1>7, <1>8, <2>1 DEF n
  <2>3. G!Range(list) \in SUBSET S
    <3>1. list \in Seq(S)
      BY <1>7, <1>8 DEF InOrder
    <3> QED
      BY <3>1 DEF G!Range
  <2> QED
    BY <2>2, <2>3, FS_Subset
<1>10. InOrder(list, S) /\ Len(list) = m
  BY <1>7, <1>8
<1>11. Len(list) \in 0..3
  BY <1>6, <1>10
<1> QED
  BY <1>9, <1>10, <1>11 DEF list

\* What is made of each element of a finite set is finite.
LEMMA ImageIsFinite ==
    ASSUME NEW S, IsFiniteSet(S), NEW f, DOMAIN f = S, f = [x \in S |-> f[x]]
    PROVE  IsFiniteSet({f[x] : x \in S})
<1> DEFINE T == {f[x] : x \in S}
<1>1. f \in Surjection(S, T)
  BY DEF Surjection
<1> HIDE DEF T
<1> QED
  BY <1>1, FS_Surjection DEF T

\* Candidates that have words for names, those names, and how far two texts are apart.
NamedIn(candidates) == IsFiniteSet(candidates) /\ \A c \in candidates : G!Text(c.name) \in G!Words
NamesOf(candidates) == {G!Text(c.name) : c \in candidates}
Distance(s, t) == G!edit_distance(G!Lower(s), G!Lower(t))

\* The same distance, of words.
LEMMA ApartIs ==
    ASSUME NEW s \in G!Words, NEW t \in G!Words
    PROVE  /\ Distance(s, t) \in Nat
           /\ Distance(s, t) <= 0 <=> G!Same(s, t)
           /\ Distance(s, t) <= 1 <=> G!Same(s, t) \/ G!Slip(s, t)
<1> DEFINE Letters == G!Range(Alphabet)
<1>1. s \in Seq(Letters) /\ t \in Seq(Letters)
  BY DEF G!Words
<1> HIDE DEF Letters
<1> QED
  BY <1>1, NearIsApart DEF Distance

\* The candidates that count have their distance, and those that are one away count.
LEMMA ScoredIs ==
    ASSUME G!Spelt, NEW text \in G!Words, NEW candidates, NamedIn(candidates)
    PROVE  LET S == G!Scored(text, candidates)
           IN  /\ IsFiniteSet(S)
               /\ \A s \in S : IsScored(s) /\ s.distance = Distance(text, s.name) /\ s.name \in NamesOf(candidates)
               /\ \A n \in NamesOf(candidates) : Distance(text, n) <= 1 => \E s \in S : s.name = n
<1> DEFINE Record(c) == [name |-> G!Text(c.name), of |-> c.of, distance |-> G!edit_distance(G!Lower(text), G!Lower(G!Text(c.name)))]
           made == [c \in candidates |-> Record(c)]
           All == {made[c] : c \in candidates}
           S == G!Scored(text, candidates)
<1>1. IsFiniteSet(All)
  <2>1. DOMAIN made = candidates /\ made = [c \in candidates |-> made[c]]
    OBVIOUS
  <2>2. IsFiniteSet(candidates)
    BY DEF NamedIn
  <2> HIDE DEF made
  <2> QED
    BY <2>1, <2>2, ImageIsFinite
<1>2. All = {Record(c) : c \in candidates}
  OBVIOUS
<1>3. S = {s \in All : s.distance <= G!threshold(text) \/ G!Contained(G!Lower(text), G!Lower(s.name))}
  <2> HIDE DEF made, All
  <2> QED
    BY <1>2 DEF G!Scored
<1>4. G!threshold(text) \in Nat /\ G!threshold(text) >= 1
  <2>1. Len(text) \in Nat
    BY DEF G!Words
  <2> QED
    BY <2>1 DEF G!threshold
<1>5. ASSUME NEW c \in candidates
      PROVE  /\ Record(c).name = G!Text(c.name) /\ Record(c).distance = Distance(text, G!Text(c.name))
             /\ Record(c).name \in NamesOf(candidates) /\ IsScored(Record(c)) /\ Record(c) \in All
  <2>1. G!Text(c.name) \in G!Words
    BY DEF NamedIn
  <2>2. Distance(text, G!Text(c.name)) \in Nat
    BY <2>1, ApartIs
  <2>3. Record(c).name = G!Text(c.name) /\ Record(c).distance = Distance(text, G!Text(c.name))
    BY DEF Distance
  <2>4. Record(c) \in All
    BY <1>2
  <2>5. G!Text(c.name) \in NamesOf(candidates)
    BY DEF NamesOf
  <2> HIDE DEF Record, All, made
  <2> QED
    BY <2>1, <2>2, <2>3, <2>4, <2>5 DEF IsScored
<1> HIDE DEF Record, made, All, S
<1>6. IsFiniteSet(S)
  BY <1>1, <1>3, FS_Subset
<1>7. ASSUME NEW s \in S PROVE IsScored(s) /\ s.distance = Distance(text, s.name) /\ s.name \in NamesOf(candidates)
  <2>1. PICK c \in candidates : s = Record(c)
    BY <1>2, <1>3
  <2> QED
    BY <1>5, <2>1
<1>8. ASSUME NEW n \in NamesOf(candidates), Distance(text, n) <= 1 PROVE \E s \in S : s.name = n
  <2>1. PICK c \in candidates : n = G!Text(c.name)
    BY DEF NamesOf
  <2>2. Record(c).distance <= G!threshold(text)
    <3>1. Record(c).distance = Distance(text, n) /\ Record(c).distance \in Nat
      BY <1>5, <2>1 DEF IsScored
    <3> QED
      BY <1>4, <1>8, <3>1
  <2>3. Record(c) \in S
    BY <1>3, <1>5, <2>2
  <2> QED
    BY <1>5, <2>1, <2>3
<1> QED
  BY <1>6, <1>7, <1>8 DEF S

\* What is close: with one that is one away, nothing is dropped that is no farther; with one
\* that is the same, nothing farther than one is kept.
LEMMA CloseIs ==
    ASSUME NEW S, \A s \in S : IsScored(s)
    PROVE  /\ G!Close(S) \subseteq S
           /\ \A s \in S : s.distance <= 1 => s \in G!Close(S)
           /\ \A s \in S, t \in G!Close(S) : s.distance <= 0 => t.distance <= 1
<1> DEFINE D == {s.distance : s \in S}
           best == Min(D)
<1>1. D \in SUBSET Nat /\ (S # {} => D # {}) /\ \A s \in S : s.distance \in D /\ s.distance \in Nat
  BY DEF IsScored
<1>2. S # {} => best \in Nat /\ \A s \in S : best <= s.distance
  <2> HIDE DEF D
  <2> QED
    BY <1>1, MinIsLeast
<1>3. G!Close(S) = IF S # {} /\ best <= 2 THEN {s \in S : s.distance <= best + 1} ELSE S
  <2>1. G!Min(D) = best
    <3> HIDE DEF D
    <3> QED
      BY NamesLibrary
  <2> QED
    BY <2>1 DEF G!Close
<1> HIDE DEF D, best
<1>4. ASSUME NEW s \in S, s.distance <= 1 PROVE s \in G!Close(S)
  <2>1. best \in Nat /\ best <= s.distance /\ s.distance \in Nat
    BY <1>1, <1>2
  <2>2. best <= 2 /\ s.distance <= best + 1
    BY <1>4, <2>1
  <2> QED
    BY <1>3, <2>2
<1>5. ASSUME NEW s \in S, NEW t \in G!Close(S), s.distance <= 0 PROVE t.distance <= 1
  <2>1. best \in Nat /\ best <= s.distance /\ s.distance \in Nat
    BY <1>1, <1>2
  <2>2. best = 0
    BY <1>5, <2>1
  <2> QED
    BY <1>3, <2>2
<1>6. G!Close(S) \subseteq S
  BY <1>3
<1> QED
  BY <1>4, <1>5, <1>6

\* What SlipsArePutRight says of one refusal, and the names it may offer.
PutRight(u, names) ==
    /\ Len(u.suggestions) <= 3 /\ G!Offered(u) \subseteq names
    /\ \A n \in names : (G!Same(u.name, n) \/ G!Slip(u.name, n)) /\ n \notin G!Offered(u) =>
          Len(u.suggestions) = 3 /\ \A m \in G!Offered(u) : G!Same(u.name, m) \/ G!Slip(u.name, m)
    /\ \A i, j \in DOMAIN u.suggestions : i < j =>
          /\ (G!Same(u.name, u.suggestions[j].name) \/ G!Slip(u.name, u.suggestions[j].name)) =>
                G!Same(u.name, u.suggestions[i].name) \/ G!Slip(u.name, u.suggestions[i].name)
          /\ G!Same(u.name, u.suggestions[i].name) => G!Same(u.name, u.suggestions[j].name) \/ G!Slip(u.name, u.suggestions[j].name)

\* What is offered for a name.
LEMMA OfferIsRight ==
    ASSUME G!Spelt, NEW text \in G!Words, NEW candidates, NamedIn(candidates)
    PROVE  PutRight([name |-> text, suggestions |-> G!best_matches(text, candidates)], NamesOf(candidates))
<1> DEFINE S == G!Scored(text, candidates)
           C == G!Close(S)
           list == G!best_matches(text, candidates)
           names == NamesOf(candidates)
           u == [name |-> text, suggestions |-> list]
           Near(n) == G!Same(text, n) \/ G!Slip(text, n)
<1>1. /\ IsFiniteSet(S)
      /\ \A s \in S : IsScored(s) /\ s.distance = Distance(text, s.name) /\ s.name \in names
      /\ \A n \in names : Distance(text, n) <= 1 => \E s \in S : s.name = n
  BY ScoredIs
<1>2. u.name = text /\ u.suggestions = list
  OBVIOUS
<1> HIDE DEF S
<1>3. /\ C \subseteq S
      /\ \A s \in S : s.distance <= 1 => s \in C
      /\ \A s \in S, t \in C : s.distance <= 0 => t.distance <= 1
  BY <1>1, CloseIs
<1>4. IsFiniteSet(C) /\ \A s \in C : IsScored(s)
  <2> HIDE DEF C
  <2> QED
    BY <1>1, <1>3, FS_Subset
<1>5. InOrder(list, C) /\ Len(list) \in 0..3 /\ (Len(list) < 3 => C \subseteq G!Range(list))
  BY <1>4, BestAre DEF S
<1> HIDE DEF C, list
<1>6. list \in Seq(C) /\ Len(list) \in Nat /\ DOMAIN list = 1..Len(list)
  BY <1>5 DEF InOrder
<1>7. ASSUME NEW s \in S
      PROVE  /\ s.name \in G!Words /\ s.distance \in Nat /\ s.name \in names
             /\ s.distance <= 0 <=> G!Same(text, s.name)
             /\ s.distance <= 1 <=> Near(s.name)
  <2>1. s.name \in G!Words /\ s.distance \in Nat /\ s.distance = Distance(text, s.name) /\ s.name \in names
    BY <1>1 DEF IsScored
  <2> QED
    BY <2>1, ApartIs
<1> HIDE DEF names
<1>8. ASSUME NEW i \in 1..Len(list) PROVE list[i] \in C /\ list[i] \in S
  <2>1. list[i] \in C
    BY <1>6, ElementOfSeq
  <2> QED
    BY <1>3, <2>1
<1>9. G!Offered(u) = {list[i].name : i \in 1..Len(list)}
  BY <1>2, <1>6 DEF G!Offered
<1> HIDE DEF u
<1>10. G!Offered(u) \subseteq names
  BY <1>7, <1>8, <1>9
<1>11. ASSUME NEW n \in names, Near(n), n \notin G!Offered(u)
       PROVE  Len(list) = 3 /\ \A m \in G!Offered(u) : Near(m)
  <2>1. n \in G!Words
    BY DEF NamedIn, NamesOf, names
  <2>2. Distance(text, n) <= 1
    BY <1>11, <2>1, ApartIs
  <2>3. PICK s \in S : s.name = n
    BY <1>1, <2>2
  <2>4. s.distance <= 1 /\ s \in C
    BY <1>3, <1>7, <1>11, <2>3
  <2>5. s \notin G!Range(list)
    <3> SUFFICES ASSUME s \in G!Range(list) PROVE FALSE
      OBVIOUS
    <3>1. PICK i \in 1..Len(list) : list[i] = s
      BY <1>6 DEF G!Range
    <3>2. n \in G!Offered(u)
      BY <1>9, <2>3, <3>1
    <3>3. n \notin G!Offered(u)
      BY <1>11
    <3> QED
      BY <3>2, <3>3
  <2>6. Len(list) = 3
    <3> DEFINE l == Len(list)
    <3>1. l \in 0..3 /\ (l < 3 => C \subseteq G!Range(list))
      BY <1>5
    <3> HIDE DEF l
    <3>2. ~(l < 3)
      <4> SUFFICES ASSUME l < 3 PROVE FALSE
        OBVIOUS
      <4>1. C \subseteq G!Range(list)
        BY <3>1
      <4> QED
        BY <2>4, <2>5, <4>1
    <3>3. l = 3
      BY <3>1, <3>2
    <3> QED
      BY <3>3 DEF l
  <2>7. ASSUME NEW i \in 1..Len(list) PROVE Near(list[i].name)
    <3>1. ~G!Before(s, list[i])
      BY <1>5, <2>4, <2>5 DEF InOrder
    <3>2. list[i].distance \in Nat /\ s.distance \in Nat
      BY <1>7, <1>8
    <3>3. list[i].distance <= s.distance
      BY <3>1, <3>2 DEF G!Before
    <3>4. list[i].distance <= 1
      BY <2>4, <3>2, <3>3
    <3> QED
      BY <1>7, <1>8, <3>4
  <2> HIDE DEF Near
  <2> QED
    BY <1>9, <2>6, <2>7
<1>12. ASSUME NEW i \in 1..Len(list), NEW j \in 1..Len(list), i < j
       PROVE  /\ Near(list[j].name) => Near(list[i].name)
              /\ G!Same(text, list[i].name) => Near(list[j].name)
  <2>1. list[i].distance \in Nat /\ list[j].distance \in Nat /\ list[i] \in S /\ list[j] \in S /\ list[j] \in C
    BY <1>7, <1>8
  <2>2. ~G!Before(list[j], list[i])
    BY <1>5, <1>12 DEF InOrder
  <2>3. list[i].distance <= list[j].distance
    BY <2>1, <2>2 DEF G!Before
  <2>4. /\ list[j].distance <= 1 => list[i].distance <= 1
        /\ list[i].distance <= 0 => list[j].distance <= 1
    BY <1>3, <2>1, <2>3
  <2>5. /\ list[i].distance <= 0 <=> G!Same(text, list[i].name)
        /\ list[i].distance <= 1 <=> Near(list[i].name)
        /\ list[j].distance <= 1 <=> Near(list[j].name)
    <3> HIDE DEF Near
    <3> QED
      BY <1>7, <2>1
  <2> QED
    BY <2>4, <2>5
<1>13. Len(list) <= 3
  <2> DEFINE l == Len(list)
  <2>1. l \in 0..3
    BY <1>5
  <2> HIDE DEF l
  <2>2. l <= 3
    BY <2>1
  <2> QED
    BY <2>2 DEF l
<1>14. PutRight(u, names)
  BY <1>2, <1>6, <1>10, <1>11, <1>12, <1>13 DEF PutRight
<1> QED
  BY <1>14 DEF u, list, names

\* The assumption, in the operators of this module.
LEMMA SpeltIs ==
    ASSUME G!Spelt
    PROVE  /\ "." \in G!Range(Alphabet)
           /\ \A d \in Databases :
                 /\ IsFiniteSet(DOMAIN d.tables) /\ DOMAIN d.tables \subseteq G!Words \X G!Words
                 /\ \A t \in DOMAIN d.tables : IsFiniteSet(d.tables[t].columns) /\ \A c \in d.tables[t].columns : c.name \in G!Words
<1>1. \A S : G!IsFiniteSet(S) <=> IsFiniteSet(S)
  BY NamesLibrary
<1> QED
  BY <1>1 DEF G!Spelt

\* A table that is known is one of the snapshot's.
LEMMA KnownTable ==
    ASSUME G!Spelt, snapshot \in Databases, G!resolve_table(snapshot, question.table)
    PROVE  G!Table(snapshot, question.table) \in DOMAIN snapshot.tables
<1> DEFINE ending == {t \in DOMAIN snapshot.tables : <<t[2]>> = question.table}
<1>1. IsFiniteSet(ending)
  BY SpeltIs, FS_Subset
<1>2. G!Table(snapshot, question.table) # G!Absent
  BY DEF G!resolve_table
<1>3. G!Cardinality(ending) = Cardinality(ending)
  <2> HIDE DEF ending
  <2> QED
    BY NamesLibrary
<1>4. Cardinality(ending) = 1 => \E t : ending = {t}
  <2> HIDE DEF ending
  <2> QED
    BY <1>1, FS_Singleton
<1>5. CASE question.table \in DOMAIN snapshot.tables
  BY <1>5 DEF G!Table
<1>6. CASE question.table \notin DOMAIN snapshot.tables
  <2>1. Cardinality(ending) = 1 /\ G!Table(snapshot, question.table) = CHOOSE t \in ending : TRUE
    BY <1>2, <1>3, <1>6 DEF G!Table
  <2>2. (CHOOSE t \in ending : TRUE) \in ending
    <3> HIDE DEF ending
    <3> QED
      BY <1>4, <2>1
  <2> QED
    BY <2>1, <2>2
<1> QED
  BY <1>5, <1>6

\* Tables are offered by their full names and by their last parts, which are words.
LEMMA TablesAreNamed ==
    ASSUME G!Spelt, snapshot \in Databases, ~G!resolve_table(snapshot, question.table)
    PROVE  NamedIn(G!TableNames) /\ NamesOf(G!TableNames) = G!Candidates
<1> DEFINE tables == DOMAIN snapshot.tables
           Letters == G!Range(Alphabet)
           whole == [t \in tables |-> [name |-> t, of |-> t]]
           last == [t \in tables |-> [name |-> <<t[2]>>, of |-> t]]
           A == {whole[t] : t \in tables}
           Bs == {last[t] : t \in tables}
<1>1. IsFiniteSet(tables) /\ tables \subseteq G!Words \X G!Words /\ "." \in Letters
  BY SpeltIs
<1>2. IsFiniteSet(A)
  <2>1. DOMAIN whole = tables /\ whole = [t \in tables |-> whole[t]]
    OBVIOUS
  <2> HIDE DEF whole, tables
  <2> QED
    BY <1>1, <2>1, ImageIsFinite
<1>3. IsFiniteSet(Bs)
  <2>1. DOMAIN last = tables /\ last = [t \in tables |-> last[t]]
    OBVIOUS
  <2> HIDE DEF last, tables
  <2> QED
    BY <1>1, <2>1, ImageIsFinite
<1>4. G!TableNames = A \union Bs
  BY DEF G!TableNames
<1>5. ASSUME NEW t \in tables
      PROVE  /\ G!Text(t) = t[1] \o <<".">> \o t[2] /\ G!Text(t) \in G!Words
             /\ G!Text(<<t[2]>>) = t[2] /\ t[2] \in G!Words
  <2>1. t[1] \in Seq(Letters) /\ t[2] \in Seq(Letters) /\ Len(t) = 2
    BY <1>1 DEF G!Words
  <2>9. t[2] \in G!Words
    BY <1>1
  <2>2. Len(<<t[2]>>) = 1 /\ <<t[2]>>[1] = t[2]
    OBVIOUS
  <2>3. t[1] \o <<".">> \o t[2] \in Seq(Letters)
    <3> HIDE DEF Letters
    <3>1. <<".">> \in Seq(Letters)
      BY <1>1
    <3>2. t[1] \o <<".">> \in Seq(Letters)
      BY <2>1, <3>1, ConcatProperties
    <3> QED
      BY <2>1, <3>2, ConcatProperties
  <2>4. G!Text(t) = t[1] \o <<".">> \o t[2]
    BY <2>1 DEF G!Text
  <2>5. G!Text(<<t[2]>>) = t[2]
    BY <2>2 DEF G!Text
  <2> HIDE DEF tables
  <2> QED
    BY <2>3, <2>4, <2>5, <2>9 DEF G!Words
<1>6. ASSUME NEW c \in G!TableNames PROVE \E t \in tables : c.name = t \/ c.name = <<t[2]>>
  <2>1. \A t \in tables : whole[t].name = t /\ last[t].name = <<t[2]>>
    OBVIOUS
  <2> HIDE DEF whole, last, tables
  <2>2. \E t \in tables : c = whole[t] \/ c = last[t]
    BY <1>4
  <2> QED
    BY <2>1, <2>2
<1>7. \A t \in tables : \E c, d \in G!TableNames : c.name = t /\ d.name = <<t[2]>>
  <2> SUFFICES ASSUME NEW t \in tables PROVE \E c, d \in G!TableNames : c.name = t /\ d.name = <<t[2]>>
    OBVIOUS
  <2>1. whole[t] \in G!TableNames /\ last[t] \in G!TableNames /\ whole[t].name = t /\ last[t].name = <<t[2]>>
    BY <1>4
  <2> QED
    BY <2>1
<1>8. IsFiniteSet(G!TableNames)
  <2> HIDE DEF A, Bs
  <2> QED
    BY <1>2, <1>3, <1>4, FS_Union
<1> HIDE DEF A, Bs
<1>9. NamedIn(G!TableNames)
  BY <1>5, <1>6, <1>8 DEF NamedIn
<1>10. G!Candidates = UNION {{t[1] \o <<".">> \o t[2], t[2]} : t \in tables}
  BY DEF G!Candidates
<1>11. ASSUME NEW n \in NamesOf(G!TableNames) PROVE n \in G!Candidates
  <2>1. PICK c \in G!TableNames : n = G!Text(c.name)
    BY DEF NamesOf
  <2>2. PICK t \in tables : c.name = t \/ c.name = <<t[2]>>
    BY <1>6
  <2>3. n = t[1] \o <<".">> \o t[2] \/ n = t[2]
    BY <1>5, <2>1, <2>2
  <2> HIDE DEF tables
  <2>4. n \in {t[1] \o <<".">> \o t[2], t[2]}
    BY <2>3
  <2> QED
    BY <1>10, <2>4
<1>12. ASSUME NEW n \in G!Candidates PROVE n \in NamesOf(G!TableNames)
  <2> HIDE DEF tables
  <2>1. PICK t \in tables : n = t[1] \o <<".">> \o t[2] \/ n = t[2]
    BY <1>10
  <2>2. PICK c \in G!TableNames, d \in G!TableNames : c.name = t /\ d.name = <<t[2]>>
    BY <1>7
  <2>3. n = G!Text(c.name) \/ n = G!Text(d.name)
    BY <1>5, <2>1, <2>2
  <2> QED
    BY <2>3 DEF NamesOf
<1> QED
  BY <1>9, <1>11, <1>12

\* The columns of a table that is known are offered by their names.
LEMMA ColumnsAreNamed ==
    ASSUME G!Spelt, snapshot \in Databases, G!resolve_table(snapshot, question.table)
    PROVE  LET columns == G!ColumnNames(G!Table(snapshot, question.table))
           IN  NamedIn(columns) /\ NamesOf(columns) = G!Candidates
<1> DEFINE table == G!Table(snapshot, question.table)
           theirs == snapshot.tables[table].columns
           made == [c \in theirs |-> [name |-> <<c.name>>, of |-> table]]
           columns == G!ColumnNames(table)
<1>1. table \in DOMAIN snapshot.tables
  BY KnownTable
<1> HIDE DEF table
<1>2. IsFiniteSet(theirs) /\ \A c \in theirs : c.name \in G!Words
  BY <1>1, SpeltIs
<1>3. columns = {made[c] : c \in theirs}
  BY DEF G!ColumnNames, G!Columns
<1>4. IsFiniteSet(columns)
  <2>1. DOMAIN made = theirs /\ made = [c \in theirs |-> made[c]]
    OBVIOUS
  <2> HIDE DEF made, theirs, columns
  <2> QED
    BY <1>2, <1>3, <2>1, ImageIsFinite
<1>5. ASSUME NEW c \in theirs PROVE made[c] \in columns /\ made[c].name = <<c.name>> /\ G!Text(made[c].name) = c.name
  <2>1. made[c].name = <<c.name>> /\ Len(<<c.name>>) = 1 /\ <<c.name>>[1] = c.name
    OBVIOUS
  <2> QED
    BY <1>3, <2>1 DEF G!Text
<1>6. \A x \in columns : \E c \in theirs : x = made[c]
  BY <1>3
<1>7. G!Candidates = {c.name : c \in theirs}
  BY DEF G!Candidates, table
<1> HIDE DEF made, theirs, columns
<1>8. NamedIn(columns)
  BY <1>2, <1>4, <1>5, <1>6 DEF NamedIn
<1>9. NamesOf(columns) = G!Candidates
  <2>1. \A n \in NamesOf(columns) : n \in G!Candidates
    BY <1>5, <1>6, <1>7 DEF NamesOf
  <2>2. \A n \in G!Candidates : n \in NamesOf(columns)
    BY <1>5, <1>7 DEF NamesOf
  <2> QED
    BY <2>1, <2>2
<1> QED
  BY <1>8, <1>9 DEF columns, table

\* Each refusal offers what is right.
LEMMA RejectionIsRight ==
    ASSUME G!Spelt, snapshot \in Databases, question \in Questions, NEW u \in G!rejection
    PROVE  PutRight(u, G!Candidates)
<1>1. CASE ~G!resolve_table(snapshot, question.table)
  <2> DEFINE text == G!Text(question.table)
  <2>1. u = [name |-> text, suggestions |-> G!best_matches(text, G!TableNames)]
    BY <1>1 DEF G!rejection, G!UnknownTable
  <2>2. text \in G!Words
    <3> DEFINE Letters == G!Range(Alphabet)
               name == question.table
    <3>1. name \in Seq(Seq(Letters)) /\ Len(name) \in 1..2 /\ "." \in Letters
      BY DEF G!Spelt, G!Words
    <3> HIDE DEF Letters, name
    <3>2. name[1] \in Seq(Letters) /\ (Len(name) # 1 => name[2] \in Seq(Letters))
      <4> DEFINE n == Len(name)
      <4>0. n \in 1..2
        BY <3>1
      <4> HIDE DEF n
      <4>1. 1 \in 1..n /\ (n # 1 => 2 \in 1..n)
        BY <4>0
      <4> QED
        BY <3>1, <4>1, ElementOfSeq DEF n
    <3>3. Len(name) # 1 => name[1] \o <<".">> \o name[2] \in Seq(Letters)
      <4> SUFFICES ASSUME Len(name) # 1 PROVE name[1] \o <<".">> \o name[2] \in Seq(Letters)
        OBVIOUS
      <4>1. <<".">> \in Seq(Letters)
        BY <3>1
      <4>2. name[1] \o <<".">> \in Seq(Letters)
        BY <3>2, <4>1, ConcatProperties
      <4> QED
        BY <3>2, <4>2, ConcatProperties
    <3>4. G!Text(name) \in Seq(Letters)
      BY <3>2, <3>3 DEF G!Text
    <3> QED
      BY <3>4 DEF G!Words, Letters, name
  <2> HIDE DEF text
  <2>3. NamedIn(G!TableNames) /\ NamesOf(G!TableNames) = G!Candidates
    BY <1>1, TablesAreNamed
  <2> QED
    BY <2>1, <2>2, <2>3, OfferIsRight
<1>2. CASE G!resolve_table(snapshot, question.table)
  <2> DEFINE columns == G!ColumnNames(G!Table(snapshot, question.table))
  <2>1. PICK text \in question.column : u = [name |-> text, suggestions |-> G!best_matches(text, columns)]
    BY <1>2 DEF G!rejection, G!UnknownColumn
  <2>2. text \in G!Words
    BY DEF G!Spelt
  <2>3. NamedIn(columns) /\ NamesOf(columns) = G!Candidates
    BY <1>2, ColumnsAreNamed
  <2> HIDE DEF columns
  <2> QED
    BY <2>1, <2>2, <2>3, OfferIsRight
<1> QED
  BY <1>1, <1>2

\* A refusal is made from the snapshot and the question, which stay.
NamesInv ==
    /\ snapshot \in Databases /\ question \in Questions
    /\ \A a \in answers : a.unknown = G!rejection

\* The inductive invariant: what was refused was refused with these suggestions.
LEMMA NamesInductive == G!Spec => []NamesInv
<1>1. G!Init => NamesInv
  BY DEF G!Init, NamesInv
<1>2. NamesInv /\ [G!Next]_G!vars => NamesInv'
  <2> SUFFICES ASSUME NamesInv, [G!Next]_G!vars PROVE NamesInv'
    OBVIOUS
  <2>1. UNCHANGED <<snapshot, question>>
    BY DEF G!Next, G!check, G!vars
  <2>2. G!rejection' = G!rejection
    BY <2>1 DEF G!rejection, G!UnknownTable, G!UnknownColumn, G!TableNames, G!ColumnNames
  <2>3. answers' = answers \/ answers' = {[exists |-> G!schema_check(snapshot, question.table, question.column), unknown |-> G!rejection]}
    BY DEF G!Next, G!check, G!vars
  <2>4. \A a \in answers' : a.unknown = G!rejection
    BY <2>3 DEF NamesInv
  <2> QED
    BY <2>1, <2>2, <2>4 DEF NamesInv
<1> QED
  BY <1>1, <1>2, PTL DEF G!Spec

\* A slip is put right.
LEMMA NamesAlone == ASSUME G!Spelt PROVE G!Spec => []G!SlipsArePutRight
<1>1. NamesInv => G!SlipsArePutRight
  <2> SUFFICES ASSUME NamesInv, NEW u \in G!Refused PROVE PutRight(u, G!Candidates)
    BY DEF G!SlipsArePutRight, PutRight
  <2>1. u \in G!rejection
    BY DEF G!Refused, NamesInv
  <2> QED
    BY <2>1, RejectionIsRight DEF NamesInv
<1> QED
  BY <1>1, NamesInductive, PTL

-----------------------------------------------------------------------------
(***************************************************************************)
(* Side by side.  Each algorithm runs there as it does by itself, and      *)
(* rests where another runs.                                               *)
(***************************************************************************)
LEMMA TheSameRuns == [AlgorithmsNext]_algorithmsVars => UNCHANGED algorithm
BY DEF AlgorithmsNext, algorithmsVars

LEMMA RefsRun == AlgorithmsSpec => (algorithm = "refs" /\ R!Spec) \/ []~(algorithm = "refs")
<1>1. AlgorithmsInit /\ algorithm = "refs" => R!Init
  BY DEF AlgorithmsInit
<1>2. algorithm = "refs" /\ [AlgorithmsNext]_algorithmsVars => [R!Next]_R!vars
  BY DEF AlgorithmsNext, algorithmsVars, refVars, R!vars
<1>3. algorithm = "refs" /\ [AlgorithmsNext]_algorithmsVars => (algorithm = "refs")'
  BY TheSameRuns
<1>4. ~(algorithm = "refs") /\ [AlgorithmsNext]_algorithmsVars => ~(algorithm = "refs")'
  BY TheSameRuns
<1> QED
  BY <1>1, <1>2, <1>3, <1>4, PTL DEF AlgorithmsSpec, R!Spec

LEMMA LayersRun == AlgorithmsSpec => (algorithm = "layers" /\ L!Spec) \/ []~(algorithm = "layers")
<1>1. AlgorithmsInit /\ algorithm = "layers" => L!Init
  BY DEF AlgorithmsInit
<1>2. algorithm = "layers" /\ [AlgorithmsNext]_algorithmsVars => [L!Next]_L!vars
  BY DEF AlgorithmsNext, algorithmsVars, layerVars, L!vars
<1>3. algorithm = "layers" /\ [AlgorithmsNext]_algorithmsVars => (algorithm = "layers")'
  BY TheSameRuns
<1>4. ~(algorithm = "layers") /\ [AlgorithmsNext]_algorithmsVars => (~(algorithm = "layers"))'
  BY TheSameRuns
<1> QED
  BY <1>1, <1>2, <1>3, <1>4, PTL DEF AlgorithmsSpec, L!Spec

LEMMA BudgetRun == AlgorithmsSpec => (algorithm = "budget" /\ B!Spec) \/ []~(algorithm = "budget")
<1>1. AlgorithmsInit /\ algorithm = "budget" => B!Init
  BY DEF AlgorithmsInit
<1>2. algorithm = "budget" /\ [AlgorithmsNext]_algorithmsVars => [B!Next]_B!vars
  BY DEF AlgorithmsNext, algorithmsVars, budgetVars, B!vars
<1>3. algorithm = "budget" /\ [AlgorithmsNext]_algorithmsVars => (algorithm = "budget")'
  BY TheSameRuns
<1>4. ~(algorithm = "budget") /\ [AlgorithmsNext]_algorithmsVars => (~(algorithm = "budget"))'
  BY TheSameRuns
<1> QED
  BY <1>1, <1>2, <1>3, <1>4, PTL DEF AlgorithmsSpec, B!Spec

LEMMA NamesRun == AlgorithmsSpec => (algorithm = "names" /\ G!Spec) \/ []~(algorithm = "names")
<1>1. AlgorithmsInit /\ algorithm = "names" => G!Init
  BY DEF AlgorithmsInit
<1>2. algorithm = "names" /\ [AlgorithmsNext]_algorithmsVars => [G!Next]_G!vars
  BY DEF AlgorithmsNext, algorithmsVars, nameVars, G!vars
<1>3. algorithm = "names" /\ [AlgorithmsNext]_algorithmsVars => (algorithm = "names")'
  BY TheSameRuns
<1>4. ~(algorithm = "names") /\ [AlgorithmsNext]_algorithmsVars => (~(algorithm = "names"))'
  BY TheSameRuns
<1> QED
  BY <1>1, <1>2, <1>3, <1>4, PTL DEF AlgorithmsSpec, G!Spec

LEMMA RunsRun == AlgorithmsSpec => (algorithm = "pair_runs" /\ P!Spec) \/ []~(algorithm = "pair_runs")
<1>1. AlgorithmsInit /\ algorithm = "pair_runs" => P!Init
  BY DEF AlgorithmsInit
<1>2. algorithm = "pair_runs" /\ [AlgorithmsNext]_algorithmsVars => [P!Next]_P!vars
  BY DEF AlgorithmsNext, algorithmsVars, runVars, P!vars
<1>3. algorithm = "pair_runs" /\ [AlgorithmsNext]_algorithmsVars => (algorithm = "pair_runs")'
  BY TheSameRuns
<1>4. ~(algorithm = "pair_runs") /\ [AlgorithmsNext]_algorithmsVars => (~(algorithm = "pair_runs"))'
  BY TheSameRuns
<1> QED
  BY <1>1, <1>2, <1>3, <1>4, PTL DEF AlgorithmsSpec, P!Spec

LEMMA RewriteRun == AlgorithmsSpec => (algorithm = "rewrite" /\ W!Spec) \/ []~(algorithm = "rewrite")
<1>1. AlgorithmsInit /\ algorithm = "rewrite" => W!Init
  BY DEF AlgorithmsInit
<1>2. algorithm = "rewrite" /\ [AlgorithmsNext]_algorithmsVars => [W!Next]_W!vars
  BY DEF AlgorithmsNext, algorithmsVars, rewriteVars, W!vars
<1>3. algorithm = "rewrite" /\ [AlgorithmsNext]_algorithmsVars => (algorithm = "rewrite")'
  BY TheSameRuns
<1>4. ~(algorithm = "rewrite") /\ [AlgorithmsNext]_algorithmsVars => (~(algorithm = "rewrite"))'
  BY TheSameRuns
<1> QED
  BY <1>1, <1>2, <1>3, <1>4, PTL DEF AlgorithmsSpec, W!Spec

\* No tool runs with an invented name, and none with real ones only is refused (refs.rs,
\* check): for every annotated schema, arguments and snapshots.
THEOREM GateHolds == ASSUME R!Introspected PROVE AlgorithmsSpec => []GateIsExact
BY GateAlone, RefsRun, PTL DEF GateIsExact

\* Whatever a tool returned and whatever the budget: the note on a trimmed result lists
\* each list that has become shorter once, with the length it had and the length it has.
THEOREM NoteHolds == ASSUME B!Sized PROVE AlgorithmsSpec => []NoteIsTruthful
BY NoteAlone, BudgetRun, PTL DEF NoteIsTruthful

\* A result with one list of plain items, of any length and any sizes, that can meet its
\* budget with the note on it and the items it must keep, is delivered within the budget.
THEOREM OneListHolds == ASSUME B!Sized PROVE AlgorithmsSpec => []OneListFits
BY OneListAlone, BudgetRun, PTL DEF OneListFits

\* Whatever a tool returned and whatever the budget: each turn of apply's loop leaves
\* fewer bytes, however poor its estimate of the items to drop.
THEOREM TurnsShrink == ASSUME B!Sized PROVE AlgorithmsSpec => EveryTurnShrinks
<1> DEFINE Shrinks == pc = "trim" /\ pass' = pass /\ elisions' # elisions => B!measure(trimmed') < B!measure(trimmed)
<1>1. ~(algorithm = "budget") /\ [AlgorithmsNext]_algorithmsVars => [Shrinks]_B!vars
  BY DEF AlgorithmsNext, algorithmsVars, budgetVars, B!vars
<1>2. B!Spec => [][Shrinks]_B!vars
  BY TurnsAlone DEF B!EveryTurnShrinks
<1> QED
  BY <1>1, <1>2, BudgetRun, PTL DEF AlgorithmsSpec, EveryTurnShrinks, B!EveryTurnShrinks

\* When the layers are loaded, each name belongs to the last entry that reported it, and
\* every declared entry is registered, among the problems, or reported as shadowed
\* (plugin/src/lib.rs, register_layers): for manifests of every length and any names.
THEOREM EntriesAccounted == ASSUME L!Named PROVE AlgorithmsSpec => []EntriesAreAccounted
BY EntriesAlone, LayersRun, PTL DEF EntriesAreAccounted

\* Whatever a database's tables and columns are called, and whatever is asked for: a refusal
\* offers names that are there, at most three, a name that is a slip away before any that is
\* farther, and next to one that only its capitals tell apart nothing farther (resolve.rs,
\* best_matches).
THEOREM SlipsPutRight == ASSUME G!Spelt PROVE AlgorithmsSpec => []SlipsArePutRight
BY NamesAlone, NamesRun, PTL DEF SlipsArePutRight

\* The verification of rules, and the reading of commands, by themselves.
Alone == INSTANCE PairRun_proofs WITH pc <- stage

\* PairRun and the copy of it that its proofs are about are the same.
LEMMA AloneIsTheSame ==
    /\ P!Formed => Alone!Formed
    /\ P!Init => Alone!Init
    /\ [P!Next]_P!vars => [Alone!Next]_Alone!vars
    /\ Alone!PassIsEarned => P!PassIsEarned
    /\ Alone!SkipsAreCounted => P!SkipsAreCounted
BY Zenon DEF P!ToSet, Alone!ToSet, P!FoldLeft, Alone!FoldLeft, P!Max, Alone!Max, P!Min, Alone!Min,
       P!Last, Alone!Last, P!Reverse, Alone!Reverse, P!MapThenFoldSet, Alone!MapThenFoldSet,
       P!Range, Alone!Range, P!Cardinality, Alone!Cardinality, P!IsFiniteSet, Alone!IsFiniteSet,
       P!vars, Alone!vars, P!Blank, Alone!Blank, P!Trimmed, Alone!Trimmed, P!Collapse,
       Alone!Collapse, P!Collapsed, Alone!Collapsed, P!Says, Alone!Says, P!is_marker,
       Alone!is_marker, P!declares_omission, Alone!declares_omission, P!Cursor, Alone!Cursor,
       P!subset_declared, Alone!subset_declared, P!tidy, Alone!tidy, P!key_tokens,
       Alone!key_tokens, P!Words, Alone!Words, P!Verdict, Alone!Verdict, P!check, Alone!check,
       P!Unread, Alone!Unread, P!Records, Alone!Records, P!Recall, Alone!Recall, P!recent_commands,
       Alone!recent_commands, P!Fails, Alone!Fails, P!Commands, Alone!Commands, P!Init, Alone!Init,
       P!Ran, Alone!Ran, P!Verifying, Alone!Verifying, P!PassOver, Alone!PassOver, P!Skip,
       Alone!Skip, P!Compare, Alone!Compare, P!Outcome, Alone!Outcome, P!may_rewrite,
       Alone!may_rewrite, P!Conclude, Alone!Conclude, P!Next, Alone!Next, P!Line, Alone!Line,
       P!Output, Alone!Output, P!Classes, Alone!Classes, P!Formed, Alone!Formed, P!Held,
       Alone!Held, P!Nth, Alone!Nth, P!Alike, Alone!Alike, P!AfterBlank, Alone!AfterBlank,
       P!SameSpaced, Alone!SameSpaced, P!Shown, Alone!Shown, P!Empty, Alone!Empty, P!Stands,
       Alone!Stands, P!KeepsPromise, Alone!KeepsPromise, P!Bash, Alone!Bash, P!Since, Alone!Since,
       P!Recorded, Alone!Recorded, P!InWindow, Alone!InWindow, P!Matching, Alone!Matching,
       P!PassIsEarned, Alone!PassIsEarned, P!SkipsAreCounted, Alone!SkipsAreCounted

\* A rule is cleared to rewrite by a verification only if some recent command ran beside its
\* rewrite, and each that did kept the promise of the class (fidelity.rs, check), for texts,
\* traces and windows of every size.
THEOREM PassEarned == ASSUME P!Formed PROVE AlgorithmsSpec => []PassIsEarned
<1>1. P!Spec => Alone!Spec
  BY AloneIsTheSame, PTL DEF P!Spec, Alone!Spec
<1>2. Alone!Formed
  BY AloneIsTheSame
<1>3. Alone!Spec => []Alone!PassIsEarned
  BY <1>2, Alone!PassEarned
<1> QED
  BY <1>1, <1>3, AloneIsTheSame, RunsRun, PTL DEF PassIsEarned

\* Every recent command that the rule matches is a case or counted as skipped, and none that
\* nothing could be said about is a case (verify.rs, verify_rule), for traces and windows of
\* every size.
THEOREM SkipsCounted == ASSUME P!Formed PROVE AlgorithmsSpec => []SkipsAreCounted
<1>1. P!Spec => Alone!Spec
  BY AloneIsTheSame, PTL DEF P!Spec, Alone!Spec
<1>2. Alone!Formed
  BY AloneIsTheSame
<1>3. Alone!Spec => []Alone!SkipsAreCounted
  BY <1>2, Alone!SkipsCounted
<1> QED
  BY <1>1, <1>3, AloneIsTheSame, RunsRun, PTL DEF SkipsAreCounted

-----------------------------------------------------------------------------
(***************************************************************************)
(* What is replaced was a search and a habit (Rewrite), as PairRun_proofs  *)
(* reads commands.                                                         *)
(***************************************************************************)
\* The names that are found in a text are the same.
LEMMA SymbolsAreTheSame == \A s : W!symbol_in(s) = Alone!Shell!symbol_in(s)
<1> DEFINE Found(keys, after, name, letters, special) ==
              IF keys = {} \/ after = {} \/ name = <<>> \/ name \in {<<l>> : l \in letters} \/ special # {} THEN {} ELSE {name}
<1>1. \A s, word : W!At(W!Lower(s), <<word, W!Space>>) = Alone!Shell!At(Alone!Shell!Lower(s), <<word, Alone!Shell!Space>>)
  BY DEF W!At, Alone!Shell!At, W!Lower, Alone!Shell!Lower, W!Space, Alone!Shell!Space
<1>2. \A S : W!Min(S) = Alone!Shell!Min(S)
  BY DEF W!Min, Alone!Shell!Min
<1>3. \A s : W!Inked(s) = Alone!Shell!Inked(s) /\ W!ToSet(s) = Alone!Shell!ToSet(s)
  BY DEF W!Inked, Alone!Shell!Inked, W!Blanks, Alone!Shell!Blanks, W!Newline, Alone!Shell!Newline, W!Space, Alone!Shell!Space, W!ToSet, Alone!Shell!ToSet
<1>4. \A s, i, stops : W!Until(s, i, stops) = Alone!Shell!Until(s, i, stops)
  BY DEF W!Until, Alone!Shell!Until, W!Min, Alone!Shell!Min
<1>5. W!Keywords = Alone!Shell!Keywords /\ W!Letters = Alone!Shell!Letters
  BY DEF W!Keywords, Alone!Shell!Keywords, W!Letters, Alone!Shell!Letters
<1>6. W!Metacharacters = Alone!Shell!Metacharacters
  BY DEF W!Metacharacters, Alone!Shell!Metacharacters, W!Escape, Alone!Shell!Escape
<1>7. W!NotOfNames = Alone!Shell!NotOfNames
  BY <1>6 DEF W!NotOfNames, Alone!Shell!NotOfNames, W!Blanks, Alone!Shell!Blanks, W!Space, Alone!Shell!Space, W!Newline, Alone!Shell!Newline,
     W!Quotes, Alone!Shell!Quotes, W!Double, Alone!Shell!Double, W!Single, Alone!Shell!Single, W!Operators, Alone!Shell!Operators
<1> SUFFICES ASSUME NEW s PROVE W!symbol_in(s) = Alone!Shell!symbol_in(s)
  OBVIOUS
<1> DEFINE words == Alone!Shell!Keywords
           keys == {k \in DOMAIN words : Alone!Shell!At(Alone!Shell!Lower(s), <<words[k], Alone!Shell!Space>>) # {}}
           place == Alone!Shell!Min(Alone!Shell!At(Alone!Shell!Lower(s), <<words[Alone!Shell!Min(keys)], Alone!Shell!Space>>))
           after == {i \in Alone!Shell!Inked(s) : i >= place + 2}
           name == Alone!Shell!Until(s, Alone!Shell!Min(after), Alone!Shell!NotOfNames)
           wordsW == W!Keywords
           keysW == {k \in DOMAIN wordsW : W!At(W!Lower(s), <<wordsW[k], W!Space>>) # {}}
           placeW == W!Min(W!At(W!Lower(s), <<wordsW[W!Min(keysW)], W!Space>>))
           afterW == {i \in W!Inked(s) : i >= placeW + 2}
           nameW == W!Until(s, W!Min(afterW), W!NotOfNames)
<1>8. Alone!Shell!symbol_in(s) = Found(keys, after, name, Alone!Shell!Letters, Alone!Shell!ToSet(s) \intersect Alone!Shell!Metacharacters)
  BY DEF Alone!Shell!symbol_in
<1>9. W!symbol_in(s) = Found(keysW, afterW, nameW, W!Letters, W!ToSet(s) \intersect W!Metacharacters)
  BY DEF W!symbol_in
<1>10. wordsW = words
  BY <1>5
<1> HIDE DEF Found, wordsW, words
<1>11. keysW = keys
  BY <1>1, <1>10
<1> HIDE DEF keys, keysW
<1>12. placeW = place
  BY <1>1, <1>2, <1>10, <1>11
<1> HIDE DEF place, placeW
<1>13. afterW = after
  BY <1>3, <1>12
<1> HIDE DEF after, afterW
<1>14. nameW = name
  BY <1>2, <1>4, <1>7, <1>13
<1> HIDE DEF name, nameW
<1> QED
  BY <1>3, <1>5, <1>6, <1>8, <1>9, <1>11, <1>13, <1>14

\* What Rewrite reads in a command is what the lemmas about commands speak of.
LEMMA CommandsAreTheSame ==
    /\ \A s : /\ W!Inked(s) = Alone!Shell!Inked(s) /\ W!FirstWord(s) = Alone!Shell!FirstWord(s)
              /\ W!target_of(s) = Alone!Shell!target_of(s) /\ W!fingerprint(s) = Alone!Shell!fingerprint(s)
              /\ W!detect_definition_search(s) = Alone!Shell!detect_definition_search(s)
              /\ W!Plain(s) = Alone!Shell!Plain(s) /\ W!OneSearch(s) = Alone!Shell!OneSearch(s) /\ W!ToSet(s) = Alone!Shell!ToSet(s)
    /\ \A s, name : W!Seeks(s, name) = Alone!Shell!Seeks(s, name)
    /\ \A s, t : W!IsPrefix(s, t) = Alone!Shell!IsPrefix(s, t)
    /\ \A S : W!Min(S) = Alone!Min(S)
    /\ W!Quotes = Alone!Shell!Quotes
<1>1. \A s : W!Inked(s) = Alone!Shell!Inked(s)
  BY DEF W!Inked, Alone!Shell!Inked, W!Blanks, Alone!Shell!Blanks, W!Space, Alone!Shell!Space, W!Newline,
         Alone!Shell!Newline
<1>2. \A s : W!FirstWord(s) = Alone!Shell!FirstWord(s)
  BY DEF W!FirstWord, Alone!Shell!FirstWord, W!Until, Alone!Shell!Until, W!Inked, Alone!Shell!Inked, W!Blanks,
         Alone!Shell!Blanks, W!Space, Alone!Shell!Space, W!Newline, Alone!Shell!Newline, W!Min, Alone!Shell!Min
<1>3. \A s : W!target_of(s) = Alone!Shell!target_of(s)
  BY DEF W!target_of, Alone!Shell!target_of, W!FirstWord, Alone!Shell!FirstWord, W!Until, Alone!Shell!Until,
         W!Inked, Alone!Shell!Inked, W!Blanks, Alone!Shell!Blanks, W!Space, Alone!Shell!Space, W!Newline,
         Alone!Shell!Newline, W!Min, Alone!Shell!Min
<1>4. \A s : W!fingerprint(s) = Alone!Shell!fingerprint(s)
  BY DEF W!fingerprint, Alone!Shell!fingerprint, W!Trim, Alone!Shell!Trim, W!Reduce, Alone!Shell!Reduce, W!Quotes,
         Alone!Shell!Quotes, W!Double, Alone!Shell!Double, W!Single, Alone!Shell!Single, W!Inked, Alone!Shell!Inked,
         W!Blanks, Alone!Shell!Blanks, W!Space, Alone!Shell!Space, W!Newline, Alone!Shell!Newline, W!Min,
         Alone!Shell!Min, W!Max, Alone!Shell!Max, W!Last, Alone!Shell!Last
<1>5. \A s : W!is_rewritable(s) = Alone!Shell!is_rewritable(s)
  BY DEF W!is_rewritable, Alone!Shell!is_rewritable, W!ToSet, Alone!Shell!ToSet, W!Operators,
         Alone!Shell!Operators, W!At, Alone!Shell!At, W!Trim, Alone!Shell!Trim, W!Inked, Alone!Shell!Inked, W!Blanks,
         Alone!Shell!Blanks, W!Space, Alone!Shell!Space, W!Newline, Alone!Shell!Newline, W!FirstWord,
         Alone!Shell!FirstWord, W!Until, Alone!Shell!Until, W!Readers, Alone!Shell!Readers, W!Min, Alone!Shell!Min,
         W!Max, Alone!Shell!Max
<1>6. \A s : W!quoted_literal(s) = Alone!Shell!quoted_literal(s)
  BY DEF W!quoted_literal, Alone!Shell!quoted_literal, W!FirstTwo, Alone!Shell!FirstTwo, W!Double,
         Alone!Shell!Double, W!Single, Alone!Shell!Single
<1>7. \A s : W!Plain(s) = Alone!Shell!Plain(s)
  BY DEF W!Plain, Alone!Shell!Plain, W!ToSet, Alone!Shell!ToSet, W!Newline, Alone!Shell!Newline, W!Escape,
         Alone!Shell!Escape, W!Open, Alone!Shell!Open, W!Quotes, Alone!Shell!Quotes, W!Double, Alone!Shell!Double,
         W!Single, Alone!Shell!Single, W!Space, Alone!Shell!Space
<1>8. \A s : W!OneSearch(s) = Alone!Shell!OneSearch(s)
  BY DEF W!OneSearch, Alone!Shell!OneSearch, W!ShellWords, Alone!Shell!ShellWords, W!Runs, Alone!Shell!Runs,
         W!Breaks, Alone!Shell!Breaks, W!Bare, Alone!Shell!Bare, W!Open, Alone!Shell!Open, W!Quotes, Alone!Shell!Quotes,
         W!Double, Alone!Shell!Double, W!Single, Alone!Shell!Single, W!Newline, Alone!Shell!Newline, W!Space,
         Alone!Shell!Space, W!Readers, Alone!Shell!Readers
<1>9. \A s : W!Open(s) = Alone!Shell!Open(s)
  BY DEF W!Open, Alone!Shell!Open, W!Quotes, Alone!Shell!Quotes, W!Double, Alone!Shell!Double, W!Single,
         Alone!Shell!Single
<1>10. \A s : W!ShellWords(s) = Alone!Shell!ShellWords(s)
  BY DEF W!ShellWords, Alone!Shell!ShellWords, W!Runs, Alone!Shell!Runs, W!Breaks, Alone!Shell!Breaks, W!Bare,
         Alone!Shell!Bare, W!Open, Alone!Shell!Open, W!Quotes, Alone!Shell!Quotes, W!Double, Alone!Shell!Double,
         W!Single, Alone!Shell!Single, W!Newline, Alone!Shell!Newline, W!Space, Alone!Shell!Space
<1>11. \A s : W!detect_definition_search(s) = Alone!Shell!detect_definition_search(s)
  BY <1>5, <1>6, SymbolsAreTheSame DEF W!detect_definition_search, Alone!Shell!detect_definition_search
<1>12. \A s, name : W!Declares(s, name) = Alone!Shell!Declares(s, name)
  BY DEF W!Declares, Alone!Shell!Declares, W!ToSet, Alone!Shell!ToSet, W!Keywords, Alone!Shell!Keywords, W!At,
         Alone!Shell!At, W!Lower, Alone!Shell!Lower, W!Space, Alone!Shell!Space, W!Until, Alone!Shell!Until, W!Min,
         Alone!Shell!Min, W!NotOfNames, Alone!Shell!NotOfNames, W!Metacharacters, Alone!Shell!Metacharacters,
         W!Escape, Alone!Shell!Escape, W!Blanks, Alone!Shell!Blanks, W!Quotes, Alone!Shell!Quotes, W!Operators,
         Alone!Shell!Operators, W!Newline, Alone!Shell!Newline, W!Double, Alone!Shell!Double, W!Single,
         Alone!Shell!Single
<1>13. W!Quotes = Alone!Shell!Quotes
  BY DEF W!Quotes, Alone!Shell!Quotes, W!Double, Alone!Shell!Double, W!Single, Alone!Shell!Single
<1>14. \A s, name : W!Seeks(s, name) = Alone!Shell!Seeks(s, name)
  BY <1>9, <1>10, <1>12, <1>13 DEF W!Seeks, Alone!Shell!Seeks
<1>15. \A s, t : W!IsPrefix(s, t) = Alone!Shell!IsPrefix(s, t)
  BY DEF W!IsPrefix, Alone!Shell!IsPrefix
<1>16. /\ \A S : W!Min(S) = Alone!Min(S)
       /\ \A s : W!ToSet(s) = Alone!Shell!ToSet(s)
  BY DEF W!Min, Alone!Min, W!ToSet, Alone!Shell!ToSet
<1> QED
  BY <1>1, <1>2, <1>3, <1>4, <1>7, <1>8, <1>11, <1>13, <1>14, <1>15, <1>16

\* What has been replaced was a search for what is looked up, and a habit.
RewriteInv ==
    /\ command \in Typed /\ past \in Pasts
    /\ replaced # {} => replaced = W!detect_definition_search(command) /\ W!is_hot(command)

\* It is inductive, as neither what is typed nor the trace changes.
LEMMA RewriteInductive == W!Spec => []RewriteInv
<1>1. W!Init => RewriteInv
  BY DEF W!Init, RewriteInv
<1>2. RewriteInv /\ [W!Next]_W!vars => RewriteInv'
  <2> SUFFICES ASSUME RewriteInv, [W!Next]_W!vars PROVE RewriteInv'
    OBVIOUS
  <2>1. UNCHANGED <<command, past>>
    BY DEF W!Next, W!rewrite, W!vars
  <2>2. W!is_hot(command)' = W!is_hot(command) /\ W!detect_definition_search(command)' = W!detect_definition_search(command)
    BY <2>1 DEF W!is_hot
  <2>3. replaced' = replaced \/ (replaced' = W!detect_definition_search(command) /\ W!is_hot(command))
    BY DEF W!Next, W!rewrite, W!vars
  <2> QED
    BY <2>1, <2>2, <2>3 DEF RewriteInv
<1> QED
  BY <1>1, <1>2, PTL DEF W!Spec

\* Each command is made of pieces.
LEMMA CommandsAreLists ==
    ASSUME W!Legible, RewriteInv
    PROVE  /\ \E pieces : command \in Seq(pieces)
           /\ \E pieces : past.of \in Seq(pieces)
           /\ Opening \in Nat /\ Opening >= 2
BY DEF W!Legible, RewriteInv

\* A plain command that has been replaced is one search for the name.
LEMMA NameWasSought == ASSUME W!Legible, RewriteInv PROVE W!TheNameWasSought
<1> SUFFICES ASSUME replaced # {}, W!Plain(command)
             PROVE  W!OneSearch(command) /\ \A name \in replaced : W!Seeks(command, name)
  BY DEF W!TheNameWasSought
<1>1. PICK pieces : command \in Seq(pieces)
  BY CommandsAreLists
<1>2. replaced = Alone!Shell!detect_definition_search(command) /\ Alone!Shell!Plain(command)
  BY CommandsAreTheSame DEF RewriteInv
<1>3. \A name \in replaced : Alone!Shell!OneSearch(command) /\ Alone!Shell!Seeks(command, name)
  BY <1>1, <1>2, Alone!NameIsSought
<1> QED
  BY <1>3, CommandsAreTheSame

\* A habit is noticed by its target, which begins the shape; and a target that begins a shape,
\* or is begun by it, has its program.
LEMMA HabitWasNoticed == ASSUME W!Legible, RewriteInv PROVE W!HabitsAreNoticed
<1>1. PICK pieces : command \in Seq(pieces)
  BY CommandsAreLists
<1>2. PICK others : past.of \in Seq(others)
  BY CommandsAreLists
<1> DEFINE earlier == past.of
           habit == past.times >= 3 /\ past.times * past.each >= 4096
           shape == Alone!Shell!fingerprint(command)
           target == Alone!Shell!target_of(earlier)
           head == SubSeq(shape, 1, Alone!Min({Opening, Len(shape)}))
<1>3. W!is_hot(command) <=> habit /\ (Alone!Shell!IsPrefix(target, shape) \/ Alone!Shell!IsPrefix(head, target))
  <2>1. W!is_hot(command) <=> W!IsOfShape(W!target_of(past.of), W!fingerprint(command)) /\ habit
    BY DEF W!is_hot, W!MIN_REPEATS, W!MIN_TOTAL_BYTES
  <2>2. W!IsOfShape(target, shape) <=> Alone!Shell!IsPrefix(target, shape) \/ Alone!Shell!IsPrefix(head, target)
    BY CommandsAreTheSame DEF W!IsOfShape
  <2>3. W!target_of(past.of) = target /\ W!fingerprint(command) = shape
    BY CommandsAreTheSame
  <2> HIDE DEF habit, target, shape, head
  <2> QED
    BY <2>1, <2>2, <2>3
<1> HIDE DEF habit
<1>4. ASSUME W!fingerprint(past.of) = W!fingerprint(command),
             W!ToSet(W!target_of(past.of)) \intersect (W!Quotes \union {"/"}) = {}, habit
      PROVE  W!is_hot(command)
  <2>1. /\ Alone!Shell!fingerprint(earlier) = shape
        /\ Alone!Shell!ToSet(target) \intersect (Alone!Shell!Quotes \union {"/"}) = {}
    BY <1>4, CommandsAreTheSame
  <2>2. Alone!Shell!IsPrefix(Alone!Shell!target_of(earlier), Alone!Shell!fingerprint(earlier))
    BY <1>2, <2>1, Alone!HabitBegins
  <2> QED
    BY <1>3, <1>4, <2>1, <2>2
<1>5. ASSUME replaced # {}, W!Inked(past.of) # {}
      PROVE  habit /\ W!FirstWord(past.of) = W!FirstWord(command)
  <2>1. Alone!Shell!detect_definition_search(command) # {} /\ Alone!Shell!Inked(earlier) # {} /\ W!is_hot(command)
    BY <1>5, CommandsAreTheSame DEF RewriteInv
  <2>2. Opening \in Nat /\ Opening >= 2
    BY CommandsAreLists
  <2>3. Alone!Shell!FirstWord(earlier) = Alone!Shell!FirstWord(command)
    BY <1>1, <1>2, <1>3, <2>1, <2>2, Alone!ProgramBegins
  <2> QED
    BY <1>3, <2>1, <2>3, CommandsAreTheSame
<1> QED
  BY <1>4, <1>5 DEF W!HabitsAreNoticed, habit

\* Both hold of the hook by itself.
LEMMA HabitsAlone == ASSUME W!Legible PROVE W!Spec => [](W!TheNameWasSought /\ W!HabitsAreNoticed)
BY RewriteInductive, NameWasSought, HabitWasNoticed, PTL

\* The hook that rewrites (rewrite.rs, hook.rs): whatever is typed and whatever the trace holds,
\* a plain command that is replaced is one search, and an argument of it declares the name that
\* is looked up instead; a habit is noticed whatever it quotes and wherever its paths lead; and
\* a replacement rests on three earlier calls of its program.
THEOREM HabitsReplaced == ASSUME W!Legible PROVE AlgorithmsSpec => []HabitsAreReplaced
BY HabitsAlone, RewriteRun, PTL DEF HabitsAreReplaced
=============================================================================
