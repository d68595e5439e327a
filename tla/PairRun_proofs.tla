--------------------------- MODULE PairRun_proofs ---------------------------
(***************************************************************************)
(* Proofs about the two halves of rewriting.  Of PairRun, for texts,       *)
(* traces and windows of every size: what each class's comparison comes    *)
(* to, what the window of recent commands is, and the counts of the loop   *)
(* over it.  Of Commands, for commands of every length, over any pieces:   *)
(* what the hook reads in them, and what a shell does.                     *)
(***************************************************************************)
EXTENDS PairRun, Lists_proofs

-----------------------------------------------------------------------------
\* Trimmed lines.
Lines == Seq(Line)

LEMMA CollapseType ==
    ASSUME NEW done \in Lines, NEW l \in Line
    PROVE  Collapse(done, l) \in Lines
<1>1. Append(done, l) \in Lines
  BY AppendProperties DEF Lines
<1> QED
  BY <1>1 DEF Collapse

\* The loop of the normalizer.
LEMMA CollapseLoop ==
    ASSUME NEW list \in Lines
    PROVE  \E loop : /\ loop \in [0..Len(list) -> Lines]
                     /\ loop[0] = <<>>
                     /\ \A k \in 1..Len(list) : loop[k] = Collapse(loop[k - 1], list[k])
                     /\ FoldLeft(Collapse, <<>>, list) = loop[Len(list)]
<1> DEFINE n == Len(list)
           base == <<>>
           step == [x \in (Lines) \X (1..n) |-> Collapse(x[1], list[x[2]])]
           round(iter, s) == IF s = {} THEN base ELSE Collapse(iter[s \ {Max(s)}], list[Max(s)])
           chosen == CHOOSE iter : iter = [s \in SUBSET (1..n) |-> round(iter, s)]
<1>1. n \in Nat /\ DOMAIN list = 1..n /\ \A k \in 1..n : list[k] \in Line
  BY DEF Lines
<1>2. FoldLeft(Collapse, <<>>, list) = chosen[1..n]
  BY <1>1 DEF FoldLeft, MapThenFoldSet
<1>3. step \in [(Lines) \X (1..n) -> Lines]
  BY <1>1, CollapseType
<1>4. base \in Lines
  BY EmptySeq DEF Lines
<1> HIDE DEF n, base
<1>5. PICK iter : IsFold(iter, Lines, n, base, step)
  <2> HIDE DEF step
  <2> QED
    BY <1>1, <1>3, <1>4, FoldExists
<1>6. ASSUME NEW s \in SUBSET (1..n) PROVE Turn(iter, step, base, s) = round(iter, s)
  <2>1. CASE s = {}
    BY <2>1 DEF Turn
  <2>2. CASE s # {}
    <3>1. Max(s) \in 1..n
      BY <1>1, <2>2, MaxIsLargest
    <3>2. iter[s \ {Max(s)}] \in Lines
      BY <1>5 DEF IsFold
    <3>3. step[<<iter[s \ {Max(s)}], Max(s)>>] = Collapse(iter[s \ {Max(s)}], list[Max(s)])
      BY <3>1, <3>2
    <3> QED
      BY <2>2, <3>1, <3>3 DEF Turn
  <2> QED
    BY <2>1, <2>2
<1>7. iter = [s \in SUBSET (1..n) |-> round(iter, s)]
  <2> HIDE DEF round
  <2>1. iter = [s \in SUBSET (1..n) |-> iter[s]]
    BY <1>5 DEF IsFold
  <2> QED
    BY <1>5, <1>6, <2>1 DEF IsFold
<1>8. chosen = [s \in SUBSET (1..n) |-> round(chosen, s)]
  <2> HIDE DEF round
  <2> QED
    BY <1>7
<1>9. chosen[1..0] = base /\ \A k \in 1..n : chosen[1..k] = Collapse(chosen[1..(k - 1)], list[k])
  <2> HIDE DEF chosen
  <2>1. 1..0 = {} /\ {} \in SUBSET (1..n)
    OBVIOUS
  <2>2. ASSUME NEW k \in 1..n PROVE chosen[1..k] = Collapse(chosen[1..(k - 1)], list[k])
    <3>1. k \in Nat \ {0} /\ 1..k \in SUBSET (1..n)
      BY <1>1
    <3>2. chosen[1..k] = round(chosen, 1..k)
      BY <1>8, <3>1
    <3>3. Max(1..k) = k /\ (1..k) \ {k} = 1..(k - 1) /\ 1..k # {}
      BY <3>1, MaxOfSegment
    <3> QED
      BY <3>2, <3>3
  <2> QED
    BY <1>8, <2>1, <2>2
<1> DEFINE loop == [k \in 0..n |-> chosen[1..k]]
<1> HIDE DEF chosen
<1>10. loop[0] = base /\ (\A k \in 1..n : loop[k] = Collapse(loop[k - 1], list[k])) /\ loop[n] = chosen[1..n]
  BY <1>1, <1>9
<1>11. loop = [k \in 0..n |-> loop[k]]
  OBVIOUS
<1> HIDE DEF loop
<1>12. \A k \in 0..n : loop[k] \in Lines
  <2> DEFINE T == {k \in Nat : k <= n => loop[k] \in Lines}
  <2>1. 0 \in T
    BY <1>4, <1>10
  <2>2. ASSUME NEW k \in T PROVE k + 1 \in T
    <3> SUFFICES ASSUME k + 1 <= n PROVE loop[k + 1] \in Lines
      OBVIOUS
    <3>1. k + 1 \in 1..n /\ (k + 1) - 1 = k /\ k <= n
      BY <1>1
    <3>2. loop[k] \in Lines
      BY <3>1
    <3>3. step[<<loop[k], k + 1>>] = loop[k + 1]
      BY <1>10, <3>1, <3>2
    <3> HIDE DEF step
    <3> QED
      BY <1>3, <3>1, <3>2, <3>3
  <2>3. T = Nat
    <3> HIDE DEF T
    <3>1. T \in SUBSET Nat
      BY DEF T
    <3> QED
      BY <2>1, <2>2, <3>1, InductiveSet
  <2> QED
    BY <1>1, <2>3
<1>13. loop \in [0..n -> Lines]
  BY <1>11, <1>12
<1> QED
  BY <1>2, <1>10, <1>13 DEF n, base

\* What is recorded of calls on some targets.
OnTargets(T) == [tool : STRING, target : T \cup {"none"}]

LEMMA RecallType ==
    ASSUME NEW T, NEW done \in Seq(T), NEW r \in OnTargets(T)
    PROVE  Recall(done, r) \in Seq(T)
<1>1. CASE r.target \in T
  <2>1. Append(done, r.target) \in Seq(T)
    BY <1>1, AppendProperties
  <2> QED
    BY <2>1 DEF Recall
<1>2. CASE r.target = "none"
  BY <1>2 DEF Recall, OnTargets
<1> QED
  BY <1>1, <1>2 DEF OnTargets

\* The loop over the records.
LEMMA RecallLoop ==
    ASSUME NEW T, NEW list \in Seq(OnTargets(T))
    PROVE  \E loop : /\ loop \in [0..Len(list) -> Seq(T)]
                     /\ loop[0] = <<>>
                     /\ \A k \in 1..Len(list) : loop[k] = Recall(loop[k - 1], list[k])
                     /\ FoldLeft(Recall, <<>>, list) = loop[Len(list)]
<1> DEFINE n == Len(list)
           base == <<>>
           step == [x \in (Seq(T)) \X (1..n) |-> Recall(x[1], list[x[2]])]
           round(iter, s) == IF s = {} THEN base ELSE Recall(iter[s \ {Max(s)}], list[Max(s)])
           chosen == CHOOSE iter : iter = [s \in SUBSET (1..n) |-> round(iter, s)]
<1>1. n \in Nat /\ DOMAIN list = 1..n /\ \A k \in 1..n : list[k] \in OnTargets(T)
  OBVIOUS
<1>2. FoldLeft(Recall, <<>>, list) = chosen[1..n]
  BY <1>1 DEF FoldLeft, MapThenFoldSet
<1>3. step \in [(Seq(T)) \X (1..n) -> Seq(T)]
  BY <1>1, RecallType
<1>4. base \in Seq(T)
  BY EmptySeq
<1> HIDE DEF n, base
<1>5. PICK iter : IsFold(iter, Seq(T), n, base, step)
  <2> HIDE DEF step
  <2> QED
    BY <1>1, <1>3, <1>4, FoldExists
<1>6. ASSUME NEW s \in SUBSET (1..n) PROVE Turn(iter, step, base, s) = round(iter, s)
  <2>1. CASE s = {}
    BY <2>1 DEF Turn
  <2>2. CASE s # {}
    <3>1. Max(s) \in 1..n
      BY <1>1, <2>2, MaxIsLargest
    <3>2. iter[s \ {Max(s)}] \in Seq(T)
      BY <1>5 DEF IsFold
    <3>3. step[<<iter[s \ {Max(s)}], Max(s)>>] = Recall(iter[s \ {Max(s)}], list[Max(s)])
      BY <3>1, <3>2
    <3> QED
      BY <2>2, <3>1, <3>3 DEF Turn
  <2> QED
    BY <2>1, <2>2
<1>7. iter = [s \in SUBSET (1..n) |-> round(iter, s)]
  <2> HIDE DEF round
  <2>1. iter = [s \in SUBSET (1..n) |-> iter[s]]
    BY <1>5 DEF IsFold
  <2> QED
    BY <1>5, <1>6, <2>1 DEF IsFold
<1>8. chosen = [s \in SUBSET (1..n) |-> round(chosen, s)]
  <2> HIDE DEF round
  <2> QED
    BY <1>7
<1>9. chosen[1..0] = base /\ \A k \in 1..n : chosen[1..k] = Recall(chosen[1..(k - 1)], list[k])
  <2> HIDE DEF chosen
  <2>1. 1..0 = {} /\ {} \in SUBSET (1..n)
    OBVIOUS
  <2>2. ASSUME NEW k \in 1..n PROVE chosen[1..k] = Recall(chosen[1..(k - 1)], list[k])
    <3>1. k \in Nat \ {0} /\ 1..k \in SUBSET (1..n)
      BY <1>1
    <3>2. chosen[1..k] = round(chosen, 1..k)
      BY <1>8, <3>1
    <3>3. Max(1..k) = k /\ (1..k) \ {k} = 1..(k - 1) /\ 1..k # {}
      BY <3>1, MaxOfSegment
    <3> QED
      BY <3>2, <3>3
  <2> QED
    BY <1>8, <2>1, <2>2
<1> DEFINE loop == [k \in 0..n |-> chosen[1..k]]
<1> HIDE DEF chosen
<1>10. loop[0] = base /\ (\A k \in 1..n : loop[k] = Recall(loop[k - 1], list[k])) /\ loop[n] = chosen[1..n]
  BY <1>1, <1>9
<1>11. loop = [k \in 0..n |-> loop[k]]
  OBVIOUS
<1> HIDE DEF loop
<1>12. \A k \in 0..n : loop[k] \in Seq(T)
  <2> DEFINE Ok == {k \in Nat : k <= n => loop[k] \in Seq(T)}
  <2>1. 0 \in Ok
    BY <1>4, <1>10
  <2>2. ASSUME NEW k \in Ok PROVE k + 1 \in Ok
    <3> SUFFICES ASSUME k + 1 <= n PROVE loop[k + 1] \in Seq(T)
      OBVIOUS
    <3>1. k + 1 \in 1..n /\ (k + 1) - 1 = k /\ k <= n
      BY <1>1
    <3>2. loop[k] \in Seq(T)
      BY <3>1
    <3>3. step[<<loop[k], k + 1>>] = loop[k + 1]
      BY <1>10, <3>1, <3>2
    <3> HIDE DEF step
    <3> QED
      BY <1>3, <3>1, <3>2, <3>3
  <2>3. Ok = Nat
    <3> HIDE DEF Ok
    <3>1. Ok \in SUBSET Nat
      BY DEF Ok
    <3> QED
      BY <2>1, <2>2, <3>1, InductiveSet
  <2> QED
    BY <1>1, <2>3
<1>13. loop \in [0..n -> Seq(T)]
  BY <1>11, <1>12
<1> QED
  BY <1>2, <1>10, <1>13 DEF n, base

\* Two sets are of one size when a function that tells elements apart takes one onto the other.
LEMMA SameCount ==
    ASSUME NEW S, NEW T, NEW f, IsFiniteSet(S), \A x \in S : f[x] \in T,
           \A x, y \in S : f[x] = f[y] => x = y, \A t \in T : \E x \in S : f[x] = t
    PROVE  IsFiniteSet(T) /\ Cardinality(T) = Cardinality(S)
<1> DEFINE g == [x \in S |-> f[x]]
<1>1. g \in Bijection(S, T)
  BY DEF Bijection, Injection, Surjection, IsInjective
<1> QED
  BY <1>1, FS_Bijection DEF ExistsBijection

\* The places that the lines of a list have after the normalizer.
Placed(list, w, p) ==
    /\ p[0] = 0 /\ p[Len(list)] = Len(w)
    /\ \A i \in 0..Len(list) : p[i] \in Nat
    /\ \A i \in 1..Len(list) :
          /\ p[i] \in 1..Len(w)
          /\ Blank(w[p[i]]) <=> Blank(list[i])
          /\ ~ Blank(list[i]) => w[p[i]] = list[i]
          /\ IF i > 1 /\ Blank(list[i - 1]) /\ Blank(list[i]) THEN p[i] = p[i - 1] ELSE p[i] = p[i - 1] + 1
    /\ \A m \in 1..Len(w) : \E i \in 1..Len(list) : p[i] = m

LEMMA CollapsePlaces ==
    ASSUME NEW list \in Lines
    PROVE  /\ FoldLeft(Collapse, <<>>, list) \in Lines
           /\ \E p : Placed(list, FoldLeft(Collapse, <<>>, list), p)
<1> DEFINE n == Len(list)
           w == FoldLeft(Collapse, <<>>, list)
<1>1. n \in Nat /\ DOMAIN list = 1..n
  BY DEF Lines
<1>2. PICK loop \in [0..n -> Lines] :
         /\ loop[0] = <<>>
         /\ \A k \in 1..n : loop[k] = Collapse(loop[k - 1], list[k])
         /\ w = loop[n]
  BY CollapseLoop
<1> DEFINE p == [k \in 0..n |-> Len(loop[k])]
<1>3. \A k \in 0..n : loop[k] \in Seq(Line) /\ p[k] \in Nat /\ p[k] = Len(loop[k])
  BY <1>2 DEF Lines
<1>4. w \in Lines
  BY <1>1, <1>2
<1>5. ASSUME NEW k \in 1..n
      PROVE  list[k] \in Line /\ k - 1 \in 0..n /\ k \in 0..n
  BY <1>1 DEF Lines
<1> HIDE DEF n, w, p
<1>6. ASSUME NEW k \in 1..n
      PROVE  \/ loop[k] = Append(loop[k - 1], list[k])
             \/ loop[k] = loop[k - 1] /\ Blank(list[k]) /\ loop[k - 1] # <<>> /\ Blank(loop[k - 1][Len(loop[k - 1])])
  BY <1>2 DEF Collapse, Last
<1>7. ASSUME NEW k \in 1..n
      PROVE  /\ loop[k] # <<>>
             /\ p[k] >= p[k - 1]
             /\ \A m \in 1..p[k - 1] : loop[k][m] = loop[k - 1][m]
             /\ Blank(loop[k][p[k]]) <=> Blank(list[k])
             /\ ~ Blank(list[k]) => loop[k][p[k]] = list[k]
             /\ p[k] = p[k - 1] \/ (p[k] = p[k - 1] + 1 /\ loop[k] = Append(loop[k - 1], list[k]))
  <2>1. loop[k - 1] \in Seq(Line) /\ loop[k] \in Seq(Line) /\ p[k - 1] = Len(loop[k - 1]) /\ p[k] = Len(loop[k]) /\ list[k] \in Line
    BY <1>3, <1>5
  <2>2. CASE loop[k] = Append(loop[k - 1], list[k])
    <3>1. /\ Len(loop[k]) = Len(loop[k - 1]) + 1
          /\ \A m \in 1..Len(loop[k - 1]) : loop[k][m] = loop[k - 1][m]
          /\ loop[k][Len(loop[k])] = list[k]
      BY <2>1, <2>2
    <3>2. loop[k] # <<>> /\ p[k - 1] \in Nat
      BY <2>1, <3>1
    <3> QED
      BY <2>1, <2>2, <3>1, <3>2
  <2>3. CASE loop[k] = loop[k - 1] /\ Blank(list[k]) /\ loop[k - 1] # <<>> /\ Blank(loop[k - 1][Len(loop[k - 1])])
    BY <2>1, <2>3
  <2> QED
    BY <1>6, <2>2, <2>3
<1>8. ASSUME NEW k \in 1..n
      PROVE  IF k > 1 /\ Blank(list[k - 1]) /\ Blank(list[k]) THEN p[k] = p[k - 1] ELSE p[k] = p[k - 1] + 1
  <2>1. loop[k - 1] \in Seq(Line) /\ p[k - 1] = Len(loop[k - 1]) /\ p[k] = Len(loop[k]) /\ list[k] \in Line /\ k \in Nat
    BY <1>1, <1>3, <1>5
  <2>2. loop[k] = IF Blank(list[k]) /\ loop[k - 1] # <<>> /\ Blank(loop[k - 1][Len(loop[k - 1])])
                  THEN loop[k - 1] ELSE Append(loop[k - 1], list[k])
    BY <1>2 DEF Collapse, Last
  <2>3. CASE k = 1
    <3>1. loop[k - 1] = <<>>
      BY <1>2, <2>3
    <3>2. loop[k] = Append(loop[k - 1], list[k])
      BY <2>2, <3>1
    <3>3. p[k] = p[k - 1] + 1
      BY <2>1, <3>2
    <3> QED
      BY <2>3, <3>3
  <2>4. CASE k > 1
    <3>1. k - 1 \in 1..n
      BY <1>1, <2>1, <2>4
    <3>2. loop[k - 1] # <<>> /\ (Blank(loop[k - 1][Len(loop[k - 1])]) <=> Blank(list[k - 1]))
      BY <1>7, <2>1, <3>1
    <3>3. CASE Blank(list[k - 1]) /\ Blank(list[k])
      BY <2>1, <2>2, <2>4, <3>2, <3>3
    <3>4. CASE ~ (Blank(list[k - 1]) /\ Blank(list[k]))
      <4>1. loop[k] = Append(loop[k - 1], list[k])
        BY <2>2, <3>2, <3>4
      <4>2. p[k] = p[k - 1] + 1
        BY <2>1, <4>1
      <4> QED
        BY <3>4, <4>2
    <3> QED
      BY <3>3, <3>4
  <2> QED
    BY <2>1, <2>3, <2>4
<1> DEFINE Stays(k, j) == p[k] <= p[j] /\ \A m \in 1..p[k] : loop[j][m] = loop[k][m]
           Onto(j) == \A m \in 1..p[j] : \E i \in 1..j : p[i] = m
<1>9. ASSUME NEW k \in 0..n, NEW j \in k..n PROVE Stays(k, j)
  <2> DEFINE Ok == {d \in Nat : k + d <= n => Stays(k, k + d)}
  <2>1. Ok \in SUBSET Nat
    OBVIOUS
  <2>2. 0 \in Ok
    <3>1. k \in Nat /\ p[k] \in Nat /\ k + 0 = k
      BY <1>1, <1>3
    <3> QED
      BY <3>1
  <2>3. ASSUME NEW d \in Ok PROVE d + 1 \in Ok
    <3> SUFFICES ASSUME k + (d + 1) <= n PROVE Stays(k, k + (d + 1))
      OBVIOUS
    <3>1. /\ k + (d + 1) \in 1..n /\ (k + (d + 1)) - 1 = k + d /\ k + d <= n
          /\ k + d \in 0..n /\ k \in 0..n
      BY <1>1
    <3>2. Stays(k, k + d)
      BY <3>1
    <3>3. /\ p[k + (d + 1)] >= p[k + d]
          /\ \A m \in 1..p[k + d] : loop[k + (d + 1)][m] = loop[k + d][m]
      BY <1>7, <3>1
    <3>4. p[k] \in Nat /\ p[k + d] \in Nat /\ p[k + (d + 1)] \in Nat
      <4>1. k + (d + 1) \in 0..n
        BY <1>1, <3>1
      <4> QED
        BY <1>3, <3>1, <4>1
    <3>5. \A m \in 1..p[k] : m \in 1..p[k + d]
      BY <3>2, <3>4
    <3> QED
      BY <3>2, <3>3, <3>4, <3>5
  <2>4. Ok = Nat
    <3> HIDE DEF Ok
    <3> QED
      BY <2>1, <2>2, <2>3, InductiveSet
  <2>5. j - k \in Nat /\ k + (j - k) = j /\ j <= n
    BY <1>1
  <2>6. j - k \in Ok
    BY <2>4, <2>5
  <2> HIDE DEF Stays
  <2> QED
    BY <2>5, <2>6
<1>10. ASSUME NEW j \in 0..n PROVE Onto(j)
  <2> DEFINE Ok == {d \in Nat : d <= n => Onto(d)}
  <2>1. Ok \in SUBSET Nat
    OBVIOUS
  <2>2. 0 \in Ok
    <3>1. p[0] = 0
      <4>1. loop[0] = <<>> /\ 0 \in 0..n
        BY <1>1, <1>2
      <4>2. p[0] = Len(loop[0])
        BY <1>3, <4>1
      <4> QED
        BY <4>1, <4>2
    <3> QED
      BY <3>1
  <2>3. ASSUME NEW d \in Ok PROVE d + 1 \in Ok
    <3> SUFFICES ASSUME d + 1 <= n, NEW m \in 1..p[d + 1] PROVE \E i \in 1..(d + 1) : p[i] = m
      OBVIOUS
    <3>1. d \in Nat /\ d + 1 \in 1..n /\ (d + 1) - 1 = d /\ d <= n /\ d \in 0..n /\ d + 1 \in 0..n
      BY <1>1
    <3>2. p[d + 1] = p[d] \/ p[d + 1] = p[d] + 1
      BY <1>7, <3>1
    <3>3. Onto(d) /\ p[d] \in Nat /\ p[d + 1] \in Nat
      BY <1>3, <3>1
    <3>4. m \in 1..p[d] \/ m = p[d + 1]
      BY <3>2, <3>3
    <3>5. CASE m \in 1..p[d]
      <4>1. PICK i \in 1..d : p[i] = m
        BY <3>3, <3>5
      <4> QED
        BY <3>1, <4>1
    <3>6. CASE m = p[d + 1]
      BY <3>1, <3>6
    <3> QED
      BY <3>4, <3>5, <3>6
  <2>4. Ok = Nat
    <3> HIDE DEF Ok
    <3> QED
      BY <2>1, <2>2, <2>3, InductiveSet
  <2> HIDE DEF Onto
  <2>5. j \in Ok /\ j <= n
    BY <1>1, <2>4
  <2> QED
    BY <2>5
<1>11. Placed(list, w, p)
  <2>1. p[0] = 0 /\ p[n] = Len(w) /\ \A i \in 0..n : p[i] \in Nat
    <3>1. 0 \in 0..n /\ n \in 0..n
      BY <1>1
    <3> QED
      BY <1>2, <1>3, <3>1
  <2>2. ASSUME NEW i \in 1..n
        PROVE  /\ p[i] \in 1..Len(w)
               /\ Blank(w[p[i]]) <=> Blank(list[i])
               /\ ~ Blank(list[i]) => w[p[i]] = list[i]
    <3>1. i \in 0..n /\ n \in i..n /\ n \in 0..n
      BY <1>1
    <3>2. Stays(i, n)
      BY <1>9, <3>1
    <3>3. loop[i] # <<>> /\ loop[i] \in Seq(Line) /\ p[i] = Len(loop[i])
      BY <1>3, <1>7, <3>1
    <3>4. p[i] \in 1..p[i] /\ p[i] >= 1
      BY <3>3
    <3>5. w[p[i]] = loop[i][p[i]]
      BY <1>2, <3>2, <3>4
    <3>6. p[i] \in 1..Len(w)
      <4>1. p[i] \in Nat /\ p[n] \in Nat /\ p[i] <= p[n]
        BY <1>3, <3>1, <3>2
      <4> QED
        BY <2>1, <3>4, <4>1
    <3> QED
      BY <1>7, <3>5, <3>6
  <2>3. \A m \in 1..Len(w) : \E i \in 1..n : p[i] = m
    <3>1. Onto(n)
      <4> HIDE DEF Onto
      <4>1. n \in 0..n
        BY <1>1
      <4> QED
        BY <1>10, <4>1
    <3> QED
      BY <2>1, <3>1
  <2> QED
    BY <1>8, <2>1, <2>2, <2>3 DEF Placed, n
<1> QED
  BY <1>4, <1>11 DEF w

LEMMA HeldIs ==
    ASSUME NEW t \in Lines
    PROVE  /\ Held(t) = {i \in 1..Len(t) : ~ Blank(t[i])} /\ Len(t) \in Nat
           /\ IsFiniteSet(Held(t))
           /\ \A i \in Held(t) : IsFiniteSet({j \in Held(t) : j < i})
<1>1. Len(t) \in Nat /\ DOMAIN t = 1..Len(t)
  BY DEF Lines
<1>2. Held(t) = {i \in 1..Len(t) : ~ Blank(t[i])}
  BY <1>1 DEF Held
<1>3. IsFiniteSet(1..Len(t)) /\ Held(t) \in SUBSET (1..Len(t))
  BY <1>1, <1>2, FS_Interval
<1>4. IsFiniteSet(Held(t))
  BY <1>3, FS_Subset
<1>5. ASSUME NEW i \in Held(t) PROVE IsFiniteSet({j \in Held(t) : j < i})
  <2>1. {j \in Held(t) : j < i} \in SUBSET Held(t)
    OBVIOUS
  <2> QED
    BY <1>4, <2>1, FS_Subset
<1> QED
  BY <1>1, <1>2, <1>4, <1>5

\* The number of a line of content among the lines of content is its own.
LEMMA NthTellsApart ==
    ASSUME NEW t \in Lines, NEW x \in Held(t), NEW y \in Held(t), Nth(t, x) = Nth(t, y)
    PROVE  x = y
<1> DEFINE Under(z) == {j \in Held(t) : j < z}
<1>1. Held(t) \in SUBSET Nat /\ x \in Nat /\ y \in Nat
  BY HeldIs
<1>2. IsFiniteSet(Under(x)) /\ IsFiniteSet(Under(y))
  BY HeldIs
<1>3. Cardinality(Under(x)) = Cardinality(Under(y))
  BY DEF Nth
<1>4. ASSUME NEW u \in Held(t), NEW v \in Held(t), u < v, IsFiniteSet(Under(v)),
             Cardinality(Under(u)) = Cardinality(Under(v))
      PROVE  FALSE
  <2>1. u \in Nat /\ v \in Nat /\ \A j \in Held(t) : j \in Nat
    BY <1>1
  <2>2. Under(u) \in SUBSET Under(v) /\ u \in Under(v) /\ u \notin Under(u)
    <3>1. u \in Under(v) /\ ~ (u < u)
      BY <1>4, <2>1
    <3>2. \A j \in Held(t) : j < u => j < v
      BY <1>4, <2>1
    <3> QED
      BY <3>1, <3>2
  <2>3. Under(u) = Under(v)
    <3> HIDE DEF Under
    <3> QED
      BY <1>4, <2>2, FS_Subset
  <2> HIDE DEF Under
  <2> QED
    BY <2>2, <2>3
<1>5. x < y \/ y < x \/ x = y
  BY <1>1
<1> HIDE DEF Under
<1> QED
  BY <1>2, <1>3, <1>4, <1>5

LEMMA PlacedRises ==
    ASSUME NEW list \in Lines, NEW w \in Lines, NEW p, Placed(list, w, p)
    PROVE  /\ \A i \in Held(list) : p[i] \in Held(w)
           /\ \A i, j \in Held(list) : i < j <=> p[i] < p[j]
           /\ \A m \in Held(w) : \E i \in Held(list) : p[i] = m
<1> DEFINE n == Len(list)
<1>1. /\ n \in Nat /\ Held(list) = {i \in 1..n : ~ Blank(list[i])}
      /\ Held(w) = {i \in 1..Len(w) : ~ Blank(w[i])}
  BY HeldIs
<1>2. /\ \A i \in 0..n : p[i] \in Nat
      /\ \A i \in 1..n :
            /\ p[i] \in 1..Len(w)
            /\ Blank(w[p[i]]) <=> Blank(list[i])
            /\ IF i > 1 /\ Blank(list[i - 1]) /\ Blank(list[i]) THEN p[i] = p[i - 1] ELSE p[i] = p[i - 1] + 1
      /\ \A m \in 1..Len(w) : \E i \in 1..n : p[i] = m
  BY DEF Placed
<1> HIDE DEF n
<1>3. \A i \in Held(list) : p[i] \in Held(w)
  BY <1>1, <1>2
<1>4. ASSUME NEW m \in Held(w) PROVE \E i \in Held(list) : p[i] = m
  <2>1. PICK i \in 1..n : p[i] = m
    BY <1>1, <1>2
  <2>2. ~ Blank(list[i])
    BY <1>1, <1>2, <2>1
  <2> QED
    BY <1>1, <2>1, <2>2
<1>5. ASSUME NEW i \in 0..n, NEW j \in i..n PROVE p[i] <= p[j]
  <2> DEFINE Ok == {d \in Nat : i + d <= n => p[i] <= p[i + d]}
  <2>1. Ok \in SUBSET Nat
    OBVIOUS
  <2>2. 0 \in Ok
    <3>1. i + 0 = i /\ p[i] \in Nat
      BY <1>1, <1>2
    <3> QED
      BY <3>1
  <2>3. ASSUME NEW d \in Ok PROVE d + 1 \in Ok
    <3> SUFFICES ASSUME i + (d + 1) <= n PROVE p[i] <= p[i + (d + 1)]
      OBVIOUS
    <3>1. /\ i + (d + 1) \in 1..n /\ (i + (d + 1)) - 1 = i + d /\ i + d <= n
          /\ i + d \in 0..n /\ i + (d + 1) \in 0..n
      BY <1>1
    <3>2. p[i + (d + 1)] = p[i + d] \/ p[i + (d + 1)] = p[i + d] + 1
      BY <1>2, <3>1
    <3>3. p[i] \in Nat /\ p[i + d] \in Nat /\ p[i + (d + 1)] \in Nat /\ p[i] <= p[i + d]
      BY <1>2, <3>1
    <3> QED
      BY <3>2, <3>3
  <2>4. Ok = Nat
    <3> HIDE DEF Ok
    <3> QED
      BY <2>1, <2>2, <2>3, InductiveSet
  <2>5. j - i \in Nat /\ i + (j - i) = j /\ j <= n
    BY <1>1
  <2>6. j - i \in Ok
    BY <2>4, <2>5
  <2> QED
    BY <2>5, <2>6
<1>6. ASSUME NEW i \in Held(list), NEW j \in Held(list), i < j PROVE p[i] < p[j]
  <2>1. i \in 0..n /\ j - 1 \in i..n /\ j \in 1..n /\ j - 1 \in 0..n /\ ~ Blank(list[j])
    BY <1>1, <1>6
  <2>2. p[i] <= p[j - 1] /\ p[j] = p[j - 1] + 1
    BY <1>2, <1>5, <2>1
  <2>3. p[i] \in Nat /\ p[j - 1] \in Nat
    BY <1>2, <2>1
  <2> QED
    BY <2>2, <2>3
<1>7. ASSUME NEW i \in Held(list), NEW j \in Held(list) PROVE i < j <=> p[i] < p[j]
  <2>1. i \in Nat /\ j \in Nat /\ p[i] \in Nat /\ p[j] \in Nat
    <3>1. i \in 1..n /\ j \in 1..n /\ i \in 0..n /\ j \in 0..n
      BY <1>1
    <3> QED
      BY <1>2, <3>1
  <2>2. i < j => p[i] < p[j]
    BY <1>6
  <2>3. j < i => p[j] < p[i]
    BY <1>6
  <2> QED
    BY <2>1, <2>2, <2>3
<1> QED
  BY <1>3, <1>4, <1>7

LEMMA PlacedCounts ==
    ASSUME NEW list \in Lines, NEW w \in Lines, NEW p, Placed(list, w, p)
    PROVE  /\ Cardinality(Held(list)) = Cardinality(Held(w))
           /\ \A i \in Held(list) : Nth(list, i) = Nth(w, p[i])
<1>1. /\ \A i \in Held(list) : p[i] \in Held(w)
      /\ \A i, j \in Held(list) : i < j <=> p[i] < p[j]
      /\ \A m \in Held(w) : \E i \in Held(list) : p[i] = m
  BY PlacedRises
<1>2. \A i \in Held(list) : i \in Nat
  BY HeldIs
<1>3. \A m \in Held(w) : m \in Nat
  BY HeldIs
<1>4. \A i, j \in Held(list) : p[i] = p[j] => i = j
  <2> SUFFICES ASSUME NEW i \in Held(list), NEW j \in Held(list), p[i] = p[j] PROVE i = j
    OBVIOUS
  <2>1. i \in Nat /\ j \in Nat /\ p[i] \in Nat /\ p[j] \in Nat
    BY <1>1, <1>2, <1>3
  <2>2. (i < j <=> p[i] < p[j]) /\ (j < i <=> p[j] < p[i])
    BY <1>1
  <2>3. ~ (i < j) /\ ~ (j < i)
    BY <2>1, <2>2
  <2> QED
    BY <2>1, <2>3
<1>5. Cardinality(Held(list)) = Cardinality(Held(w))
  BY <1>1, <1>4, HeldIs, SameCount
<1>6. ASSUME NEW i \in Held(list) PROVE Nth(list, i) = Nth(w, p[i])
  <2> DEFINE S == {j \in Held(list) : j < i}
             T == {m \in Held(w) : m < p[i]}
  <2>1. IsFiniteSet(S)
    BY HeldIs
  <2>2. (\A x \in S : p[x] \in T) /\ (\A x, y \in S : p[x] = p[y] => x = y) /\ \A t \in T : \E x \in S : p[x] = t
    <3>1. \A x \in S : p[x] \in T
      BY <1>1
    <3>2. \A x, y \in S : p[x] = p[y] => x = y
      BY <1>4
    <3>3. ASSUME NEW t \in T PROVE \E x \in S : p[x] = t
      <4>1. PICK x \in Held(list) : p[x] = t
        BY <1>1
      <4>2. x < i
        BY <1>1, <4>1
      <4> QED
        BY <4>1, <4>2
    <3> QED
      BY <3>1, <3>2, <3>3
  <2>3. Cardinality(T) = Cardinality(S)
    <3> HIDE DEF S, T
    <3> QED
      BY <2>1, <2>2, SameCount
  <2> QED
    BY <2>3 DEF Nth
<1> QED
  BY <1>5, <1>6

LEMMA PlacedBlanks ==
    ASSUME NEW list \in Lines, NEW w \in Lines, NEW p, Placed(list, w, p)
    PROVE  /\ \A i \in Held(list) : w[p[i]] = list[i] /\ (AfterBlank(list, i) <=> AfterBlank(w, p[i]))
           /\ Held(list) # {} => (AfterBlank(list, Len(list) + 1) <=> AfterBlank(w, Len(w) + 1))
<1> DEFINE n == Len(list)
<1>1. /\ n \in Nat /\ Held(list) = {i \in 1..n : ~ Blank(list[i])} /\ Len(w) \in Nat
  BY HeldIs
<1>2. /\ p[0] = 0 /\ p[n] = Len(w) /\ \A i \in 0..n : p[i] \in Nat
      /\ \A i \in 1..n :
            /\ p[i] \in 1..Len(w)
            /\ Blank(w[p[i]]) <=> Blank(list[i])
            /\ ~ Blank(list[i]) => w[p[i]] = list[i]
            /\ IF i > 1 /\ Blank(list[i - 1]) /\ Blank(list[i]) THEN p[i] = p[i - 1] ELSE p[i] = p[i - 1] + 1
  BY DEF Placed
<1> HIDE DEF n
<1>3. ASSUME NEW i \in Held(list) PROVE w[p[i]] = list[i] /\ (AfterBlank(list, i) <=> AfterBlank(w, p[i]))
  <2>1. i \in 1..n /\ ~ Blank(list[i])
    BY <1>1
  <2>2. w[p[i]] = list[i] /\ p[i] = p[i - 1] + 1
    BY <1>2, <2>1
  <2>3. CASE i = 1
    <3>1. p[i - 1] = 0
      BY <1>2, <2>3
    <3>2. p[i] = 1
      BY <2>2, <3>1
    <3> QED
      BY <2>2, <2>3, <3>2 DEF AfterBlank
  <2>4. CASE i > 1
    <3>1. i - 1 \in 1..n
      BY <1>1, <2>1, <2>4
    <3>2. p[i - 1] \in 1..Len(w) /\ (Blank(w[p[i - 1]]) <=> Blank(list[i - 1]))
      BY <1>2, <3>1
    <3>3. p[i] > 1 /\ p[i] - 1 = p[i - 1]
      BY <1>1, <2>2, <3>2
    <3> QED
      BY <2>2, <2>4, <3>2, <3>3 DEF AfterBlank
  <2> QED
    BY <1>1, <2>1, <2>3, <2>4
<1>4. ASSUME Held(list) # {} PROVE AfterBlank(list, n + 1) <=> AfterBlank(w, Len(w) + 1)
  <2>1. n \in 1..n /\ (n + 1) - 1 = n /\ n + 1 > 1
    BY <1>1, <1>4
  <2>2. Len(w) \in 1..Len(w) /\ (Blank(w[Len(w)]) <=> Blank(list[n]))
    BY <1>2, <2>1
  <2>3. (Len(w) + 1) - 1 = Len(w) /\ Len(w) + 1 > 1
    BY <1>1, <2>2
  <2> QED
    BY <2>1, <2>2, <2>3 DEF AfterBlank
<1> QED
  BY <1>3, <1>4 DEF n

LEMMA TrimmedIs ==
    ASSUME NEW t \in Lines
    PROVE  /\ Trimmed(t) \in Lines /\ Len(Trimmed(t)) = Len(t)
           /\ \A i \in 1..Len(t) :
                 /\ Trimmed(t)[i] = [t[i] EXCEPT !.trail = FALSE]
                 /\ Blank(Trimmed(t)[i]) <=> Blank(t[i])
                 /\ Alike(Trimmed(t)[i], t[i])
           /\ Held(Trimmed(t)) = Held(t)
           /\ \A i : Nth(Trimmed(t), i) = Nth(t, i)
           /\ \A i \in 1..(Len(t) + 1) : AfterBlank(Trimmed(t), i) <=> AfterBlank(t, i)
<1> DEFINE n == Len(t)
           s == Trimmed(t)
<1>1. n \in Nat /\ DOMAIN t = 1..n /\ \A i \in 1..n : t[i] \in Line
  BY DEF Lines
<1>2. s = [i \in 1..n |-> [t[i] EXCEPT !.trail = FALSE]]
  BY <1>1 DEF Trimmed
<1> HIDE DEF n
<1>3. ASSUME NEW i \in 1..n
      PROVE  /\ s[i] = [t[i] EXCEPT !.trail = FALSE] /\ s[i] \in Line
             /\ s[i].words = t[i].words /\ s[i].gutter = t[i].gutter
  <2>1. s[i] = [t[i] EXCEPT !.trail = FALSE] /\ t[i] \in Line
    BY <1>1, <1>2
  <2> HIDE DEF s
  <2> QED
    BY <2>1 DEF Line
<1>4. s \in Lines /\ Len(s) = n /\ DOMAIN s = 1..n
  <2>1. s = [i \in 1..n |-> s[i]]
    BY <1>2
  <2> HIDE DEF s
  <2>2. s \in [1..n -> Line]
    BY <1>3, <2>1
  <2> QED
    BY <1>1, <2>2 DEF Lines
<1> HIDE DEF s
<1>5. ASSUME NEW i \in 1..n
      PROVE  (Blank(s[i]) <=> Blank(t[i])) /\ Alike(s[i], t[i])
  BY <1>3 DEF Blank, Alike
<1>6. Held(s) = Held(t)
  BY <1>1, <1>4, <1>5 DEF Held
<1>7. \A i : Nth(s, i) = Nth(t, i)
  BY <1>6 DEF Nth
<1>8. ASSUME NEW i \in 1..(n + 1) PROVE AfterBlank(s, i) <=> AfterBlank(t, i)
  <2>1. i > 1 => i - 1 \in 1..n
    BY <1>1
  <2> QED
    BY <1>5, <2>1 DEF AfterBlank
<1> QED
  BY <1>3, <1>4, <1>5, <1>6, <1>7, <1>8 DEF n, s

\* Texts that the normalizer makes the same have the same content, with blank lines in the
\* same places.
LEMMA CollapsedKeeps ==
    ASSUME NEW a \in Lines, NEW b \in Lines, Collapsed(a) = Collapsed(b)
    PROVE  SameSpaced(a, b)
<1> DEFINE Kept(t) == FoldLeft(Collapse, <<>>, Trimmed(t))
           Bare(w) == Len(w) = 1 /\ Blank(w[1])
<1>1. Collapsed(a) = (IF Bare(Kept(a)) THEN <<>> ELSE Kept(a)) /\ Collapsed(b) = (IF Bare(Kept(b)) THEN <<>> ELSE Kept(b))
  BY DEF Collapsed
<1>2. Trimmed(a) \in Lines /\ Trimmed(b) \in Lines
  BY TrimmedIs
<1>3. Kept(a) \in Lines /\ Kept(b) \in Lines
  BY <1>2, CollapsePlaces
<1>4. PICK p : Placed(Trimmed(a), Kept(a), p)
  BY <1>2, CollapsePlaces
<1>5. PICK q : Placed(Trimmed(b), Kept(b), q)
  BY <1>2, CollapsePlaces
<1> HIDE DEF Kept
<1>6. /\ Cardinality(Held(a)) = Cardinality(Held(Kept(a)))
      /\ \A i \in Held(a) : Nth(a, i) = Nth(Kept(a), p[i]) /\ p[i] \in Held(Kept(a))
  <2>1. Held(Trimmed(a)) = Held(a) /\ \A i : Nth(Trimmed(a), i) = Nth(a, i)
    BY TrimmedIs
  <2> QED
    BY <1>2, <1>3, <1>4, <2>1, PlacedCounts, PlacedRises
<1>7. /\ Cardinality(Held(b)) = Cardinality(Held(Kept(b)))
      /\ \A i \in Held(b) : Nth(b, i) = Nth(Kept(b), q[i]) /\ q[i] \in Held(Kept(b))
  <2>1. Held(Trimmed(b)) = Held(b) /\ \A i : Nth(Trimmed(b), i) = Nth(b, i)
    BY TrimmedIs
  <2> QED
    BY <1>2, <1>3, <1>5, <2>1, PlacedCounts, PlacedRises
<1>8. CASE Kept(a) = Kept(b)
  <2> DEFINE w == Kept(a)
  <2>1. ASSUME NEW t \in Lines, NEW r, Placed(Trimmed(t), w, r)
        PROVE  /\ \A i \in Held(t) : Alike(t[i], w[r[i]]) /\ (AfterBlank(t, i) <=> AfterBlank(w, r[i]))
               /\ Held(t) # {} => (AfterBlank(t, Len(t) + 1) <=> AfterBlank(w, Len(w) + 1))
    <3>1. /\ Trimmed(t) \in Lines /\ Len(Trimmed(t)) = Len(t) /\ Held(Trimmed(t)) = Held(t)
          /\ \A i \in 1..Len(t) : Alike(Trimmed(t)[i], t[i])
          /\ \A i \in 1..(Len(t) + 1) : AfterBlank(Trimmed(t), i) <=> AfterBlank(t, i)
      BY TrimmedIs
    <3>2. w \in Lines
      BY <1>3
    <3> HIDE DEF w
    <3>3. /\ \A i \in Held(t) : w[r[i]] = Trimmed(t)[i] /\ (AfterBlank(Trimmed(t), i) <=> AfterBlank(w, r[i]))
          /\ Held(t) # {} => (AfterBlank(Trimmed(t), Len(t) + 1) <=> AfterBlank(w, Len(w) + 1))
      BY <2>1, <3>1, <3>2, PlacedBlanks
    <3>4. Len(t) \in Nat /\ \A i \in Held(t) : i \in 1..Len(t)
      BY HeldIs
    <3>5. Len(t) + 1 \in 1..(Len(t) + 1) /\ \A i \in 1..Len(t) : i \in 1..(Len(t) + 1)
      BY <3>4
    <3>6. ASSUME NEW i \in Held(t) PROVE Alike(t[i], w[r[i]])
      <4>1. Alike(Trimmed(t)[i], t[i]) /\ w[r[i]] = Trimmed(t)[i]
        BY <3>1, <3>3, <3>4
      <4> QED
        BY <4>1 DEF Alike
    <3>7. ASSUME NEW i \in Held(t) PROVE AfterBlank(t, i) <=> AfterBlank(w, r[i])
      <4>1. i \in 1..(Len(t) + 1)
        BY <3>4, <3>5
      <4> QED
        BY <3>1, <3>3, <4>1
    <3>8. Held(t) # {} => (AfterBlank(t, Len(t) + 1) <=> AfterBlank(w, Len(w) + 1))
      BY <3>1, <3>3, <3>5
    <3> QED
      BY <3>6, <3>7, <3>8
  <2>2. /\ \A i \in Held(a) : Alike(a[i], w[p[i]]) /\ (AfterBlank(a, i) <=> AfterBlank(w, p[i]))
        /\ Held(a) # {} => (AfterBlank(a, Len(a) + 1) <=> AfterBlank(w, Len(w) + 1))
    BY <1>4, <2>1
  <2>3. /\ \A i \in Held(b) : Alike(b[i], w[q[i]]) /\ (AfterBlank(b, i) <=> AfterBlank(w, q[i]))
        /\ Held(b) # {} => (AfterBlank(b, Len(b) + 1) <=> AfterBlank(w, Len(w) + 1))
    BY <1>5, <1>8, <2>1
  <2>4. Cardinality(Held(a)) = Cardinality(Held(b))
    BY <1>6, <1>7, <1>8
  <2>5. ASSUME NEW i \in Held(a), NEW j \in Held(b), Nth(a, i) = Nth(b, j)
        PROVE  Alike(a[i], b[j]) /\ (AfterBlank(a, i) <=> AfterBlank(b, j))
    <3>1. Nth(w, p[i]) = Nth(w, q[j]) /\ p[i] \in Held(w) /\ q[j] \in Held(w)
      BY <1>6, <1>7, <1>8, <2>5
    <3>2. p[i] = q[j]
      BY <1>3, <3>1, NthTellsApart
    <3>3. Alike(a[i], w[p[i]]) /\ Alike(b[j], w[p[i]])
      BY <2>2, <2>3, <3>2
    <3>4. Alike(a[i], b[j])
      BY <3>3 DEF Alike
    <3> QED
      BY <2>2, <2>3, <3>2, <3>4
  <2>6. Held(a) # {} => Held(b) # {}
    <3>1. IsFiniteSet(Held(a)) /\ IsFiniteSet(Held(b))
      BY HeldIs
    <3>2. Cardinality(Held(a)) = Cardinality(Held(b))
      BY <2>4
    <3> QED
      BY <3>1, <3>2, FS_EmptySet
  <2> HIDE DEF w
  <2> QED
    BY <2>2, <2>3, <2>4, <2>5, <2>6 DEF SameSpaced
<1>9. CASE Kept(a) # Kept(b)
  <2>1. ASSUME NEW w \in Lines, Bare(w) \/ w = <<>> PROVE Held(w) = {}
    <3>1. Held(w) = {i \in 1..Len(w) : ~ Blank(w[i])}
      BY HeldIs
    <3>2. CASE w = <<>>
      BY <3>1, <3>2
    <3>3. CASE Bare(w)
      BY <3>1, <3>3
    <3> QED
      BY <2>1, <3>2, <3>3
  <2>2. (Bare(Kept(a)) \/ Kept(a) = <<>>) /\ (Bare(Kept(b)) \/ Kept(b) = <<>>)
    BY <1>1, <1>9
  <2>3. Held(Kept(a)) = {} /\ Held(Kept(b)) = {}
    BY <1>3, <2>1, <2>2
  <2>4. Held(a) = {} /\ Held(b) = {}
    BY <1>6, <1>7, <2>3
  <2> QED
    BY <2>4 DEF SameSpaced
<1> QED
  BY <1>8, <1>9

LEMMA FirstOf ==
    ASSUME NEW n \in Nat, NEW s \in SUBSET (1..n), s # {}
    PROVE  \E x \in s : \A y \in s : x <= y
<1> DEFINE T == {(n + 1) - x : x \in s}
<1>1. T \in SUBSET (1..n) /\ T # {}
  <2>1. \A x \in s : x \in Nat /\ x >= 1 /\ x <= n
    OBVIOUS
  <2>2. \A x \in s : (n + 1) - x \in 1..n
    BY <2>1
  <2>3. \E x \in s : (n + 1) - x \in T
    OBVIOUS
  <2> QED
    BY <2>2, <2>3
<1>2. Max(T) \in T /\ \A t \in T : t <= Max(T)
  <2> HIDE DEF T
  <2> QED
    BY <1>1, MaxIsLargest
<1>3. PICK x \in s : Max(T) = (n + 1) - x
  BY <1>2
<1>4. ASSUME NEW y \in s PROVE x <= y
  <2>1. (n + 1) - y <= (n + 1) - x
    <3>1. (n + 1) - y \in T
      OBVIOUS
    <3> QED
      BY <1>2, <1>3, <3>1
  <2>2. x \in Nat /\ y \in Nat
    OBVIOUS
  <2> QED
    BY <2>1, <2>2
<1> QED
  BY <1>4

\* Where a kept line is found.
LEMMA CursorIs ==
    ASSUME NEW source \in Lines, NEW cursor \in Int, NEW l
    PROVE  /\ Cursor(source, cursor, l) \in Int
           /\ Blank(l) \/ cursor = -1 => Cursor(source, cursor, l) = cursor
           /\ ~ Blank(l) /\ Cursor(source, cursor, l) # -1 =>
                /\ Cursor(source, cursor, l) \in 1..Len(source)
                /\ Cursor(source, cursor, l) > cursor
                /\ source[Cursor(source, cursor, l)] = l
<1> DEFINE c == Cursor(source, cursor, l)
           places == {i \in DOMAIN source : i > cursor /\ source[i] = l}
<1>1. Len(source) \in Nat /\ DOMAIN source = 1..Len(source)
  BY DEF Lines
<1>2. CASE Blank(l) \/ cursor = -1
  <2>1. c = cursor
    BY <1>2 DEF Cursor
  <2> QED
    BY <1>2, <2>1
<1>3. CASE ~ (Blank(l) \/ cursor = -1)
  <2>1. c = IF places = {} THEN -1 ELSE CHOOSE i \in places : \A j \in places : i <= j
    BY <1>3 DEF Cursor
  <2>2. CASE places = {}
    BY <1>3, <2>1, <2>2
  <2>3. CASE places # {}
    <3>1. places \in SUBSET (1..Len(source))
      BY <1>1
    <3>2. \E i \in places : \A j \in places : i <= j
      <4> HIDE DEF places
      <4> QED
        BY <1>1, <2>3, <3>1, FirstOf
    <3>3. c \in places
      <4> HIDE DEF places, c
      <4> QED
        BY <2>1, <2>3, <3>2
    <3>4. c \in 1..Len(source) /\ c > cursor /\ source[c] = l
      <4> HIDE DEF c
      <4> QED
        BY <1>1, <3>3
    <3>5. c \in Int
      BY <1>1, <3>4
    <3> HIDE DEF c
    <3> QED
      BY <1>3, <3>4, <3>5 DEF c
  <2> QED
    BY <2>2, <2>3
<1> QED
  BY <1>2, <1>3

\* What the search does with one line of the rewrite.
Bared(l) == [l EXCEPT !.gutter = FALSE]
Followed(source, cursor, l) == IF is_marker(l) THEN cursor ELSE Cursor(source, cursor, Bared(l))

LEMMA FollowType ==
    ASSUME NEW source \in Lines, NEW cursor \in Int, NEW l
    PROVE  Followed(source, cursor, l) \in Int
BY CursorIs DEF Followed

\* The search for the lines of the rewrite, one behind the other.
LEMMA FollowLoop ==
    ASSUME NEW source \in Lines, NEW list \in Lines
    PROVE  \E loop : /\ loop \in [0..Len(list) -> Int]
                     /\ loop[0] = 0
                     /\ \A k \in 1..Len(list) : loop[k] = Followed(source, loop[k - 1], list[k])
                     /\ FoldLeft(LAMBDA cursor, l : IF is_marker(l) THEN cursor ELSE Cursor(source, cursor, [l EXCEPT !.gutter = FALSE]), 0, list) = loop[Len(list)]
<1> DEFINE n == Len(list)
           base == 0
           step == [x \in (Int) \X (1..n) |-> Followed(source, x[1], list[x[2]])]
           round(iter, s) == IF s = {} THEN base ELSE Followed(source, iter[s \ {Max(s)}], list[Max(s)])
           chosen == CHOOSE iter : iter = [s \in SUBSET (1..n) |-> round(iter, s)]
<1>1. n \in Nat /\ DOMAIN list = 1..n /\ \A k \in 1..n : list[k] \in Line
  BY DEF Lines
<1>2. FoldLeft(LAMBDA cursor, l : IF is_marker(l) THEN cursor ELSE Cursor(source, cursor, [l EXCEPT !.gutter = FALSE]), 0, list) = chosen[1..n]
  BY <1>1 DEF FoldLeft, MapThenFoldSet, Followed, Bared
<1>3. step \in [(Int) \X (1..n) -> Int]
  BY <1>1, FollowType
<1>4. base \in Int
  OBVIOUS
<1> HIDE DEF n, base
<1>5. PICK iter : IsFold(iter, Int, n, base, step)
  <2> HIDE DEF step
  <2> QED
    BY <1>1, <1>3, <1>4, FoldExists
<1>6. ASSUME NEW s \in SUBSET (1..n) PROVE Turn(iter, step, base, s) = round(iter, s)
  <2>1. CASE s = {}
    BY <2>1 DEF Turn
  <2>2. CASE s # {}
    <3>1. Max(s) \in 1..n
      BY <1>1, <2>2, MaxIsLargest
    <3>2. iter[s \ {Max(s)}] \in Int
      BY <1>5 DEF IsFold
    <3>3. step[<<iter[s \ {Max(s)}], Max(s)>>] = Followed(source, iter[s \ {Max(s)}], list[Max(s)])
      BY <3>1, <3>2
    <3> QED
      BY <2>2, <3>1, <3>3 DEF Turn
  <2> QED
    BY <2>1, <2>2
<1>7. iter = [s \in SUBSET (1..n) |-> round(iter, s)]
  <2> HIDE DEF round
  <2>1. iter = [s \in SUBSET (1..n) |-> iter[s]]
    BY <1>5 DEF IsFold
  <2> QED
    BY <1>5, <1>6, <2>1 DEF IsFold
<1>8. chosen = [s \in SUBSET (1..n) |-> round(chosen, s)]
  <2> HIDE DEF round
  <2> QED
    BY <1>7
<1>9. chosen[1..0] = base /\ \A k \in 1..n : chosen[1..k] = Followed(source, chosen[1..(k - 1)], list[k])
  <2> HIDE DEF chosen
  <2>1. 1..0 = {} /\ {} \in SUBSET (1..n)
    OBVIOUS
  <2>2. ASSUME NEW k \in 1..n PROVE chosen[1..k] = Followed(source, chosen[1..(k - 1)], list[k])
    <3>1. k \in Nat \ {0} /\ 1..k \in SUBSET (1..n)
      BY <1>1
    <3>2. chosen[1..k] = round(chosen, 1..k)
      BY <1>8, <3>1
    <3>3. Max(1..k) = k /\ (1..k) \ {k} = 1..(k - 1) /\ 1..k # {}
      BY <3>1, MaxOfSegment
    <3> QED
      BY <3>2, <3>3
  <2> QED
    BY <1>8, <2>1, <2>2
<1> DEFINE loop == [k \in 0..n |-> chosen[1..k]]
<1> HIDE DEF chosen
<1>10. loop[0] = base /\ (\A k \in 1..n : loop[k] = Followed(source, loop[k - 1], list[k])) /\ loop[n] = chosen[1..n]
  BY <1>1, <1>9
<1>11. loop = [k \in 0..n |-> loop[k]]
  OBVIOUS
<1> HIDE DEF loop
<1>12. \A k \in 0..n : loop[k] \in Int
  <2> DEFINE T == {k \in Nat : k <= n => loop[k] \in Int}
  <2>1. 0 \in T
    BY <1>4, <1>10
  <2>2. ASSUME NEW k \in T PROVE k + 1 \in T
    <3> SUFFICES ASSUME k + 1 <= n PROVE loop[k + 1] \in Int
      OBVIOUS
    <3>1. k + 1 \in 1..n /\ (k + 1) - 1 = k /\ k <= n
      BY <1>1
    <3>2. loop[k] \in Int
      BY <3>1
    <3>3. step[<<loop[k], k + 1>>] = loop[k + 1]
      BY <1>10, <3>1, <3>2
    <3> HIDE DEF step
    <3> QED
      BY <1>3, <3>1, <3>2, <3>3
  <2>3. T = Nat
    <3> HIDE DEF T
    <3>1. T \in SUBSET Nat
      BY DEF T
    <3> QED
      BY <2>1, <2>2, <3>1, InductiveSet
  <2> QED
    BY <1>1, <2>3
<1>13. loop \in [0..n -> Int]
  BY <1>11, <1>12
<1> QED
  BY <1>2, <1>10, <1>13 DEF n, base

\* A rewrite that passes shows lines of the original, in their order; and if it has no fewer
\* lines, but for markers, than the original, and declares nothing, it shows all that is there.
LEMMA SubsetKeeps ==
    ASSUME NEW a \in Lines, NEW b \in Lines, subset_declared(a, b)
    PROVE  \E f \in [Shown(b) -> Held(a)] :
              /\ Stands(a, b, f)
              /\ ~ declares_omission(b) /\ Cardinality(Empty(b)) <= Cardinality(DOMAIN a \ Held(a))
                 => \A j \in Held(a) : \E i \in Shown(b) : f[i] = j
<1> DEFINE n == Len(b)
           source == Trimmed(a)
           list == Trimmed(b)
<1>1. n \in Nat /\ Len(list) = n /\ DOMAIN b = 1..n /\ source \in Lines /\ list \in Lines /\ Len(source) = Len(a) /\ DOMAIN a = 1..Len(a)
  <2>1. Len(b) \in Nat /\ DOMAIN b = 1..Len(b) /\ DOMAIN a = 1..Len(a)
    BY DEF Lines
  <2> QED
    BY <2>1, TrimmedIs
<1>2. PICK run \in [0..n -> Int] :
         /\ run[0] = 0
         /\ \A k \in 1..n : run[k] = Followed(source, run[k - 1], list[k])
         /\ run[n] # -1
  <2> HIDE DEF n, source, list
  <2>1. FoldLeft(LAMBDA cursor, l : IF is_marker(l) THEN cursor ELSE Cursor(source, cursor, [l EXCEPT !.gutter = FALSE]), 0, list) # -1
    BY DEF subset_declared, source, list
  <2>2. PICK loop : /\ loop \in [0..Len(list) -> Int]
                    /\ loop[0] = 0
                    /\ \A k \in 1..Len(list) : loop[k] = Followed(source, loop[k - 1], list[k])
                    /\ FoldLeft(LAMBDA cursor, l : IF is_marker(l) THEN cursor ELSE Cursor(source, cursor, [l EXCEPT !.gutter = FALSE]), 0, list) = loop[Len(list)]
    BY <1>1, FollowLoop, Zenon
  <2>3. loop[n] # -1
    BY <1>1, <2>1, <2>2, Zenon
  <2>4. loop \in [0..n -> Int] /\ loop[0] = 0 /\ \A k \in 1..n : loop[k] = Followed(source, loop[k - 1], list[k])
    BY <1>1, <2>2, Zenon
  <2> QED
    BY <2>3, <2>4, Zenon
<1>3. Cardinality({i \in DOMAIN b : ~ is_marker(b[i])}) < Len(a) => declares_omission(b)
  BY DEF subset_declared
<1>4. ASSUME NEW i \in 1..n
      PROVE  /\ b[i] \in Line /\ Bared(list[i]) \in Line
             /\ Bared(list[i]).words = b[i].words /\ Bared(list[i]).gutter = FALSE
             /\ is_marker(list[i]) <=> is_marker(b[i])
             /\ Blank(Bared(list[i])) <=> b[i].words = <<>>
  <2>1. list[i] = [b[i] EXCEPT !.trail = FALSE] /\ b[i] \in Line
    BY TrimmedIs DEF Lines
  <2> HIDE DEF list
  <2>2. list[i].words = b[i].words /\ list[i].gutter = b[i].gutter /\ list[i] \in Line
    BY <2>1 DEF Line
  <2>3. Bared(list[i]) \in Line /\ Bared(list[i]).words = b[i].words /\ Bared(list[i]).gutter = FALSE
    BY <2>2 DEF Line, Bared
  <2>4. is_marker(list[i]) <=> is_marker(b[i])
    BY <2>2 DEF is_marker, Says
  <2>5. Blank(Bared(list[i])) <=> b[i].words = <<>>
    BY <2>3 DEF Blank
  <2> QED
    BY <2>1, <2>3, <2>4, <2>5
<1> HIDE DEF n, source, list
<1>5. ASSUME NEW k \in 0..n PROVE run[k] # -1
  <2> DEFINE Ok == {d \in Nat : d <= n => run[n - d] # -1}
  <2>1. Ok \in SUBSET Nat
    OBVIOUS
  <2>2. 0 \in Ok
    <3>1. n - 0 = n
      BY <1>1
    <3> QED
      BY <1>2, <3>1
  <2>3. ASSUME NEW d \in Ok PROVE d + 1 \in Ok
    <3> SUFFICES ASSUME d + 1 <= n, run[n - (d + 1)] = -1 PROVE FALSE
      OBVIOUS
    <3>1. n - d \in 1..n /\ (n - d) - 1 = n - (d + 1) /\ d <= n /\ d \in Nat
      BY <1>1
    <3>2. run[n - d] = Followed(source, -1, list[n - d])
      BY <1>2, <3>1
    <3>3. Followed(source, -1, list[n - d]) = -1
      BY <1>1, CursorIs DEF Followed
    <3> QED
      BY <3>1, <3>2, <3>3
  <2>4. Ok = Nat
    <3> HIDE DEF Ok
    <3> QED
      BY <2>1, <2>2, <2>3, InductiveSet
  <2>5. n - k \in Nat /\ n - (n - k) = k /\ n - k <= n
    BY <1>1
  <2>6. n - k \in Ok
    BY <2>4, <2>5
  <2> QED
    BY <2>5, <2>6
<1>6. ASSUME NEW k \in 1..n
      PROVE  /\ run[k] \in Int /\ run[k - 1] \in Int /\ run[k] >= run[k - 1]
             /\ k \in Shown(b) => /\ run[k] > run[k - 1] /\ run[k] \in 1..Len(a)
                                    /\ source[run[k]] = Bared(list[k])
  <2>1. k \in 0..n /\ k - 1 \in 0..n
    BY <1>1
  <2>2. run[k] \in Int /\ run[k - 1] \in Int /\ run[k] # -1 /\ run[k - 1] # -1 /\ run[k] = Followed(source, run[k - 1], list[k])
    BY <1>2, <1>5, <2>1
  <2>3. CASE is_marker(b[k])
    <3>1. run[k] = run[k - 1] /\ k \notin Shown(b)
      BY <1>4, <2>2, <2>3 DEF Followed, Shown
    <3> QED
      BY <2>2, <3>1
  <2>4. CASE ~ is_marker(b[k])
    <3>1. run[k] = Cursor(source, run[k - 1], Bared(list[k]))
      BY <1>4, <2>2, <2>4 DEF Followed
    <3> DEFINE cursor == run[k - 1]
               l == Bared(list[k])
    <3>0. /\ Blank(l) => run[k] = cursor
          /\ ~ Blank(l) => run[k] \in 1..Len(source) /\ run[k] > cursor /\ source[run[k]] = l
      <4>1. source \in Lines /\ cursor \in Int /\ run[k] = Cursor(source, cursor, l) /\ run[k] # -1
        BY <1>1, <2>2, <3>1
      <4> HIDE DEF cursor, l
      <4> QED
        BY <4>1, CursorIs
    <3>2. CASE b[k].words = <<>>
      <4>1. run[k] = run[k - 1] /\ k \notin Shown(b)
        BY <1>4, <3>0, <3>2 DEF Shown
      <4> QED
        BY <2>2, <4>1
    <3>3. CASE b[k].words # <<>>
      <4>1. run[k] \in 1..Len(source) /\ run[k] > run[k - 1] /\ source[run[k]] = Bared(list[k])
        BY <1>4, <3>0, <3>3
      <4> QED
        BY <1>1, <2>2, <4>1
    <3> QED
      BY <3>2, <3>3
  <2> QED
    BY <2>3, <2>4
<1>7. ASSUME NEW i \in 0..n, NEW j \in i..n PROVE run[i] <= run[j]
  <2> DEFINE Ok == {d \in Nat : i + d <= n => run[i] <= run[i + d]}
  <2>1. Ok \in SUBSET Nat
    OBVIOUS
  <2>2. 0 \in Ok
    <3>1. i + 0 = i /\ run[i] \in Int
      BY <1>1, <1>2
    <3> QED
      BY <3>1
  <2>3. ASSUME NEW d \in Ok PROVE d + 1 \in Ok
    <3> SUFFICES ASSUME i + (d + 1) <= n PROVE run[i] <= run[i + (d + 1)]
      OBVIOUS
    <3>1. i + (d + 1) \in 1..n /\ (i + (d + 1)) - 1 = i + d /\ i + d <= n
      BY <1>1
    <3>2. run[i + (d + 1)] >= run[i + d] /\ run[i + (d + 1)] \in Int /\ run[i + d] \in Int
      BY <1>6, <3>1
    <3>3. run[i] <= run[i + d] /\ run[i] \in Int
      BY <1>2, <3>1
    <3> QED
      BY <3>2, <3>3
  <2>4. Ok = Nat
    <3> HIDE DEF Ok
    <3> QED
      BY <2>1, <2>2, <2>3, InductiveSet
  <2>5. j - i \in Nat /\ i + (j - i) = j /\ j <= n
    BY <1>1
  <2>6. j - i \in Ok
    BY <2>4, <2>5
  <2> QED
    BY <2>5, <2>6
<1>8. \A i \in Shown(b) : i \in 1..n /\ b[i].words # <<>> /\ ~ is_marker(b[i])
  BY <1>1 DEF Shown
<1>9. ASSUME NEW i \in Shown(b)
      PROVE  run[i] \in Held(a) /\ Alike(a[run[i]], Bared(b[i]))
  <2>1. i \in 1..n /\ run[i] \in 1..Len(a) /\ source[run[i]] = Bared(list[i]) /\ b[i].words # <<>>
    BY <1>6, <1>8
  <2>2. Alike(source[run[i]], a[run[i]])
    BY <2>1, TrimmedIs DEF source
  <2>3. a[run[i]].words = b[i].words /\ a[run[i]].gutter = FALSE
    BY <1>4, <2>1, <2>2 DEF Alike
  <2>4. Bared(b[i]).words = b[i].words /\ Bared(b[i]).gutter = FALSE
    BY <1>4, <2>1 DEF Line, Bared
  <2>5. Alike(a[run[i]], Bared(b[i]))
    BY <2>3, <2>4 DEF Alike
  <2>6. ~ Blank(a[run[i]])
    BY <2>1, <2>3 DEF Blank
  <2> QED
    BY <1>1, <2>1, <2>5, <2>6 DEF Held
<1>10. ASSUME NEW i \in Shown(b), NEW j \in Shown(b), i < j PROVE run[i] < run[j]
  <2>1. i \in 0..n /\ j - 1 \in i..n /\ j \in 1..n
    BY <1>1, <1>8, <1>10
  <2>2. run[i] <= run[j - 1] /\ run[j - 1] < run[j] /\ run[j] \in Int /\ run[j - 1] \in Int /\ run[i] \in Int
    BY <1>2, <1>6, <1>7, <2>1
  <2> QED
    BY <2>2
<1> DEFINE f == [i \in Shown(b) |-> run[i]]
<1>11. f \in [Shown(b) -> Held(a)]
  BY <1>9
<1>12. Stands(a, b, f)
  BY <1>9, <1>10 DEF Stands, Bared
<1>13. ASSUME ~ declares_omission(b), Cardinality(Empty(b)) <= Cardinality(DOMAIN a \ Held(a))
       PROVE  \A j \in Held(a) : \E i \in Shown(b) : f[i] = j
  <2> DEFINE bare == DOMAIN a \ Held(a)
             said == {i \in DOMAIN b : ~ is_marker(b[i])}
  <2>2. IsFiniteSet(1..n) /\ IsFiniteSet(1..Len(a)) /\ Cardinality(1..Len(a)) = Len(a) /\ Len(a) \in Nat
    <3>1. Len(a) \in Nat
      BY HeldIs
    <3>2. \A m \in Nat : IsFiniteSet(1..m) /\ Cardinality(1..m) = m
      <4> SUFFICES ASSUME NEW m \in Nat PROVE IsFiniteSet(1..m) /\ Cardinality(1..m) = m
        OBVIOUS
      <4>1. IsFiniteSet(1..m) /\ Cardinality(1..m) = IF 1 > m THEN 0 ELSE (m - 1) + 1
        BY FS_Interval
      <4> QED
        BY <4>1
    <3> QED
      BY <1>1, <3>1, <3>2
  <2>3. Held(a) \in SUBSET (1..Len(a)) /\ bare \in SUBSET (1..Len(a)) /\ Shown(b) \in SUBSET (1..n) /\ Empty(b) \in SUBSET (1..n)
    BY <1>1 DEF Held, Shown, Empty
  <2>4. IsFiniteSet(Held(a)) /\ IsFiniteSet(bare) /\ IsFiniteSet(Shown(b)) /\ IsFiniteSet(Empty(b))
    <3> HIDE DEF bare
    <3> QED
      BY <2>2, <2>3, FS_Subset
  <2>5. said = Shown(b) \cup Empty(b) /\ Shown(b) \cap Empty(b) = {}
    <3>1. ASSUME NEW i \in DOMAIN b, b[i].words = <<>> PROVE ~ is_marker(b[i])
      BY <3>1 DEF is_marker, Says
    <3> QED
      BY <3>1 DEF Shown, Empty
  <2>6. 1..Len(a) = Held(a) \cup bare /\ Held(a) \cap bare = {}
    BY <1>1, <2>3
  <2> HIDE DEF bare, said
  <2>0. ASSUME NEW S, NEW T, IsFiniteSet(S), IsFiniteSet(T), S \cap T = {}
        PROVE  Cardinality(S \cup T) = Cardinality(S) + Cardinality(T)
    <3>1. Cardinality(S \cup T) = Cardinality(S) + Cardinality(T) - Cardinality(S \cap T)
      BY <2>0, FS_Union
    <3>2. Cardinality(S \cap T) = 0 /\ Cardinality(S) \in Nat /\ Cardinality(T) \in Nat
      BY <2>0, FS_EmptySet, FS_CardinalityType
    <3> QED
      BY <3>1, <3>2
  <2>7. Cardinality(said) = Cardinality(Shown(b)) + Cardinality(Empty(b))
    BY <2>0, <2>4, <2>5
  <2>8. Len(a) = Cardinality(Held(a)) + Cardinality(bare)
    BY <2>0, <2>2, <2>4, <2>6
  <2>9. ~ (Cardinality(said) < Len(a)) /\ Cardinality(Empty(b)) <= Cardinality(bare)
    BY <1>3, <1>13 DEF bare, said
  <2>10. /\ Cardinality(Shown(b)) \in Nat /\ Cardinality(Empty(b)) \in Nat
         /\ Cardinality(Held(a)) \in Nat /\ Cardinality(bare) \in Nat
    BY <2>4, FS_CardinalityType
  <2>11. Cardinality(Shown(b)) >= Cardinality(Held(a))
    BY <2>2, <2>7, <2>8, <2>9, <2>10
  <2>12. f \in Injection(Shown(b), Held(a))
    <3>1. ASSUME NEW i \in Shown(b), NEW j \in Shown(b), f[i] = f[j] PROVE i = j
      <4>1. i \in Int /\ j \in Int /\ run[i] \in Int /\ run[i] = run[j]
        <5>1. i \in 1..n /\ j \in 1..n
          BY <1>8
        <5>2. run[i] \in Int
          BY <1>6, <5>1
        <5> QED
          BY <3>1, <5>1, <5>2
      <4>2. ~ (i < j) /\ ~ (j < i)
        BY <1>10, <4>1
      <4> QED
        BY <4>1, <4>2
    <3> HIDE DEF f
    <3> QED
      BY <1>11, <3>1 DEF Injection, IsInjective
  <2> HIDE DEF f
  <2>13. Cardinality(Shown(b)) <= Cardinality(Held(a)) /\ (Cardinality(Shown(b)) = Cardinality(Held(a)) <=> f \in Surjection(Shown(b), Held(a)))
    BY <2>4, <2>12, FS_Injection
  <2>14. f \in Surjection(Shown(b), Held(a))
    BY <2>10, <2>11, <2>13
  <2> QED
    BY <2>14 DEF Surjection
<1> QED
  BY <1>11, <1>12, <1>13

\* Names that a rewrite must not drop are in it.
LEMMA KeysetKeeps ==
    ASSUME NEW a \in Lines, NEW b \in Lines, key_tokens(a) \subseteq Words(b)
    PROVE  \A i \in DOMAIN a :
              \/ a[i].words = <<>> \/ Last(a[i].words).name \in {".", "..", "("}
              \/ Says(a[i], {"total"}) /\ Len(a[i].words) > 1
              \/ \E j \in DOMAIN b : \E w \in ToSet(b[j].words) : w.name = Last(a[i].words).name
<1> DEFINE Word == [name : STRING, slash : BOOLEAN]
<1>1. ASSUME NEW t \in Lines, NEW i \in DOMAIN t PROVE t[i].words \in Seq(Word)
  <2>1. t[i] \in Line
    BY DEF Lines
  <2> QED
    BY <2>1 DEF Line
<1>2. ASSUME NEW w \in Word PROVE tidy(w).name = w.name
  BY DEF tidy
<1> HIDE DEF Word
<1> SUFFICES ASSUME NEW i \in DOMAIN a, a[i].words # <<>>, Last(a[i].words).name \notin {".", "..", "("},
                    ~ (Says(a[i], {"total"}) /\ Len(a[i].words) > 1)
             PROVE  \E j \in DOMAIN b : \E w \in ToSet(b[j].words) : w.name = Last(a[i].words).name
  OBVIOUS
<1> DEFINE key == Last(a[i].words)
<1>3. key \in Word
  <2>1. a[i].words \in Seq(Word)
    BY <1>1
  <2>2. Len(a[i].words) \in 1..Len(a[i].words)
    BY <2>1
  <2> QED
    BY <2>1, <2>2, ElementOfSeq DEF Last
<1>4. a[i] \in ToSet(a)
  BY DEF ToSet
<1>5. tidy(key) \in key_tokens(a)
  <2>1. tidy(key).name \notin {".", ".."}
    BY <1>2, <1>3
  <2>2. tidy(key) \notin {[name |-> ".", slash |-> FALSE], [name |-> "..", slash |-> FALSE]}
    <3> HIDE DEF key
    <3> QED
      BY <2>1
  <2>3. tidy(key) \in {tidy(Last(l.words)) : l \in {l \in ToSet(a) :
             l.words # <<>> /\ ~ (Says(l, {"total"}) /\ Len(l.words) > 1) /\ Last(l.words).name # "("}}
    BY <1>4
  <2> HIDE DEF key
  <2> QED
    BY <2>2, <2>3 DEF key_tokens
<1>6. PICK l \in ToSet(b) : \E w \in ToSet(l.words) : tidy(key) = tidy(w)
  <2>1. tidy(key) \in Words(b)
    BY <1>5
  <2> HIDE DEF key
  <2> QED
    BY <2>1 DEF Words
<1>7. PICK w \in ToSet(l.words) : tidy(key) = tidy(w)
  BY <1>6
<1>8. PICK j \in DOMAIN b : l = b[j]
  BY DEF ToSet
<1>9. w \in Word
  <2>1. b[j].words \in Seq(Word)
    BY <1>1
  <2>2. PICK k \in DOMAIN b[j].words : w = b[j].words[k]
    BY <1>7, <1>8 DEF ToSet
  <2>3. k \in 1..Len(b[j].words)
    BY <2>1
  <2> QED
    BY <2>1, <2>2, <2>3, ElementOfSeq
<1>10. w.name = key.name
  BY <1>2, <1>3, <1>7, <1>9
<1> QED
  BY <1>7, <1>8, <1>10

\* A pair that passes its class keeps the promise of the class.
LEMMA PassKeeps ==
    ASSUME NEW rule, rule.fidelity \in Classes, NEW a \in Lines, NEW b \in Lines, check(rule, a, b) = "pass"
    PROVE  KeepsPromise(rule, a, b)
<1>1. CASE rule.fidelity = "exact"
  <2>1. Verdict(a = b) = "pass"
    BY <1>1 DEF check
  <2>2. a = b
    BY <2>1 DEF Verdict
  <2> QED
    BY <1>1, <2>2 DEF KeepsPromise
<1>2. CASE rule.fidelity = "normalized"
  <2>1. Verdict(rule.normalizer \in Known /\ Collapsed(a) = Collapsed(b)) = "pass"
    BY <1>2 DEF check
  <2>2. rule.normalizer \in Known /\ Collapsed(a) = Collapsed(b)
    BY <2>1 DEF Verdict
  <2>3. SameSpaced(a, b)
    BY <2>2, CollapsedKeeps
  <2> QED
    BY <1>2, <2>2, <2>3 DEF KeepsPromise
<1>3. CASE rule.fidelity = "subset-declared"
  <2>1. Verdict(subset_declared(a, b)) = "pass"
    BY <1>3 DEF check
  <2>2. subset_declared(a, b)
    BY <2>1 DEF Verdict
  <2>3. \E f \in [Shown(b) -> Held(a)] :
           /\ Stands(a, b, f)
           /\ ~ declares_omission(b) /\ Cardinality(Empty(b)) <= Cardinality(DOMAIN a \ Held(a))
              => \A j \in Held(a) : \E i \in Shown(b) : f[i] = j
    BY <2>2, SubsetKeeps
  <2> QED
    BY <1>3, <2>3 DEF KeepsPromise
<1>4. CASE rule.fidelity = "keyset"
  <2>1. Verdict(key_tokens(a) \subseteq Words(b)) = "pass"
    BY <1>4 DEF check
  <2>2. key_tokens(a) \subseteq Words(b)
    BY <2>1 DEF Verdict
  <2>3. \A i \in DOMAIN a :
           \/ a[i].words = <<>> \/ Last(a[i].words).name \in {".", "..", "("}
           \/ Says(a[i], {"total"}) /\ Len(a[i].words) > 1
           \/ \E j \in DOMAIN b : \E w \in ToSet(b[j].words) : w.name = Last(a[i].words).name
    BY <2>2, KeysetKeeps
  <2> QED
    BY <1>4, <2>3 DEF KeepsPromise
<1>5. CASE rule.fidelity = "reference"
  BY <1>5 DEF check
<1> QED
  BY <1>1, <1>2, <1>3, <1>4, <1>5 DEF Classes

\* What the trace holds of a day.
Day(T) == {Unread} \cup [torn : {FALSE}, records : Seq(OnTargets(T))]

LEMMA RecordsType ==
    ASSUME NEW T, NEW all \in Seq(OnTargets(T)), NEW day \in Day(T)
    PROVE  (IF day = Unread THEN all ELSE all \o day.records) \in Seq(OnTargets(T))
<1>1. CASE day = Unread
  BY <1>1
<1>2. CASE day # Unread
  <2>1. day.records \in Seq(OnTargets(T))
    BY <1>2 DEF Day
  <2>2. all \o day.records \in Seq(OnTargets(T))
    BY <2>1, ConcatProperties
  <2> QED
    BY <1>2, <2>2
<1> QED
  BY <1>1, <1>2

\* The records of the days.
LEMMA RecordsLoop ==
    ASSUME NEW T, NEW list \in Seq(Day(T))
    PROVE  \E loop : /\ loop \in [0..Len(list) -> Seq(OnTargets(T))]
                     /\ loop[0] = <<>>
                     /\ \A k \in 1..Len(list) : loop[k] = (IF list[k] = Unread THEN loop[k - 1] ELSE loop[k - 1] \o list[k].records)
                     /\ FoldLeft(LAMBDA all, day : IF day = Unread THEN all ELSE all \o day.records, <<>>, list) = loop[Len(list)]
<1> DEFINE n == Len(list)
           base == <<>>
           step == [x \in (Seq(OnTargets(T))) \X (1..n) |-> (IF list[x[2]] = Unread THEN x[1] ELSE x[1] \o list[x[2]].records)]
           round(iter, s) == IF s = {} THEN base ELSE (IF list[Max(s)] = Unread THEN iter[s \ {Max(s)}] ELSE iter[s \ {Max(s)}] \o list[Max(s)].records)
           chosen == CHOOSE iter : iter = [s \in SUBSET (1..n) |-> round(iter, s)]
<1>1. n \in Nat /\ DOMAIN list = 1..n /\ \A k \in 1..n : list[k] \in Day(T)
  OBVIOUS
<1>2. FoldLeft(LAMBDA all, day : IF day = Unread THEN all ELSE all \o day.records, <<>>, list) = chosen[1..n]
  BY <1>1 DEF FoldLeft, MapThenFoldSet
<1>3. step \in [(Seq(OnTargets(T))) \X (1..n) -> Seq(OnTargets(T))]
  BY <1>1, RecordsType
<1>4. base \in Seq(OnTargets(T))
  BY EmptySeq
<1> HIDE DEF n, base
<1>5. PICK iter : IsFold(iter, Seq(OnTargets(T)), n, base, step)
  <2> HIDE DEF step
  <2> QED
    BY <1>1, <1>3, <1>4, FoldExists
<1>6. ASSUME NEW s \in SUBSET (1..n) PROVE Turn(iter, step, base, s) = round(iter, s)
  <2>1. CASE s = {}
    BY <2>1 DEF Turn
  <2>2. CASE s # {}
    <3>1. Max(s) \in 1..n
      BY <1>1, <2>2, MaxIsLargest
    <3>2. iter[s \ {Max(s)}] \in Seq(OnTargets(T))
      BY <1>5 DEF IsFold
    <3>3. step[<<iter[s \ {Max(s)}], Max(s)>>] = (IF list[Max(s)] = Unread THEN iter[s \ {Max(s)}] ELSE iter[s \ {Max(s)}] \o list[Max(s)].records)
      BY <3>1, <3>2
    <3> QED
      BY <2>2, <3>1, <3>3 DEF Turn
  <2> QED
    BY <2>1, <2>2
<1>7. iter = [s \in SUBSET (1..n) |-> round(iter, s)]
  <2> HIDE DEF round
  <2>1. iter = [s \in SUBSET (1..n) |-> iter[s]]
    BY <1>5 DEF IsFold
  <2> QED
    BY <1>5, <1>6, <2>1 DEF IsFold
<1>8. chosen = [s \in SUBSET (1..n) |-> round(chosen, s)]
  <2> HIDE DEF round
  <2> QED
    BY <1>7
<1>9. chosen[1..0] = base /\ \A k \in 1..n : chosen[1..k] = (IF list[k] = Unread THEN chosen[1..(k - 1)] ELSE chosen[1..(k - 1)] \o list[k].records)
  <2> HIDE DEF chosen
  <2>1. 1..0 = {} /\ {} \in SUBSET (1..n)
    OBVIOUS
  <2>2. ASSUME NEW k \in 1..n PROVE chosen[1..k] = (IF list[k] = Unread THEN chosen[1..(k - 1)] ELSE chosen[1..(k - 1)] \o list[k].records)
    <3>1. k \in Nat \ {0} /\ 1..k \in SUBSET (1..n)
      BY <1>1
    <3>2. chosen[1..k] = round(chosen, 1..k)
      BY <1>8, <3>1
    <3>3. Max(1..k) = k /\ (1..k) \ {k} = 1..(k - 1) /\ 1..k # {}
      BY <3>1, MaxOfSegment
    <3> QED
      BY <3>2, <3>3
  <2> QED
    BY <1>8, <2>1, <2>2
<1> DEFINE loop == [k \in 0..n |-> chosen[1..k]]
<1> HIDE DEF chosen
<1>10. loop[0] = base /\ (\A k \in 1..n : loop[k] = (IF list[k] = Unread THEN loop[k - 1] ELSE loop[k - 1] \o list[k].records)) /\ loop[n] = chosen[1..n]
  BY <1>1, <1>9
<1>11. loop = [k \in 0..n |-> loop[k]]
  OBVIOUS
<1> HIDE DEF loop
<1>12. \A k \in 0..n : loop[k] \in Seq(OnTargets(T))
  <2> DEFINE Ok == {k \in Nat : k <= n => loop[k] \in Seq(OnTargets(T))}
  <2>1. 0 \in Ok
    BY <1>4, <1>10
  <2>2. ASSUME NEW k \in Ok PROVE k + 1 \in Ok
    <3> SUFFICES ASSUME k + 1 <= n PROVE loop[k + 1] \in Seq(OnTargets(T))
      OBVIOUS
    <3>1. k + 1 \in 1..n /\ (k + 1) - 1 = k /\ k <= n
      BY <1>1
    <3>2. loop[k] \in Seq(OnTargets(T))
      BY <3>1
    <3>3. step[<<loop[k], k + 1>>] = loop[k + 1]
      BY <1>10, <3>1, <3>2
    <3> HIDE DEF step
    <3> QED
      BY <1>3, <3>1, <3>2, <3>3
  <2>3. Ok = Nat
    <3> HIDE DEF Ok
    <3>1. Ok \in SUBSET Nat
      BY DEF Ok
    <3> QED
      BY <2>1, <2>2, <3>1, InductiveSet
  <2> QED
    BY <1>1, <2>3
<1>13. loop \in [0..n -> Seq(OnTargets(T))]
  BY <1>11, <1>12
<1> QED
  BY <1>2, <1>10, <1>13 DEF n, base

LEMMA RecordsAre ==
    ASSUME NEW T, NEW days \in Seq(Day(T))
    PROVE  Records(days) \in Seq(OnTargets(T))
<1>1. PICK loop \in [0..Len(days) -> Seq(OnTargets(T))] :
         FoldLeft(LAMBDA all, day : IF day = Unread THEN all ELSE all \o day.records, <<>>, days) = loop[Len(days)]
  BY RecordsLoop
<1>2. Len(days) \in 0..Len(days)
  OBVIOUS
<1>3. FoldLeft(LAMBDA all, day : IF day = Unread THEN all ELSE all \o day.records, <<>>, days) \in Seq(OnTargets(T))
  BY <1>1, <1>2
<1> QED
  BY <1>3 DEF Records

\* A record of a command with a target; those of the first so many.
Spoken(r) == r.tool = "Bash" /\ r.target # "none"
Targets(list, k) == {list[m].target : m \in {m \in 1..k : Spoken(list[m])}}
Before2(c, i) == {c[j] : j \in 1..(i - 1)}

\* The distinct targets of the first so many records, in the order of their first ones.
Gathered(list, k, c) ==
    /\ \A i, j \in 1..Len(c) : c[i] = c[j] => i = j
    /\ {c[i] : i \in 1..Len(c)} = Targets(list, k)
    /\ \A i \in 1..Len(c) : \E m \in 1..k :
          /\ Spoken(list[m]) /\ list[m].target = c[i]
          /\ c[i] \notin Targets(list, m - 1) /\ Targets(list, m - 1) = Before2(c, i)

LEMMA GatheredNext ==
    ASSUME NEW T, NEW list \in Seq(OnTargets(T)), NEW k \in Nat, k + 1 <= Len(list), NEW c \in Seq(T), Gathered(list, k, c)
    PROVE  Gathered(list, k + 1, Recall(c, list[k + 1]))
<1> DEFINE r == list[k + 1]
           d == Recall(c, r)
           n == Len(c)
<1>0. n \in Nat /\ DOMAIN c = 1..n
  OBVIOUS
<1>1. \A x : x \in Targets(list, k + 1) <=> x \in Targets(list, k) \/ (Spoken(r) /\ x = r.target)
  <2>1. \A m : m \in 1..(k + 1) <=> m \in 1..k \/ m = k + 1
    OBVIOUS
  <2> QED
    BY <2>1 DEF Targets
<1>2. /\ \A i, j \in 1..n : c[i] = c[j] => i = j
      /\ {c[i] : i \in 1..n} = Targets(list, k)
      /\ \A i \in 1..n : \E m \in 1..k :
            /\ Spoken(list[m]) /\ list[m].target = c[i]
            /\ c[i] \notin Targets(list, m - 1) /\ Targets(list, m - 1) = Before2(c, i)
  BY DEF Gathered
<1>3. ToSet(c) = Targets(list, k)
  BY <1>0, <1>2 DEF ToSet
<1>4. \A m \in 1..k : m \in 1..(k + 1)
  OBVIOUS
<1>5. CASE ~ Spoken(r) \/ r.target \in Targets(list, k)
  <2>1. d = c
    BY <1>3, <1>5 DEF Recall, Spoken
  <2>2. Targets(list, k + 1) = Targets(list, k)
    BY <1>1, <1>5
  <2> HIDE DEF d, r
  <2>3. \A i \in 1..n : \E m \in 1..(k + 1) :
            /\ Spoken(list[m]) /\ list[m].target = c[i]
            /\ c[i] \notin Targets(list, m - 1) /\ Targets(list, m - 1) = Before2(c, i)
    <3> SUFFICES ASSUME NEW i \in 1..n
                 PROVE  \E m \in 1..(k + 1) :
                           /\ Spoken(list[m]) /\ list[m].target = c[i]
                           /\ c[i] \notin Targets(list, m - 1) /\ Targets(list, m - 1) = Before2(c, i)
      OBVIOUS
    <3>1. PICK m \in 1..k :
            /\ Spoken(list[m]) /\ list[m].target = c[i]
            /\ c[i] \notin Targets(list, m - 1) /\ Targets(list, m - 1) = Before2(c, i)
      BY <1>2
    <3> QED
      BY <1>4, <3>1
  <2>4. Gathered(list, k + 1, c)
    BY <1>2, <2>2, <2>3 DEF Gathered
  <2> QED
    BY <2>1, <2>4 DEF d, r
<1>6. CASE Spoken(r) /\ r.target \notin Targets(list, k)
  <2>1. d = Append(c, r.target)
    BY <1>3, <1>6 DEF Recall, Spoken
  <2>2. r.target \in T
    <3>1. k + 1 \in 1..Len(list)
      OBVIOUS
    <3>2. r \in OnTargets(T)
      BY <3>1, ElementOfSeq
    <3> QED
      BY <1>6, <3>2 DEF OnTargets, Spoken
  <2>3. Len(d) = n + 1 /\ d[n + 1] = r.target /\ \A i \in 1..n : d[i] = c[i]
    <3> HIDE DEF r, d
    <3> QED
      BY <1>0, <2>1, <2>2
  <2> HIDE DEF d
  <2>4. \A i : i \in 1..(n + 1) <=> i \in 1..n \/ i = n + 1
    BY <1>0
  <2>5. \A i \in 1..n : c[i] # r.target
    BY <1>2, <1>6
  <2>6. ASSUME NEW i \in 1..(n + 1), NEW j \in 1..(n + 1), d[i] = d[j] PROVE i = j
    BY <1>2, <2>3, <2>4, <2>5, <2>6
  <2>7. {d[i] : i \in 1..(n + 1)} = Targets(list, k + 1)
    <3>1. \A x : x \in {d[i] : i \in 1..(n + 1)} <=> x \in {c[i] : i \in 1..n} \/ x = r.target
      BY <2>3, <2>4
    <3> QED
      BY <1>1, <1>2, <1>6, <3>1
  <2>8. \A i \in 1..(n + 1) : Before2(d, i) = Before2(c, i)
    <3> SUFFICES ASSUME NEW i \in 1..(n + 1) PROVE Before2(d, i) = Before2(c, i)
      OBVIOUS
    <3>1. \A j \in 1..(i - 1) : j \in 1..n
      BY <1>0
    <3> QED
      BY <2>3, <3>1 DEF Before2
  <2>9. ASSUME NEW i \in 1..(n + 1)
        PROVE  \E m \in 1..(k + 1) :
                  /\ Spoken(list[m]) /\ list[m].target = d[i]
                  /\ d[i] \notin Targets(list, m - 1) /\ Targets(list, m - 1) = Before2(d, i)
    <3>1. CASE i \in 1..n
      <4>1. PICK m \in 1..k :
              /\ Spoken(list[m]) /\ list[m].target = c[i]
              /\ c[i] \notin Targets(list, m - 1) /\ Targets(list, m - 1) = Before2(c, i)
        BY <1>2, <3>1
      <4> QED
        BY <1>4, <2>3, <2>8, <3>1, <4>1
    <3>2. CASE i = n + 1
      <4>1. k + 1 \in 1..(k + 1) /\ (k + 1) - 1 = k /\ (n + 1) - 1 = n
        BY <1>0
      <4>2. Before2(d, n + 1) = Targets(list, k)
        <5>1. Before2(c, n + 1) = {c[j] : j \in 1..n}
          BY <4>1 DEF Before2
        <5> QED
          BY <1>2, <2>8, <3>2, <5>1
      <4> HIDE DEF r
      <4>3. Spoken(list[k + 1]) /\ list[k + 1].target = d[i]
        BY <1>6, <2>3, <3>2 DEF r
      <4>4. d[i] \notin Targets(list, (k + 1) - 1) /\ Targets(list, (k + 1) - 1) = Before2(d, i)
        BY <1>6, <2>3, <3>2, <4>1, <4>2
      <4> QED
        BY <4>1, <4>3, <4>4
    <3> QED
      BY <2>4, <3>1, <3>2
  <2>10. Gathered(list, k + 1, d)
    BY <2>3, <2>6, <2>7, <2>9 DEF Gathered
  <2> QED
    BY <2>10 DEF d
<1> QED
  BY <1>5, <1>6

LEMMA RecallIs ==
    ASSUME NEW T, NEW list \in Seq(OnTargets(T))
    PROVE  /\ FoldLeft(Recall, <<>>, list) \in Seq(T)
           /\ Gathered(list, Len(list), FoldLeft(Recall, <<>>, list))
<1> DEFINE n == Len(list)
           c == FoldLeft(Recall, <<>>, list)
<1>1. n \in Nat
  OBVIOUS
<1>2. PICK loop \in [0..n -> Seq(T)] :
         /\ loop[0] = <<>>
         /\ \A k \in 1..n : loop[k] = Recall(loop[k - 1], list[k])
         /\ c = loop[n]
  BY RecallLoop
<1> HIDE DEF c
<1> DEFINE Ok == {k \in Nat : k <= n => Gathered(list, k, loop[k])}
<1>3. Ok \in SUBSET Nat
  OBVIOUS
<1>4. 0 \in Ok
  <2>1. Len(loop[0]) = 0 /\ 1..0 = {}
    BY <1>2
  <2>2. Gathered(list, 0, loop[0])
    BY <2>1 DEF Gathered, Targets
  <2> QED
    BY <2>2
<1>5. ASSUME NEW k \in Ok PROVE k + 1 \in Ok
  <2> SUFFICES ASSUME k + 1 <= n PROVE Gathered(list, k + 1, loop[k + 1])
    OBVIOUS
  <2>1. k \in 0..n /\ k + 1 \in 1..n /\ (k + 1) - 1 = k
    BY <1>1
  <2>2. loop[k + 1] = Recall(loop[k], list[k + 1]) /\ loop[k] \in Seq(T)
    BY <1>2, <2>1
  <2>3. Gathered(list, k, loop[k])
    BY <2>1
  <2>4. k \in Nat /\ k + 1 <= Len(list)
    BY <2>1
  <2> QED
    BY <2>2, <2>3, <2>4, GatheredNext
<1>6. Ok = Nat
  <2> HIDE DEF Ok
  <2> QED
    BY <1>3, <1>4, <1>5, InductiveSet
<1>7. n \in Ok
  BY <1>1, <1>6
<1>8. Gathered(list, n, c) /\ c \in Seq(T)
  BY <1>1, <1>2, <1>7
<1> QED
  BY <1>8 DEF c

\* What a verification starts from.
Situations(f) == [rule : f.rules, days : f.days, window : f.windows, apply : f.apply, ran : [f.targets -> f.outcomes]]

LEMMA SituationIs ==
    ASSUME Formed, NEW f \in Families, NEW s \in Situations(f)
    PROVE  /\ s.rule \in [compiles : BOOLEAN, fidelity : Classes, normalizer : STRING]
           /\ s.days \in Seq(Day(f.targets)) /\ s.window \in Nat \ {0} /\ s.apply \in BOOLEAN
           /\ \A c \in f.targets : /\ s.ran[c].matches \in BOOLEAN
                                   /\ s.ran[c].matches => s.ran[c].original \in Output /\ s.ran[c].rewritten \in Output
<1>1. /\ f.rules \subseteq [compiles : BOOLEAN, fidelity : Classes, normalizer : STRING]
      /\ f.days \subseteq Seq({Unread} \cup [torn : {FALSE}, records : Seq([tool : STRING, target : f.targets \cup {"none"}])])
      /\ f.windows \subseteq Nat \ {0}
      /\ f.apply \subseteq BOOLEAN
      /\ \A o \in f.outcomes : o.matches \in BOOLEAN /\ (o.matches => {o.original, o.rewritten} \subseteq Output)
  BY DEF Formed
<1>2. Day(f.targets) = {Unread} \cup [torn : {FALSE}, records : Seq([tool : STRING, target : f.targets \cup {"none"}])]
  BY DEF Day, OnTargets
<1>3. s.rule \in f.rules /\ s.days \in f.days /\ s.window \in f.windows /\ s.apply \in f.apply /\ \A c \in f.targets : s.ran[c] \in f.outcomes
  BY DEF Situations
<1>4. s.days \in Seq(Day(f.targets))
  <2>1. f.days \subseteq Seq(Day(f.targets))
    BY <1>1, <1>2
  <2> QED
    BY <1>3, <2>1
<1>5. ASSUME NEW c \in f.targets
      PROVE  /\ s.ran[c].matches \in BOOLEAN
             /\ s.ran[c].matches => s.ran[c].original \in Output /\ s.ran[c].rewritten \in Output
  BY <1>1, <1>3
<1>6. s.rule \in [compiles : BOOLEAN, fidelity : Classes, normalizer : STRING] /\ s.window \in Nat \ {0} /\ s.apply \in BOOLEAN
  BY <1>1, <1>3
<1> QED
  BY <1>4, <1>5, <1>6

\* What is said of a command is said of the records behind its last one.
LEMMA SinceIs ==
    ASSUME NEW T, NEW recs \in Seq(OnTargets(T)), recs = Records(situation.days),
           NEW m \in 1..Len(recs), Spoken(Reverse(recs)[m]), Reverse(recs)[m].target \notin Targets(Reverse(recs), m - 1)
    PROVE  Since(Reverse(recs)[m].target) = Targets(Reverse(recs), m - 1)
<1> DEFINE n == Len(recs)
           back == Reverse(recs)
           x == back[m].target
           S == {k \in DOMAIN recs : Bash(k) /\ recs[k].target = x}
           at == (n - m) + 1
<1>1. n \in Nat /\ DOMAIN recs = 1..n /\ m \in 1..n /\ at \in 1..n
  OBVIOUS
<1>2. \A k \in 1..n : back[k] = recs[(n - k) + 1]
  BY DEF Reverse
<1>3. \A k \in 1..n : (n - k) + 1 \in 1..n /\ (n - ((n - k) + 1)) + 1 = k
  BY <1>1
<1>4. \A k \in 1..n : Bash(k) <=> Spoken(recs[k])
  BY DEF Bash, Spoken
<1>5. \A y : y \in Targets(back, m - 1) <=> \E k \in 1..(m - 1) : Spoken(back[k]) /\ back[k].target = y
  BY DEF Targets
<1>6. Spoken(back[m]) /\ x \notin Targets(back, m - 1)
  OBVIOUS
<1> HIDE DEF n, back, at
<1>7. at \in S
  BY <1>1, <1>2, <1>4, <1>6 DEF at
<1>8. ASSUME NEW k \in S PROVE k <= at
  <2> SUFFICES ASSUME ~ (k <= at) PROVE FALSE
    OBVIOUS
  <2>1. k \in 1..n /\ Spoken(recs[k]) /\ recs[k].target = x
    BY <1>1, <1>4
  <2>2. (n - k) + 1 \in 1..(m - 1)
    BY <1>1, <2>1 DEF at
  <2>3. (n - k) + 1 \in 1..n /\ back[(n - k) + 1] = recs[k]
    BY <1>1, <1>2, <1>3, <2>1
  <2> HIDE DEF x
  <2> QED
    BY <1>5, <1>6, <2>1, <2>2, <2>3
<1>9. Max(S) = at
  <2>1. S \in SUBSET (1..n) /\ S # {}
    BY <1>1, <1>7
  <2> HIDE DEF S
  <2>2. Max(S) \in S /\ \A y \in S : y <= Max(S)
    BY <1>1, <2>1, MaxIsLargest
  <2>3. at <= Max(S) /\ Max(S) <= at /\ Max(S) \in 1..n
    BY <1>7, <1>8, <2>1, <2>2
  <2>4. Max(S) = at
    BY <1>1, <2>3
  <2> QED
    BY <2>4
<1>10. Since(x) = {recs[k].target : k \in {k \in DOMAIN recs : k > at /\ Bash(k)}}
  BY <1>9 DEF Since
<1> HIDE DEF x, S
<1>11. ASSUME NEW y \in Since(x) PROVE y \in Targets(back, m - 1)
  <2>1. PICK k \in 1..n : k > at /\ Spoken(recs[k]) /\ y = recs[k].target
    BY <1>1, <1>4, <1>10
  <2>2. (n - k) + 1 \in 1..(m - 1)
    BY <1>1, <2>1 DEF at
  <2>3. (n - k) + 1 \in 1..n /\ back[(n - k) + 1] = recs[k]
    BY <1>1, <1>2, <1>3, <2>1
  <2> QED
    BY <1>5, <2>1, <2>2, <2>3
<1>12. ASSUME NEW y \in Targets(back, m - 1) PROVE y \in Since(x)
  <2>1. PICK k \in 1..(m - 1) : Spoken(back[k]) /\ back[k].target = y
    BY <1>5
  <2>2. k \in 1..n /\ (n - k) + 1 \in 1..n /\ (n - k) + 1 > at
    BY <1>1 DEF at
  <2>3. back[k] = recs[(n - k) + 1] /\ Bash((n - k) + 1)
    BY <1>2, <1>4, <2>1, <2>2
  <2> QED
    BY <1>1, <1>10, <2>1, <2>2, <2>3
<1>13. Since(x) = Targets(back, m - 1)
  BY <1>11, <1>12
<1> QED
  BY <1>13 DEF x, back

\* The commands to run are those of the window, each once.
LEMMA CommandsAre ==
    ASSUME Formed, NEW f \in Families, situation \in Situations(f)
    PROVE  /\ Commands \in Seq(f.targets)
           /\ \A i, j \in 1..Len(Commands) : Commands[i] = Commands[j] => i = j
           /\ {Commands[i] : i \in 1..Len(Commands)} = InWindow
<1> DEFINE T == f.targets
           recs == Records(situation.days)
           back == Reverse(recs)
           c == FoldLeft(Recall, <<>>, back)
           window == situation.window
           last == Min({Len(c), window})
           n == Len(recs)
<1>1. situation.days \in Seq(Day(T)) /\ window \in Nat \ {0}
  BY SituationIs
<1>2. recs \in Seq(OnTargets(T))
  BY <1>1, RecordsAre
<1> HIDE DEF recs
<1>3. n \in Nat /\ DOMAIN recs = 1..n /\ back \in Seq(OnTargets(T)) /\ Len(back) = n
      /\ \A k \in 1..n : back[k] = recs[(n - k) + 1]
  <2>1. n \in Nat /\ DOMAIN recs = 1..n
    BY <1>2
  <2>2. \A k \in 1..n : recs[(n - k) + 1] \in OnTargets(T)
    <3>1. \A k \in 1..n : (n - k) + 1 \in 1..n
      BY <2>1
    <3> HIDE DEF n
    <3> QED
      BY <1>2, <3>1, ElementOfSeq DEF n
  <2>3. back = [k \in 1..n |-> recs[(n - k) + 1]]
    BY DEF Reverse
  <2> HIDE DEF n
  <2>4. back \in [1..n -> OnTargets(T)]
    BY <2>2, <2>3
  <2> HIDE DEF back
  <2>5. back \in Seq(OnTargets(T)) /\ Len(back) = n
    BY <2>1, <2>4
  <2>6. \A k \in 1..n : back[k] = recs[(n - k) + 1]
    BY <2>3
  <2> QED
    BY <2>1, <2>5, <2>6
<1>4. c \in Seq(T) /\ Gathered(back, n, c)
  <2> HIDE DEF back
  <2> QED
    BY <1>3, RecallIs
<1>5. Commands = SubSeq(c, 1, last)
  BY DEF Commands, recent_commands, recs
<1> HIDE DEF c
<1>6. Len(c) \in Nat /\ last = (IF Len(c) <= window THEN Len(c) ELSE window)
  <2>1. Len(c) \in Nat /\ Len(c) \in Int /\ window \in Int
    BY <1>1, <1>4
  <2>2. Min({Len(c), window}) = Min({Len(c), window})
    BY DEF Min, Min
  <2> HIDE DEF window
  <2> QED
    BY <2>1, <2>2, OfTwo
<1> HIDE DEF last, window
<1>7. last \in Nat /\ last <= Len(c)
  BY <1>1, <1>6
<1>8. Commands \in Seq(T) /\ Len(Commands) = last /\ \A i \in 1..last : Commands[i] = c[i]
  <2>1. c \in Seq(T) /\ 1 \in 1..(Len(c) + 1) /\ last \in (1 - 1)..Len(c)
    BY <1>4, <1>6, <1>7
  <2> HIDE DEF T
  <2>2. SubSeq(c, 1, last) \in Seq(T) /\ Len(SubSeq(c, 1, last)) = last /\ \A i \in 1..last : SubSeq(c, 1, last)[i] = c[i]
    BY <1>7, <2>1
  <2> QED
    BY <1>5, <2>2
<1>9. \A i \in 1..last : i \in 1..Len(c)
  BY <1>6, <1>7
<1>10. /\ \A i, j \in 1..Len(c) : c[i] = c[j] => i = j
       /\ {c[i] : i \in 1..Len(c)} = Targets(back, n)
       /\ \A i \in 1..Len(c) : \E m \in 1..n :
             /\ Spoken(back[m]) /\ back[m].target = c[i]
             /\ c[i] \notin Targets(back, m - 1) /\ Targets(back, m - 1) = Before2(c, i)
  BY <1>4 DEF Gathered
<1>11. Recorded = Targets(back, n)
  <2>1. \A k \in 1..n : Bash(k) <=> Spoken(recs[k])
    BY DEF Bash, Spoken, recs
  <2>2. Recorded = {recs[k].target : k \in {k \in DOMAIN recs : Bash(k)}}
    BY DEF Recorded, recs
  <2>3. \A k \in 1..n : (n - k) + 1 \in 1..n /\ (n - ((n - k) + 1)) + 1 = k
    BY <1>3
  <2> HIDE DEF back, n
  <2>4. \A y : y \in Recorded <=> \E k \in 1..n : Spoken(recs[k]) /\ recs[k].target = y
    BY <1>3, <2>1, <2>2
  <2>5. \A y : y \in Targets(back, n) <=> \E k \in 1..n : Spoken(back[k]) /\ back[k].target = y
    BY DEF Targets
  <2>6. ASSUME NEW y \in Recorded PROVE y \in Targets(back, n)
    <3>1. PICK k \in 1..n : Spoken(recs[k]) /\ recs[k].target = y
      BY <2>4
    <3>2. (n - k) + 1 \in 1..n /\ back[(n - k) + 1] = recs[k]
      BY <1>3, <2>3
    <3> QED
      BY <2>5, <3>1, <3>2
  <2>7. ASSUME NEW y \in Targets(back, n) PROVE y \in Recorded
    <3>1. PICK k \in 1..n : Spoken(back[k]) /\ back[k].target = y
      BY <2>5
    <3>2. (n - k) + 1 \in 1..n /\ back[k] = recs[(n - k) + 1]
      BY <1>3, <2>3
    <3> QED
      BY <2>4, <3>1, <3>2
  <2> QED
    BY <2>6, <2>7
<1>12. ASSUME NEW i \in 1..Len(c) PROVE Cardinality(Since(c[i])) = i - 1
  <2>1. PICK m \in 1..n :
          /\ Spoken(back[m]) /\ back[m].target = c[i]
          /\ c[i] \notin Targets(back, m - 1) /\ Targets(back, m - 1) = Before2(c, i)
    BY <1>10
  <2>2. Since(c[i]) = Before2(c, i)
    <3>1. Spoken(Reverse(recs)[m]) /\ Reverse(recs)[m].target \notin Targets(Reverse(recs), m - 1)
      BY <2>1
    <3>2. Since(Reverse(recs)[m].target) = Targets(Reverse(recs), m - 1)
      BY <1>2, <3>1, SinceIs DEF recs
    <3> QED
      BY <2>1, <3>2
  <2>3. IsFiniteSet(1..(i - 1)) /\ Cardinality(1..(i - 1)) = i - 1
    <3>1. i \in Nat /\ i >= 1 /\ 1 \in Int /\ i - 1 \in Int
      BY <1>6
    <3>2. IsFiniteSet(1..(i - 1)) /\ Cardinality(1..(i - 1)) = IF 1 > i - 1 THEN 0 ELSE ((i - 1) - 1) + 1
      BY <3>1, FS_Interval
    <3> QED
      BY <3>1, <3>2
  <2>4. \A j \in 1..(i - 1) : j \in 1..Len(c)
    BY <1>6
  <2>5. Cardinality(Before2(c, i)) = Cardinality(1..(i - 1))
    <3>1. (\A x \in 1..(i - 1) : c[x] \in Before2(c, i)) /\ (\A t \in Before2(c, i) : \E x \in 1..(i - 1) : c[x] = t)
      BY DEF Before2
    <3>2. \A x, y \in 1..(i - 1) : c[x] = c[y] => x = y
      BY <1>10, <2>4
    <3> DEFINE S == 1..(i - 1)
               U == Before2(c, i)
    <3>3. IsFiniteSet(S) /\ (\A x \in S : c[x] \in U) /\ (\A x, y \in S : c[x] = c[y] => x = y) /\ \A t \in U : \E x \in S : c[x] = t
      BY <2>3, <3>1, <3>2
    <3> HIDE DEF S, U
    <3>4. Cardinality(U) = Cardinality(S)
      BY <3>3, SameCount
    <3> QED
      BY <3>4 DEF S, U
  <2> QED
    BY <2>2, <2>3, <2>5
<1>13. InWindow = {x \in Recorded : Cardinality(Since(x)) < window}
  BY DEF InWindow, window
<1>14. {c[i] : i \in 1..last} = InWindow
  <2>1. ASSUME NEW i \in 1..last PROVE c[i] \in InWindow
    <3>1. i \in 1..Len(c) /\ i - 1 < window
      BY <1>1, <1>6, <1>9
    <3>2. c[i] \in Recorded
      BY <1>10, <1>11, <3>1
    <3> QED
      BY <1>12, <1>13, <3>1, <3>2
  <2>2. ASSUME NEW x \in InWindow PROVE x \in {c[i] : i \in 1..last}
    <3>1. PICK i \in 1..Len(c) : x = c[i]
      BY <1>10, <1>11, <1>13
    <3>2. i - 1 < window
      BY <1>12, <1>13, <3>1
    <3>3. i \in 1..last
      BY <1>1, <1>6, <3>2
    <3> QED
      BY <3>1, <3>3
  <2> QED
    BY <2>1, <2>2
<1>15. \A i, j \in 1..last : Commands[i] = Commands[j] => i = j
  BY <1>8, <1>9, <1>10
<1>16. {Commands[i] : i \in 1..last} = InWindow
  BY <1>8, <1>14
<1> QED
  BY <1>8, <1>15, <1>16

\* The first so many commands that the rule matches; a command whose halves both ran.
Matched(cs, ran, k) == {c \in {cs[i] : i \in 1..k} : ran[c].matches}
BothRan(ran, c) == ran[c].matches /\ Fails \notin {ran[c].original, ran[c].rewritten}
Verdicts(s, c) == check(s.rule, s.ran[c].original.text, s.ran[c].rewritten.text)

LEMMA MatchedNext ==
    ASSUME NEW T, NEW cs \in Seq(T), \A i, j \in 1..Len(cs) : cs[i] = cs[j] => i = j,
           NEW ran, NEW k \in Nat, k + 1 <= Len(cs), IsFiniteSet(Matched(cs, ran, k))
    PROVE  /\ IsFiniteSet(Matched(cs, ran, k + 1))
           /\ Cardinality(Matched(cs, ran, k + 1)) = Cardinality(Matched(cs, ran, k)) + (IF ran[cs[k + 1]].matches THEN 1 ELSE 0)
<1> DEFINE M == Matched(cs, ran, k)
           c == cs[k + 1]
<1>1. \A i : i \in 1..(k + 1) <=> i \in 1..k \/ i = k + 1
  OBVIOUS
<1>2. \A x : x \in Matched(cs, ran, k + 1) <=> x \in M \/ (x = c /\ ran[c].matches)
  BY <1>1 DEF Matched
<1>3. c \notin M
  <2> SUFFICES ASSUME c \in M PROVE FALSE
    OBVIOUS
  <2>1. PICK i \in 1..k : c = cs[i]
    BY DEF Matched
  <2>2. i \in 1..Len(cs) /\ k + 1 \in 1..Len(cs) /\ i # k + 1
    OBVIOUS
  <2> QED
    BY <2>1, <2>2
<1>4. IsFiniteSet(M) /\ Cardinality(M) \in Nat
  BY FS_CardinalityType
<1> HIDE DEF M, c
<1>5. CASE ran[c].matches
  <2>1. Matched(cs, ran, k + 1) = M \cup {c}
    BY <1>2, <1>5
  <2>2. IsFiniteSet(M \cup {c}) /\ Cardinality(M \cup {c}) = Cardinality(M) + 1
    BY <1>3, <1>4, FS_AddElement
  <2> QED
    BY <1>5, <2>1, <2>2 DEF M, c
<1>6. CASE ~ ran[c].matches
  <2>1. Matched(cs, ran, k + 1) = M
    BY <1>2, <1>6
  <2> QED
    BY <1>4, <1>6, <2>1 DEF M, c
<1> QED
  BY <1>5, <1>6

\* What a verification has come to after so many of its commands.
Tallied(cs, s, k, n, good, gone) ==
    /\ n \in Nat /\ good \in Nat /\ gone \in Nat
    /\ IsFiniteSet(Matched(cs, s.ran, k))
    /\ n + gone = Cardinality(Matched(cs, s.ran, k))
    /\ good <= n
    /\ s.rule.fidelity = "reference" => n = 0
    /\ good = n => \A i \in 1..k : BothRan(s.ran, cs[i]) => Verdicts(s, cs[i]) # "fail"
    /\ n # 0 => \E i \in 1..k : BothRan(s.ran, cs[i])

\* The commands still to run are the last ones.
RunsInv ==
    /\ \E f \in Families : situation \in Situations(f)
    /\ pc \in {"done", "verify", "verified"}
    /\ \E k \in 0..Len(Commands) :
          /\ Len(todo) = Len(Commands) - k
          /\ \A i \in 1..Len(todo) : todo[i] = Commands[k + i]
          /\ Tallied(Commands, situation, k, cases, passed, skipped)
    /\ \E S : todo \in Seq(S)
    /\ pc = "verified" => /\ todo = <<>> \/ ~ situation.rule.compiles
                          /\ situation.apply => status = Outcome

LEMMA CheckIs ==
    ASSUME NEW rule, rule.fidelity \in Classes, NEW a, NEW b
    PROVE  /\ check(rule, a, b) \in {"pass", "fail", "not applicable"}
           /\ check(rule, a, b) = "not applicable" <=> rule.fidelity = "reference"
<1>1. CASE rule.fidelity = "exact"
  BY <1>1 DEF check, Verdict
<1>2. CASE rule.fidelity = "normalized"
  BY <1>2 DEF check, Verdict
<1>3. CASE rule.fidelity = "subset-declared"
  BY <1>3 DEF check, Verdict
<1>4. CASE rule.fidelity = "keyset"
  BY <1>4 DEF check, Verdict
<1>5. CASE rule.fidelity = "reference"
  BY <1>5, SMTT(30) DEF check
<1> QED
  BY <1>1, <1>2, <1>3, <1>4, <1>5 DEF Classes

LEMMA InitRuns == ASSUME Formed PROVE Init => RunsInv
<1> SUFFICES ASSUME Init PROVE RunsInv
  OBVIOUS
<1>1. PICK f \in Families : situation \in Situations(f)
  BY DEF Init, Situations
<1>2. todo = Commands /\ cases = 0 /\ passed = 0 /\ skipped = 0 /\ pc \in {"done", "verify"}
  BY DEF Init
<1>3. Commands \in Seq(f.targets)
  BY <1>1, CommandsAre
<1>4. Matched(Commands, situation.ran, 0) = {}
  BY DEF Matched
<1>5. Tallied(Commands, situation, 0, cases, passed, skipped)
  BY <1>2, <1>4, FS_EmptySet DEF Tallied
<1>6. 0 \in 0..Len(Commands) /\ Len(todo) = Len(Commands) - 0 /\ \A i \in 1..Len(todo) : todo[i] = Commands[0 + i]
  BY <1>2, <1>3
<1> QED
  BY <1>1, <1>2, <1>3, <1>5, <1>6, Zenon DEF RunsInv

\* What one command adds to the cases, to those that passed, and to those skipped.
AsCase(s, c) == IF BothRan(s.ran, c) /\ Verdicts(s, c) # "not applicable" THEN 1 ELSE 0
AsPassed(s, c) == IF BothRan(s.ran, c) /\ Verdicts(s, c) = "pass" THEN 1 ELSE 0
AsSkipped(s, c) == IF s.ran[c].matches /\ ~ (BothRan(s.ran, c) /\ Verdicts(s, c) # "not applicable") THEN 1 ELSE 0
Comes(s, c, n, good, gone, n2, good2, gone2) ==
    n2 = n + AsCase(s, c) /\ good2 = good + AsPassed(s, c) /\ gone2 = gone + AsSkipped(s, c)

LEMMA AddsIs ==
    ASSUME NEW n \in Nat, NEW good \in Nat, NEW gone \in Nat, good <= n,
           NEW d \in {0, 1}, NEW e \in {0, 1}, NEW x \in {0, 1}, e <= d
    PROVE  /\ n + d \in Nat /\ good + e \in Nat /\ gone + x \in Nat /\ good + e <= n + d
           /\ (n + d) + (gone + x) = (n + gone) + (d + x)
           /\ good + e = n + d => good = n /\ d = e
           /\ n + d # 0 => n # 0 \/ d = 1
           /\ n = 0 /\ d = 0 => n + d = 0
OBVIOUS

AsMatched(s, c) == IF s.ran[c].matches THEN 1 ELSE 0

\* What a command may add: nothing, one skipped, one that passed, or one that failed.
Adds(d, e, x, m) ==
    \/ d = 0 /\ e = 0 /\ x = 0 /\ m = 0
    \/ d = 0 /\ e = 0 /\ x = 1 /\ m = 1
    \/ d = 1 /\ e = 1 /\ x = 0 /\ m = 1
    \/ d = 1 /\ e = 0 /\ x = 0 /\ m = 1

LEMMA AddsSum ==
    ASSUME NEW d, NEW e, NEW x, NEW m, Adds(d, e, x, m)
    PROVE  d \in {0, 1} /\ e \in {0, 1} /\ x \in {0, 1} /\ e <= d /\ d + x = m
BY DEF Adds

Judged(s, c) == Verdicts(s, c) \in {"pass", "fail", "not applicable"}

LEMMA ComesIs ==
    ASSUME NEW s, NEW c, Judged(s, c)
    PROVE  Adds(AsCase(s, c), AsPassed(s, c), AsSkipped(s, c), AsMatched(s, c))
<1>1. BothRan(s.ran, c) => s.ran[c].matches
  BY DEF BothRan
<1>2. CASE ~ s.ran[c].matches
  <2>1. ~ BothRan(s.ran, c)
    BY <1>1, <1>2
  <2>2. AsCase(s, c) = 0 /\ AsPassed(s, c) = 0 /\ AsSkipped(s, c) = 0 /\ AsMatched(s, c) = 0
    BY <1>2, <2>1, Zenon DEF AsCase, AsPassed, AsSkipped, AsMatched
  <2> QED
    BY <2>2, Zenon DEF Adds
<1>3. CASE s.ran[c].matches /\ ~ BothRan(s.ran, c)
  <2>1. AsCase(s, c) = 0 /\ AsPassed(s, c) = 0 /\ AsSkipped(s, c) = 1 /\ AsMatched(s, c) = 1
    BY <1>3, Zenon DEF AsCase, AsPassed, AsSkipped, AsMatched
  <2> QED
    BY <2>1, Zenon DEF Adds
<1>4. CASE s.ran[c].matches /\ BothRan(s.ran, c)
  <2>1. AsMatched(s, c) = 1
    BY <1>4, Zenon DEF AsMatched
  <2>2. CASE Verdicts(s, c) = "pass"
    <3>1. AsCase(s, c) = 1 /\ AsPassed(s, c) = 1 /\ AsSkipped(s, c) = 0
      BY <1>4, <2>2 DEF AsCase, AsPassed, AsSkipped
    <3> QED
      BY <2>1, <3>1, Zenon DEF Adds
  <2>3. CASE Verdicts(s, c) = "fail"
    <3>1. AsCase(s, c) = 1 /\ AsPassed(s, c) = 0 /\ AsSkipped(s, c) = 0
      BY <1>4, <2>3 DEF AsCase, AsPassed, AsSkipped
    <3> QED
      BY <2>1, <3>1, Zenon DEF Adds
  <2>4. CASE Verdicts(s, c) = "not applicable"
    <3>1. AsCase(s, c) = 0 /\ AsPassed(s, c) = 0 /\ AsSkipped(s, c) = 1
      BY <1>4, <2>4 DEF AsCase, AsPassed, AsSkipped
    <3> QED
      BY <2>1, <3>1, Zenon DEF Adds
  <2> QED
    BY <2>2, <2>3, <2>4 DEF Judged
<1> QED
  BY <1>2, <1>3, <1>4, Zenon

\* One command more, and what it adds to the counts.
LEMMA TalliedNext ==
    ASSUME NEW T, NEW cs \in Seq(T), \A i, j \in 1..Len(cs) : cs[i] = cs[j] => i = j,
           NEW s, s.rule.fidelity \in Classes, NEW k \in Nat, k + 1 <= Len(cs),
           NEW n, NEW good, NEW gone, Tallied(cs, s, k, n, good, gone),
           NEW c, c = cs[k + 1],
           NEW n2, NEW good2, NEW gone2, Comes(s, c, n, good, gone, n2, good2, gone2)
    PROVE  Tallied(cs, s, k + 1, n2, good2, gone2)
<1> DEFINE v == Verdicts(s, c)
           M == Matched(cs, s.ran, k)
           both == BothRan(s.ran, c)
           card == Cardinality(M)
           more == Cardinality(Matched(cs, s.ran, k + 1))
<1>1. /\ n \in Nat /\ good \in Nat /\ gone \in Nat /\ IsFiniteSet(M)
      /\ n + gone = card /\ good <= n
      /\ s.rule.fidelity = "reference" => n = 0
      /\ good = n => \A i \in 1..k : BothRan(s.ran, cs[i]) => Verdicts(s, cs[i]) # "fail"
      /\ n # 0 => \E i \in 1..k : BothRan(s.ran, cs[i])
  BY DEF Tallied
<1>2. /\ IsFiniteSet(Matched(cs, s.ran, k + 1))
      /\ more = card + AsMatched(s, c)
  BY <1>1, MatchedNext DEF AsMatched
<1>3. v \in {"pass", "fail", "not applicable"} /\ (v = "not applicable" <=> s.rule.fidelity = "reference")
  BY CheckIs DEF Verdicts
<1>4. \A i : i \in 1..(k + 1) <=> i \in 1..k \/ i = k + 1
  OBVIOUS
<1>5. both \in BOOLEAN /\ (both => s.ran[c].matches)
  BY DEF BothRan
<1>6. k + 1 \in 1..(k + 1) /\ v = Verdicts(s, c) /\ (both <=> BothRan(s.ran, c))
  OBVIOUS
<1> DEFINE d == AsCase(s, c)
           e == AsPassed(s, c)
           x == AsSkipped(s, c)
<1>7. n2 = n + d /\ good2 = good + e /\ gone2 = gone + x
  BY DEF Comes
<1>8. /\ n2 \in Nat /\ good2 \in Nat /\ gone2 \in Nat /\ good2 <= n2
      /\ n2 + gone2 = n + gone + AsMatched(s, c)
      /\ good2 = n2 => good = n /\ (both => v # "fail")
      /\ n2 # 0 => n # 0 \/ both
      /\ n = 0 /\ v = "not applicable" => n2 = 0
  <2>1. /\ d \in {0, 1} /\ e \in {0, 1} /\ x \in {0, 1} /\ e <= d
        /\ d + x = AsMatched(s, c)
    <3>1. Adds(AsCase(s, c), AsPassed(s, c), AsSkipped(s, c), AsMatched(s, c))
      <4>1. Judged(s, c)
        BY <1>3 DEF Judged
      <4> QED
        BY <4>1, ComesIs
    <3> QED
      BY <3>1, AddsSum, Zenon
  <2>2. d = e /\ both => v # "fail"
    <3>1. both /\ v = "fail" => d = 1 /\ e = 0
      BY DEF AsCase, AsPassed
    <3> QED
      BY <3>1
  <2>3. d = 1 => both
    <3>1. ~ both => AsCase(s, c) = 0
      BY Zenon DEF AsCase, both
    <3>2. 0 # 1
      OBVIOUS
    <3> QED
      BY <3>1, <3>2, Zenon
  <2>4. v = "not applicable" => d = 0
    BY DEF AsCase
  <2> HIDE DEF d, e, x, v, both
  <2>5. n \in Nat /\ good \in Nat /\ gone \in Nat /\ good <= n
    BY <1>1
  <2>6. /\ n + d \in Nat /\ good + e \in Nat /\ gone + x \in Nat /\ good + e <= n + d
        /\ (n + d) + (gone + x) = (n + gone) + (d + x)
        /\ good + e = n + d => good = n /\ d = e
        /\ n + d # 0 => n # 0 \/ d = 1
        /\ n = 0 /\ d = 0 => n + d = 0
    BY <2>1, <2>5, AddsIs
  <2> QED
    BY <1>7, <2>1, <2>2, <2>3, <2>4, <2>6, Zenon
<1> HIDE DEF v, M, both, card, more
<1>9. n2 + gone2 = more
  BY <1>1, <1>2, <1>8
<1>10. s.rule.fidelity = "reference" => n2 = 0
  BY <1>1, <1>3, <1>8
<1>11. good2 = n2 => \A i \in 1..(k + 1) : BothRan(s.ran, cs[i]) => Verdicts(s, cs[i]) # "fail"
  <2> SUFFICES ASSUME good2 = n2, NEW i \in 1..(k + 1), BothRan(s.ran, cs[i]) PROVE Verdicts(s, cs[i]) # "fail"
    OBVIOUS
  <2>1. good = n /\ (both => v # "fail")
    BY <1>8
  <2>2. CASE i \in 1..k
    BY <1>1, <2>1, <2>2
  <2>3. CASE i = k + 1
    <3>1. cs[i] = c /\ both
      BY <1>6, <2>3
    <3> QED
      BY <1>6, <2>1, <3>1
  <2> QED
    BY <1>4, <2>2, <2>3
<1>12. n2 # 0 => \E i \in 1..(k + 1) : BothRan(s.ran, cs[i])
  <2> SUFFICES ASSUME n2 # 0 PROVE \E i \in 1..(k + 1) : BothRan(s.ran, cs[i])
    OBVIOUS
  <2>1. n # 0 \/ both
    BY <1>8
  <2>2. CASE n # 0
    BY <1>1, <1>4, <2>2
  <2>3. CASE both
    BY <1>6, <2>3
  <2> QED
    BY <2>1, <2>2, <2>3
<1>13. n2 + gone2 = Cardinality(Matched(cs, s.ran, k + 1))
  BY <1>9 DEF more
<1> QED
  BY <1>2, <1>8, <1>10, <1>11, <1>12, <1>13 DEF Tallied

LEMMA NextRuns == ASSUME Formed PROVE RunsInv /\ [Next]_vars => RunsInv'
<1> SUFFICES ASSUME RunsInv, [Next]_vars PROVE RunsInv'
  OBVIOUS
<1>1. PICK f \in Families : situation \in Situations(f)
  BY DEF RunsInv
<1>2. PICK k \in 0..Len(Commands) :
         /\ Len(todo) = Len(Commands) - k
         /\ \A i \in 1..Len(todo) : todo[i] = Commands[k + i]
         /\ Tallied(Commands, situation, k, cases, passed, skipped)
  BY DEF RunsInv
<1>3. PICK S : todo \in Seq(S)
  BY DEF RunsInv
<1>4. /\ Commands \in Seq(f.targets)
      /\ \A i, j \in 1..Len(Commands) : Commands[i] = Commands[j] => i = j
  BY <1>1, CommandsAre
<1>5. situation.rule.fidelity \in Classes /\ \A c \in f.targets : situation.ran[c].matches \in BOOLEAN
  BY <1>1, SituationIs
<1>6. pc \in {"done", "verify", "verified"}
  BY DEF RunsInv
<1>7. ASSUME todo # <<>>, todo' = Tail(todo), pc = "verify", situation' = situation, pc' = pc,
             Comes(situation, Head(todo), cases, passed, skipped, cases', passed', skipped')
      PROVE  RunsInv'
  <2> DEFINE cs == Commands
  <2>1. Len(todo) \in Nat /\ Len(todo) # 0 /\ Len(cs) \in Nat /\ k \in Nat /\ k + 1 <= Len(cs)
    <3>1. Len(todo) \in Nat /\ Len(todo) # 0
      BY <1>3, <1>7
    <3>2. Len(cs) \in Nat
      BY <1>4
    <3>3. k \in 0..Len(cs) /\ Len(todo) = Len(cs) - k
      BY <1>2
    <3> HIDE DEF cs
    <3> QED
      BY <3>1, <3>2, <3>3
  <2>2. Head(todo) = cs[k + 1]
    <3>1. 1 \in 1..Len(todo)
      BY <2>1
    <3> QED
      BY <1>2, <1>3, <1>7, <3>1
  <2>3. k + 1 \in 0..Len(cs) /\ k + 1 \in 1..Len(cs)
    BY <2>1
  <2>4. cs[k + 1] \in f.targets
    <3> HIDE DEF cs
    <3> QED
      BY <1>4, <2>3, ElementOfSeq DEF cs
  <2>5. cs' = cs
    BY <1>7 DEF Commands
  <2>6. Tallied(cs, situation, k + 1, cases', passed', skipped')
    <3>1. situation.rule.fidelity \in Classes /\ k \in Nat /\ k + 1 <= Len(cs)
      BY <1>5, <2>1
    <3>2. cs \in Seq(f.targets) /\ (\A i, j \in 1..Len(cs) : cs[i] = cs[j] => i = j)
      BY <1>4
    <3>3. Tallied(cs, situation, k, cases, passed, skipped)
      BY <1>2
    <3>4. Comes(situation, cs[k + 1], cases, passed, skipped, cases', passed', skipped')
      BY <1>7, <2>2
    <3> HIDE DEF cs
    <3> QED
      BY <3>1, <3>2, <3>3, <3>4, TalliedNext
  <2>7. /\ todo' \in Seq(S) /\ Len(todo') = Len(todo) - 1
        /\ \A i \in 1..Len(todo') : todo'[i] = todo[i + 1]
    BY <1>3, <1>7
  <2>8. Len(todo') = Len(cs) - (k + 1) /\ \A i \in 1..Len(todo') : todo'[i] = cs[(k + 1) + i]
    <3>1. Len(todo') = Len(cs) - (k + 1)
      BY <1>2, <2>1, <2>7
    <3>2. ASSUME NEW i \in 1..Len(todo') PROVE todo'[i] = cs[(k + 1) + i]
      <4>1. i + 1 \in 1..Len(todo) /\ k + (i + 1) = (k + 1) + i
        BY <2>1, <2>7
      <4>2. todo'[i] = todo[i + 1]
        BY <2>7
      <4>3. todo[i + 1] = cs[k + (i + 1)]
        BY <1>2, <4>1
      <4> QED
        BY <4>1, <4>2, <4>3
    <3> QED
      BY <3>1, <3>2
  <2>9. situation' = situation /\ pc' = "verify"
    BY <1>7
  <2> HIDE DEF cs
  <2>10. \E m \in 0..Len(cs') :
            /\ Len(todo') = Len(cs') - m
            /\ \A i \in 1..Len(todo') : todo'[i] = cs'[m + i]
            /\ Tallied(cs', situation', m, cases', passed', skipped')
    BY <2>3, <2>5, <2>6, <2>8, <2>9
  <2>11. situation' \in Situations(f)
    BY <1>1, <2>9
  <2> QED
    BY <2>7, <2>9, <2>10, <2>11 DEF RunsInv, cs
<1>13. cases \in Nat /\ passed \in Nat /\ skipped \in Nat
  BY <1>2 DEF Tallied
<1>8. CASE PassOver
  <2>1. ~ situation.ran[Head(todo)].matches
    BY <1>8 DEF PassOver, Ran
  <2>2. /\ todo # <<>> /\ todo' = Tail(todo) /\ pc = "verify" /\ situation' = situation /\ pc' = pc
        /\ cases' = cases /\ passed' = passed /\ skipped' = skipped
    BY <1>8 DEF PassOver, Verifying
  <2>3. Comes(situation, Head(todo), cases, passed, skipped, cases', passed', skipped')
    <3>1. ~ BothRan(situation.ran, Head(todo))
      BY <2>1 DEF BothRan
    <3>2. AsCase(situation, Head(todo)) = 0 /\ AsPassed(situation, Head(todo)) = 0 /\ AsSkipped(situation, Head(todo)) = 0
      BY <2>1, <3>1 DEF AsCase, AsPassed, AsSkipped
    <3> QED
      BY <1>13, <2>2, <3>2 DEF Comes
  <2> QED
    BY <1>7, <2>2, <2>3
<1>9. CASE Skip
  <2>1. situation.ran[Head(todo)].matches /\ ~ BothRan(situation.ran, Head(todo))
    BY <1>9 DEF Skip, Ran, BothRan
  <2>2. /\ todo # <<>> /\ todo' = Tail(todo) /\ pc = "verify" /\ situation' = situation /\ pc' = pc
        /\ cases' = cases /\ passed' = passed /\ skipped' = skipped + 1
    BY <1>9 DEF Skip, Verifying
  <2>3. Comes(situation, Head(todo), cases, passed, skipped, cases', passed', skipped')
    <3>1. AsCase(situation, Head(todo)) = 0 /\ AsPassed(situation, Head(todo)) = 0 /\ AsSkipped(situation, Head(todo)) = 1
      BY <2>1 DEF AsCase, AsPassed, AsSkipped
    <3> QED
      BY <1>13, <2>2, <3>1 DEF Comes
  <2> QED
    BY <1>7, <2>2, <2>3
<1>10. CASE Compare
  <2>1. BothRan(situation.ran, Head(todo))
    BY <1>10 DEF Compare, Ran, BothRan
  <2>2. /\ cases' = cases + (IF Verdicts(situation, Head(todo)) = "not applicable" THEN 0 ELSE 1)
        /\ passed' = passed + (IF Verdicts(situation, Head(todo)) = "pass" THEN 1 ELSE 0)
        /\ skipped' = skipped + (IF Verdicts(situation, Head(todo)) = "not applicable" THEN 1 ELSE 0)
    BY <1>10 DEF Compare, Ran, Verdicts
  <2>3. todo # <<>> /\ todo' = Tail(todo) /\ pc = "verify" /\ situation' = situation /\ pc' = pc
    BY <1>10 DEF Compare, Verifying
  <2>4. Comes(situation, Head(todo), cases, passed, skipped, cases', passed', skipped')
    <3>1. situation.ran[Head(todo)].matches
      BY <2>1 DEF BothRan
    <3>2. /\ AsCase(situation, Head(todo)) = IF Verdicts(situation, Head(todo)) = "not applicable" THEN 0 ELSE 1
          /\ AsPassed(situation, Head(todo)) = IF Verdicts(situation, Head(todo)) = "pass" THEN 1 ELSE 0
          /\ AsSkipped(situation, Head(todo)) = IF Verdicts(situation, Head(todo)) = "not applicable" THEN 1 ELSE 0
      BY <2>1, <3>1 DEF AsCase, AsPassed, AsSkipped
    <3> QED
      BY <2>2, <3>2 DEF Comes
  <2> QED
    BY <1>7, <2>3, <2>4
<1>11. CASE Conclude
  <2>1. /\ todo = <<>> \/ ~ situation.rule.compiles
        /\ status' = IF situation.apply THEN Outcome ELSE status
        /\ pc' = "verified" /\ situation' = situation /\ todo' = todo /\ cases' = cases /\ passed' = passed /\ skipped' = skipped
    BY <1>11 DEF Conclude
  <2>2. Commands' = Commands /\ Outcome' = Outcome
    BY <2>1 DEF Commands, Outcome
  <2>3. situation.apply => status' = Outcome
    BY <2>1
  <2> HIDE DEF Next
  <2>4. \E m \in 0..Len(Commands') :
            /\ Len(todo') = Len(Commands') - m
            /\ \A i \in 1..Len(todo') : todo'[i] = Commands'[m + i]
            /\ Tallied(Commands', situation', m, cases', passed', skipped')
    BY <1>2, <2>1, <2>2
  <2> QED
    BY <1>1, <1>3, <2>1, <2>2, <2>3, <2>4 DEF RunsInv
<1>12. CASE UNCHANGED vars
  <2>1. /\ situation' = situation /\ todo' = todo /\ cases' = cases /\ passed' = passed /\ skipped' = skipped
        /\ status' = status /\ pc' = pc
    BY <1>12 DEF vars
  <2>2. Commands' = Commands /\ Outcome' = Outcome
    BY <2>1 DEF Commands, Outcome
  <2>3. \E m \in 0..Len(Commands') :
            /\ Len(todo') = Len(Commands') - m
            /\ \A i \in 1..Len(todo') : todo'[i] = Commands'[m + i]
            /\ Tallied(Commands', situation', m, cases', passed', skipped')
    BY <1>2, <2>1, <2>2
  <2> QED
    BY <1>1, <1>3, <2>1, <2>2, <2>3 DEF RunsInv
<1> QED
  BY <1>8, <1>9, <1>10, <1>11, <1>12 DEF Next

LEMMA RunsAlways == ASSUME Formed PROVE Spec => []RunsInv
<1> QED
  BY InitRuns, NextRuns, PTL DEF Spec

\* The commands that a finished verification was about are those of the window that match.
LEMMA FinishedIs ==
    ASSUME Formed, RunsInv, pc = "verified", situation.rule.compiles
    PROVE  /\ Tallied(Commands, situation, Len(Commands), cases, passed, skipped)
           /\ Matching = Matched(Commands, situation.ran, Len(Commands))
<1>1. PICK f \in Families : situation \in Situations(f)
  BY DEF RunsInv
<1>2. PICK k \in 0..Len(Commands) :
         /\ Len(todo) = Len(Commands) - k
         /\ Tallied(Commands, situation, k, cases, passed, skipped)
  BY DEF RunsInv
<1>3. todo = <<>>
  BY DEF RunsInv
<1>4. Commands \in Seq(f.targets) /\ {Commands[i] : i \in 1..Len(Commands)} = InWindow
  BY <1>1, CommandsAre
<1>5. k = Len(Commands)
  <2>1. Len(todo) = 0 /\ Len(Commands) \in Nat
    BY <1>3, <1>4
  <2> QED
    BY <1>2, <2>1
<1>6. Matching = Matched(Commands, situation.ran, Len(Commands))
  BY <1>4 DEF Matching, Matched
<1> QED
  BY <1>2, <1>5, <1>6

\* A rule is cleared to rewrite by a verification only if some recent command ran beside its
\* rewrite, and each that did kept the promise of the class (fidelity.rs, check), for texts,
\* traces and windows of every size.
LEMMA PassEarned == ASSUME Formed PROVE Spec => []PassIsEarned
<1>1. RunsInv => PassIsEarned
  <2> SUFFICES ASSUME RunsInv, pc = "verified", situation.apply, status = "pass"
               PROVE  PassIsEarned
    BY DEF PassIsEarned, may_rewrite
  <2>1. PICK f \in Families : situation \in Situations(f)
    BY DEF RunsInv
  <2>2. situation.rule.fidelity \in Classes /\ situation.rule.compiles \in BOOLEAN
        /\ \A c \in f.targets : situation.ran[c].matches => situation.ran[c].original \in Output /\ situation.ran[c].rewritten \in Output
    BY <2>1, SituationIs
  <2>3. situation.rule.compiles /\ cases # 0 /\ passed = cases
    <3>1. Outcome = "pass"
      BY DEF RunsInv
    <3> QED
      BY <3>1 DEF Outcome
  <2> DEFINE cs == Commands
             n == Len(cs)
  <2>4. Tallied(cs, situation, n, cases, passed, skipped) /\ Matching = Matched(cs, situation.ran, n)
    BY <2>3, FinishedIs
  <2>5. cs \in Seq(f.targets)
    BY <2>1, CommandsAre
  <2>6. \A i \in 1..n : cs[i] \in f.targets
    <3> HIDE DEF cs
    <3> QED
      BY <2>5, ElementOfSeq
  <2> HIDE DEF cs, n
  <2>7. situation.rule.fidelity # "reference"
    BY <2>3, <2>4 DEF Tallied
  <2>8. PICK i \in 1..n : BothRan(situation.ran, cs[i])
    BY <2>3, <2>4 DEF Tallied
  <2>9. cs[i] \in Matching /\ Fails \notin {situation.ran[cs[i]].original, situation.ran[cs[i]].rewritten}
    BY <2>4, <2>8 DEF Matched, BothRan
  <2>10. ASSUME NEW c \in Matching, Fails \notin {situation.ran[c].original, situation.ran[c].rewritten}
         PROVE  KeepsPromise(situation.rule, situation.ran[c].original.text, situation.ran[c].rewritten.text)
    <3>1. PICK j \in 1..n : c = cs[j]
      BY <2>4 DEF Matched
    <3>2. situation.ran[c].matches /\ BothRan(situation.ran, c)
      BY <2>4, <2>10 DEF Matched, BothRan
    <3>3. Verdicts(situation, c) # "fail"
      BY <2>3, <2>4, <3>1, <3>2 DEF Tallied
    <3>4. Verdicts(situation, c) = "pass"
      <4>1. /\ Verdicts(situation, c) \in {"pass", "fail", "not applicable"}
            /\ Verdicts(situation, c) = "not applicable" <=> situation.rule.fidelity = "reference"
        BY <2>2, CheckIs DEF Verdicts
      <4> QED
        BY <2>7, <3>3, <4>1
    <3>5. situation.ran[c].original.text \in Lines /\ situation.ran[c].rewritten.text \in Lines
      <4>1. situation.ran[c].original \in Output /\ situation.ran[c].rewritten \in Output
        BY <2>2, <2>6, <3>1, <3>2
      <4>2. ASSUME NEW o \in Output, o # Fails PROVE o.text \in Lines
        BY <4>2 DEF Output, Lines
      <4> QED
        BY <2>10, <4>1, <4>2
    <3> QED
      BY <2>2, <3>4, <3>5, PassKeeps DEF Verdicts
  <2> QED
    BY <2>9, <2>10 DEF PassIsEarned
<1> QED
  BY <1>1, RunsAlways, PTL

\* Every recent command that the rule matches is a case or counted as skipped, and none that
\* nothing could be said about is a case (verify.rs, verify_rule), for traces and windows of
\* every size.
LEMMA SkipsCounted == ASSUME Formed PROVE Spec => []SkipsAreCounted
<1>1. RunsInv => SkipsAreCounted
  <2> SUFFICES ASSUME RunsInv, pc = "verified", situation.rule.compiles
               PROVE  /\ cases + skipped = Cardinality(Matching)
                      /\ situation.rule.fidelity = "reference" => cases = 0
                      /\ passed <= cases
    BY DEF SkipsAreCounted
  <2>1. /\ Tallied(Commands, situation, Len(Commands), cases, passed, skipped)
        /\ Matching = Matched(Commands, situation.ran, Len(Commands))
    BY FinishedIs
  <2> QED
    BY <2>1 DEF Tallied
<1> QED
  BY <1>1, RunsAlways, PTL

-----------------------------------------------------------------------------
(***************************************************************************)
(* What is read in a command (Commands).                                   *)
(***************************************************************************)
Shell == INSTANCE Commands

LEMMA ShellLibrary ==
    /\ \A S : Shell!Min(S) = Min(S) /\ Shell!Max(S) = Max(S)
    /\ \A s, t : Shell!IsPrefix(s, t) = IsPrefix(s, t)
    /\ \A s : Shell!ToSet(s) = {s[i] : i \in DOMAIN s} /\ Shell!Last(s) = s[Len(s)]
BY DEF Shell!Min, Min, Shell!Max, Max, Shell!IsPrefix, IsPrefix, Shell!ToSet, Shell!Last

\* Up to where a word, or a name, goes.
LEMMA UntilIs ==
    ASSUME NEW P, NEW s \in Seq(P), NEW i \in 1..Len(s), NEW stops
    PROVE  \E e \in i..(Len(s) + 1) :
              /\ Shell!Until(s, i, stops) = SubSeq(s, i, e - 1)
              /\ e = Len(s) + 1 \/ s[e] \in stops
              /\ \A j \in i..(e - 1) : s[j] \notin stops
<1> DEFINE ends == {j \in i..(Len(s) + 1) : j = Len(s) + 1 \/ s[j] \in stops}
<1>1. ends \in SUBSET Nat /\ ends # {}
  <2>1. Len(s) \in Nat /\ Len(s) + 1 \in ends
    OBVIOUS
  <2> QED
    BY <2>1
<1>2. Min(ends) \in ends /\ \A j \in ends : Min(ends) <= j
  <2> HIDE DEF ends
  <2> QED
    BY <1>1, MinIsLeast
<1>3. Shell!Until(s, i, stops) = SubSeq(s, i, Min(ends) - 1)
  BY ShellLibrary DEF Shell!Until
<1> DEFINE e == Min(ends)
<1>4. e \in i..(Len(s) + 1) /\ (e = Len(s) + 1 \/ s[e] \in stops)
  BY <1>2
<1>5. \A j \in i..(e - 1) : j < e /\ j \in i..(Len(s) + 1)
  BY <1>4
<1>6. \A j \in i..(e - 1) : j \notin ends
  <2> HIDE DEF ends
  <2> SUFFICES ASSUME NEW j \in i..(e - 1), j \in ends PROVE FALSE
    OBVIOUS
  <2>1. e <= j /\ j < e
    BY <1>2, <1>5
  <2> QED
    BY <1>4, <2>1
<1>7. \A j \in i..(e - 1) : s[j] \notin stops
  BY <1>5, <1>6
<1> HIDE DEF ends
<1> QED
  BY <1>3, <1>4, <1>7

\* Where a command begins to be more than blanks.
LEMMA InkBegins ==
    ASSUME NEW P, NEW s \in Seq(P), Shell!Inked(s) # {}
    PROVE  LET f == Shell!Min(Shell!Inked(s))
           IN  f \in 1..Len(s) /\ s[f] \notin Shell!Blanks /\ \A k \in 1..(f - 1) : s[k] \in Shell!Blanks
<1> DEFINE ink == Shell!Inked(s)
           f == Shell!Min(ink)
<1>1. ink \in SUBSET Nat /\ \A k \in 1..Len(s) : k \in ink <=> s[k] \notin Shell!Blanks
  BY DEF Shell!Inked
<1>2. ink \subseteq 1..Len(s)
  BY DEF Shell!Inked
<1>3. f = Min(ink)
  BY ShellLibrary
<1> HIDE DEF ink, f
<1>4. f \in ink /\ \A k \in ink : f <= k
  BY <1>1, <1>3, MinIsLeast DEF ink
<1>5. ASSUME NEW k \in 1..(f - 1) PROVE s[k] \in Shell!Blanks
  <2>1. f \in Nat /\ f <= Len(s) /\ k \in 1..Len(s) /\ k < f
    BY <1>2, <1>4
  <2>2. k \notin ink
    BY <1>4, <2>1
  <2> QED
    BY <1>1, <2>1, <2>2
<1> QED
  BY <1>1, <1>2, <1>4, <1>5 DEF ink, f

\* Which quote is open, piece after piece.
LEMMA OpenIs ==
    ASSUME NEW P, NEW s \in Seq(P)
    PROVE  LET open == Shell!Open(s)
           IN  /\ open \in [0..Len(s) -> Shell!Quotes \union {"none"}] /\ open[0] = "none"
               /\ \A n \in 1..Len(s) :
                     open[n] = IF open[n - 1] = "none" /\ s[n] \in Shell!Quotes THEN s[n]
                               ELSE IF open[n - 1] = s[n] THEN "none" ELSE open[n - 1]
<1> DEFINE size == Len(s)
           Q == Shell!Quotes \union {"none"}
           next(before, n) == IF before = "none" /\ s[n] \in Shell!Quotes THEN s[n] ELSE IF before = s[n] THEN "none" ELSE before
           body(f, n) == IF n = 0 THEN "none" ELSE next(f[n - 1], n)
           chosen == CHOOSE f : f = [n \in 0..size |-> body(f, n)]
           step == [x \in Q \X (1..size) |-> next(x[1], x[2])]
<1>1. Shell!Open(s) = chosen
  BY DEF Shell!Open
<1>2. size \in Nat
  OBVIOUS
<1>3. \A o \in Q, n \in 1..size : next(o, n) \in Q
  OBVIOUS
<1>4. step \in [Q \X (1..size) -> Q]
  <2> HIDE DEF next, Q
  <2> QED
    BY <1>3
<1>5. \A o \in Q, n \in 1..size : step[<<o, n>>] = next(o, n)
  <2> HIDE DEF next, Q
  <2> QED
    OBVIOUS
<1> HIDE DEF size, Q, step
<1>6. "none" \in Q
  BY DEF Q
<1>7. PICK f \in [0..size -> Q] : f[0] = "none" /\ \A n \in 1..size : f[n] = step[<<f[n - 1], n>>]
  <2> DEFINE base == "none"
  <2>1. base \in Q
    BY <1>6
  <2> HIDE DEF base
  <2>2. \E f : IsLoop(f, Q, size, base, step)
    BY <1>2, <1>4, <2>1, RoundsExist
  <2> QED
    BY <2>2 DEF base, IsLoop
<1>8. ASSUME NEW n \in 0..size PROVE f[n] = body(f, n)
  <2>1. CASE n = 0
    BY <1>7, <2>1
  <2>2. CASE n # 0
    <3>1. n \in 1..size /\ n - 1 \in 0..size
      BY <1>2, <2>2
    <3>2. f[n - 1] \in Q
      BY <3>1
    <3> HIDE DEF next
    <3>3. f[n] = next(f[n - 1], n)
      BY <1>5, <1>7, <3>1, <3>2
    <3> QED
      BY <2>2, <3>3
  <2> QED
    BY <2>1, <2>2
<1>9. f = [n \in 0..size |-> body(f, n)]
  <2> HIDE DEF body
  <2> QED
    BY <1>8
<1>10. chosen = [n \in 0..size |-> body(chosen, n)]
  <2> HIDE DEF body
  <2> QED
    BY <1>9
<1> HIDE DEF chosen
<1>11. \A n \in 0..size : chosen[n] = body(chosen, n)
  <2> HIDE DEF body
  <2> QED
    BY <1>10
<1>12. \A n \in 0..size : chosen[n] \in Q
  <2> DEFINE T == {n \in Nat : n \in 0..size => chosen[n] \in Q}
  <2>1. \A n \in 0..size : n \in T
    <3>1. 0 \in T
      <4>1. chosen[0] = "none"
        BY <1>2, <1>11
      <4> QED
        BY <1>6, <4>1
    <3>2. ASSUME NEW n \in 0..(size - 1), n \in T PROVE n + 1 \in T
      <4>1. n \in 0..size /\ n + 1 \in 0..size /\ n + 1 # 0 /\ n + 1 \in 1..size /\ (n + 1) - 1 = n
        BY <1>2
      <4>2. chosen[n + 1] = next(chosen[n], n + 1)
        BY <1>11, <4>1
      <4> QED
        BY <1>3, <3>2, <4>1, <4>2
    <3>3. T \in SUBSET Nat
      OBVIOUS
    <3> HIDE DEF T
    <3> QED
      BY <1>2, <3>1, <3>2, <3>3, UpTo
  <2> QED
    BY <1>2, <2>1
<1>13. chosen \in [0..size -> Q]
  <2> HIDE DEF body
  <2> QED
    BY <1>10, <1>12
<1>14. chosen[0] = "none" /\ \A n \in 1..size : chosen[n] = next(chosen[n - 1], n)
  <2>1. 0 \in 0..size /\ \A n \in 1..size : n \in 0..size /\ n # 0
    BY <1>2
  <2> QED
    BY <1>11, <2>1
<1> QED
  BY <1>1, <1>13, <1>14 DEF size, Q

\* The pieces that are told apart.
LEMMA QuotesAre ==
    /\ "none" \notin Shell!Quotes /\ Shell!Space \notin Shell!Quotes /\ Shell!Newline \notin Shell!Quotes /\ Shell!Space # "none"
    /\ Shell!Double \in Shell!Quotes /\ Shell!Single \in Shell!Quotes /\ Shell!Double # Shell!Single
    /\ \A q \in Shell!Quotes : q = Shell!Double \/ q = Shell!Single
    /\ Shell!Space \in Shell!Blanks /\ Shell!Blanks \intersect Shell!Quotes = {}
BY Zenon DEF Shell!Quotes, Shell!Blanks, Shell!Space, Shell!Double, Shell!Single, Shell!Newline

\* A quote stays open up to the next of its kind.
LEMMA StaysOpen ==
    ASSUME NEW P, NEW s \in Seq(P), NEW a \in 0..Len(s), NEW b \in a..Len(s), NEW q \in Shell!Quotes,
           Shell!Open(s)[a] = q, \A i \in (a + 1)..b : s[i] # q
    PROVE  \A i \in a..b : Shell!Open(s)[i] = q
<1> DEFINE T == {i \in Nat : Shell!Open(s)[i] = q}
<1>1. a \in Nat /\ b \in Nat /\ a \in T /\ T \in SUBSET Nat
  OBVIOUS
<1>2. ASSUME NEW k \in a..(b - 1), k \in T PROVE k + 1 \in T
  <2>1. k + 1 \in 1..Len(s) /\ k + 1 \in (a + 1)..b /\ (k + 1) - 1 = k /\ q # "none"
    BY QuotesAre
  <2>2. Shell!Open(s)[k + 1] = IF Shell!Open(s)[k] = "none" /\ s[k + 1] \in Shell!Quotes THEN s[k + 1]
                               ELSE IF Shell!Open(s)[k] = s[k + 1] THEN "none" ELSE Shell!Open(s)[k]
    BY <2>1, OpenIs
  <2> QED
    BY <1>2, <2>1, <2>2
<1> HIDE DEF T
<1>3. \A k \in a..b : k \in T
  BY <1>1, <1>2, UpTo
<1> QED
  BY <1>3 DEF T

\* None is open that was not opened.
LEMMA WasOpened ==
    ASSUME NEW P, NEW s \in Seq(P), NEW b \in 0..Len(s), NEW q \in Shell!Quotes, \A i \in 1..b : s[i] # q
    PROVE  \A i \in 0..b : Shell!Open(s)[i] # q
<1> DEFINE T == {i \in Nat : Shell!Open(s)[i] # q}
<1>1. 0 \in T /\ b \in Nat /\ T \in SUBSET Nat
  <2>1. Shell!Open(s)[0] # q
    BY OpenIs, QuotesAre
  <2> QED
    BY <2>1
<1>2. ASSUME NEW k \in 0..(b - 1), k \in T PROVE k + 1 \in T
  <2>1. k + 1 \in 1..Len(s) /\ k + 1 \in 1..b /\ (k + 1) - 1 = k /\ q # "none"
    BY QuotesAre
  <2>2. Shell!Open(s)[k + 1] = IF Shell!Open(s)[k] = "none" /\ s[k + 1] \in Shell!Quotes THEN s[k + 1]
                               ELSE IF Shell!Open(s)[k] = s[k + 1] THEN "none" ELSE Shell!Open(s)[k]
    BY <2>1, OpenIs
  <2> QED
    BY <1>2, <2>1, <2>2
<1> HIDE DEF T
<1>3. \A k \in 0..b : k \in T
  BY <1>1, <1>2, UpTo
<1> QED
  BY <1>3 DEF T

\* What is plain, for one place.
LEMMA PlainIs ==
    ASSUME NEW P, NEW s \in Seq(P), Shell!Plain(s)
    PROVE  /\ \A i \in 1..Len(s) : s[i] # Shell!Newline
           /\ Shell!Open(s)[Len(s)] = "none"
           /\ \A i \in 1..Len(s) : s[i] \in Shell!Quotes =>
                 \/ Shell!Open(s)[i - 1] = "none" /\ (i = 1 \/ s[i - 1] = Shell!Space)
                 \/ Shell!Open(s)[i - 1] = s[i] /\ (i = Len(s) \/ s[i + 1] = Shell!Space)
                 \/ Shell!Open(s)[i - 1] = Shell!Double /\ s[i] = Shell!Single
<1>1. Shell!Open(s)[Len(s)] = "none" /\ Shell!ToSet(s) \intersect {Shell!Newline, Shell!Escape} = {}
  BY DEF Shell!Plain
<1>2. \A i \in 1..Len(s) : s[i] \in Shell!ToSet(s)
  BY ShellLibrary
<1>3. \A i \in 1..Len(s) : s[i] # Shell!Newline
  BY <1>1, <1>2
<1> QED
  BY <1>1, <1>3 DEF Shell!Plain

\* Where the first two of a kind are, nothing of that kind is before or between.
LEMMA FirstTwoAre ==
    ASSUME NEW P, NEW s \in Seq(P), NEW q, NEW p \in Shell!FirstTwo(s, q)
    PROVE  /\ p[1] \in 1..Len(s) /\ p[2] \in 1..Len(s) /\ p[1] < p[2] /\ s[p[1]] = q /\ s[p[2]] = q
           /\ \A i \in 1..(p[1] - 1) : s[i] # q
           /\ \A i \in (p[1] + 1)..(p[2] - 1) : s[i] # q
           /\ p = <<p[1], p[2]>>
<1>1. /\ p \in (1..Len(s)) \X (1..Len(s)) /\ p[1] < p[2]
      /\ \A i \in 1..p[2] : s[i] = q <=> i \in {p[1], p[2]}
  BY DEF Shell!FirstTwo
<1>2. p[1] \in 1..Len(s) /\ p[2] \in 1..Len(s) /\ p = <<p[1], p[2]>>
  BY <1>1
<1>3. /\ p[1] \in 1..p[2] /\ p[2] \in 1..p[2]
      /\ \A i \in 1..(p[1] - 1) : i \in 1..p[2] /\ i \notin {p[1], p[2]}
      /\ \A i \in (p[1] + 1)..(p[2] - 1) : i \in 1..p[2] /\ i \notin {p[1], p[2]}
  BY <1>1, <1>2
<1> QED
  BY <1>1, <1>2, <1>3

\* A kind of quote that is not there twice is not there at all.
LEMMA NoDouble ==
    ASSUME NEW P, NEW s \in Seq(P), Shell!Plain(s), Shell!FirstTwo(s, Shell!Double) = {}
    PROVE  \A i \in 1..Len(s) : s[i] # Shell!Double
<1> DEFINE q == Shell!Double
           here == {i \in 1..Len(s) : s[i] = q}
<1> SUFFICES ASSUME here # {} PROVE FALSE
  OBVIOUS
<1>0. q \in Shell!Quotes /\ q # "none" /\ q # Shell!Single /\ Shell!FirstTwo(s, q) = {}
  BY QuotesAre
<1> HIDE DEF q
<1>1. here \in SUBSET Nat
  OBVIOUS
<1> DEFINE d == Min(here)
<1>2. d \in here /\ \A i \in here : d <= i
  <2> HIDE DEF here
  <2> QED
    BY <1>1, MinIsLeast
<1> HIDE DEF d
<1>3. d \in 1..Len(s) /\ s[d] = q /\ d - 1 \in 0..Len(s) /\ \A i \in 1..(d - 1) : s[i] # q
  <2>1. d \in 1..Len(s) /\ s[d] = q /\ d - 1 \in 0..Len(s)
    BY <1>2
  <2>2. ASSUME NEW i \in 1..(d - 1), s[i] = q PROVE FALSE
    <3>1. i \in here /\ i < d
      BY <2>1, <2>2
    <3> HIDE DEF here
    <3> QED
      BY <1>2, <2>1, <3>1
  <2> QED
    BY <2>1, <2>2
<1>4. \A i \in (d + 1)..Len(s) : s[i] # q
  <2> DEFINE more == {i \in (d + 1)..Len(s) : s[i] = q}
             e == Min(more)
  <2> SUFFICES ASSUME more # {} PROVE FALSE
    OBVIOUS
  <2>1. more \in SUBSET Nat
    BY <1>3
  <2>2. e \in more /\ \A i \in more : e <= i
    <3> HIDE DEF more
    <3> QED
      BY <2>1, MinIsLeast
  <2> HIDE DEF e
  <2>3. e \in 1..Len(s) /\ s[e] = q /\ d < e
    BY <1>3, <2>2
  <2>4. ASSUME NEW i \in 1..e, s[i] = q, i # d, i # e PROVE FALSE
    <3>1. CASE i < d
      BY <1>3, <2>4, <3>1
    <3>2. CASE ~ (i < d)
      <4>1. i \in more /\ i < e
        BY <1>3, <2>3, <2>4, <3>2
      <4> HIDE DEF more
      <4> QED
        BY <2>2, <2>3, <4>1
    <3> QED
      BY <3>1, <3>2
  <2>5. \A i \in 1..e : s[i] = q <=> i \in {d, e}
    BY <1>3, <2>3, <2>4
  <2> DEFINE p == <<d, e>>
  <2>6. p \in (DOMAIN s) \X (DOMAIN s) /\ p[1] = d /\ p[2] = e
    BY <1>3, <2>3
  <2>7. p \in Shell!FirstTwo(s, q)
    <3> HIDE DEF p
    <3> QED
      BY <2>3, <2>5, <2>6 DEF Shell!FirstTwo
  <2> QED
    BY <1>0, <2>7
<1>5. Shell!Open(s)[d - 1] # q
  <2> DEFINE b == d - 1
  <2>1. b \in 0..Len(s) /\ b \in 0..b /\ \A i \in 1..b : s[i] # q
    BY <1>3
  <2> HIDE DEF b
  <2>2. Shell!Open(s)[b] # q
    BY <1>0, <2>1, WasOpened
  <2> QED
    BY <2>2 DEF b
<1>6. Shell!Open(s)[d - 1] = "none"
  BY <1>0, <1>3, <1>5, PlainIs
<1>7. Shell!Open(s)[d] = q
  BY <1>0, <1>3, <1>6, OpenIs
<1>8. \A i \in d..Len(s) : Shell!Open(s)[i] = q
  <2>1. d \in 0..Len(s) /\ Len(s) \in d..Len(s)
    BY <1>3
  <2> QED
    BY <1>0, <1>4, <1>7, <2>1, StaysOpen
<1>9. Shell!Open(s)[Len(s)] = q
  BY <1>3, <1>8
<1> QED
  BY <1>0, <1>9, PlainIs

\* The first two quotes of a kind are around a whole word.
LEMMA QuotedIsWord ==
    ASSUME NEW P, NEW s \in Seq(P), Shell!Plain(s), Shell!Breaks(s) = {},
           NEW q \in Shell!Quotes, NEW p \in Shell!FirstTwo(s, q),
           q = Shell!Double \/ \A i \in 1..Len(s) : s[i] # Shell!Double
    PROVE  p \in Shell!ShellWords(s) /\ \A i \in p[1]..(p[2] - 1) : Shell!Open(s)[i] = q
<1> DEFINE a == p[1]
           b == p[2]
           open == Shell!Open(s)
           gaps == Shell!Breaks(s) \union Shell!Bare(s, {Shell!Space})
<1>1. /\ a \in 1..Len(s) /\ b \in 1..Len(s) /\ a < b /\ s[a] = q /\ s[b] = q /\ p = <<a, b>>
      /\ \A i \in 1..(a - 1) : s[i] # q
      /\ \A i \in (a + 1)..(b - 1) : s[i] # q
  BY FirstTwoAre
<1>2. /\ q # "none" /\ q # Shell!Space /\ Shell!Space # "none" /\ Shell!Space \notin Shell!Quotes
  BY QuotesAre
<1>3. /\ open \in [0..Len(s) -> Shell!Quotes \union {"none"}]
      /\ \A n \in 1..Len(s) :
            open[n] = IF open[n - 1] = "none" /\ s[n] \in Shell!Quotes THEN s[n]
                      ELSE IF open[n - 1] = s[n] THEN "none" ELSE open[n - 1]
  BY OpenIs
<1>4. /\ \A i \in 1..Len(s) : s[i] \in Shell!Quotes =>
            \/ open[i - 1] = "none" /\ (i = 1 \/ s[i - 1] = Shell!Space)
            \/ open[i - 1] = s[i] /\ (i = Len(s) \/ s[i + 1] = Shell!Space)
            \/ open[i - 1] = Shell!Double /\ s[i] = Shell!Single
  BY PlainIs
<1>5. \A i \in 1..Len(s) : i \in gaps <=> s[i] = Shell!Space /\ open[i - 1] = "none"
  BY DEF Shell!Bare
<1> HIDE DEF a, b
<1>6. open[a - 1] # q /\ open[a - 1] # Shell!Double
  <2> DEFINE c == a - 1
  <2>1. c \in 0..Len(s) /\ c \in 0..c /\ \A i \in 1..c : i \in 1..Len(s) /\ s[i] # q
    BY <1>1
  <2>2. \A i \in 1..c : s[i] # Shell!Double
    BY <2>1
  <2> HIDE DEF c
  <2>3. Shell!Open(s)[c] # q
    BY <2>1, WasOpened
  <2>4. Shell!Open(s)[c] # Shell!Double
    <3> DEFINE double == Shell!Double
    <3>1. double \in Shell!Quotes /\ \A i \in 1..c : s[i] # double
      BY <2>2, QuotesAre
    <3> HIDE DEF double
    <3>2. Shell!Open(s)[c] # double
      BY <2>1, <3>1, WasOpened
    <3> QED
      BY <3>2 DEF double
  <2> QED
    BY <2>3, <2>4 DEF c
<1> HIDE DEF open
<1>7. open[a - 1] = "none" /\ (a = 1 \/ s[a - 1] = Shell!Space)
  BY <1>1, <1>4, <1>6
<1>8. open[a] = q
  BY <1>1, <1>3, <1>7
<1>9. \A i \in a..(b - 1) : open[i] = q
  <2> DEFINE c == b - 1
  <2>1. a \in 0..Len(s) /\ c \in a..Len(s) /\ \A i \in (a + 1)..c : s[i] # q
    BY <1>1
  <2> HIDE DEF c
  <2>2. \A i \in a..c : Shell!Open(s)[i] = q
    BY <1>8, <2>1, StaysOpen DEF open
  <2> QED
    BY <2>2 DEF c, open
<1>10. open[b - 1] = q /\ open[b] = "none" /\ (b = Len(s) \/ s[b + 1] = Shell!Space)
  <2>1. b - 1 \in a..(b - 1)
    BY <1>1
  <2>2. open[b - 1] = q
    BY <1>9, <2>1
  <2>3. open[b] = "none"
    BY <1>1, <1>2, <1>3, <2>2
  <2>4. b = Len(s) \/ s[b + 1] = Shell!Space
    BY <1>1, <1>2, <1>4, <2>2, QuotesAre
  <2> QED
    BY <2>2, <2>3, <2>4
<1> HIDE DEF gaps
<1>11. a - 1 \in gaps \union {0}
  <2> SUFFICES ASSUME a # 1 PROVE a - 1 \in gaps
    BY <1>1
  <2>1. a - 1 \in 1..Len(s) /\ (a - 1) - 1 \in 0..Len(s) /\ s[a - 1] = Shell!Space
    BY <1>1, <1>7
  <2>2. open[(a - 1) - 1] \in Shell!Quotes \union {"none"}
    BY <1>3, <2>1
  <2>3. open[(a - 1) - 1] = "none"
    BY <1>2, <1>3, <1>7, <2>1, <2>2
  <2> QED
    BY <1>5, <2>1, <2>3
<1>12. b + 1 \in gaps \union {Len(s) + 1}
  <2> SUFFICES ASSUME b # Len(s) PROVE b + 1 \in gaps
    OBVIOUS
  <2>1. b + 1 \in 1..Len(s) /\ (b + 1) - 1 = b /\ s[b + 1] = Shell!Space
    BY <1>1, <1>10
  <2> QED
    BY <1>5, <1>10, <2>1
<1>13. (a..b) \intersect gaps = {}
  <2> SUFFICES ASSUME NEW i \in a..b, i \in gaps PROVE FALSE
    OBVIOUS
  <2>1. i \in 1..Len(s)
    BY <1>1
  <2>2. s[i] = Shell!Space /\ open[i - 1] = "none"
    BY <1>5, <2>1
  <2>3. i # a
    BY <1>1, <1>2, <2>2
  <2>4. i - 1 \in a..(b - 1)
    BY <1>1, <2>3
  <2> QED
    BY <1>2, <1>9, <2>2, <2>4
<1>14. p \in (DOMAIN s) \X (DOMAIN s) /\ p[1] = a /\ p[2] = b
  <2>1. a \in DOMAIN s /\ b \in DOMAIN s
    BY <1>1
  <2> QED
    BY <1>1, <2>1
<1>15. p \in Shell!ShellWords(s)
  <2>1. p[1] <= p[2] /\ p[1] - 1 \in gaps \union {0} /\ p[2] + 1 \in gaps \union {Len(s) + 1} /\ (p[1]..p[2]) \intersect gaps = {}
    BY <1>1, <1>11, <1>12, <1>13, <1>14
  <2>2. p \in Shell!Runs(s, gaps)
    BY <1>14, <2>1 DEF Shell!Runs
  <2> QED
    BY <2>2 DEF Shell!ShellWords, gaps
<1> QED
  BY <1>9, <1>15 DEF a, b, open

\* One piece by itself.
LEMMA OnePiece ==
    ASSUME NEW P, NEW s \in Seq(P), NEW i \in 1..Len(s)
    PROVE  SubSeq(s, i, i) = <<s[i]>>
<1>1. i \in Int /\ s[i] \in P /\ \A k \in i..i : s[k] \in P
  OBVIOUS
<1>2. /\ SubSeq(s, i, i) \in Seq(P) /\ Len(SubSeq(s, i, i)) = IF i <= i THEN i - i + 1 ELSE 0
      /\ \A k \in 1..(i - i + 1) : SubSeq(s, i, i)[k] = s[i + k - 1]
  BY <1>1, SubSeqProperties
<1>3. Len(SubSeq(s, i, i)) = 1 /\ SubSeq(s, i, i)[1] = s[i]
  BY <1>1, <1>2
<1> DEFINE one == <<s[i]>>
<1>4. one \in Seq(P) /\ Len(one) = 1 /\ one[1] = s[i]
  BY <1>1
<1> DEFINE list == SubSeq(s, i, i)
<1>5. list \in Seq(P) /\ Len(list) = 1 /\ list[1] = s[i]
  BY <1>2, <1>3
<1> HIDE DEF one, list
<1>6. \A k \in 1..Len(list) : list[k] = one[k]
  <2>1. \A k \in 1..Len(list) : k = 1
    BY <1>5
  <2> QED
    BY <1>4, <1>5, <2>1
<1>7. list = one
  BY <1>4, <1>5, <1>6, SeqEqual
<1> QED
  BY <1>7 DEF one, list

\* A command that may be replaced begins with a reader's name; if it is plain, the shell reads
\* one command.
LEMMA ReaderIsFirst ==
    ASSUME NEW P, NEW s \in Seq(P), Shell!is_rewritable(s)
    PROVE  LET f == Shell!Min(Shell!Inked(s))
           IN  /\ f \in 1..Len(s) /\ <<s[f]>> \in {<<r>> : r \in Shell!Readers} /\ Shell!FirstWord(s) = <<s[f]>>
               /\ f = Len(s) \/ s[f + 1] \in Shell!Blanks
               /\ s[f] \notin Shell!Blanks /\ \A k \in 1..(f - 1) : s[k] \in Shell!Blanks
<1> DEFINE f == Shell!Min(Shell!Inked(s))
<1>1. f \in 1..Len(s) /\ s[f] \notin Shell!Blanks /\ \A k \in 1..(f - 1) : s[k] \in Shell!Blanks
  BY InkBegins DEF Shell!is_rewritable
<1>2. Shell!FirstWord(s) = Shell!Until(s, f, Shell!Blanks)
  BY DEF Shell!FirstWord
<1> HIDE DEF f
<1>3. PICK e \in f..(Len(s) + 1) :
         /\ Shell!Until(s, f, Shell!Blanks) = SubSeq(s, f, e - 1)
         /\ e = Len(s) + 1 \/ s[e] \in Shell!Blanks
  BY <1>1, UntilIs
<1>4. PICK r \in Shell!Readers : SubSeq(s, f, e - 1) = <<r>>
  BY <1>2, <1>3 DEF Shell!is_rewritable
<1>5. e - 1 = f /\ s[f] = r
  <2>1. f \in Int /\ e - 1 \in Int /\ \A i \in f..(e - 1) : s[i] \in P
    BY <1>1, <1>3
  <2>2. /\ Len(SubSeq(s, f, e - 1)) = IF f <= e - 1 THEN (e - 1) - f + 1 ELSE 0
        /\ \A i \in 1..((e - 1) - f + 1) : SubSeq(s, f, e - 1)[i] = s[f + i - 1]
    BY <2>1, SubSeqProperties
  <2>3. Len(<<r>>) = 1 /\ <<r>>[1] = r
    OBVIOUS
  <2>4. e - 1 = f
    <3> DEFINE m == e - 1
    <3>1. Len(SubSeq(s, f, m)) = 1 /\ Len(SubSeq(s, f, m)) = IF f <= m THEN m - f + 1 ELSE 0
      BY <1>4, <2>2, <2>3
    <3>2. f \in Int /\ m \in Int
      BY <1>1, <1>3
    <3> HIDE DEF m
    <3>3. m = f
      BY <3>1, <3>2
    <3> QED
      BY <3>3 DEF m
  <2>5. 1 \in 1..((e - 1) - f + 1) /\ f + 1 - 1 = f
    BY <1>1, <2>4
  <2> QED
    BY <1>4, <2>2, <2>3, <2>4, <2>5
<1>6. f = Len(s) \/ s[f + 1] \in Shell!Blanks
  <2>1. e = f + 1
    BY <1>1, <1>3, <1>5
  <2> QED
    BY <1>1, <1>3, <2>1
<1>7. <<s[f]>> \in {<<x>> : x \in Shell!Readers} /\ Shell!FirstWord(s) = <<s[f]>>
  BY <1>2, <1>3, <1>4, <1>5
<1> QED
  BY <1>1, <1>6, <1>7 DEF f

LEMMA OperatorsAre ==
    \A p \in {";", "|", "&"} : p \in Shell!Operators
BY Zenon DEF Shell!Operators

LEMMA ReadersAreNoQuotes == \A r \in Shell!Readers : r \notin Shell!Quotes
BY Zenon DEF Shell!Readers, Shell!Quotes, Shell!Double, Shell!Single

LEMMA IsOneLine ==
    ASSUME NEW P, NEW s \in Seq(P), Shell!is_rewritable(s), Shell!Plain(s)
    PROVE  Shell!Breaks(s) = {}
<1>1. \A i \in 1..Len(s) : s[i] # Shell!Newline /\ s[i] \in Shell!ToSet(s)
  BY PlainIs, ShellLibrary
<1>2. \A i \in 1..Len(s) : s[i] \notin Shell!Operators
  BY <1>1 DEF Shell!is_rewritable
<1> DEFINE breaks == {";", "|", "&", Shell!Newline}
<1>3. \A i \in 1..Len(s) : s[i] \notin breaks
  <2> SUFFICES ASSUME NEW i \in 1..Len(s), s[i] \in breaks PROVE FALSE
    OBVIOUS
  <2>1. s[i] \in {";", "|", "&"} \/ s[i] = Shell!Newline
    BY Zenon
  <2> HIDE DEF breaks
  <2> QED
    BY Zenon, <1>1, <1>2, <2>1, OperatorsAre
<1>4. Shell!Breaks(s) = Shell!Bare(s, breaks)
  BY Zenon DEF Shell!Breaks
<1> HIDE DEF breaks
<1>5. DOMAIN s = 1..Len(s)
  OBVIOUS
<1> QED
  BY Zenon, <1>3, <1>4, <1>5 DEF Shell!Bare

\* The shell reads the name first, and nothing that belongs to another command.
LEMMA ReaderIsRun ==
    ASSUME NEW P, NEW s \in Seq(P), Shell!is_rewritable(s), Shell!Plain(s)
    PROVE  LET f == Shell!Min(Shell!Inked(s))
           IN  /\ <<f, f>> \in Shell!ShellWords(s) /\ SubSeq(s, f, f) \in {<<r>> : r \in Shell!Readers}
               /\ \A v \in Shell!ShellWords(s) : f <= v[1]
               /\ s[f] \notin Shell!Quotes
<1> DEFINE f == Shell!Min(Shell!Inked(s))
           open == Shell!Open(s)
           gaps == Shell!Breaks(s) \union Shell!Bare(s, {Shell!Space})
<1>1. /\ f \in 1..Len(s) /\ <<s[f]>> \in {<<r>> : r \in Shell!Readers} /\ Shell!FirstWord(s) = <<s[f]>>
      /\ f = Len(s) \/ s[f + 1] \in Shell!Blanks
      /\ s[f] \notin Shell!Blanks /\ \A k \in 1..(f - 1) : s[k] \in Shell!Blanks
  BY ReaderIsFirst
<1> HIDE DEF f
<1>2. s[f] \in Shell!Readers /\ s[f] \notin Shell!Quotes
  <2>1. PICK r \in Shell!Readers : <<s[f]>> = <<r>>
    BY <1>1
  <2>2. s[f] = r
    BY <2>1
  <2> QED
    BY <2>2, ReadersAreNoQuotes
<1>3. /\ \A i \in 1..Len(s) : s[i] \in Shell!Blanks => s[i] = Shell!Space
      /\ Shell!Space \in Shell!Blanks /\ Shell!Double \in Shell!Quotes /\ Shell!Single \in Shell!Quotes
      /\ \A q \in Shell!Quotes : q = Shell!Double \/ q = Shell!Single
  BY PlainIs, QuotesAre DEF Shell!Blanks
<1>4. \A i \in 1..f : s[i] \notin Shell!Quotes
  <2> SUFFICES ASSUME NEW i \in 1..f, s[i] \in Shell!Quotes PROVE FALSE
    OBVIOUS
  <2>1. i \in 1..(f - 1)
    BY <1>1, <1>2
  <2> QED
    BY <1>1, <2>1, QuotesAre
<1>5. open \in [0..Len(s) -> Shell!Quotes \union {"none"}]
  BY OpenIs
<1>6. \A i \in 0..f : open[i] = "none"
  <2>1. f \in 0..Len(s) /\ \A i \in 0..f : i \in 0..Len(s)
    BY <1>1
  <2>2. \A q \in Shell!Quotes : \A i \in 1..f : s[i] # q
    BY <1>4
  <2> HIDE DEF open
  <2>3. \A q \in Shell!Quotes : \A i \in 0..f : open[i] # q
    <3> SUFFICES ASSUME NEW q \in Shell!Quotes PROVE \A i \in 0..f : open[i] # q
      OBVIOUS
    <3>1. \A i \in 1..f : s[i] # q
      BY <2>2
    <3> QED
      BY <2>1, <3>1, WasOpened DEF open
  <2> QED
    BY <1>5, <2>1, <2>3
<1>7. \A i \in 1..Len(s) : i \in gaps <=> s[i] = Shell!Space /\ open[i - 1] = "none"
  <2>1. Shell!Breaks(s) = {}
    BY IsOneLine
  <2> QED
    BY <2>1 DEF Shell!Bare
<1>8. \A i \in 1..(f - 1) : i \in gaps
  <2> SUFFICES ASSUME NEW i \in 1..(f - 1) PROVE i \in gaps
    OBVIOUS
  <2>1. i \in 1..Len(s) /\ i - 1 \in 0..f
    BY <1>1
  <2>2. s[i] = Shell!Space
    BY <1>1, <1>3, <2>1
  <2> QED
    BY <1>6, <1>7, <2>1, <2>2
<1>9. f \notin gaps
  <2>1. s[f] # Shell!Space
    BY <1>1, <1>3
  <2> QED
    BY <1>1, <1>7, <2>1
<1>10. f + 1 \in gaps \union {Len(s) + 1}
  <2> SUFFICES ASSUME f # Len(s) PROVE f + 1 \in gaps
    OBVIOUS
  <2>1. f + 1 \in 1..Len(s) /\ (f + 1) - 1 = f /\ f \in 0..f
    BY <1>1
  <2>2. s[f + 1] = Shell!Space
    BY <1>1, <1>3, <2>1
  <2> QED
    BY <1>6, <1>7, <2>1, <2>2
<1> HIDE DEF gaps, open
<1>11. f - 1 \in gaps \union {0}
  BY <1>1, <1>8
<1> DEFINE w == <<f, f>>
<1>12. w \in Shell!ShellWords(s)
  <2>1. w \in (DOMAIN s) \X (DOMAIN s) /\ w[1] = f /\ w[2] = f
    BY <1>1
  <2>2. (f..f) \intersect gaps = {}
    BY <1>1, <1>9
  <2> HIDE DEF w
  <2>3. w[1] <= w[2] /\ w[1] - 1 \in gaps \union {0} /\ w[2] + 1 \in gaps \union {Len(s) + 1} /\ (w[1]..w[2]) \intersect gaps = {}
    BY <1>1, <1>10, <1>11, <2>1, <2>2
  <2>4. w \in Shell!Runs(s, gaps)
    BY <2>1, <2>3 DEF Shell!Runs
  <2> QED
    BY <2>4 DEF Shell!ShellWords, gaps
<1>13. ASSUME NEW v \in Shell!ShellWords(s) PROVE f <= v[1]
  <2>1. v \in Shell!Runs(s, gaps)
    BY DEF Shell!ShellWords, gaps
  <2>2. v \in (1..Len(s)) \X (1..Len(s)) /\ v[1] <= v[2] /\ (v[1]..v[2]) \intersect gaps = {}
    BY <2>1 DEF Shell!Runs
  <2>3. v[1] \in 1..Len(s) /\ v[1] \in v[1]..v[2]
    BY <2>2
  <2>4. v[1] \notin gaps
    BY <2>2, <2>3
  <2> QED
    BY <1>1, <1>8, <2>3, <2>4
<1>14. SubSeq(s, f, f) \in {<<r>> : r \in Shell!Readers}
  <2>1. SubSeq(s, f, f) = <<s[f]>>
    BY <1>1, OnePiece
  <2> QED
    BY <1>1, <2>1
<1> QED
  BY <1>2, <1>12, <1>13, <1>14 DEF f

\* The name that is found in a text is one that the text declares.
LEMMA FoundIsDeclared ==
    ASSUME NEW P, NEW t \in Seq(P), \A i \in 1..Len(t) : t[i] # Shell!Newline,
           NEW name, name \in Shell!symbol_in(t)
    PROVE  Shell!Declares(t, name)
<1> DEFINE lower == Shell!Lower(t)
           AtKey(k) == Shell!At(lower, <<Shell!Keywords[k], Shell!Space>>)
           held == {k \in DOMAIN Shell!Keywords : AtKey(k) # {}}
           key == Shell!Min(held)
           place == Shell!Min(AtKey(key))
           after == {i \in Shell!Inked(t) : i >= place + 2}
           j == Shell!Min(after)
<1>1. /\ held # {} /\ after # {} /\ name = Shell!Until(t, j, Shell!NotOfNames)
      /\ Shell!ToSet(t) \intersect Shell!Metacharacters = {}
  <2>1. name \in IF held = {} \/ after = {} \/ Shell!Until(t, j, Shell!NotOfNames) = <<>>
                    \/ Shell!Until(t, j, Shell!NotOfNames) \in {<<l>> : l \in Shell!Letters}
                    \/ Shell!ToSet(t) \intersect Shell!Metacharacters # {}
                 THEN {} ELSE {Shell!Until(t, j, Shell!NotOfNames)}
    BY DEF Shell!symbol_in
  <2> HIDE DEF held, after, j
  <2> QED
    BY <2>1
<1> HIDE DEF lower, j
<1>2. key \in DOMAIN Shell!Keywords /\ AtKey(key) # {}
  <2>1. held \in SUBSET Nat
    BY DEF Shell!Keywords
  <2> HIDE DEF held
  <2>2. key \in held
    BY <1>1, <2>1, MinIsLeast, ShellLibrary
  <2> HIDE DEF key
  <2> QED
    BY <2>2 DEF held
<1> HIDE DEF key, held
<1>3. place \in AtKey(key) /\ place \in Nat
  <2>1. AtKey(key) \in SUBSET Nat
    <3>1. Len(lower) \in Nat
      BY DEF lower, Shell!Lower
    <3> QED
      BY <3>1 DEF Shell!At
  <2> HIDE DEF AtKey
  <2>2. place \in AtKey(key)
    BY <1>2, <2>1, MinIsLeast, ShellLibrary
  <2> HIDE DEF place
  <2> QED
    BY <2>1, <2>2
<1> HIDE DEF place
<1>4. j \in after /\ \A i \in after : j <= i
  <2>1. after \in SUBSET Nat
    BY DEF Shell!Inked
  <2> HIDE DEF after
  <2> QED
    BY <1>1, <2>1, MinIsLeast, ShellLibrary DEF j
<1>5. j \in (place + 2)..Len(t)
  BY <1>3, <1>4 DEF Shell!Inked
<1>6. ASSUME NEW b \in (place + 2)..(j - 1) PROVE t[b] = Shell!Space
  <2>1. b \in 1..Len(t) /\ b >= place + 2 /\ b < j
    BY <1>3, <1>5
  <2>2. b \notin after
    <3> HIDE DEF after
    <3> QED
      BY <1>4, <1>5, <2>1
  <2>3. t[b] \in Shell!Blanks
    BY <2>1, <2>2 DEF Shell!Inked
  <2> QED
    BY <2>1, <2>3 DEF Shell!Blanks
<1> DEFINE keyword == Shell!Keywords[key]
<1>7. keyword \in Shell!ToSet(Shell!Keywords)
  BY <1>2, ShellLibrary
<1>8. place \in Shell!At(Shell!Lower(t), <<keyword, Shell!Space>>)
  BY <1>3 DEF lower
<1> HIDE DEF keyword, after, AtKey
<1> QED
  BY <1>1, <1>5, <1>6, <1>7, <1>8 DEF Shell!Declares

\* A plain command that is replaced is one search, and its quoted text declares the name.
LEMMA NameIsSought ==
    ASSUME NEW P, NEW s \in Seq(P), Shell!Plain(s), NEW name, name \in Shell!detect_definition_search(s)
    PROVE  Shell!OneSearch(s) /\ Shell!Seeks(s, name)
<1>1. Shell!is_rewritable(s) /\ name \in UNION {Shell!symbol_in(l) : l \in Shell!quoted_literal(s)}
  BY DEF Shell!detect_definition_search
<1>2. PICK l \in Shell!quoted_literal(s) : name \in Shell!symbol_in(l)
  BY <1>1
<1> DEFINE f == Shell!Min(Shell!Inked(s))
<1>3. /\ <<f, f>> \in Shell!ShellWords(s) /\ SubSeq(s, f, f) \in {<<r>> : r \in Shell!Readers}
      /\ \A v \in Shell!ShellWords(s) : f <= v[1]
      /\ s[f] \notin Shell!Quotes
  BY <1>1, ReaderIsRun
<1> HIDE DEF f
<1>4. Shell!Breaks(s) = {}
  BY <1>1, IsOneLine
<1>5. PICK q \in Shell!Quotes : \E p \in Shell!FirstTwo(s, q) :
         l = SubSeq(s, p[1] + 1, p[2] - 1) /\ (q = Shell!Double \/ \A i \in 1..Len(s) : s[i] # Shell!Double)
  <2>1. Shell!Double \in Shell!Quotes /\ Shell!Single \in Shell!Quotes
    BY QuotesAre
  <2>2. CASE Shell!FirstTwo(s, Shell!Double) # {}
    <3>1. PICK p \in Shell!FirstTwo(s, Shell!Double) : l = SubSeq(s, p[1] + 1, p[2] - 1)
      BY <1>2, <2>2 DEF Shell!quoted_literal
    <3> QED
      BY <2>1, <3>1
  <2>3. CASE Shell!FirstTwo(s, Shell!Double) = {}
    <3>1. PICK p \in Shell!FirstTwo(s, Shell!Single) : l = SubSeq(s, p[1] + 1, p[2] - 1)
      BY <1>2, <2>3 DEF Shell!quoted_literal
    <3>2. \A i \in 1..Len(s) : s[i] # Shell!Double
      BY <2>3, NoDouble
    <3> QED
      BY <2>1, <3>1, <3>2
  <2> QED
    BY <2>2, <2>3
<1>6. PICK p \in Shell!FirstTwo(s, q) :
         l = SubSeq(s, p[1] + 1, p[2] - 1) /\ (q = Shell!Double \/ \A i \in 1..Len(s) : s[i] # Shell!Double)
  BY <1>5
<1>7. p \in Shell!ShellWords(s) /\ \A i \in p[1]..(p[2] - 1) : Shell!Open(s)[i] = q
  BY <1>4, <1>6, QuotedIsWord
<1>8. /\ p[1] \in 1..Len(s) /\ p[2] \in 1..Len(s) /\ p[1] < p[2] /\ s[p[1]] = q /\ s[p[2]] = q
  BY FirstTwoAre
<1>9. Shell!Declares(l, name)
  <2> DEFINE m == p[1] + 1
             n == p[2] - 1
  <2>1. m \in Int /\ n \in Int /\ \A i \in m..n : i \in 1..Len(s)
    BY <1>8
  <2>2. \A i \in m..n : s[i] \in P /\ s[i] # Shell!Newline
    BY <2>1, PlainIs
  <2> HIDE DEF m, n
  <2>3. /\ SubSeq(s, m, n) \in Seq(P) /\ Len(SubSeq(s, m, n)) = IF m <= n THEN n - m + 1 ELSE 0
        /\ \A i \in 1..(n - m + 1) : SubSeq(s, m, n)[i] = s[m + i - 1]
    BY <2>1, <2>2, SubSeqProperties
  <2>4. l \in Seq(P) /\ l = SubSeq(s, m, n)
    BY <1>6, <2>3 DEF m, n
  <2>5. ASSUME NEW i \in 1..Len(l) PROVE l[i] # Shell!Newline
    <3>1. i \in 1..(n - m + 1) /\ m + i - 1 \in m..n
      BY <2>1, <2>3, <2>4
    <3> QED
      BY <2>2, <2>3, <2>4, <3>1
  <2> QED
    BY <1>2, <2>4, <2>5, FoundIsDeclared
<1> DEFINE v == <<f, f>>
<1>10. v[1] = f /\ v[2] = f /\ v \in Shell!ShellWords(s)
  BY <1>3
<1> HIDE DEF v
<1>11. Shell!OneSearch(s)
  <2>1. \A u \in Shell!ShellWords(s) : v[1] <= u[1] /\ (v[1]..u[1]) \intersect Shell!Breaks(s) = {}
    BY <1>3, <1>4, <1>10
  <2>2. SubSeq(s, v[1], v[2]) \in {<<r>> : r \in Shell!Readers}
    BY <1>3, <1>10
  <2> QED
    BY <1>10, <2>1, <2>2 DEF Shell!OneSearch
<1>12. v[1] < p[1]
  <2>1. f <= p[1] /\ f # p[1]
    BY <1>3, <1>7, <1>8
  <2>2. f \in Int
    <3>1. v \in (DOMAIN s) \X (DOMAIN s)
      BY <1>10 DEF Shell!ShellWords, Shell!Runs
    <3> QED
      BY <1>10, <3>1
  <2> QED
    BY <1>8, <1>10, <2>1, <2>2
<1>13. Shell!Seeks(s, name)
  <2>1. /\ p[1] < p[2] /\ s[p[1]] \in Shell!Quotes
        /\ \A i \in p[1]..(p[2] - 1) : Shell!Open(s)[i] = s[p[1]]
        /\ s[p[2]] = s[p[1]] /\ Shell!Declares(SubSeq(s, p[1] + 1, p[2] - 1), name)
    BY <1>6, <1>7, <1>8, <1>9
  <2> QED
    BY <1>7, <1>10, <1>12, <2>1 DEF Shell!Seeks
<1> QED
  BY <1>11, <1>13

\* What reading a command for its shape has come to.
ReadStates(U) == [in : {"none", "/"} \union Shell!Quotes, out : Seq(U)]
MarkedPieces(P) == P \union {Shell!Space, "$S", "$P"}
Clean(p) == p \notin Shell!Blanks /\ p \notin Shell!Quotes /\ p # "/"
WithSpace(out) == IF out # <<>> /\ out[Len(out)] = Shell!Space THEN out ELSE Append(out, Shell!Space)
IsReading(read, s, U) ==
    /\ read[0] = [in |-> "none", out |-> <<>>]
    /\ \A n \in 0..Len(s) : read[n] \in ReadStates(U)
    /\ \A n \in 1..Len(s) : read[n] = Shell!Reduce(read[n - 1], s[n])
    /\ Shell!fingerprint(s) = Shell!Trim(read[Len(s)].out)

LEMMA MarksAre ==
    /\ "none" \notin Shell!Quotes /\ "none" # "/" /\ "/" \notin Shell!Quotes /\ "/" \notin Shell!Blanks
    /\ "$S" \notin Shell!Blanks /\ "$P" \notin Shell!Blanks
BY Zenon DEF Shell!Quotes, Shell!Blanks, Shell!Double, Shell!Single, Shell!Space, Shell!Newline

\* What one piece adds.
PieceAdds(U, st, p, then) ==
    /\ then.out = st.out \/ \E x \in U : then.out = Append(st.out, x)
    /\ st.in = "none" /\ p \in Shell!Blanks => then.in = "none" /\ then.out = WithSpace(st.out)
    /\ st.in = "none" /\ Clean(p) => then.in = "none" /\ then.out = Append(st.out, p)
    /\ st.in = "none" /\ p \notin Shell!Blanks =>
          \E x \in U : x \notin Shell!Blanks /\ then.out = Append(st.out, x)

LEMMA ReducesTo ==
    ASSUME NEW P, NEW st \in ReadStates(MarkedPieces(P)), NEW p \in P
    PROVE  Shell!Reduce(st, p) \in ReadStates(MarkedPieces(P)) /\ PieceAdds(MarkedPieces(P), st, p, Shell!Reduce(st, p))
<1> DEFINE U == MarkedPieces(P)
           then == Shell!Reduce(st, p)
           marks == {"none", "/"} \union Shell!Quotes
<1>1. /\ st = [in |-> st.in, out |-> st.out] /\ st.in \in marks /\ st.out \in Seq(U)
      /\ "none" \in marks /\ "/" \in marks /\ Shell!Quotes \subseteq marks
      /\ p \in U /\ Shell!Space \in U /\ "$S" \in U /\ "$P" \in U
  BY DEF ReadStates, MarkedPieces
<1>2. \A x \in U : Append(st.out, x) \in Seq(U)
  BY <1>1, AppendProperties
<1>3. ReadStates(U) = [in : marks, out : Seq(U)]
  BY DEF ReadStates
<1> HIDE DEF U, marks
<1>4. then = IF st.in \in Shell!Quotes THEN [st EXCEPT !.in = IF p = st.in THEN "none" ELSE st.in]
             ELSE IF st.in = "/" /\ p \notin Shell!Blanks THEN st
             ELSE IF p \in Shell!Blanks THEN [in |-> "none", out |-> WithSpace(st.out)]
             ELSE IF p \in Shell!Quotes THEN [in |-> p, out |-> Append(st.out, "$S")]
             ELSE IF p = "/" /\ (st.out = <<>> \/ st.out[Len(st.out)] = Shell!Space) THEN [in |-> p, out |-> Append(st.out, "$P")]
             ELSE [st EXCEPT !.out = Append(st.out, p)]
  BY ShellLibrary DEF Shell!Reduce, WithSpace
<1>5. WithSpace(st.out) \in Seq(U) /\ (WithSpace(st.out) = st.out \/ WithSpace(st.out) = Append(st.out, Shell!Space))
  BY <1>1, <1>2 DEF WithSpace
<1> HIDE DEF then
<1>6. CASE st.in \in Shell!Quotes
  <2>1. then = [in |-> IF p = st.in THEN "none" ELSE st.in, out |-> st.out]
    BY <1>1, <1>4, <1>6
  <2>2. then.out = st.out /\ then \in ReadStates(U) /\ st.in # "none"
    BY <1>1, <1>3, <1>6, <2>1, MarksAre
  <2> QED
    BY <2>2 DEF U, then, PieceAdds
<1>7. CASE st.in \notin Shell!Quotes /\ st.in = "/" /\ p \notin Shell!Blanks
  <2>1. then = st /\ st.in # "none"
    BY <1>4, <1>7, MarksAre
  <2> QED
    BY <2>1 DEF U, then, PieceAdds
<1>8. CASE st.in \notin Shell!Quotes /\ p \in Shell!Blanks
  <2>1. then = [in |-> "none", out |-> WithSpace(st.out)]
    BY <1>4, <1>8
  <2>2. then.in = "none" /\ then.out = WithSpace(st.out) /\ then \in ReadStates(U) /\ ~Clean(p)
    BY <1>1, <1>3, <1>5, <1>8, <2>1 DEF Clean
  <2> QED
    BY <1>1, <1>5, <1>8, <2>2 DEF U, then, PieceAdds
<1>9. CASE st.in \notin Shell!Quotes /\ ~ (st.in = "/" /\ p \notin Shell!Blanks) /\ p \notin Shell!Blanks
  <2>1. CASE p \in Shell!Quotes
    <3>1. then = [in |-> p, out |-> Append(st.out, "$S")] /\ ~Clean(p)
      BY <1>4, <1>9, <2>1 DEF Clean
    <3>2. then \in ReadStates(U) /\ then.out = Append(st.out, "$S")
      BY <1>1, <1>2, <1>3, <2>1, <3>1
    <3> QED
      BY <1>1, <1>9, <3>1, <3>2, MarksAre DEF U, then, PieceAdds
  <2>2. CASE p \notin Shell!Quotes /\ p = "/" /\ (st.out = <<>> \/ st.out[Len(st.out)] = Shell!Space)
    <3>1. then = [in |-> p, out |-> Append(st.out, "$P")] /\ ~Clean(p)
      BY <1>4, <1>9, <2>2 DEF Clean
    <3>2. then \in ReadStates(U) /\ then.out = Append(st.out, "$P")
      BY <1>1, <1>2, <1>3, <2>2, <3>1
    <3> QED
      BY <1>1, <1>9, <3>1, <3>2, MarksAre DEF U, then, PieceAdds
  <2>3. CASE p \notin Shell!Quotes /\ ~ (p = "/" /\ (st.out = <<>> \/ st.out[Len(st.out)] = Shell!Space))
    <3>1. then = [in |-> st.in, out |-> Append(st.out, p)]
      BY <1>1, <1>4, <1>9, <2>3
    <3>2. then \in ReadStates(U) /\ then.out = Append(st.out, p) /\ then.in = st.in
      BY <1>1, <1>2, <1>3, <3>1
    <3> QED
      BY <1>1, <1>9, <3>2 DEF U, then, PieceAdds
  <2> QED
    BY <2>1, <2>2, <2>3
<1> QED
  BY <1>6, <1>7, <1>8, <1>9

\* A command is read piece after piece.
LEMMA ReadingExists ==
    ASSUME NEW P, NEW s \in Seq(P)
    PROVE  \E read : IsReading(read, s, MarkedPieces(P))
<1> DEFINE size == Len(s)
           S == ReadStates(MarkedPieces(P))
           empty == [in |-> "none", out |-> <<>>]
           next(before, n) == Shell!Reduce(before, s[n])
           body(f, n) == IF n = 0 THEN empty ELSE next(f[n - 1], n)
           chosen == CHOOSE f : f = [n \in 0..size |-> body(f, n)]
           step == [x \in S \X (1..size) |-> next(x[1], x[2])]
<1>1. Shell!fingerprint(s) = Shell!Trim(chosen[size].out)
  BY DEF Shell!fingerprint
<1>2. size \in Nat /\ \A n \in 1..size : s[n] \in P
  OBVIOUS
<1>3. \A st \in S, n \in 1..size : next(st, n) \in S
  BY <1>2, ReducesTo
<1>4. empty \in S
  BY DEF ReadStates
<1>5. step \in [S \X (1..size) -> S]
  <2> HIDE DEF next, S
  <2> QED
    BY <1>3
<1>6. \A st \in S, n \in 1..size : step[<<st, n>>] = next(st, n)
  <2> HIDE DEF next, S
  <2> QED
    OBVIOUS
<1> HIDE DEF size, S, step, empty
<1>7. PICK f : IsLoop(f, S, size, empty, step)
  BY <1>2, <1>4, <1>5, RoundsExist
<1>8. /\ f \in [0..size -> S] /\ f[0] = empty
      /\ \A n \in 1..size : f[n] = step[<<f[n - 1], n>>]
  BY <1>7 DEF IsLoop
<1>9. ASSUME NEW n \in 0..size PROVE f[n] = body(f, n)
  <2>1. CASE n = 0
    BY <1>8, <2>1
  <2>2. CASE n # 0
    <3>1. n \in 1..size /\ n - 1 \in 0..size
      BY <1>2, <2>2
    <3>2. f[n - 1] \in S
      BY <1>8, <3>1
    <3> HIDE DEF next
    <3>3. f[n] = next(f[n - 1], n)
      BY <1>6, <1>8, <3>1, <3>2
    <3> QED
      BY <2>2, <3>3
  <2> QED
    BY <2>1, <2>2
<1>10. f = [n \in 0..size |-> body(f, n)]
  <2> HIDE DEF body
  <2> QED
    BY <1>8, <1>9
<1>11. chosen = [n \in 0..size |-> body(chosen, n)]
  <2> HIDE DEF body
  <2> QED
    BY <1>10
<1> HIDE DEF chosen
<1>12. \A n \in 0..size : chosen[n] = body(chosen, n)
  <2> HIDE DEF body
  <2> QED
    BY <1>11
<1>13. chosen[0] = empty
  BY <1>2, <1>12
<1>14. \A n \in 1..size : chosen[n] = next(chosen[n - 1], n)
  <2> SUFFICES ASSUME NEW n \in 1..size PROVE chosen[n] = next(chosen[n - 1], n)
    OBVIOUS
  <2>1. n \in 0..size /\ n # 0
    BY <1>2
  <2> HIDE DEF next
  <2> QED
    BY <1>12, <2>1
<1>15. \A n \in 0..size : chosen[n] \in S
  <2> DEFINE T == {n \in Nat : chosen[n] \in S}
  <2>1. 0 \in T /\ T \in SUBSET Nat
    BY <1>4, <1>13
  <2>2. ASSUME NEW n \in 0..(size - 1), n \in T PROVE n + 1 \in T
    <3>1. n + 1 \in 1..size /\ (n + 1) - 1 = n
      BY <1>2
    <3> HIDE DEF next
    <3>2. chosen[n + 1] = next(chosen[n], n + 1)
      BY <1>14, <3>1
    <3> QED
      BY <1>3, <2>2, <3>1, <3>2
  <2>3. \A n \in 0..size : n \in T
    <3> HIDE DEF T
    <3> QED
      BY <1>2, <2>1, <2>2, UpTo
  <2> QED
    BY <2>3
<1>16. IsReading(chosen, s, MarkedPieces(P))
  BY <1>1, <1>13, <1>14, <1>15 DEF IsReading, size, S, empty
<1> QED
  BY <1>16

\* What one more piece adds to what has been read.
LEMMA ReadingStep ==
    ASSUME NEW P, NEW s \in Seq(P), NEW read, IsReading(read, s, MarkedPieces(P)), NEW n \in 1..Len(s)
    PROVE  PieceAdds(MarkedPieces(P), read[n - 1], s[n], read[n])
<1>1. read[n - 1] \in ReadStates(MarkedPieces(P)) /\ s[n] \in P /\ read[n] = Shell!Reduce(read[n - 1], s[n])
  BY DEF IsReading
<1> QED
  BY <1>1, ReducesTo

\* The first list is how the second begins.
Starts(list, out) == Len(list) <= Len(out) /\ \A i \in 1..Len(list) : out[i] = list[i]

\* What has been read stays read.
LEMMA ReadingGrows ==
    ASSUME NEW P, NEW s \in Seq(P), NEW read, IsReading(read, s, MarkedPieces(P)),
           NEW m \in 0..Len(s), NEW n \in m..Len(s)
    PROVE  Starts(read[m].out, read[n].out)
<1> DEFINE T == {k \in Nat : k \in 0..Len(s) => Starts(read[m].out, read[k].out)}
<1>1. \A k \in 0..Len(s) : read[k].out \in Seq(MarkedPieces(P)) /\ read[k] \in ReadStates(MarkedPieces(P))
  BY DEF IsReading, ReadStates
<1>2. m \in T /\ T \in SUBSET Nat /\ m \in Nat /\ n \in Nat
  BY <1>1 DEF Starts
<1>3. ASSUME NEW k \in m..(n - 1), k \in T PROVE k + 1 \in T
  <2>1. k \in 0..Len(s) /\ k + 1 \in 1..Len(s) /\ k + 1 \in 0..Len(s) /\ (k + 1) - 1 = k
    OBVIOUS
  <2> DEFINE a == read[m].out
             b == read[k].out
             c == read[k + 1].out
  <2>2. a \in Seq(MarkedPieces(P)) /\ b \in Seq(MarkedPieces(P)) /\ c \in Seq(MarkedPieces(P)) /\ Starts(a, b)
    BY <1>1, <1>3, <2>1
  <2>3. c = b \/ \E x \in MarkedPieces(P) : c = Append(b, x)
    <3> DEFINE next == k + 1
    <3>1. next \in 1..Len(s) /\ next - 1 = k
      BY <2>1
    <3> HIDE DEF next
    <3>2. read[next].out = read[next - 1].out \/ \E x \in MarkedPieces(P) : read[next].out = Append(read[next - 1].out, x)
      BY <3>1, ReadingStep DEF PieceAdds
    <3> QED
      BY <3>1, <3>2 DEF next
  <2> HIDE DEF a, b, c
  <2>4. Starts(a, c)
    <3>1. CASE c = b
      BY <2>2, <3>1
    <3>2. CASE c # b
      <4>1. PICK x \in MarkedPieces(P) : c = Append(b, x)
        BY <2>3, <3>2
      <4>2. Len(c) = Len(b) + 1 /\ \A i \in 1..Len(b) : c[i] = b[i]
        BY <2>2, <4>1, AppendProperties
      <4> QED
        BY <2>2, <4>2 DEF Starts
    <3> QED
      BY <3>1, <3>2
  <2> QED
    BY <2>4 DEF a, c
<1> HIDE DEF T
<1>4. \A k \in m..n : k \in T
  BY <1>2, <1>3, UpTo
<1> QED
  BY <1>4 DEF T

\* The pieces of a word are read as they are.
ReadAsIs(s, read, i, k) ==
    LET before == Len(read[i - 1].out)
    IN  /\ read[k].in = "none" /\ Len(read[k].out) = before + (k - i + 1)
        /\ \A j \in i..k : read[k].out[before + (j - i + 1)] = s[j]

LEMMA WordIsRead ==
    ASSUME NEW P, NEW s \in Seq(P), NEW read, IsReading(read, s, MarkedPieces(P)),
           NEW i \in 1..Len(s), NEW e \in i..(Len(s) + 1), \A k \in i..(e - 1) : Clean(s[k]),
           read[i - 1].in = "none", NEW k \in (i - 1)..(e - 1)
    PROVE  ReadAsIs(s, read, i, k)
<1> DEFINE before == Len(read[i - 1].out)
           Good(n) == /\ read[n].in = "none" /\ Len(read[n].out) = before + (n - i + 1)
                      /\ \A j \in i..n : read[n].out[before + (j - i + 1)] = s[j]
           T == {n \in Nat : n \in 0..Len(s) => Good(n)}
<1>1. \A n \in 0..Len(s) : read[n].out \in Seq(MarkedPieces(P)) /\ read[n] \in ReadStates(MarkedPieces(P))
  BY DEF IsReading, ReadStates
<1>2. i - 1 \in 0..Len(s) /\ before \in Nat
  BY <1>1
<1>3. i - 1 \in T /\ T \in SUBSET Nat /\ i - 1 \in Nat /\ e - 1 \in Nat
  <2>1. \A j \in i..(i - 1) : FALSE
    OBVIOUS
  <2>2. before = before + ((i - 1) - i + 1)
    BY <1>2
  <2> HIDE DEF before
  <2>3. Len(read[i - 1].out) = before
    BY DEF before
  <2>4. Good(i - 1)
    BY <2>1, <2>2, <2>3
  <2> HIDE DEF Good
  <2> QED
    BY <1>2, <2>4
<1> HIDE DEF before
<1>4. ASSUME NEW n \in (i - 1)..((e - 1) - 1), n \in T PROVE n + 1 \in T
  <2>1. n \in 0..Len(s) /\ n + 1 \in 1..Len(s) /\ n + 1 \in i..(e - 1) /\ (n + 1) - 1 = n /\ n \in Nat
    OBVIOUS
  <2> DEFINE a == read[n].out
             c == read[n + 1].out
  <2>2. a \in Seq(MarkedPieces(P)) /\ c \in Seq(MarkedPieces(P)) /\ Good(n)
    BY <1>1, <1>4, <2>1
  <2>3. read[n + 1].in = "none" /\ c = Append(a, s[n + 1])
    <3> DEFINE next == n + 1
    <3>1. next \in 1..Len(s) /\ next - 1 = n /\ Clean(s[next]) /\ read[n].in = "none"
      BY <2>1, <2>2
    <3> HIDE DEF next
    <3>2. read[next].in = "none" /\ read[next].out = Append(read[next - 1].out, s[next])
      BY <3>1, ReadingStep DEF PieceAdds
    <3> QED
      BY <3>1, <3>2 DEF next
  <2>4. Len(a) = before + (n - i + 1) /\ \A j \in i..n : a[before + (j - i + 1)] = s[j]
    BY <2>2
  <2> HIDE DEF a, c
  <2>5. s[n + 1] \in MarkedPieces(P)
    BY <2>1 DEF MarkedPieces
  <2>6. Len(c) = Len(a) + 1 /\ c[Len(a) + 1] = s[n + 1] /\ \A x \in 1..Len(a) : c[x] = a[x]
    BY <2>2, <2>3, <2>5, AppendProperties
  <2>7. Len(c) = before + ((n + 1) - i + 1)
    BY <1>2, <2>1, <2>4, <2>6
  <2>8. ASSUME NEW j \in i..(n + 1) PROVE c[before + (j - i + 1)] = s[j]
    <3>1. CASE j = n + 1
      <4>1. before + (j - i + 1) = Len(a) + 1
        BY <1>2, <2>1, <2>4, <3>1
      <4> QED
        BY <2>6, <3>1, <4>1
    <3>2. CASE j # n + 1
      <4>1. j \in i..n /\ before + (j - i + 1) \in 1..Len(a)
        BY <1>2, <2>1, <2>4, <3>2
      <4> QED
        BY <2>4, <2>6, <4>1
    <3> QED
      BY <3>1, <3>2
  <2>9. Good(n + 1)
    BY <2>3, <2>7, <2>8 DEF c
  <2> HIDE DEF Good
  <2> QED
    BY <2>1, <2>9
<1> HIDE DEF T
<1>5. k \in T
  <2> DEFINE m == i - 1
             n == e - 1
  <2>1. /\ m \in Nat /\ n \in Nat /\ T \in SUBSET Nat /\ m \in T /\ k \in m..n
        /\ \A j \in m..(n - 1) : j \in T => j + 1 \in T
    BY <1>3, <1>4
  <2> HIDE DEF m, n
  <2>2. \A j \in m..n : j \in T
    BY <2>1, UpTo
  <2> QED
    BY <2>1, <2>2
<1>6. k \in 0..Len(s)
  OBVIOUS
<1> QED
  BY <1>5, <1>6 DEF T, before, ReadAsIs

\* Blanks are read as one.
LEMMA BlanksAreRead ==
    ASSUME NEW P, NEW s \in Seq(P), NEW read, IsReading(read, s, MarkedPieces(P)),
           NEW i \in 1..Len(s), NEW e \in i..(Len(s) + 1), \A k \in i..(e - 1) : s[k] \in Shell!Blanks,
           read[i - 1].in = "none", NEW k \in i..(e - 1)
    PROVE  read[k].in = "none" /\ read[k].out = WithSpace(read[i - 1].out)
<1> DEFINE out == read[i - 1].out
           T == {n \in Nat : read[n].in = "none" /\ read[n].out = WithSpace(out)}
<1>1. \A n \in 0..Len(s) : read[n].out \in Seq(MarkedPieces(P)) /\ read[n] \in ReadStates(MarkedPieces(P))
  BY DEF IsReading, ReadStates
<1>2. out \in Seq(MarkedPieces(P))
  BY <1>1
<1>3. WithSpace(WithSpace(out)) = WithSpace(out)
  <2> HIDE DEF out
  <2>1. CASE out # <<>> /\ out[Len(out)] = Shell!Space
    BY <2>1 DEF WithSpace
  <2>2. CASE ~ (out # <<>> /\ out[Len(out)] = Shell!Space)
    <3> DEFINE more == Append(out, Shell!Space)
    <3>1. Shell!Space \in MarkedPieces(P)
      BY DEF MarkedPieces
    <3>2. Len(more) = Len(out) + 1 /\ more[Len(out) + 1] = Shell!Space /\ more # <<>>
      BY <1>2, <3>1, AppendProperties
    <3>3. WithSpace(out) = more
      BY <2>2 DEF WithSpace
    <3> HIDE DEF more
    <3> QED
      BY <3>2, <3>3 DEF WithSpace
  <2> QED
    BY <2>1, <2>2
<1>4. ASSUME NEW n \in 1..Len(s), s[n] \in Shell!Blanks, read[n - 1].in = "none"
      PROVE  read[n].in = "none" /\ read[n].out = WithSpace(read[n - 1].out)
  BY <1>4, ReadingStep DEF PieceAdds
<1>5. i \in T /\ T \in SUBSET Nat /\ i \in Nat /\ e - 1 \in Nat
  <2>1. i \in i..(e - 1)
    OBVIOUS
  <2>2. read[i].in = "none" /\ read[i].out = WithSpace(out)
    BY <1>4, <2>1
  <2> HIDE DEF out
  <2> QED
    BY <2>2
<1> HIDE DEF out
<1>6. ASSUME NEW n \in i..((e - 1) - 1), n \in T PROVE n + 1 \in T
  <2>1. n + 1 \in 1..Len(s) /\ n + 1 \in i..(e - 1) /\ (n + 1) - 1 = n
    OBVIOUS
  <2>2. read[n].in = "none" /\ read[n].out = WithSpace(out)
    BY <1>6
  <2>3. read[n + 1].in = "none" /\ read[n + 1].out = WithSpace(read[n].out)
    BY <1>4, <2>1, <2>2
  <2> QED
    BY <1>3, <2>1, <2>2, <2>3
<1> HIDE DEF T
<1>7. k \in T
  BY <1>5, <1>6, UpTo
<1> QED
  BY <1>7 DEF T, out

\* What is left without the blanks at its ends.
LEMMA TrimIs ==
    ASSUME NEW P, NEW s \in Seq(P), NEW f \in 1..Len(s), NEW g \in f..Len(s),
           s[f] \notin Shell!Blanks, s[g] \notin Shell!Blanks, \A k \in 1..(f - 1) : s[k] \in Shell!Blanks
    PROVE  /\ Shell!Trim(s) \in Seq(P) /\ g - f + 1 <= Len(Shell!Trim(s))
           /\ \A i \in 1..(g - f + 1) : Shell!Trim(s)[i] = s[f + i - 1]
<1> DEFINE ink == Shell!Inked(s)
           last == Shell!Max(ink)
           trimmed == Shell!Trim(s)
<1>1. f \in ink /\ g \in ink /\ ink \in SUBSET (1..Len(s)) /\ Len(s) \in Nat
  BY DEF Shell!Inked
<1>2. Shell!Min(ink) = f
  <2>1. ink # {}
    BY <1>1
  <2>2. /\ Shell!Min(ink) \in 1..Len(s) /\ s[Shell!Min(ink)] \notin Shell!Blanks
        /\ \A k \in 1..(Shell!Min(ink) - 1) : s[k] \in Shell!Blanks
    BY <2>1, InkBegins
  <2> HIDE DEF ink
  <2> DEFINE m == Shell!Min(ink)
  <2>3. m \in 1..Len(s) /\ s[m] \notin Shell!Blanks /\ \A k \in 1..(m - 1) : s[k] \in Shell!Blanks
    BY <2>2
  <2> HIDE DEF m
  <2>4. ~ (f < m) /\ ~ (m < f)
    BY <2>3
  <2>5. m = f
    BY <2>3, <2>4
  <2> QED
    BY <2>5 DEF m
<1>3. trimmed = SubSeq(s, f, last)
  <2>1. trimmed = IF ink = {} THEN <<>> ELSE SubSeq(s, Shell!Min(ink), last)
    BY DEF Shell!Trim
  <2> HIDE DEF ink, trimmed, last
  <2> QED
    BY <1>1, <1>2, <2>1
<1>4. last \in 1..Len(s) /\ g <= last
  <2> HIDE DEF ink
  <2>1. Max(ink) \in ink /\ \A y \in ink : y <= Max(ink)
    BY <1>1, MaxIsLargest
  <2>2. last = Max(ink)
    BY ShellLibrary
  <2> QED
    BY <1>1, <2>1, <2>2
<1> HIDE DEF last, trimmed, ink
<1>5. f \in Int /\ last \in Int /\ \A i \in f..last : s[i] \in P
  BY <1>4
<1>6. /\ SubSeq(s, f, last) \in Seq(P) /\ Len(SubSeq(s, f, last)) = IF f <= last THEN last - f + 1 ELSE 0
      /\ \A i \in 1..(last - f + 1) : SubSeq(s, f, last)[i] = s[f + i - 1]
  BY <1>5, SubSeqProperties
<1>7. trimmed \in Seq(P) /\ g - f + 1 <= Len(trimmed) /\ \A i \in 1..(g - f + 1) : trimmed[i] = s[f + i - 1]
  BY <1>3, <1>4, <1>6
<1> QED
  BY <1>7 DEF trimmed

\* Where the first word of a command is, and the second.
OneWord(s, f, e) == Shell!FirstWord(s) = SubSeq(s, f, e - 1) /\ \A k \in f..(e - 1) : s[k] \notin Shell!Blanks
TwoWords(s, f, e, r, d) ==
    /\ \A k \in e..(r - 1) : s[k] \in Shell!Blanks
    /\ \A k \in r..(d - 1) : s[k] \notin Shell!Blanks
    /\ Shell!target_of(s) = SubSeq(s, f, e - 1) \o <<Shell!Space>> \o SubSeq(s, r, d - 1)

LEMMA TargetIs ==
    ASSUME NEW P, NEW s \in Seq(P), Shell!Inked(s) # {}, NEW f, f = Shell!Min(Shell!Inked(s))
    PROVE  \E e \in (f + 1)..(Len(s) + 1) :
              /\ OneWord(s, f, e)
              /\ \/ Shell!target_of(s) = SubSeq(s, f, e - 1) /\ \A k \in e..Len(s) : s[k] \in Shell!Blanks
                 \/ \E r \in (e + 1)..Len(s), d \in (f + 1)..(Len(s) + 1) : r < d /\ TwoWords(s, f, e, r, d)
<1>1. f \in 1..Len(s) /\ s[f] \notin Shell!Blanks /\ Len(s) \in Nat
  BY InkBegins
<1>2. PICK e \in f..(Len(s) + 1) :
         /\ Shell!Until(s, f, Shell!Blanks) = SubSeq(s, f, e - 1)
         /\ e = Len(s) + 1 \/ s[e] \in Shell!Blanks
         /\ \A j \in f..(e - 1) : s[j] \notin Shell!Blanks
  BY <1>1, UntilIs
<1>3. e \in (f + 1)..(Len(s) + 1)
  BY <1>1, <1>2
<1>4. OneWord(s, f, e)
  BY <1>2 DEF OneWord, Shell!FirstWord
<1>5. Len(Shell!FirstWord(s)) = e - f
  <2> DEFINE m == e - 1
  <2>1. f \in Int /\ m \in Int /\ \A i \in f..m : s[i] \in P
    BY <1>1, <1>2
  <2> HIDE DEF m
  <2>2. Len(SubSeq(s, f, m)) = IF f <= m THEN m - f + 1 ELSE 0
    BY <2>1, SubSeqProperties
  <2> QED
    BY <1>1, <1>3, <1>4, <2>2 DEF OneWord, m
<1> DEFINE ink == Shell!Inked(s)
           rest == {i \in ink : i >= e}
<1>6. Shell!target_of(s) = IF rest = {} THEN SubSeq(s, f, e - 1)
                           ELSE SubSeq(s, f, e - 1) \o <<Shell!Space>> \o Shell!Until(s, Shell!Min(rest), Shell!Blanks)
  <2>1. \A i \in ink : i >= f + Len(Shell!FirstWord(s)) <=> i >= e
    <3>1. f + Len(Shell!FirstWord(s)) = e
      BY <1>1, <1>2, <1>5
    <3> QED
      BY <3>1
  <2>2. rest = {i \in ink : i >= f + Len(Shell!FirstWord(s))}
    BY <2>1
  <2>3. Shell!FirstWord(s) = SubSeq(s, f, e - 1)
    BY <1>4 DEF OneWord
  <2>4. Shell!target_of(s) =
           IF {i \in ink : i >= f + Len(Shell!FirstWord(s))} = {} THEN Shell!FirstWord(s)
           ELSE Shell!FirstWord(s) \o <<Shell!Space>>
                \o Shell!Until(s, Shell!Min({i \in ink : i >= f + Len(Shell!FirstWord(s))}), Shell!Blanks)
    BY Zenon DEF Shell!target_of
  <2> HIDE DEF rest, ink
  <2> QED
    BY <2>2, <2>3, <2>4
<1>7. \A k \in 1..Len(s) : k \in ink <=> s[k] \notin Shell!Blanks
  BY DEF Shell!Inked
<1>8. rest \in SUBSET Nat /\ rest \subseteq ink /\ ink \subseteq 1..Len(s)
  BY DEF Shell!Inked
<1>9. CASE rest = {}
  <2>1. \A k \in e..Len(s) : k \in 1..Len(s) /\ k >= e
    BY <1>1, <1>2
  <2>2. \A k \in e..Len(s) : s[k] \in Shell!Blanks
    BY <1>7, <1>9, <2>1
  <2> HIDE DEF rest
  <2> QED
    BY <1>3, <1>4, <1>6, <1>9, <2>2
<1>10. CASE rest # {}
  <2> DEFINE r == Shell!Min(rest)
  <2>1. r \in rest /\ \A y \in rest : r <= y
    <3> HIDE DEF rest
    <3> QED
      BY <1>8, <1>10, MinIsLeast, ShellLibrary
  <2> HIDE DEF r
  <2>2. r \in 1..Len(s) /\ r >= e /\ s[r] \notin Shell!Blanks
    BY <1>7, <1>8, <2>1
  <2>3. r \in (e + 1)..Len(s)
    BY <1>1, <1>2, <2>2
  <2>4. ASSUME NEW k \in e..(r - 1) PROVE s[k] \in Shell!Blanks
    <3>1. k \in 1..Len(s) /\ k >= e /\ k < r
      BY <1>1, <1>2, <2>2
    <3>2. k \notin rest
      <4> HIDE DEF rest
      <4> QED
        BY <2>1, <2>2, <3>1
    <3> QED
      BY <1>7, <3>1, <3>2
  <2>5. PICK d \in r..(Len(s) + 1) :
           /\ Shell!Until(s, r, Shell!Blanks) = SubSeq(s, r, d - 1)
           /\ d = Len(s) + 1 \/ s[d] \in Shell!Blanks
           /\ \A j \in r..(d - 1) : s[j] \notin Shell!Blanks
    BY <2>2, UntilIs
  <2>6. d \in (f + 1)..(Len(s) + 1) /\ r < d
    BY <1>1, <1>3, <2>2, <2>5
  <2> HIDE DEF rest
  <2>7. Shell!target_of(s) = SubSeq(s, f, e - 1) \o <<Shell!Space>> \o SubSeq(s, r, d - 1)
    BY <1>6, <1>10, <2>5 DEF r
  <2>8. TwoWords(s, f, e, r, d)
    BY <2>4, <2>5, <2>7 DEF TwoWords
  <2> QED
    BY <1>3, <1>4, <2>3, <2>6, <2>8
<1> QED
  BY <1>9, <1>10

\* The blanks before the first word are read as one, or there are none.
LEMMA LeadIsRead ==
    ASSUME NEW P, NEW s \in Seq(P), NEW read, IsReading(read, s, MarkedPieces(P)),
           NEW f \in 1..Len(s), \A k \in 1..(f - 1) : s[k] \in Shell!Blanks
    PROVE  /\ read[f - 1].in = "none" /\ Len(read[f - 1].out) \in {0, 1}
           /\ \A k \in 1..Len(read[f - 1].out) : read[f - 1].out[k] \in Shell!Blanks
<1>1. read[0] = [in |-> "none", out |-> <<>>] /\ read[0].in = "none" /\ read[0].out = <<>>
  BY DEF IsReading
<1>2. CASE f = 1
  BY <1>1, <1>2
<1>3. CASE f # 1
  <2> DEFINE one == f - 1
             i == 1
  <2>1. i \in 1..Len(s) /\ f \in i..(Len(s) + 1) /\ i - 1 = 0 /\ one \in i..(f - 1) /\ \A k \in i..(f - 1) : s[k] \in Shell!Blanks
    BY <1>3
  <2>2. read[i - 1].in = "none" /\ read[i - 1].out = <<>>
    BY <1>1, <2>1
  <2> HIDE DEF i, one
  <2>3. read[one].in = "none" /\ read[one].out = WithSpace(read[i - 1].out)
    BY <2>1, <2>2, BlanksAreRead
  <2>4. read[one].out = <<Shell!Space>>
    <3>1. read[one].out = WithSpace(<<>>)
      BY <2>2, <2>3
    <3>2. WithSpace(<<>>) = <<Shell!Space>>
      BY DEF WithSpace
    <3> QED
      BY <3>1, <3>2
  <2>5. Len(<<Shell!Space>>) = 1 /\ \A k \in 1..1 : <<Shell!Space>>[k] \in Shell!Blanks
    BY QuotesAre
  <2> QED
    BY <2>3, <2>4, <2>5 DEF one
<1> QED
  BY <1>2, <1>3

\* One list begins another where they have the same pieces.
LEMMA PrefixIs ==
    ASSUME NEW P, NEW s \in Seq(P), NEW t \in Seq(P)
    PROVE  Shell!IsPrefix(s, t) <=> Len(s) <= Len(t) /\ \A i \in 1..Len(s) : s[i] = t[i]
<1> DEFINE n == Len(s)
           a == SubSeq(s, 1, n)
           b == SubSeq(t, 1, n)
<1>1. Shell!IsPrefix(s, t) <=> n <= Len(t) /\ a = b
  BY DEF Shell!IsPrefix
<1>2. ASSUME n <= Len(t) PROVE a = b <=> \A i \in 1..n : s[i] = t[i]
  <2>1. n \in Nat /\ 1 \in Int /\ n \in Int /\ \A i \in 1..n : s[i] \in P /\ t[i] \in P
    BY <1>2
  <2> HIDE DEF n
  <2>2. a \in Seq(P) /\ Len(a) = n /\ \A i \in 1..n : a[i] = s[i]
    <3>1. /\ a \in Seq(P) /\ Len(a) = IF 1 <= n THEN n - 1 + 1 ELSE 0
          /\ \A i \in 1..(n - 1 + 1) : a[i] = s[1 + i - 1]
      BY <2>1, SubSeqProperties
    <3> HIDE DEF a
    <3> QED
      BY <2>1, <3>1
  <2>3. b \in Seq(P) /\ Len(b) = n /\ \A i \in 1..n : b[i] = t[i]
    <3>1. /\ b \in Seq(P) /\ Len(b) = IF 1 <= n THEN n - 1 + 1 ELSE 0
          /\ \A i \in 1..(n - 1 + 1) : b[i] = t[1 + i - 1]
      BY <2>1, SubSeqProperties
    <3> HIDE DEF b
    <3> QED
      BY <2>1, <3>1
  <2> HIDE DEF a, b
  <2>4. ASSUME a = b PROVE \A i \in 1..n : s[i] = t[i]
    BY <2>2, <2>3, <2>4
  <2>5. ASSUME \A i \in 1..n : s[i] = t[i] PROVE a = b
    <3>1. \A i \in 1..Len(a) : a[i] = b[i]
      BY <2>2, <2>3, <2>5
    <3> QED
      BY <2>2, <2>3, <3>1, SeqEqual
  <2> QED
    BY <2>4, <2>5
<1> HIDE DEF a, b
<1> QED
  BY <1>1, <1>2 DEF n

\* The pieces of a first word are read as they are, and the blanks behind it as one.
ReadAndGap(s, read, f, e, r) ==
    LET before == Len(read[f - 1].out)
    IN  /\ read[r - 1].in = "none" /\ Len(read[r - 1].out) = before + (e - f) + 1
        /\ \A j \in f..(e - 1) : read[r - 1].out[before + (j - f + 1)] = s[j]
        /\ read[r - 1].out[before + (e - f) + 1] = Shell!Space

LEMMA WordAndGap ==
    ASSUME NEW P, NEW s \in Seq(P), NEW read, IsReading(read, s, MarkedPieces(P)),
           NEW f \in 1..Len(s), NEW e \in (f + 1)..Len(s), NEW r \in (e + 1)..Len(s),
           read[f - 1].in = "none",
           \A k \in f..(e - 1) : Clean(s[k]), \A k \in e..(r - 1) : s[k] \in Shell!Blanks
    PROVE  ReadAndGap(s, read, f, e, r)
<1> DEFINE before == Len(read[f - 1].out)
           word == read[e - 1].out
           then == read[r - 1].out
           x == e - 1
           y == r - 1
<1>1. \A n \in 0..Len(s) : read[n].out \in Seq(MarkedPieces(P))
  BY DEF IsReading, ReadStates
<1>2. before \in Nat /\ word \in Seq(MarkedPieces(P)) /\ Shell!Space \in MarkedPieces(P)
  <2>1. f - 1 \in 0..Len(s) /\ x \in 0..Len(s)
    OBVIOUS
  <2>2. read[f - 1].out \in Seq(MarkedPieces(P)) /\ word \in Seq(MarkedPieces(P))
    <3> HIDE DEF x
    <3> QED
      BY <1>1, <2>1
  <2> QED
    BY <2>2 DEF MarkedPieces
<1>3. read[x].in = "none" /\ Len(word) = before + (e - f) /\ \A j \in f..x : word[before + (j - f + 1)] = s[j]
  <2>1. e \in f..(Len(s) + 1) /\ x \in (f - 1)..(e - 1) /\ x = e - 1
    OBVIOUS
  <2> HIDE DEF x
  <2>2. ReadAsIs(s, read, f, x)
    BY <2>1, WordIsRead
  <2>3. word = read[x].out
    BY DEF x
  <2> HIDE DEF before, word
  <2>4. Len(word) = before + (x - f + 1) /\ \A j \in f..x : word[before + (j - f + 1)] = s[j]
    BY <2>2, <2>3 DEF before, ReadAsIs
  <2> QED
    BY <1>2, <2>1, <2>2, <2>4 DEF ReadAsIs
<1>4. read[y].in = "none" /\ then = WithSpace(word)
  <2>1. e \in 1..Len(s) /\ r \in e..(Len(s) + 1) /\ y \in e..(r - 1) /\ read[e - 1].in = "none"
    BY <1>3
  <2> HIDE DEF y
  <2>2. read[y].in = "none" /\ read[y].out = WithSpace(read[e - 1].out)
    BY <2>1, BlanksAreRead
  <2> QED
    BY <2>2 DEF y
<1> HIDE DEF before, word, then
<1>5. Len(word) \in 1..Len(word) /\ word[Len(word)] # Shell!Space
  <2>1. x \in f..x /\ before + (x - f + 1) = Len(word) /\ s[x] \notin Shell!Blanks
    BY <1>2, <1>3 DEF Clean
  <2>2. word[Len(word)] = s[x]
    <3> HIDE DEF x
    <3> QED
      BY <1>3, <2>1
  <2>3. Len(word) >= 1 /\ Len(word) \in Nat
    BY <1>2, <1>3
  <2> QED
    BY <2>1, <2>2, <2>3, QuotesAre
<1>6. then = Append(word, Shell!Space)
  BY <1>4, <1>5 DEF WithSpace
<1>7. Len(then) = Len(word) + 1 /\ then[Len(word) + 1] = Shell!Space /\ \A k \in 1..Len(word) : then[k] = word[k]
  BY <1>2, <1>6, AppendProperties
<1>8. ASSUME NEW j \in f..(e - 1) PROVE then[before + (j - f + 1)] = s[j]
  <2>1. before + (j - f + 1) \in 1..Len(word)
    BY <1>2, <1>3
  <2> QED
    BY <1>3, <1>7, <2>1
<1>9. Len(then) = before + (e - f) + 1 /\ then[before + (e - f) + 1] = Shell!Space
  BY <1>3, <1>7
<1> QED
  BY <1>4, <1>8, <1>9 DEF before, then, ReadAndGap

LEMMA TrimIsList ==
    ASSUME NEW P, NEW s \in Seq(P)
    PROVE  Shell!Trim(s) \in Seq(P)
<1> DEFINE ink == Shell!Inked(s)
           a == Shell!Min(ink)
           b == Shell!Max(ink)
<1>1. Shell!Trim(s) = IF ink = {} THEN <<>> ELSE SubSeq(s, a, b)
  BY DEF Shell!Trim
<1>2. CASE ink = {}
  <2> HIDE DEF ink
  <2> QED
    BY <1>1, <1>2
<1>3. CASE ink # {}
  <2>1. ink \in SUBSET (1..Len(s)) /\ ink \in SUBSET Nat /\ Len(s) \in Nat
    BY DEF Shell!Inked
  <2> HIDE DEF ink
  <2>2. a \in ink /\ b \in ink
    BY <1>3, <2>1, MinIsLeast, MaxIsLargest, ShellLibrary
  <2> HIDE DEF a, b
  <2>3. a \in Int /\ b \in Int /\ \A i \in a..b : s[i] \in P
    BY <2>1, <2>2
  <2>4. SubSeq(s, a, b) \in Seq(P)
    BY <2>3, SubSeqProperties
  <2> QED
    BY <1>1, <1>3, <2>4
<1> QED
  BY <1>2, <1>3

\* The shape has what has been read, without the blank before the first word.
ShapeHas(s, read, f, m) ==
    LET before == Len(read[f - 1].out)
        more == Len(read[m].out) - before
    IN  more <= Len(Shell!fingerprint(s)) /\ \A i \in 1..more : Shell!fingerprint(s)[i] = read[m].out[before + i]

LEMMA ShapeBegins ==
    ASSUME NEW P, NEW s \in Seq(P), NEW read, IsReading(read, s, MarkedPieces(P)),
           NEW f \in 1..Len(s), \A k \in 1..(f - 1) : s[k] \in Shell!Blanks, NEW m \in f..Len(s),
           Len(read[m].out) > Len(read[f - 1].out), read[m].out[Len(read[m].out)] \notin Shell!Blanks,
           read[m].out[Len(read[f - 1].out) + 1] \notin Shell!Blanks
    PROVE  ShapeHas(s, read, f, m)
<1> DEFINE U == MarkedPieces(P)
           shape == Shell!fingerprint(s)
           all == Len(s)
           one == f - 1
           before == read[one].out
           some == read[m].out
           out == read[all].out
           lead == Len(before)
           g == Len(some)
           h == lead + 1
<1>1. \A n \in 0..all : read[n].out \in Seq(U)
  BY DEF IsReading, ReadStates
<1>2. one \in 0..all /\ m \in 0..all /\ m \in one..all /\ all \in m..all /\ all \in 0..all
  OBVIOUS
<1>3. shape = Shell!Trim(out)
  BY DEF IsReading
<1>4. before \in Seq(U) /\ some \in Seq(U) /\ out \in Seq(U)
  <2> HIDE DEF U, all, one
  <2> QED
    BY <1>1, <1>2
<1>5. Starts(before, some)
  <2> HIDE DEF one
  <2> QED
    BY <1>2, ReadingGrows
<1>6. Starts(some, out)
  BY <1>2, ReadingGrows
<1>7. lead \in {0, 1} /\ \A k \in 1..lead : before[k] \in Shell!Blanks
  BY LeadIsRead
<1>8. g > lead /\ some[g] \notin Shell!Blanks /\ some[h] \notin Shell!Blanks
  OBVIOUS
<1> HIDE DEF before, some, out, shape, U, all, one
<1>9. g \in Nat /\ h \in 1..g /\ h - 1 = lead /\ g <= Len(out) /\ Len(out) \in Nat
  <2>1. g \in Nat /\ Len(out) \in Nat /\ g <= Len(out)
    BY <1>4, <1>6 DEF Starts
  <2> HIDE DEF g, lead
  <2> QED
    BY <1>7, <1>8, <2>1
<1>10. /\ \A k \in 1..lead : some[k] \in Shell!Blanks
       /\ \A k \in 1..g : out[k] = some[k]
  BY <1>5, <1>6, <1>7 DEF Starts
<1> HIDE DEF lead, g, h
<1>11. /\ h \in 1..Len(out) /\ g \in h..Len(out) /\ out[h] \notin Shell!Blanks /\ out[g] \notin Shell!Blanks
       /\ \A k \in 1..(h - 1) : out[k] \in Shell!Blanks
  <2>1. \A k \in 1..(h - 1) : k \in 1..lead /\ k \in 1..g
    BY <1>7, <1>9
  <2>2. g \in 1..g /\ h \in 1..Len(out) /\ g \in h..Len(out)
    BY <1>9
  <2> QED
    BY <1>8, <1>9, <1>10, <2>1, <2>2
<1>12. /\ g - h + 1 <= Len(Shell!Trim(out))
       /\ \A i \in 1..(g - h + 1) : Shell!Trim(out)[i] = out[h + i - 1]
  <2>1. /\ out \in Seq(U) /\ h \in 1..Len(out) /\ g \in h..Len(out) /\ out[h] \notin Shell!Blanks
        /\ out[g] \notin Shell!Blanks /\ \A k \in 1..(h - 1) : out[k] \in Shell!Blanks
    BY <1>4, <1>11
  <2> QED
    BY ONLY <2>1, TrimIs
<1>13. g - h + 1 = g - lead /\ \A i \in 1..(g - lead) : h + i - 1 = lead + i /\ lead + i \in 1..g
  BY <1>7, <1>9
<1>14. g - lead <= Len(shape) /\ \A i \in 1..(g - lead) : shape[i] = some[lead + i]
  BY <1>3, <1>10, <1>12, <1>13
<1> QED
  BY <1>14 DEF ShapeHas, shape, g, lead, some, before, one

\* A list of pieces begins the shape when it has been read as it is and begins and ends with
\* other pieces than blanks.
Adding(read, f, m, list) ==
    /\ Len(read[m].out) = Len(read[f - 1].out) + Len(list)
    /\ \A i \in 1..Len(list) : read[m].out[Len(read[f - 1].out) + i] = list[i]

LEMMA TargetBegins ==
    ASSUME NEW P, NEW s \in Seq(P), NEW read, IsReading(read, s, MarkedPieces(P)),
           NEW f \in 1..Len(s), \A k \in 1..(f - 1) : s[k] \in Shell!Blanks, NEW m \in f..Len(s),
           NEW target \in Seq(MarkedPieces(P)), Len(target) > 0,
           target[1] \notin Shell!Blanks, target[Len(target)] \notin Shell!Blanks,
           Adding(read, f, m, target)
    PROVE  Shell!IsPrefix(target, Shell!fingerprint(s))
<1> DEFINE shape == Shell!fingerprint(s)
           lead == Len(read[f - 1].out)
           some == read[m].out
           n == Len(target)
<1>1. shape \in Seq(MarkedPieces(P)) /\ lead \in Nat /\ n \in Nat
  <2>1. \A k \in 0..Len(s) : read[k].out \in Seq(MarkedPieces(P))
    BY DEF IsReading, ReadStates
  <2>2. f - 1 \in 0..Len(s) /\ Len(s) \in 0..Len(s)
    OBVIOUS
  <2>3. read[f - 1].out \in Seq(MarkedPieces(P)) /\ read[Len(s)].out \in Seq(MarkedPieces(P))
    BY <2>1, <2>2
  <2>4. shape = Shell!Trim(read[Len(s)].out)
    BY DEF IsReading
  <2> HIDE DEF shape
  <2> QED
    BY <2>3, <2>4, TrimIsList
<1>2. ShapeHas(s, read, f, m)
  <2>1. 1 \in 1..n /\ n \in 1..n /\ Len(some) > lead /\ Len(some) = lead + n
    BY <1>1 DEF Adding
  <2>2. some[Len(some)] = target[n] /\ some[lead + 1] = target[1]
    BY <2>1 DEF Adding
  <2> QED
    BY <2>1, <2>2, ShapeBegins
<1>3. Len(some) - lead <= Len(shape) /\ \A i \in 1..(Len(some) - lead) : shape[i] = some[lead + i]
  BY <1>2 DEF ShapeHas
<1>4. Len(some) - lead = n /\ \A i \in 1..n : some[lead + i] = target[i]
  BY <1>1 DEF Adding
<1> HIDE DEF shape, lead, some, n
<1>5. n <= Len(shape) /\ \A i \in 1..n : target[i] = shape[i]
  BY <1>3, <1>4
<1> QED
  BY <1>1, <1>5, PrefixIs DEF n, shape

\* A shape begins with the two words that its command begins with, if they have no quotes and
\* no paths.
LEMMA HabitBegins ==
    ASSUME NEW P, NEW s \in Seq(P), Shell!ToSet(Shell!target_of(s)) \intersect (Shell!Quotes \union {"/"}) = {}
    PROVE  Shell!IsPrefix(Shell!target_of(s), Shell!fingerprint(s))
<1> DEFINE U == MarkedPieces(P)
           target == Shell!target_of(s)
           shape == Shell!fingerprint(s)
           f == Shell!Min(Shell!Inked(s))
<1>1. PICK read : IsReading(read, s, U)
  BY ReadingExists
<1>2. /\ \A n \in 0..Len(s) : read[n].out \in Seq(U)
      /\ shape \in Seq(U) /\ s \in Seq(U) /\ Len(s) \in Nat
  <2>1. s \in Seq(U) /\ Len(s) \in Nat /\ Len(s) \in 0..Len(s)
    BY DEF U, MarkedPieces
  <2>2. \A n \in 0..Len(s) : read[n] \in ReadStates(U)
    BY <1>1 DEF IsReading
  <2>3. \A n \in 0..Len(s) : read[n].out \in Seq(U)
    BY <2>2 DEF ReadStates
  <2>4. shape = Shell!Trim(read[Len(s)].out)
    BY <1>1 DEF IsReading
  <2> HIDE DEF U, shape
  <2> QED
    BY <2>1, <2>3, <2>4, TrimIsList
<1>3. \A i \in DOMAIN target : target[i] \notin Shell!Quotes /\ target[i] # "/"
  <2>1. Shell!ToSet(target) = {target[i] : i \in DOMAIN target}
    BY ShellLibrary
  <2> HIDE DEF target
  <2>2. Shell!ToSet(target) \intersect (Shell!Quotes \union {"/"}) = {}
    BY DEF target
  <2> QED
    BY <2>1, <2>2
<1> HIDE DEF U, target, shape, f
<1>4. CASE Shell!Inked(s) = {}
  <2>1. target = <<>>
    BY <1>4 DEF Shell!target_of, target
  <2>2. <<>> \in Seq(U) /\ Len(<<>>) = 0 /\ Len(shape) \in Nat
    BY <1>2
  <2> DEFINE none == <<>>
  <2> HIDE DEF none
  <2>3. none \in Seq(U) /\ Len(none) = 0 /\ Len(none) <= Len(shape) /\ \A i \in 1..Len(none) : none[i] = shape[i]
    BY <2>2 DEF none
  <2>4. Shell!IsPrefix(none, shape)
    BY <1>2, <2>3, PrefixIs
  <2> QED
    BY <2>1, <2>4 DEF target, shape, none
<1>5. CASE Shell!Inked(s) # {}
  <2>1. f \in 1..Len(s) /\ s[f] \notin Shell!Blanks /\ \A k \in 1..(f - 1) : s[k] \in Shell!Blanks
    BY <1>5, InkBegins DEF f
  <2>2. PICK e \in (f + 1)..(Len(s) + 1) :
           /\ OneWord(s, f, e)
           /\ \/ target = SubSeq(s, f, e - 1) /\ \A k \in e..Len(s) : s[k] \in Shell!Blanks
              \/ \E r \in (e + 1)..Len(s), d \in (f + 1)..(Len(s) + 1) : r < d /\ TwoWords(s, f, e, r, d)
    BY <1>5, TargetIs DEF f, target
  <2> DEFINE lead == Len(read[f - 1].out)
             x == e - 1
             word == SubSeq(s, f, x)
  <2>3. /\ word \in Seq(U) /\ Len(word) = e - f /\ \A i \in 1..(e - f) : word[i] = s[f + i - 1]
    <3>1. f \in Int /\ x \in Int /\ f <= x /\ x - f + 1 = e - f /\ \A i \in f..x : s[i] \in U
      BY <1>2, <2>1
    <3> HIDE DEF x
    <3>2. /\ word \in Seq(U) /\ Len(word) = IF f <= x THEN x - f + 1 ELSE 0
          /\ \A i \in 1..(x - f + 1) : word[i] = s[f + i - 1]
      BY <3>1, SubSeqProperties
    <3> QED
      BY <3>1, <3>2
  <2>4. read[f - 1].in = "none" /\ lead \in {0, 1}
    BY <1>1, <2>1, LeadIsRead DEF U
  <2>5. \A k \in f..x : s[k] \notin Shell!Blanks
    BY <2>2 DEF OneWord
  <2>6. f \in Int /\ e \in Int /\ x \in Int /\ x = e - 1
    BY <2>1
  <2> HIDE DEF word, x, lead
  <2>7. CASE target = SubSeq(s, f, e - 1) /\ \A k \in e..Len(s) : s[k] \in Shell!Blanks
    <3>1. target = word
      BY <2>7 DEF word, x
    <3>2. \A k \in f..x : k - f + 1 \in 1..(e - f) /\ f + (k - f + 1) - 1 = k
      BY <2>1, <2>6
    <3>3. \A k \in f..x : Clean(s[k])
      <4> SUFFICES ASSUME NEW k \in f..x PROVE Clean(s[k])
        OBVIOUS
      <4> DEFINE i == k - f + 1
      <4>1. i \in 1..(e - f) /\ f + i - 1 = k
        BY <3>2
      <4> HIDE DEF i
      <4>2. i \in DOMAIN target /\ target[i] = s[k]
        BY <2>3, <3>1, <4>1
      <4> QED
        BY <1>3, <2>5, <4>2 DEF Clean
    <3>4. ReadAsIs(s, read, f, x)
      <4>1. e \in f..(Len(s) + 1) /\ x \in (f - 1)..(e - 1) /\ \A k \in f..(e - 1) : Clean(s[k])
        BY <2>1, <2>6, <3>3
      <4> QED
        BY <1>1, <2>1, <2>4, <4>1, WordIsRead DEF U
    <3> DEFINE some == read[x].out
    <3>5. Len(some) = lead + (x - f + 1) /\ \A j \in f..x : some[lead + (j - f + 1)] = s[j]
      BY <3>4 DEF ReadAsIs, lead
    <3>6. x \in f..Len(s)
      BY <2>1, <2>6
    <3> HIDE DEF some
    <3>7. Len(some) = lead + (e - f) /\ \A i \in 1..(e - f) : some[lead + i] = word[i]
      <4>1. \A i \in 1..(e - f) : f + i - 1 \in f..x /\ (f + i - 1) - f + 1 = i
        BY <2>1, <2>6
      <4>2. ASSUME NEW i \in 1..(e - f) PROVE some[lead + i] = s[f + i - 1]
        <5> DEFINE j == f + i - 1
        <5>1. j \in f..x /\ j - f + 1 = i
          BY <4>1
        <5> HIDE DEF j
        <5> QED
          BY <3>5, <5>1 DEF j
      <4>3. lead + (x - f + 1) = lead + (e - f)
        BY <2>4, <2>6
      <4> QED
        BY <2>3, <3>5, <4>2, <4>3
    <3>8. \A i \in 1..(e - f) : word[i] \notin Shell!Blanks
      <4>1. \A i \in 1..(e - f) : f + i - 1 \in f..x
        BY <2>1, <2>6
      <4> QED
        BY <2>3, <2>5, <4>1
    <3>9. 1 \in 1..(e - f) /\ (e - f) \in 1..(e - f)
      BY <2>1, <2>6
    <3>10. Shell!IsPrefix(word, Shell!fingerprint(s))
      <4>1. /\ Len(word) > 0 /\ word[1] \notin Shell!Blanks /\ word[Len(word)] \notin Shell!Blanks
        BY <2>3, <3>8, <3>9
      <4>2. Len(some) = lead + Len(word) /\ \A i \in 1..Len(word) : some[lead + i] = word[i]
        BY <2>3, <3>7
      <4>3. Adding(read, f, x, word)
        BY <4>2 DEF Adding, some, lead
      <4>4. IsReading(read, s, MarkedPieces(P)) /\ word \in Seq(MarkedPieces(P))
        BY <1>1, <2>3 DEF U
      <4> QED
        BY <2>1, <3>6, <4>1, <4>3, <4>4, TargetBegins
    <3> QED
      BY <3>1, <3>10 DEF target
  <2>8. CASE \E r \in (e + 1)..Len(s), d \in (f + 1)..(Len(s) + 1) : r < d /\ TwoWords(s, f, e, r, d)
    <3>1. PICK r \in (e + 1)..Len(s), d \in (f + 1)..(Len(s) + 1) : r < d /\ TwoWords(s, f, e, r, d)
      BY <2>8
    <3> DEFINE y == d - 1
               other == SubSeq(s, r, y)
               gap == <<Shell!Space>>
               n == e - f
    <3>2. r \in Int /\ d \in Int /\ y \in Int /\ r <= y /\ y - r + 1 = d - r /\ y <= Len(s) /\ e < r /\ e <= Len(s) /\ e >= 1
      BY <2>1, <2>6, <3>1
    <3>3. /\ \A k \in e..(r - 1) : s[k] \in Shell!Blanks
          /\ \A k \in r..y : s[k] \notin Shell!Blanks
          /\ target = (word \o gap) \o other
      BY <3>1 DEF TwoWords, target, word, x
    <3>4. other \in Seq(U) /\ Len(other) = d - r /\ \A i \in 1..(d - r) : other[i] = s[r + i - 1]
      <4>1. \A i \in r..y : s[i] \in U
        BY <1>2, <2>1, <2>6, <3>2
      <4> HIDE DEF y
      <4>2. /\ other \in Seq(U) /\ Len(other) = IF r <= y THEN y - r + 1 ELSE 0
            /\ \A i \in 1..(y - r + 1) : other[i] = s[r + i - 1]
        BY <3>2, <4>1, SubSeqProperties
      <4> QED
        BY <3>2, <4>2
    <3>5. gap \in Seq(U) /\ Len(gap) = 1 /\ gap[1] = Shell!Space
      BY DEF U, MarkedPieces
    <3> HIDE DEF y, other, gap
    <3>6. /\ target \in Seq(U) /\ Len(target) = n + 1 + (d - r)
          /\ \A i \in 1..n : target[i] = word[i]
          /\ target[n + 1] = Shell!Space
          /\ \A i \in 1..(d - r) : target[n + 1 + i] = other[i]
      <4> DEFINE both == word \o gap
      <4>1. n \in Nat /\ n >= 1 /\ d - r \in Nat /\ Len(word) = n
        BY <2>3, <2>6, <3>2
      <4>2. /\ both \in Seq(U) /\ Len(both) = n + 1
            /\ \A i \in 1..(n + 1) : both[i] = IF i <= n THEN word[i] ELSE gap[i - n]
        <5>1. /\ both \in Seq(U) /\ Len(both) = Len(word) + Len(gap)
              /\ \A i \in 1..(Len(word) + Len(gap)) : both[i] = IF i <= Len(word) THEN word[i] ELSE gap[i - Len(word)]
          <6>1. word \in Seq(U) /\ gap \in Seq(U)
            BY <2>3, <3>5
          <6> QED
            BY <6>1, ConcatProperties
        <5> HIDE DEF both, n
        <5> QED
          BY <3>5, <4>1, <5>1
      <4> HIDE DEF both, n
      <4>3. /\ target \in Seq(U) /\ Len(target) = (n + 1) + (d - r)
            /\ \A i \in 1..((n + 1) + (d - r)) : target[i] = IF i <= n + 1 THEN both[i] ELSE other[i - (n + 1)]
        <5>1. target = both \o other
          BY <3>3 DEF both
        <5>2. LET more == both \o other
              IN  /\ more \in Seq(U) /\ Len(more) = Len(both) + Len(other)
                  /\ \A i \in 1..(Len(both) + Len(other)) : more[i] = IF i <= Len(both) THEN both[i] ELSE other[i - Len(both)]
          <6>1. both \in Seq(U) /\ other \in Seq(U)
            BY <3>4, <4>2
          <6> QED
            BY <6>1, ConcatProperties
        <5> QED
          BY <3>4, <4>2, <5>1, <5>2
      <4>4. \A i \in 1..n : target[i] = word[i]
        BY <4>1, <4>2, <4>3
      <4>5. target[n + 1] = Shell!Space
        <5>1. n + 1 \in 1..(n + 1) /\ n + 1 \in 1..((n + 1) + (d - r)) /\ (n + 1) - n = 1 /\ ~ (n + 1 <= n)
          BY <4>1
        <5> QED
          BY <3>5, <4>2, <4>3, <5>1
      <4>6. \A i \in 1..(d - r) : target[n + 1 + i] = other[i]
        <5>1. \A i \in 1..(d - r) : n + 1 + i \in 1..((n + 1) + (d - r)) /\ (n + 1 + i) - (n + 1) = i /\ ~ (n + 1 + i <= n + 1)
          BY <3>2, <4>1
        <5> QED
          BY <4>3, <5>1
      <4> QED
        BY <4>3, <4>4, <4>5, <4>6
    <3>7. DOMAIN target = 1..(n + 1 + (d - r)) /\ n \in Nat /\ n >= 1 /\ d - r \in Nat /\ d - r >= 1
      BY <2>6, <3>2, <3>6
    <3>8. \A k \in f..x : Clean(s[k])
      <4> SUFFICES ASSUME NEW k \in f..x PROVE Clean(s[k])
        OBVIOUS
      <4> DEFINE i == k - f + 1
      <4>1. i \in 1..n /\ f + i - 1 = k
        BY <2>6
      <4> HIDE DEF i, n
      <4>2. i \in DOMAIN target
        BY <3>7, <4>1
      <4>3. target[i] = s[k]
        BY <2>3, <3>6, <4>1 DEF n
      <4> QED
        BY <1>3, <2>5, <4>2, <4>3 DEF Clean
    <3>9. \A k \in r..y : Clean(s[k])
      <4> SUFFICES ASSUME NEW k \in r..y PROVE Clean(s[k])
        OBVIOUS
      <4> DEFINE i == k - r + 1
                 j == n + 1 + i
      <4>1. i \in 1..(d - r) /\ r + i - 1 = k /\ k \in Int
        BY <3>2
      <4>2. j \in DOMAIN target /\ j = n + 1 + i
        BY <3>7, <4>1
      <4> HIDE DEF i, n, j
      <4>3. target[j] = s[k]
        BY <3>4, <3>6, <4>1, <4>2
      <4> QED
        BY <1>3, <3>3, <4>2, <4>3 DEF Clean
    <3> HIDE DEF n
    <3> DEFINE before == read[r - 1].out
               some == read[y].out
    <3>10. /\ read[r - 1].in = "none" /\ Len(before) = lead + n + 1
           /\ \A j \in f..(e - 1) : before[lead + (j - f + 1)] = s[j]
           /\ before[lead + n + 1] = Shell!Space
      <4>1. e \in (f + 1)..Len(s)
        BY <2>6, <3>2
      <4>2. \A k \in f..(e - 1) : Clean(s[k])
        BY <3>8 DEF x
      <4>3. IsReading(read, s, MarkedPieces(P))
        BY <1>1 DEF U
      <4> QED
        <5>1. ReadAndGap(s, read, f, e, r)
          BY <2>1, <2>4, <3>1, <3>3, <4>1, <4>2, <4>3, WordAndGap
        <5> QED
          BY <5>1 DEF ReadAndGap, lead, n
    <3>11. ReadAsIs(s, read, r, y)
      <4>1. r \in 1..Len(s) /\ d \in r..(Len(s) + 1) /\ y \in (r - 1)..(d - 1)
        BY <3>1, <3>2 DEF y
      <4>2. \A k \in r..(d - 1) : Clean(s[k])
        BY <3>9 DEF y
      <4>3. IsReading(read, s, MarkedPieces(P))
        BY <1>1 DEF U
      <4> QED
        BY <3>10, <4>1, <4>2, <4>3, WordIsRead
    <3>12. Len(some) = Len(before) + (y - r + 1) /\ \A j \in r..y : some[Len(before) + (j - r + 1)] = s[j]
      BY <3>11 DEF ReadAsIs
    <3>13. Starts(before, some)
      <4> DEFINE one == r - 1
      <4>1. one \in 0..Len(s) /\ y \in one..Len(s)
        BY <3>2
      <4> HIDE DEF one
      <4>2. Starts(read[one].out, read[y].out)
        BY <1>1, <4>1, ReadingGrows DEF U
      <4> QED
        BY <4>2 DEF one
    <3>14. Adding(read, f, y, target)
      <4> HIDE DEF before, some
      <4>1. Len(some) = lead + Len(target)
        <5>1. Len(before) = lead + n + 1
          BY <3>10
        <5>2. Len(some) = Len(before) + (d - r)
          BY <3>2, <3>12
        <5>3. Len(target) = n + 1 + (d - r)
          BY <3>6
        <5>4. lead \in Int /\ n \in Int /\ d - r \in Int
          BY <2>4, <3>7
        <5> QED
          BY <5>1, <5>2, <5>3, <5>4
      <4>2. ASSUME NEW i \in 1..n PROVE some[lead + i] = target[i]
        <5> DEFINE j == f + i - 1
        <5>1. j \in f..(e - 1) /\ j - f + 1 = i /\ lead + i \in 1..Len(before)
          <6>1. j \in f..(e - 1) /\ j - f + 1 = i
            BY <2>6 DEF n
          <6>2. Len(before) = lead + n + 1
            BY <3>10
          <6> HIDE DEF j
          <6>3. lead + i \in 1..Len(before)
            BY <2>4, <3>7, <6>2
          <6> QED
            BY <6>1, <6>3
        <5>2. target[i] = s[j] /\ i \in 1..(e - f)
          BY <2>3, <3>6 DEF n
        <5> HIDE DEF j
        <5>3. before[lead + i] = s[j]
          BY <3>10, <5>1
        <5> QED
          BY <3>13, <5>1, <5>2, <5>3 DEF Starts
      <4>3. some[lead + (n + 1)] = target[n + 1]
        <5>1. lead + (n + 1) = lead + n + 1 /\ lead + n + 1 \in 1..Len(before)
          BY <2>4, <3>7, <3>10
        <5> QED
          BY <3>6, <3>10, <3>13, <5>1 DEF Starts
      <4>4. ASSUME NEW i \in 1..(d - r) PROVE some[lead + (n + 1 + i)] = target[n + 1 + i]
        <5> DEFINE j == r + i - 1
        <5>1. j \in r..y /\ j - r + 1 = i /\ Len(before) + i = lead + (n + 1 + i)
          BY <2>4, <3>2, <3>7, <3>10
        <5>2. target[n + 1 + i] = s[j]
          BY <3>4, <3>6
        <5> HIDE DEF j
        <5> QED
          BY <3>12, <5>1, <5>2
      <4>5. ASSUME NEW i \in 1..Len(target) PROVE some[lead + i] = target[i]
        <5>1. CASE i <= n
          BY <4>2, <5>1
        <5>2. CASE i = n + 1
          BY <4>3, <5>2
        <5>3. CASE i > n + 1
          <6> DEFINE j == i - (n + 1)
          <6>1. j \in 1..(d - r) /\ n + 1 + j = i
            BY <3>6, <3>7, <5>3
          <6> HIDE DEF j
          <6> QED
            BY <4>4, <6>1
        <5> QED
          BY <3>7, <5>1, <5>2, <5>3
      <4> QED
        BY <4>1, <4>5 DEF Adding, some, lead
    <3>15. Len(target) > 0 /\ target[1] \notin Shell!Blanks /\ target[Len(target)] \notin Shell!Blanks
      <4>1. target[1] = s[f]
        <5>1. 1 \in 1..n /\ f + 1 - 1 = f
          BY <2>6, <3>7
        <5> QED
          BY <2>3, <3>6, <5>1 DEF n
      <4>2. target[Len(target)] = s[y]
        <5> DEFINE j == d - r
        <5>1. j \in 1..(d - r) /\ r + j - 1 = y /\ n + 1 + j = Len(target)
          BY <3>2, <3>6, <3>7
        <5>2. target[n + 1 + j] = other[j] /\ other[j] = s[r + j - 1]
          BY <3>4, <3>6, <5>1
        <5> HIDE DEF j
        <5> QED
          BY <5>1, <5>2
      <4>3. y \in r..y
        BY <3>2
      <4> QED
        BY <2>1, <3>3, <3>6, <3>7, <4>1, <4>2, <4>3
    <3>16. IsReading(read, s, MarkedPieces(P)) /\ target \in Seq(MarkedPieces(P)) /\ y \in f..Len(s)
      BY <1>1, <2>1, <2>6, <3>2, <3>6 DEF U
    <3>17. Shell!IsPrefix(target, Shell!fingerprint(s))
      BY <2>1, <3>14, <3>15, <3>16, TargetBegins
    <3> QED
      BY <3>17 DEF target
  <2> QED
    BY <2>2, <2>7, <2>8
<1> QED
  BY <1>4, <1>5

LEMMA ReadersAre == \A r \in Shell!Readers : Clean(r)
BY Zenon DEF Clean, Shell!Readers, Shell!Quotes, Shell!Blanks, Shell!Double, Shell!Single, Shell!Space, Shell!Newline

\* The shape of a search for a definition begins with its program and a blank.
LEMMA SearchShape ==
    ASSUME NEW P, NEW s \in Seq(P), Shell!detect_definition_search(s) # {}
    PROVE  /\ Shell!fingerprint(s) \in Seq(MarkedPieces(P)) /\ Len(Shell!fingerprint(s)) >= 2
           /\ Shell!FirstWord(s) = <<Shell!fingerprint(s)[1]>> /\ Shell!fingerprint(s)[2] = Shell!Space
<1> DEFINE f == Shell!Min(Shell!Inked(s))
<1>1. Shell!is_rewritable(s) /\ Shell!quoted_literal(s) # {}
  BY DEF Shell!detect_definition_search
<1>2. /\ f \in 1..Len(s) /\ <<s[f]>> \in {<<r>> : r \in Shell!Readers} /\ Shell!FirstWord(s) = <<s[f]>>
      /\ f = Len(s) \/ s[f + 1] \in Shell!Blanks
      /\ s[f] \notin Shell!Blanks /\ \A k \in 1..(f - 1) : s[k] \in Shell!Blanks
  BY <1>1, ReaderIsFirst
<1> HIDE DEF f
<1>3. Clean(s[f])
  <2>1. s[f] \in Shell!Readers
    BY <1>2
  <2> QED
    BY <2>1, ReadersAre
<1>4. PICK q \in 1..Len(s) : q > f /\ s[q] \notin Shell!Blanks
  <2>1. Shell!Double \in Shell!Quotes /\ Shell!Single \in Shell!Quotes
    BY QuotesAre
  <2>2. PICK quote \in Shell!Quotes : Shell!FirstTwo(s, quote) # {}
    <3>1. CASE Shell!FirstTwo(s, Shell!Double) # {}
      BY <2>1, <3>1
    <3>2. CASE Shell!FirstTwo(s, Shell!Double) = {}
      <4>1. Shell!FirstTwo(s, Shell!Single) # {}
        BY <1>1, <3>2 DEF Shell!quoted_literal
      <4> QED
        BY <2>1, <4>1
    <3> QED
      BY <3>1, <3>2
  <2>3. PICK p \in Shell!FirstTwo(s, quote) : TRUE
    BY <2>2
  <2> DEFINE q == p[1]
  <2>4. q \in 1..Len(s) /\ s[q] = quote
    BY FirstTwoAre
  <2> HIDE DEF q
  <2>5. s[q] \in Shell!Quotes /\ s[q] \notin Shell!Blanks
    BY <2>4, QuotesAre
  <2>6. q # f
    BY <1>3, <2>5 DEF Clean
  <2>7. q \notin 1..(f - 1)
    BY <1>2, <2>5
  <2>8. q > f
    BY <1>2, <2>4, <2>6, <2>7
  <2> QED
    BY <2>4, <2>5, <2>8
<1> DEFINE rest == {i \in 1..Len(s) : i > f /\ s[i] \notin Shell!Blanks}
           r == Min(rest)
<1>5. r \in rest /\ \A i \in rest : r <= i
  <2>1. rest \in SUBSET Nat /\ rest # {}
    BY <1>4
  <2> HIDE DEF rest
  <2> QED
    BY <2>1, MinIsLeast
<1> HIDE DEF r
<1> DEFINE e == f + 1
<1>6. /\ e \in (f + 1)..Len(s) /\ r \in (e + 1)..Len(s) /\ r \in 1..Len(s) /\ s[r] \notin Shell!Blanks
      /\ \A k \in f..(e - 1) : Clean(s[k])
      /\ \A k \in e..(r - 1) : s[k] \in Shell!Blanks
  <2>1. r \in 1..Len(s) /\ r > f /\ s[r] \notin Shell!Blanks
    BY <1>5
  <2>2. r # f + 1 /\ f # Len(s)
    BY <1>2, <2>1
  <2>3. e \in (f + 1)..Len(s) /\ r \in (e + 1)..Len(s)
    BY <1>2, <2>1, <2>2
  <2>4. \A k \in f..(e - 1) : k = f
    BY <1>2
  <2>5. \A k \in e..(r - 1) : k \in 1..Len(s) /\ k > f /\ k < r
    BY <1>2, <2>1
  <2>6. \A k \in e..(r - 1) : k \notin rest
    <3> HIDE DEF rest
    <3> QED
      BY <1>5, <2>1, <2>5
  <2>7. \A k \in e..(r - 1) : s[k] \in Shell!Blanks
    BY <2>5, <2>6
  <2> QED
    BY <1>3, <2>1, <2>3, <2>4, <2>7
<1>7. PICK read : IsReading(read, s, MarkedPieces(P))
  BY ReadingExists
<1> DEFINE lead == Len(read[f - 1].out)
           before == read[r - 1].out
           some == read[r].out
           shape == Shell!fingerprint(s)
<1>8. \A n \in 0..Len(s) : read[n].out \in Seq(MarkedPieces(P))
  BY <1>7 DEF IsReading, ReadStates
<1>9. lead \in {0, 1} /\ read[f - 1].in = "none"
  BY <1>2, <1>7, LeadIsRead
<1>10. /\ read[r - 1].in = "none" /\ Len(before) = lead + 2
       /\ before[lead + 1] = s[f] /\ before[lead + 2] = Shell!Space
  <2> HIDE DEF e
  <2>1. ReadAndGap(s, read, f, e, r)
    BY <1>2, <1>6, <1>7, <1>9, WordAndGap
  <2>2. /\ read[r - 1].in = "none" /\ Len(before) = lead + (e - f) + 1
        /\ \A j \in f..(e - 1) : before[lead + (j - f + 1)] = s[j]
        /\ before[lead + (e - f) + 1] = Shell!Space
    BY <2>1 DEF ReadAndGap
  <2>3. e = f + 1 /\ f \in Int
    BY <1>2 DEF e
  <2> HIDE DEF lead, before
  <2>4. f \in f..(e - 1) /\ f - f + 1 = 1 /\ lead + (e - f) + 1 = lead + 2
    BY <1>9, <2>3
  <2>5. before[lead + (f - f + 1)] = s[f]
    BY <2>2, <2>4
  <2> QED
    BY <2>2, <2>4, <2>5
<1>11. PICK x \in MarkedPieces(P) : x \notin Shell!Blanks /\ some = Append(before, x)
  <2>1. r \in 1..Len(s) /\ s[r] \notin Shell!Blanks /\ read[r - 1].in = "none"
    BY <1>6, <1>10
  <2>2. PieceAdds(MarkedPieces(P), read[r - 1], s[r], read[r])
    BY <1>7, <2>1, ReadingStep
  <2>3. \E x \in MarkedPieces(P) : x \notin Shell!Blanks /\ read[r].out = Append(read[r - 1].out, x)
    BY <2>1, <2>2 DEF PieceAdds
  <2> QED
    BY <2>3
<1>12. shape \in Seq(MarkedPieces(P)) /\ before \in Seq(MarkedPieces(P))
  <2> DEFINE one == r - 1
             all == Len(s)
  <2>1. one \in 0..Len(s) /\ all \in 0..Len(s)
    BY <1>6
  <2> HIDE DEF one, all
  <2>2. read[one].out \in Seq(MarkedPieces(P)) /\ read[all].out \in Seq(MarkedPieces(P))
    BY <1>8, <2>1
  <2>3. shape = Shell!Trim(read[all].out)
    BY <1>7 DEF IsReading, all
  <2> HIDE DEF shape
  <2> QED
    BY <2>2, <2>3, TrimIsList DEF one
<1>13. r \in f..Len(s) /\ f \in Int
  BY <1>2, <1>5, <1>6
<1> HIDE DEF before, some, shape, lead, e, rest
<1>14. /\ Len(some) = lead + 3 /\ some[lead + 3] \notin Shell!Blanks
       /\ some[lead + 1] = s[f] /\ some[lead + 2] = Shell!Space
  <2>1. Len(some) = Len(before) + 1 /\ some[Len(before) + 1] = x /\ \A k \in 1..Len(before) : some[k] = before[k]
    BY <1>11, <1>12, AppendProperties
  <2>2. Len(before) + 1 = lead + 3 /\ lead + 1 \in 1..Len(before) /\ lead + 2 \in 1..Len(before)
    BY <1>9, <1>10
  <2> QED
    BY <1>10, <1>11, <2>1, <2>2
<1>15. ShapeHas(s, read, f, r)
  <2>1. Len(some) > lead /\ some[Len(some)] \notin Shell!Blanks /\ some[lead + 1] \notin Shell!Blanks
    BY <1>2, <1>9, <1>14
  <2> QED
    BY <1>2, <1>7, <1>13, <2>1, ShapeBegins DEF some, lead
<1>16. Len(some) - lead <= Len(shape) /\ \A i \in 1..(Len(some) - lead) : shape[i] = some[lead + i]
  BY <1>15 DEF ShapeHas, some, lead, shape
<1>17. 3 <= Len(shape) /\ shape[1] = s[f] /\ shape[2] = Shell!Space
  <2>1. Len(some) - lead = 3 /\ 1 \in 1..3 /\ 2 \in 1..3
    BY <1>9, <1>14
  <2> QED
    BY <1>14, <1>16, <2>1
<1> QED
  BY <1>2, <1>12, <1>17 DEF shape

\* What a record keeps of a command begins with the command's first word.
LEMMA TargetHasWord ==
    ASSUME NEW P, NEW s \in Seq(P), Shell!Inked(s) # {}
    PROVE  LET word == Shell!FirstWord(s)
               target == Shell!target_of(s)
           IN  /\ word \in Seq(MarkedPieces(P)) /\ target \in Seq(MarkedPieces(P)) /\ 1 <= Len(word) /\ Len(word) <= Len(target)
               /\ \A i \in 1..Len(word) : target[i] = word[i] /\ word[i] \notin Shell!Blanks
<1> DEFINE U == MarkedPieces(P)
           word == Shell!FirstWord(s)
           target == Shell!target_of(s)
           f == Shell!Min(Shell!Inked(s))
<1>1. s \in Seq(U) /\ Shell!Space \in U
  BY DEF MarkedPieces
<1>2. f \in 1..Len(s)
  BY InkBegins
<1>3. PICK e \in (f + 1)..(Len(s) + 1) :
         /\ OneWord(s, f, e)
         /\ \/ target = SubSeq(s, f, e - 1) /\ \A k \in e..Len(s) : s[k] \in Shell!Blanks
            \/ \E r \in (e + 1)..Len(s), d \in (f + 1)..(Len(s) + 1) : r < d /\ TwoWords(s, f, e, r, d)
  BY TargetIs
<1> HIDE DEF f, U, target, word
<1> DEFINE x == e - 1
<1>4. word = SubSeq(s, f, x) /\ \A k \in f..x : s[k] \notin Shell!Blanks
  BY <1>3 DEF OneWord, word
<1>5. f \in Int /\ x \in Int /\ f <= x /\ \A i \in f..x : s[i] \in U
  BY <1>1, <1>2
<1>6. target = SubSeq(s, f, x) \/ \E r \in (e + 1)..Len(s), d \in (f + 1)..(Len(s) + 1) : r < d /\ TwoWords(s, f, e, r, d)
  BY <1>3
<1> HIDE DEF x
<1>7. word \in Seq(U) /\ Len(word) = x - f + 1 /\ \A i \in 1..(x - f + 1) : word[i] = s[f + i - 1]
  BY <1>4, <1>5, SubSeqProperties
<1>8. 1 <= Len(word) /\ \A i \in 1..Len(word) : word[i] \notin Shell!Blanks
  <2>1. \A i \in 1..(x - f + 1) : f + i - 1 \in f..x
    BY <1>5
  <2> QED
    BY <1>4, <1>5, <1>7, <2>1
<1>9. target \in Seq(U) /\ Len(word) <= Len(target) /\ \A i \in 1..Len(word) : target[i] = word[i]
  <2>1. CASE target = SubSeq(s, f, x)
    BY <1>4, <1>7, <2>1
  <2>2. CASE \E r \in (e + 1)..Len(s), d \in (f + 1)..(Len(s) + 1) : r < d /\ TwoWords(s, f, e, r, d)
    <3>1. PICK r \in (e + 1)..Len(s), d \in (f + 1)..(Len(s) + 1) : r < d /\ TwoWords(s, f, e, r, d)
      BY <2>2
    <3> DEFINE gap == <<Shell!Space>>
               y == d - 1
               other == SubSeq(s, r, y)
               both == word \o gap
               whole == both \o other
    <3>2. target = whole
      BY <1>4, <3>1 DEF TwoWords, x, target
    <3>3. r \in Int /\ y \in Int /\ \A i \in r..y : s[i] \in U
      BY <1>1, <1>2, <3>1
    <3>4. gap \in Seq(U)
      BY <1>1
    <3> HIDE DEF y
    <3>5. other \in Seq(U)
      BY <3>3, SubSeqProperties
    <3> HIDE DEF gap, other
    <3>6. /\ both \in Seq(U) /\ Len(both) = Len(word) + Len(gap)
          /\ \A i \in 1..(Len(word) + Len(gap)) : both[i] = IF i <= Len(word) THEN word[i] ELSE gap[i - Len(word)]
      BY <1>7, <3>4, ConcatProperties
    <3> HIDE DEF both
    <3>7. /\ whole \in Seq(U) /\ Len(whole) = Len(both) + Len(other)
          /\ \A i \in 1..(Len(both) + Len(other)) : whole[i] = IF i <= Len(both) THEN both[i] ELSE other[i - Len(both)]
      <4>1. both \in Seq(U) /\ other \in Seq(U)
        BY <3>5, <3>6
      <4> QED
        BY <4>1, ConcatProperties
    <3> HIDE DEF whole
    <3>8. Len(word) \in Nat /\ Len(gap) \in Nat /\ Len(other) \in Nat
      BY <1>7, <3>4, <3>5
    <3>9. Len(word) <= Len(whole)
      BY <3>6, <3>7, <3>8
    <3>10. \A i \in 1..Len(word) : i \in 1..(Len(word) + Len(gap)) /\ i \in 1..(Len(both) + Len(other)) /\ i <= Len(both)
      BY <3>6, <3>8
    <3>11. \A i \in 1..Len(word) : whole[i] = word[i]
      BY <3>6, <3>7, <3>10
    <3> QED
      BY <3>2, <3>7, <3>9, <3>11
  <2> QED
    BY <1>6, <2>1, <2>2
<1> QED
  BY <1>7, <1>8, <1>9 DEF word, target, U

\* A record whose target begins as the shape of a search does is of the search's program.
LEMMA ProgramBegins ==
    ASSUME NEW P, NEW s \in Seq(P), Shell!detect_definition_search(s) # {},
           NEW Q, NEW t \in Seq(Q), Shell!Inked(t) # {}, NEW n \in Nat, n >= 2,
           \/ Shell!IsPrefix(Shell!target_of(t), Shell!fingerprint(s))
           \/ Shell!IsPrefix(SubSeq(Shell!fingerprint(s), 1, Min({n, Len(Shell!fingerprint(s))})), Shell!target_of(t))
    PROVE  Shell!FirstWord(t) = Shell!FirstWord(s)
<1> DEFINE U == MarkedPieces(P) \union MarkedPieces(Q)
           shape == Shell!fingerprint(s)
           target == Shell!target_of(t)
           word == Shell!FirstWord(t)
           k == Min({n, Len(shape)})
           head == SubSeq(shape, 1, k)
<1>1. /\ shape \in Seq(MarkedPieces(P)) /\ Len(shape) >= 2
      /\ Shell!FirstWord(s) = <<shape[1]>> /\ shape[2] = Shell!Space
  BY SearchShape
<1>2. /\ word \in Seq(MarkedPieces(Q)) /\ target \in Seq(MarkedPieces(Q)) /\ 1 <= Len(word) /\ Len(word) <= Len(target)
      /\ \A i \in 1..Len(word) : target[i] = word[i] /\ word[i] \notin Shell!Blanks
  BY TargetHasWord
<1>3. Shell!IsPrefix(target, shape) \/ Shell!IsPrefix(head, target)
  OBVIOUS
<1> HIDE DEF shape, target, word
<1>4. shape \in Seq(U) /\ target \in Seq(U) /\ word \in Seq(U) /\ Len(shape) \in Nat /\ Len(target) \in Nat /\ Len(word) \in Nat
  <2>1. \A A, B, l : l \in Seq(A) => l \in Seq(A \union B) /\ l \in Seq(B \union A) /\ Len(l) \in Nat
    OBVIOUS
  <2> QED
    BY <1>1, <1>2, <2>1
<1>5. k \in Nat /\ k >= 2 /\ k <= Len(shape)
  <2>1. k = IF n <= Len(shape) THEN n ELSE Len(shape)
    <3> DEFINE size == Len(shape)
    <3>1. n \in Int /\ size \in Int
      BY <1>4
    <3> HIDE DEF size
    <3>2. Min({n, size}) = IF n <= size THEN n ELSE size
      BY <3>1, OfTwo
    <3> QED
      BY <3>2 DEF size
  <2> HIDE DEF k
  <2> QED
    BY <1>1, <1>4, <2>1
<1>6. head \in Seq(U) /\ Len(head) = k /\ \A i \in 1..k : head[i] = shape[i]
  <2> HIDE DEF k, U
  <2>1. 1 \in Int /\ k \in Int /\ \A i \in 1..k : shape[i] \in U
    BY <1>4, <1>5
  <2>2. /\ head \in Seq(U) /\ Len(head) = IF 1 <= k THEN k - 1 + 1 ELSE 0
        /\ \A i \in 1..(k - 1 + 1) : head[i] = shape[1 + i - 1]
    BY <2>1, SubSeqProperties
  <2> HIDE DEF head
  <2> QED
    BY <1>5, <2>2
<1> HIDE DEF head, k, U
<1>7. target[1] = shape[1] /\ (Len(word) >= 2 => target[2] = shape[2])
  <2>1. CASE Shell!IsPrefix(target, shape)
    <3>1. Len(target) <= Len(shape) /\ \A i \in 1..Len(target) : target[i] = shape[i]
      BY <1>4, <2>1, PrefixIs
    <3> QED
      BY <1>2, <1>4, <3>1
  <2>2. CASE Shell!IsPrefix(head, target)
    <3>1. Len(head) <= Len(target) /\ \A i \in 1..Len(head) : head[i] = target[i]
      BY <1>4, <1>6, <2>2, PrefixIs
    <3> QED
      BY <1>5, <1>6, <3>1
  <2> QED
    BY <1>3, <2>1, <2>2
<1>8. Len(word) = 1
  <2>1. ASSUME Len(word) >= 2 PROVE FALSE
    <3>1. 2 \in 1..Len(word)
      BY <1>4, <2>1
    <3>2. target[2] = word[2] /\ word[2] \notin Shell!Blanks
      BY <1>2, <3>1
    <3>3. target[2] = Shell!Space
      BY <1>1, <1>7, <2>1
    <3> QED
      BY <3>2, <3>3, QuotesAre
  <2>2. 1 <= Len(word) /\ Len(word) \in Nat
    BY <1>2, <1>4
  <2>3. ~ (Len(word) >= 2)
    BY <2>1
  <2> DEFINE size == Len(word)
  <2>4. 1 <= size /\ size \in Nat /\ ~ (size >= 2)
    BY <2>2, <2>3
  <2> HIDE DEF size
  <2>5. size = 1
    BY <2>4
  <2> QED
    BY <2>5 DEF size
<1>9. word[1] = shape[1]
  BY <1>2, <1>7, <1>8
<1>10. word = <<shape[1]>>
  <2> DEFINE one == <<shape[1]>>
  <2>1. one \in Seq(U) /\ Len(one) = 1 /\ one[1] = shape[1]
    BY <1>1, <1>4
  <2> HIDE DEF one
  <2>2. \A i \in 1..Len(word) : word[i] = one[i]
    BY <1>8, <1>9, <2>1
  <2>3. word = one
    BY <1>4, <1>8, <2>1, <2>2, SeqEqual
  <2> QED
    BY <2>3 DEF one
<1> QED
  BY <1>1, <1>10 DEF word
=============================================================================
