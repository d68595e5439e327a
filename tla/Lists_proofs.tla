---------------------------- MODULE Lists_proofs ----------------------------
(***************************************************************************)
(* What loops over lists come to, for lists of every length: folds,        *)
(* running sums, the first of a set, edit distance, sorting.  Shared by    *)
(* the proofs about the modules that have such loops.                      *)
(***************************************************************************)
EXTENDS Integers, Sequences, SequencesExt, FiniteSetsExt,
        FiniteSetTheorems, FunctionTheorems, SequenceTheorems, WellFoundedInduction, TLAPS

-----------------------------------------------------------------------------
(***************************************************************************)
(* Folds.  FoldLeft is a recursive function on the subsets of a list's     *)
(* domain; what it is on 1..k is what its loop has made after k rounds.    *)
(***************************************************************************)
\* Sets that hold 0 and the successor of each of their elements are Nat: strict
\* inclusion of the finite sets 1..x is well-founded.
LEMMA InductiveSet ==
    ASSUME NEW T \in SUBSET Nat, 0 \in T, \A n \in T : n + 1 \in T
    PROVE  T = Nat
<1> SUFFICES ASSUME Nat \ T # {} PROVE FALSE
  OBVIOUS
<1> DEFINE Segments == {1..x : x \in Nat \ T}
           order == StrictSubsetOrdering(Nat)
<1>1. Segments \subseteq FiniteSubsetsOf(Nat)
  <2> SUFFICES ASSUME NEW x \in Nat PROVE 1..x \in FiniteSubsetsOf(Nat)
    OBVIOUS
  <2>1. IsFiniteSet(1..x) /\ 1..x \subseteq Nat
    BY FS_Interval
  <2> QED
    BY <2>1 DEF FiniteSubsetsOf
<1>2. IsWellFoundedOn(order, FiniteSubsetsOf(Nat))
  BY FS_StrictSubsetOrderingWellFounded
<1>3. Segments # {}
  OBVIOUS
<1> HIDE DEF order
<1>4. PICK least \in Segments : \A segment \in Segments : ~ (<<segment, least>> \in order)
  <2> HIDE DEF Segments
  <2> QED
    BY <1>1, <1>2, <1>3, WFMin
<1>5. PICK x \in Nat \ T : least = 1..x
  OBVIOUS
<1>6. x # 0 /\ x - 1 \in Nat
  BY <1>5
<1>7. CASE x - 1 \in T
  BY <1>5, <1>6, <1>7
<1>8. CASE x - 1 \notin T
  <2>1. 1..(x - 1) \subseteq 1..x /\ 1..(x - 1) # 1..x /\ 1..(x - 1) \in Segments
    BY <1>6, <1>8
  <2>2. <<1..(x - 1), 1..x>> \in order
    BY <2>1 DEF StrictSubsetOrdering, order
  <2> QED
    BY <1>4, <1>5, <2>1, <2>2
<1> QED
  BY <1>7, <1>8

\* The largest element of a set of positions.
LEMMA MaxIsLargest ==
    ASSUME NEW n \in Nat, NEW s \in SUBSET (1..n), s # {}
    PROVE  Max(s) \in s /\ \A y \in s : y <= Max(s)
<1> DEFINE T == {m \in Nat : \E x \in s : x >= m}
<1>1. PICK any \in s : TRUE
  OBVIOUS
<1>2. \E x \in s : \A y \in s : x >= y
  <2> SUFFICES ASSUME \A x \in s : \E y \in s : ~ (x >= y) PROVE FALSE
    OBVIOUS
  <2>1. 0 \in T /\ T \in SUBSET Nat
    BY <1>1
  <2>2. ASSUME NEW m \in T PROVE m + 1 \in T
    <3>1. PICK x \in s : x >= m
      OBVIOUS
    <3>2. PICK y \in s : ~ (x >= y)
      OBVIOUS
    <3>3. y >= m + 1 /\ m + 1 \in Nat
      BY <3>1, <3>2
    <3> QED
      BY <3>3
  <2>3. T = Nat
    <3> HIDE DEF T
    <3> QED
      BY <2>1, <2>2, InductiveSet
  <2>4. n + 1 \in T
    <3> HIDE DEF T
    <3> QED
      BY <2>3
  <2>5. PICK x \in s : x >= n + 1
    BY <2>4
  <2> QED
    BY <2>5
<1>3. Max(s) \in s /\ \A y \in s : Max(s) >= y
  BY <1>2 DEF Max
<1> QED
  BY <1>3

LEMMA MaxOfSegment ==
    ASSUME NEW k \in Nat \ {0}
    PROVE  Max(1..k) = k /\ (1..k) \ {k} = 1..(k - 1) /\ 1..k # {}
<1>1. k \in Nat /\ 1..k \in SUBSET (1..k) /\ 1..k # {} /\ k \in 1..k
  OBVIOUS
<1>2. Max(1..k) \in 1..k /\ k <= Max(1..k)
  BY <1>1, MaxIsLargest
<1> QED
  BY <1>1, <1>2

\* One round of a fold over 1..n, given as a function on what was made and a position.
Turn(iter, step, base, s) ==
    IF s = {} THEN base ELSE step[<<iter[s \ {Max(s)}], Max(s)>>]

\* What FoldLeft chooses: rounds are taken on typed values.
IsFold(iter, S, n, base, step) ==
    /\ iter \in [SUBSET (1..n) -> S]
    /\ \A s \in SUBSET (1..n) : iter[s] = Turn(iter, step, base, s)

LEMMA FoldExists ==
    ASSUME NEW S, NEW n \in Nat, NEW base \in S, NEW step \in [S \X (1..n) -> S]
    PROVE  \E iter : IsFold(iter, S, n, base, step)
<1> DEFINE Good(m) == \E iter \in [SUBSET (1..m) -> S] :
                         \A s \in SUBSET (1..m) : iter[s] = Turn(iter, step, base, s)
           T == {m \in Nat : m <= n => Good(m)}
<1>1. 0 \in T
  <2> DEFINE iter == [s \in SUBSET (1..0) |-> base]
  <2>1. 1..0 = {}
    OBVIOUS
  <2>2. \A s \in SUBSET (1..0) : iter[s] = Turn(iter, step, base, s)
    BY <2>1 DEF Turn
  <2>3. iter \in [SUBSET (1..0) -> S]
    OBVIOUS
  <2>4. Good(0)
    BY <2>2, <2>3
  <2> QED
    BY <2>4
<1>2. ASSUME NEW m \in Nat, m + 1 <= n, Good(m) PROVE Good(m + 1)
  <2>1. m + 1 \in 1..n
    BY <1>2
  <2>2. PICK iter \in [SUBSET (1..m) -> S] :
           \A s \in SUBSET (1..m) : iter[s] = Turn(iter, step, base, s)
    BY <1>2
  <2> DEFINE more == [s \in SUBSET (1..(m + 1)) |->
                        IF m + 1 \in s THEN step[<<iter[s \ {m + 1}], m + 1>>] ELSE iter[s]]
  <2>3. \A s \in SUBSET (1..(m + 1)) :
           /\ s \ {m + 1} \in SUBSET (1..m)
           /\ m + 1 \notin s => s \in SUBSET (1..m)
    BY <2>1
  <2>4. more \in [SUBSET (1..(m + 1)) -> S]
    <3>1. ASSUME NEW s \in SUBSET (1..(m + 1)) PROVE more[s] \in S
      <4>1. CASE m + 1 \in s
        <5>1. iter[s \ {m + 1}] \in S
          BY <2>3
        <5> QED
          BY <2>1, <4>1, <5>1
      <4>2. CASE m + 1 \notin s
        BY <2>3, <4>2
      <4> QED
        BY <4>1, <4>2
    <3> QED
      BY <3>1
  <2>5. \A s \in SUBSET (1..m) : more[s] = iter[s]
    BY <2>1
  <2>6. ASSUME NEW s \in SUBSET (1..(m + 1)) PROVE more[s] = Turn(more, step, base, s)
    <3>1. CASE m + 1 \in s
      <4>1. Max(s) \in s /\ m + 1 <= Max(s)
        <5>1. m + 1 \in Nat /\ s # {}
          BY <3>1
        <5> QED
          BY <3>1, <5>1, MaxIsLargest
      <4>2. Max(s) = m + 1
        <5>1. Max(s) \in 1..(m + 1)
          BY <4>1
        <5> QED
          BY <4>1, <5>1
      <4>3. more[s \ {m + 1}] = iter[s \ {m + 1}]
        BY <2>3, <2>5
      <4>4. more[s] = step[<<iter[s \ {m + 1}], m + 1>>]
        BY <3>1
      <4> QED
        BY <3>1, <4>2, <4>3, <4>4 DEF Turn
    <3>2. CASE m + 1 \notin s
      <4>1. s \in SUBSET (1..m) /\ more[s] = iter[s] /\ s \ {Max(s)} \in SUBSET (1..m)
        BY <2>3, <2>5, <3>2
      <4> HIDE DEF more
      <4> QED
        BY <2>2, <2>5, <4>1 DEF Turn
    <3> QED
      BY <3>1, <3>2
  <2> HIDE DEF more
  <2> QED
    BY <2>4, <2>6
<1>3. T = Nat
  <2> HIDE DEF Good
  <2>1. T \in SUBSET Nat /\ 0 \in T
    BY <1>1
  <2>2. ASSUME NEW m \in T PROVE m + 1 \in T
    BY <1>2
  <2> HIDE DEF T
  <2> QED
    BY <2>1, <2>2, InductiveSet
<1>4. Good(n)
  <2> HIDE DEF Good
  <2> QED
    BY <1>3
<1> QED
  BY <1>4 DEF IsFold

\* The larger and the smaller of two numbers.
LEMMA OfTwo ==
    ASSUME NEW a \in Int, NEW b \in Int
    PROVE  /\ Max({a, b}) = IF a >= b THEN a ELSE b
           /\ Min({a, b}) = IF a <= b THEN a ELSE b
<1>1. \A x \in {a, b} : (\A y \in {a, b} : x >= y) <=> x = IF a >= b THEN a ELSE b
  OBVIOUS
<1>2. \A x \in {a, b} : (\A y \in {a, b} : x <= y) <=> x = IF a <= b THEN a ELSE b
  OBVIOUS
<1> QED
  BY <1>1, <1>2 DEF Max, Min

-----------------------------------------------------------------------------
(***************************************************************************)
(* Sums.                                                                   *)
(***************************************************************************)
\* The running sums of a list.
RunningSums(s, run) ==
    /\ run \in [0..Len(s) -> Int] /\ run[0] = 0
    /\ \A n \in 1..Len(s) : run[n] = run[n - 1] + s[n]

LEMMA RunningSumsExist ==
    ASSUME NEW s \in Seq(Int)
    PROVE  \E run : RunningSums(s, run)
<1> DEFINE Good(m) == \E run \in [0..m -> Int] : run[0] = 0 /\ \A n \in 1..m : run[n] = run[n - 1] + s[n]
           T == {m \in Nat : m <= Len(s) => Good(m)}
<1>1. Good(0)
  <2>1. [n \in 0..0 |-> 0] \in [0..0 -> Int] /\ [n \in 0..0 |-> 0][0] = 0 /\ 1..0 = {}
    OBVIOUS
  <2> QED
    BY <2>1
<1>2. ASSUME NEW m \in Nat, m + 1 <= Len(s), Good(m) PROVE Good(m + 1)
  <2>1. PICK run \in [0..m -> Int] : run[0] = 0 /\ \A n \in 1..m : run[n] = run[n - 1] + s[n]
    BY <1>2
  <2> DEFINE more == [n \in 0..(m + 1) |-> IF n = m + 1 THEN run[m] + s[m + 1] ELSE run[n]]
  <2>2. m + 1 \in 1..Len(s) /\ s[m + 1] \in Int /\ m \in 0..m
    BY <1>2
  <2>3. more \in [0..(m + 1) -> Int]
    <3>1. ASSUME NEW n \in 0..(m + 1) PROVE (IF n = m + 1 THEN run[m] + s[m + 1] ELSE run[n]) \in Int
      BY <2>1, <2>2
    <3> QED
      BY <3>1
  <2>4. ASSUME NEW n \in 1..(m + 1) PROVE more[n] = more[n - 1] + s[n]
    <3>1. CASE n = m + 1
      <4>1. n - 1 = m /\ m # m + 1 /\ m \in 0..(m + 1) /\ n \in 0..(m + 1)
        BY <3>1
      <4> QED
        BY <3>1, <4>1
    <3>2. CASE n # m + 1
      <4>1. n \in 1..m /\ n - 1 \in 0..(m + 1) /\ n - 1 # m + 1 /\ n \in 0..(m + 1)
        BY <3>2
      <4> QED
        BY <2>1, <3>2, <4>1
    <3> QED
      BY <3>1, <3>2
  <2>5. more[0] = 0
    <3>1. 0 \in 0..(m + 1) /\ 0 # m + 1
      OBVIOUS
    <3> QED
      BY <2>1, <3>1
  <2> HIDE DEF more
  <2> QED
    BY <2>3, <2>4, <2>5
<1>3. T = Nat
  <2> HIDE DEF Good
  <2>1. T \in SUBSET Nat /\ 0 \in T
    BY <1>1
  <2>2. ASSUME NEW m \in T PROVE m + 1 \in T
    <3>1. Len(s) \in Nat
      OBVIOUS
    <3> QED
      BY <1>2, <3>1
  <2> HIDE DEF T
  <2> QED
    BY <2>1, <2>2, InductiveSet
<1>4. Good(Len(s))
  <2> HIDE DEF Good
  <2> QED
    BY <1>3
<1> QED
  BY <1>4 DEF RunningSums

\* The sum of a list, as the sizes of a result and the bytes of a trace are summed.
Total(sizes) ==
    LET upto[n \in 0..Len(sizes)] == IF n = 0 THEN 0 ELSE upto[n - 1] + sizes[n] IN upto[Len(sizes)]

\* It is the last running sum.
LEMMA TotalIs ==
    ASSUME NEW s \in Seq(Int)
    PROVE  \E run : RunningSums(s, run) /\ Total(s) = run[Len(s)]
<1> DEFINE upto == CHOOSE f : f = [n \in 0..Len(s) |-> IF n = 0 THEN 0 ELSE f[n - 1] + s[n]]
<1>1. Total(s) = upto[Len(s)]
  BY DEF Total
<1>2. PICK run : RunningSums(s, run)
  BY RunningSumsExist
<1>3. run = [n \in 0..Len(s) |-> IF n = 0 THEN 0 ELSE run[n - 1] + s[n]]
  <2>1. run = [n \in 0..Len(s) |-> run[n]]
    BY <1>2 DEF RunningSums
  <2>2. ASSUME NEW n \in 0..Len(s) PROVE run[n] = IF n = 0 THEN 0 ELSE run[n - 1] + s[n]
    BY <1>2 DEF RunningSums
  <2> QED
    BY <2>1, <2>2
<1>4. upto = [n \in 0..Len(s) |-> IF n = 0 THEN 0 ELSE upto[n - 1] + s[n]]
  BY <1>3
<1> HIDE DEF upto
<1> DEFINE Good(m) == upto[m] = run[m]
           T == {m \in Nat : m <= Len(s) => Good(m)}
<1>5. Good(0)
  BY <1>2, <1>4 DEF RunningSums
<1>6. ASSUME NEW m \in Nat, m + 1 <= Len(s), Good(m) PROVE Good(m + 1)
  <2>1. m + 1 \in 1..Len(s) /\ m + 1 \in 0..Len(s) /\ (m + 1) - 1 = m /\ m + 1 # 0
    BY <1>6
  <2> QED
    BY <1>2, <1>4, <1>6, <2>1 DEF RunningSums
<1>7. T = Nat
  <2> HIDE DEF Good
  <2>1. T \in SUBSET Nat /\ 0 \in T
    BY <1>5
  <2>2. ASSUME NEW m \in T PROVE m + 1 \in T
    <3>1. Len(s) \in Nat
      OBVIOUS
    <3> QED
      BY <1>6, <3>1
  <2> HIDE DEF T
  <2> QED
    BY <2>1, <2>2, InductiveSet
<1>8. Good(Len(s))
  <2> HIDE DEF Good
  <2> QED
    BY <1>7
<1> QED
  BY <1>1, <1>2, <1>8

LEMMA SumsOfTwo ==
    ASSUME NEW a \in Int, NEW b \in Int, NEW c \in Int, NEW d \in Int
    PROVE  /\ a <= b /\ c <= d => a + c <= b + d
           /\ a < b /\ c <= d => a + c < b + d
           /\ a <= b /\ c < d => a + c < b + d
OBVIOUS

LEMMA SumsAgree ==
    ASSUME NEW s \in Seq(Int), NEW t \in Seq(Int), NEW r, NEW q, RunningSums(s, r), RunningSums(t, q),
           NEW n \in Nat, n <= Len(s), n <= Len(t)
    PROVE  /\ (\A i \in 1..n : t[i] = s[i]) => q[n] = r[n]
           /\ (\A i \in 1..n : t[i] <= s[i]) => q[n] <= r[n]
           /\ (\A i \in 1..n : t[i] <= s[i]) /\ (\E i \in 1..n : t[i] < s[i]) => q[n] < r[n]
<1> DEFINE Good(m) == /\ (\A i \in 1..m : t[i] = s[i]) => q[m] = r[m]
                      /\ (\A i \in 1..m : t[i] <= s[i]) => q[m] <= r[m]
                      /\ (\A i \in 1..m : t[i] <= s[i]) /\ (\E i \in 1..m : t[i] < s[i]) => q[m] < r[m]
           T == {m \in Nat : m <= n => Good(m)}
<1>1. Good(0)
  BY DEF RunningSums
<1>2. ASSUME NEW m \in Nat, m + 1 <= n, Good(m) PROVE Good(m + 1)
  <2>1. m + 1 \in 1..n /\ m + 1 \in 1..Len(s) /\ m + 1 \in 1..Len(t) /\ (m + 1) - 1 = m
    BY <1>2
  <2>2. r[m + 1] = r[m] + s[m + 1] /\ q[m + 1] = q[m] + t[m + 1]
    BY <2>1 DEF RunningSums
  <2>3. m \in 0..Len(s) /\ m \in 0..Len(t)
    BY <2>1
  <2>4. r[m] \in Int /\ q[m] \in Int
    BY <2>3 DEF RunningSums
  <2>5. s[m + 1] \in Int /\ t[m + 1] \in Int
    BY <2>1
  <2>6. \A i \in 1..m : i \in 1..(m + 1)
    OBVIOUS
  <2>7. \A i \in 1..(m + 1) : i \in 1..m \/ i = m + 1
    OBVIOUS
  <2>8. ASSUME \A i \in 1..(m + 1) : t[i] = s[i] PROVE q[m + 1] = r[m + 1]
    <3>1. \A i \in 1..m : t[i] = s[i]
      BY <2>6, <2>8
    <3>2. q[m] = r[m]
      BY <1>2, <3>1
    <3>3. m + 1 \in 1..(m + 1)
      OBVIOUS
    <3>4. t[m + 1] = s[m + 1]
      BY <2>8, <3>3
    <3> QED
      BY <2>2, <3>2, <3>4
  <2>9. ASSUME \A i \in 1..(m + 1) : t[i] <= s[i] PROVE q[m + 1] <= r[m + 1]
    <3>1. q[m] <= r[m] /\ t[m + 1] <= s[m + 1]
      BY <1>2, <2>6, <2>9
    <3> QED
      BY <3>1, <2>2, <2>4, <2>5, SumsOfTwo
  <2>10. ASSUME \A i \in 1..(m + 1) : t[i] <= s[i], NEW i \in 1..(m + 1), t[i] < s[i]
         PROVE  q[m + 1] < r[m + 1]
    <3>1. q[m] <= r[m] /\ t[m + 1] <= s[m + 1]
      BY <1>2, <2>6, <2>10
    <3>2. CASE i = m + 1
      <4>1. t[m + 1] < s[m + 1]
        BY <2>10, <3>2
      <4> QED
        BY <3>1, <4>1, <2>2, <2>4, <2>5, SumsOfTwo
    <3>3. CASE i \in 1..m
      <4>1. q[m] < r[m]
        BY <1>2, <2>6, <2>10, <3>3
      <4> QED
        BY <3>1, <4>1, <2>2, <2>4, <2>5, SumsOfTwo
    <3> QED
      BY <2>7, <3>2, <3>3
  <2> QED
    BY <2>8, <2>9, <2>10
<1>3. T = Nat
  <2> HIDE DEF Good
  <2>1. T \in SUBSET Nat /\ 0 \in T
    BY <1>1
  <2>2. ASSUME NEW m \in T PROVE m + 1 \in T
    BY <1>2
  <2> HIDE DEF T
  <2> QED
    BY <2>1, <2>2, InductiveSet
<1>4. Good(n)
  <2> HIDE DEF Good
  <2> QED
    BY <1>3
<1> QED
  BY <1>4

\* The running sums of sizes rise.
LEMMA SumsRise ==
    ASSUME NEW s \in Seq(Nat), NEW r, RunningSums(s, r), NEW k \in 0..Len(s)
    PROVE  r[k] \in Nat /\ r[k] <= r[Len(s)]
<1>0. s \in Seq(Int) /\ Len(s) \in Nat /\ k \in Nat
  OBVIOUS
<1> DEFINE Good(m) == r[m] \in Nat /\ (m >= k => r[k] <= r[m])
           T == {m \in Nat : m <= Len(s) => Good(m)}
<1>1. Good(0)
  BY <1>0 DEF RunningSums
<1>2. ASSUME NEW m \in Nat, m + 1 <= Len(s), Good(m) PROVE Good(m + 1)
  <2>1. m + 1 \in 1..Len(s) /\ (m + 1) - 1 = m /\ s[m + 1] \in Nat
    BY <1>2
  <2>2. r[m + 1] = r[m] + s[m + 1]
    BY <2>1 DEF RunningSums
  <2>3. r[k] \in Int
    BY DEF RunningSums
  <2>4. CASE k = m + 1
    BY <1>2, <2>1, <2>2, <2>3, <2>4
  <2>5. CASE k # m + 1
    BY <1>0, <1>2, <2>1, <2>2, <2>3, <2>5
  <2> QED
    BY <2>4, <2>5
<1>3. T = Nat
  <2> HIDE DEF Good
  <2>1. T \in SUBSET Nat /\ 0 \in T
    BY <1>1
  <2>2. ASSUME NEW m \in T PROVE m + 1 \in T
    BY <1>0, <1>2
  <2> HIDE DEF T
  <2> QED
    BY <2>1, <2>2, InductiveSet
<1>4. Good(k) /\ Good(Len(s))
  <2> HIDE DEF Good
  <2> QED
    BY <1>0, <1>3
<1> QED
  BY <1>4, <1>0

-----------------------------------------------------------------------------
(***************************************************************************)
(* The first and the least.                                                *)
(***************************************************************************)
\* A finite set has a first element, whatever strict order it is put in.
LEMMA FirstExists ==
    ASSUME NEW S, IsFiniteSet(S), S # {}, NEW R,
           \A s \in S : <<s, s>> \notin R,
           \A s, t, u \in S : <<s, t>> \in R /\ <<t, u>> \in R => <<s, u>> \in R
    PROVE  \E s \in S : \A t \in S : <<t, s>> \notin R
<1> DEFINE Below(s) == {t \in S : <<t, s>> \in R}
           Belows == {Below(s) : s \in S}
           order == StrictSubsetOrdering(S)
<1>1. Belows \subseteq FiniteSubsetsOf(S)
  <2> SUFFICES ASSUME NEW s \in S PROVE Below(s) \in FiniteSubsetsOf(S)
    OBVIOUS
  <2>1. Below(s) \subseteq S
    OBVIOUS
  <2>2. IsFiniteSet(Below(s))
    <3> HIDE DEF Below
    <3> QED
      BY <2>1, FS_Subset
  <2> QED
    BY <2>1, <2>2 DEF FiniteSubsetsOf
<1>2. IsWellFoundedOn(order, FiniteSubsetsOf(S))
  BY FS_StrictSubsetOrderingWellFounded
<1>3. Belows # {}
  <2>1. PICK s \in S : TRUE
    OBVIOUS
  <2>2. Below(s) \in Belows
    OBVIOUS
  <2> HIDE DEF Belows
  <2> QED
    BY <2>2
<1>4. PICK least \in Belows : \A below \in Belows : ~ (<<below, least>> \in order)
  <2> HIDE DEF Belows, order
  <2> QED
    BY <1>1, <1>2, <1>3, WFMin
<1>5. PICK s \in S : least = Below(s)
  OBVIOUS
<1>6. ASSUME NEW t \in S, <<t, s>> \in R PROVE FALSE
  <2>1. Below(t) \subseteq Below(s) /\ t \in Below(s) /\ t \notin Below(t) /\ Below(t) \in Belows
    BY <1>6
  <2>2. Below(t) \subseteq S /\ Below(s) \subseteq S
    OBVIOUS
  <2> HIDE DEF Below, Belows
  <2>3. <<Below(t), Below(s)>> \in order
    BY <2>1, <2>2 DEF StrictSubsetOrdering
  <2> QED
    BY <1>4, <1>5, <2>1, <2>3
<1> QED
  BY <1>6

LEMMA MinIsLeast ==
    ASSUME NEW s \in SUBSET Nat, s # {}
    PROVE  Min(s) \in s /\ \A y \in s : Min(s) <= y
<1> DEFINE T == {m \in Nat : \A x \in s : m <= x}
<1>1. PICK any \in s : TRUE
  OBVIOUS
<1>2. \E x \in s : \A y \in s : x <= y
  <2> SUFFICES ASSUME \A x \in s : \E y \in s : ~ (x <= y) PROVE FALSE
    OBVIOUS
  <2>1. 0 \in T /\ T \in SUBSET Nat
    OBVIOUS
  <2>2. ASSUME NEW m \in T PROVE m + 1 \in T
    <3>1. ASSUME NEW x \in s PROVE m + 1 <= x
      <4>1. PICK y \in s : ~ (x <= y)
        OBVIOUS
      <4>2. m <= y /\ y \in Nat /\ x \in Nat
        OBVIOUS
      <4> QED
        BY <4>1, <4>2
    <3> QED
      BY <3>1
  <2>3. T = Nat
    <3> HIDE DEF T
    <3> QED
      BY <2>1, <2>2, InductiveSet
  <2>4. any + 1 \in T
    BY <1>1, <2>3
  <2> QED
    BY <1>1, <2>4
<1> QED
  BY <1>2 DEF Min

\* The least of three numbers is small where one of them is.
LEMMA OfThree ==
    ASSUME NEW x \in Nat, NEW y \in Nat, NEW z \in Nat
    PROVE  /\ Min({x, y, z}) \in Nat
           /\ \A n \in Nat : Min({x, y, z}) <= n <=> x <= n \/ y <= n \/ z <= n
<1>1. {x, y, z} \in SUBSET Nat /\ {x, y, z} # {}
  OBVIOUS
<1> DEFINE s == {x, y, z}
<1>2. Min(s) \in s /\ \A v \in s : Min(s) <= v
  <2> HIDE DEF s
  <2> QED
    BY <1>1, MinIsLeast DEF s
<1> QED
  BY <1>2

-----------------------------------------------------------------------------
(***************************************************************************)
(* Edit distance.  The table of two texts, and what is near in it: texts   *)
(* that are equal, or one letter apart.                                    *)
(***************************************************************************)
Cost(x, y) == IF x = y THEN 0 ELSE 1

IsTable(e, a, b) ==
    /\ e \in [(0..Len(a)) \X (0..Len(b)) -> Nat]
    /\ \A j \in 0..Len(b) : e[0, j] = j
    /\ \A i \in 0..Len(a) : e[i, 0] = i
    /\ \A i \in 1..Len(a), j \in 1..Len(b) :
          e[i, j] = Min({e[i - 1, j] + 1, e[i, j - 1] + 1, e[i - 1, j - 1] + Cost(a[i], b[j])})

\* The first i letters of the one and the first j of the other.
Equal(a, b, i, j) == i = j /\ \A k \in 1..i : a[k] = b[k]
OneWrong(a, b, i, j) == i = j /\ \E m \in 1..i : \A k \in 1..i : k # m => a[k] = b[k]
OneTooMany(a, b, i, j) ==
    i = j + 1 /\ \E m \in 1..i : (\A k \in 1..(m - 1) : a[k] = b[k]) /\ \A k \in m..j : a[k + 1] = b[k]
OneApart(a, b, i, j) == Equal(a, b, i, j) \/ OneWrong(a, b, i, j) \/ OneTooMany(a, b, i, j) \/ OneTooMany(b, a, j, i)

LEMMA EqualStep ==
    ASSUME NEW a, NEW b, NEW i \in Nat \ {0}, NEW j \in Nat \ {0}
    PROVE  Equal(a, b, i, j) <=> a[i] = b[j] /\ Equal(a, b, i - 1, j - 1)
<1>1. i = j <=> i - 1 = j - 1
  OBVIOUS
<1>2. \A k \in 1..i : k = i \/ k \in 1..(i - 1)
  OBVIOUS
<1>3. i \in 1..i /\ \A k \in 1..(i - 1) : k \in 1..i
  OBVIOUS
<1> QED
  BY <1>1, <1>2, <1>3 DEF Equal

LEMMA WrongStep ==
    ASSUME NEW a, NEW b, NEW i \in Nat \ {0}, NEW j \in Nat \ {0}
    PROVE  OneWrong(a, b, i, j) <=> Equal(a, b, i - 1, j - 1) \/ (a[i] = b[j] /\ OneWrong(a, b, i - 1, j - 1))
<1>1. i = j <=> i - 1 = j - 1
  OBVIOUS
<1>2. \A k \in 1..i : k = i \/ k \in 1..(i - 1)
  OBVIOUS
<1>3. i \in 1..i /\ \A k \in 1..(i - 1) : k \in 1..i /\ k # i
  OBVIOUS
<1>4. ASSUME OneWrong(a, b, i, j)
      PROVE  Equal(a, b, i - 1, j - 1) \/ (a[i] = b[j] /\ OneWrong(a, b, i - 1, j - 1))
  <2>1. PICK m \in 1..i : \A k \in 1..i : k # m => a[k] = b[k]
    BY <1>4 DEF OneWrong
  <2>2. i = j
    BY <1>4 DEF OneWrong
  <2>3. CASE m = i
    BY <1>1, <1>3, <2>1, <2>2, <2>3 DEF Equal
  <2>4. CASE m # i
    <3>1. m \in 1..(i - 1)
      BY <1>2, <2>4
    <3>2. a[i] = b[j]
      BY <1>3, <2>1, <2>2, <2>4
    <3> QED
      BY <1>1, <1>3, <2>1, <2>2, <3>1, <3>2 DEF OneWrong
  <2> QED
    BY <2>3, <2>4
<1>5. ASSUME Equal(a, b, i - 1, j - 1) PROVE OneWrong(a, b, i, j)
  <2>1. i = j /\ \A k \in 1..i : k # i => a[k] = b[k]
    BY <1>1, <1>2, <1>5 DEF Equal
  <2> QED
    BY <1>3, <2>1 DEF OneWrong
<1>6. ASSUME a[i] = b[j], OneWrong(a, b, i - 1, j - 1) PROVE OneWrong(a, b, i, j)
  <2>1. i = j
    BY <1>1, <1>6 DEF OneWrong
  <2>2. PICK m \in 1..(i - 1) : \A k \in 1..(i - 1) : k # m => a[k] = b[k]
    BY <1>6 DEF OneWrong
  <2>3. m \in 1..i /\ \A k \in 1..i : k # m => a[k] = b[k]
    BY <1>2, <1>3, <1>6, <2>1, <2>2
  <2> QED
    BY <2>1, <2>3 DEF OneWrong
<1> QED
  BY <1>4, <1>5, <1>6

LEMMA MoreStep ==
    ASSUME NEW a, NEW b, NEW i \in Nat \ {0}, NEW j \in Nat \ {0}
    PROVE  OneTooMany(a, b, i, j) <=> Equal(a, b, i - 1, j) \/ (a[i] = b[j] /\ OneTooMany(a, b, i - 1, j - 1))
<1>1. i = j + 1 <=> i - 1 = (j - 1) + 1
  OBVIOUS
<1>2. i = j + 1 <=> i - 1 = j
  OBVIOUS
<1>3. ASSUME OneTooMany(a, b, i, j)
      PROVE  Equal(a, b, i - 1, j) \/ (a[i] = b[j] /\ OneTooMany(a, b, i - 1, j - 1))
  <2>1. PICK m \in 1..i : (\A k \in 1..(m - 1) : a[k] = b[k]) /\ \A k \in m..j : a[k + 1] = b[k]
    BY <1>3 DEF OneTooMany
  <2>2. i = j + 1 /\ i - 1 = j
    BY <1>3 DEF OneTooMany
  <2>3. CASE m = i
    BY <2>1, <2>2, <2>3 DEF Equal
  <2>4. CASE m # i
    <3>1. m \in 1..(i - 1) /\ j \in m..j /\ \A k \in m..(j - 1) : k \in m..j
      BY <2>2, <2>4
    <3>2. a[i] = b[j]
      BY <2>1, <2>2, <3>1
    <3>3. OneTooMany(a, b, i - 1, j - 1)
      BY <1>1, <2>1, <2>2, <3>1 DEF OneTooMany
    <3> QED
      BY <3>2, <3>3
  <2> QED
    BY <2>3, <2>4
<1>4. ASSUME Equal(a, b, i - 1, j) PROVE OneTooMany(a, b, i, j)
  <2>1. i = j + 1 /\ i \in 1..i /\ i..j = {} /\ \A k \in 1..(i - 1) : a[k] = b[k]
    BY <1>2, <1>4 DEF Equal
  <2> QED
    BY <2>1 DEF OneTooMany
<1>5. ASSUME a[i] = b[j], OneTooMany(a, b, i - 1, j - 1) PROVE OneTooMany(a, b, i, j)
  <2>1. i = j + 1
    BY <1>1, <1>5 DEF OneTooMany
  <2>2. PICK m \in 1..(i - 1) : (\A k \in 1..(m - 1) : a[k] = b[k]) /\ \A k \in m..(j - 1) : a[k + 1] = b[k]
    BY <1>5 DEF OneTooMany
  <2>3. m \in 1..i /\ \A k \in m..j : k = j \/ k \in m..(j - 1)
    BY <2>2
  <2>4. \A k \in m..j : a[k + 1] = b[k]
    BY <1>5, <2>1, <2>2, <2>3
  <2> QED
    BY <2>1, <2>2, <2>3, <2>4 DEF OneTooMany
<1> QED
  BY <1>3, <1>4, <1>5

LEMMA ApartStep ==
    ASSUME NEW a, NEW b, NEW i \in Nat \ {0}, NEW j \in Nat \ {0}
    PROVE  OneApart(a, b, i, j) <=>
              \/ Equal(a, b, i - 1, j) \/ Equal(a, b, i, j - 1) \/ Equal(a, b, i - 1, j - 1)
              \/ a[i] = b[j] /\ OneApart(a, b, i - 1, j - 1)
<1>1. Equal(b, a, j - 1, i) <=> Equal(a, b, i, j - 1)
  BY DEF Equal
<1>2. Equal(a, b, i, j) <=> a[i] = b[j] /\ Equal(a, b, i - 1, j - 1)
  BY EqualStep
<1>3. OneWrong(a, b, i, j) <=> Equal(a, b, i - 1, j - 1) \/ (a[i] = b[j] /\ OneWrong(a, b, i - 1, j - 1))
  BY WrongStep
<1>4. OneTooMany(a, b, i, j) <=> Equal(a, b, i - 1, j) \/ (a[i] = b[j] /\ OneTooMany(a, b, i - 1, j - 1))
  BY MoreStep
<1>5. OneTooMany(b, a, j, i) <=> Equal(b, a, j - 1, i) \/ (b[j] = a[i] /\ OneTooMany(b, a, j - 1, i - 1))
  BY MoreStep
<1> QED
  BY <1>1, <1>2, <1>3, <1>4, <1>5 DEF OneApart

LEMMA ApartFromNothing ==
    ASSUME NEW a, NEW b, NEW n \in Nat
    PROVE  /\ (Equal(a, b, 0, n) <=> n <= 0) /\ (Equal(a, b, n, 0) <=> n <= 0)
           /\ (OneApart(a, b, 0, n) <=> n <= 1) /\ (OneApart(a, b, n, 0) <=> n <= 1)
<1>1. (Equal(a, b, 0, n) <=> n <= 0) /\ (Equal(a, b, n, 0) <=> n <= 0)
  BY DEF Equal
<1>2. ~OneWrong(a, b, 0, n) /\ ~OneTooMany(a, b, 0, n) /\ ~OneTooMany(b, a, 0, n)
  BY DEF OneWrong, OneTooMany
<1>3. OneWrong(a, b, n, 0) => n = 0
  BY DEF OneWrong
<1>4. \A c, d : OneTooMany(c, d, n, 0) <=> n = 1
  <2> SUFFICES ASSUME NEW c, NEW d PROVE OneTooMany(c, d, n, 0) <=> n = 1
    OBVIOUS
  <2>1. OneTooMany(c, d, n, 0) => n = 1
    BY DEF OneTooMany
  <2>2. 1 \in 1..1 /\ 1..(1 - 1) = {} /\ 1..0 = {} /\ 1 = 0 + 1
    OBVIOUS
  <2>3. OneTooMany(c, d, 1, 0)
    BY <2>2 DEF OneTooMany
  <2> QED
    BY <2>1, <2>3
<1> QED
  BY <1>1, <1>2, <1>3, <1>4 DEF OneApart

\* The table tells what is equal and what is one apart.
LEMMA NearInTable ==
    ASSUME NEW A, NEW a \in Seq(A), NEW b \in Seq(A), NEW e, IsTable(e, a, b)
    PROVE  \A i \in 0..Len(a), j \in 0..Len(b) :
              (e[i, j] <= 0 <=> Equal(a, b, i, j)) /\ (e[i, j] <= 1 <=> OneApart(a, b, i, j))
<1> DEFINE Told(i, j) == (e[i, j] <= 0 <=> Equal(a, b, i, j)) /\ (e[i, j] <= 1 <=> OneApart(a, b, i, j))
           Upto(s) == \A i \in 0..Len(a), j \in 0..Len(b) : i + j <= s => Told(i, j)
           T == {s \in Nat : Upto(s)}
<1>0. Len(a) \in Nat /\ Len(b) \in Nat
  OBVIOUS
<1>1. ASSUME NEW j \in 0..Len(b) PROVE Told(0, j)
  <2>0. j \in Nat
    BY <1>0
  <2>1. e[0, j] = j
    BY <1>1 DEF IsTable
  <2>2. (Equal(a, b, 0, j) <=> j <= 0) /\ (OneApart(a, b, 0, j) <=> j <= 1)
    BY <2>0, ApartFromNothing
  <2> QED
    BY <2>1, <2>2
<1>2. ASSUME NEW i \in 0..Len(a) PROVE Told(i, 0)
  <2>0. i \in Nat
    BY <1>0
  <2>1. e[i, 0] = i
    BY <1>2 DEF IsTable
  <2>2. (Equal(a, b, i, 0) <=> i <= 0) /\ (OneApart(a, b, i, 0) <=> i <= 1)
    BY <2>0, ApartFromNothing
  <2> QED
    BY <2>1, <2>2
<1>3. ASSUME NEW i \in 1..Len(a), NEW j \in 1..Len(b), Told(i - 1, j), Told(i, j - 1), Told(i - 1, j - 1)
      PROVE  Told(i, j)
  <2> DEFINE x == e[i - 1, j]
             y == e[i, j - 1]
             z == e[i - 1, j - 1]
             w == e[i, j]
  <2>1. i \in Nat \ {0} /\ j \in Nat \ {0} /\ i - 1 \in 0..Len(a) /\ j - 1 \in 0..Len(b) /\ i \in 0..Len(a) /\ j \in 0..Len(b)
    OBVIOUS
  <2>2. x \in Nat /\ y \in Nat /\ z \in Nat
    BY <2>1 DEF IsTable
  <2>3. w = Min({x + 1, y + 1, z + Cost(a[i], b[j])})
    BY <2>1 DEF IsTable
  <2>4. /\ (x <= 0 <=> Equal(a, b, i - 1, j)) /\ (y <= 0 <=> Equal(a, b, i, j - 1))
        /\ (z <= 0 <=> Equal(a, b, i - 1, j - 1)) /\ (z <= 1 <=> OneApart(a, b, i - 1, j - 1))
    BY <1>3
  <2>5. Cost(a[i], b[j]) \in Nat /\ (a[i] = b[j] => Cost(a[i], b[j]) = 0) /\ (a[i] # b[j] => Cost(a[i], b[j]) = 1)
    BY DEF Cost
  <2> HIDE DEF x, y, z, w
  <2>6. \A n \in Nat : w <= n <=> x + 1 <= n \/ y + 1 <= n \/ z + Cost(a[i], b[j]) <= n
    <3>1. x + 1 \in Nat /\ y + 1 \in Nat /\ z + Cost(a[i], b[j]) \in Nat
      BY <2>2, <2>5
    <3> QED
      BY <2>3, <3>1, OfThree
  <2>7. (w <= 0 <=> z <= 0 /\ a[i] = b[j]) /\ (w <= 1 <=> x <= 0 \/ y <= 0 \/ z <= 0 \/ (z <= 1 /\ a[i] = b[j]))
    BY <2>2, <2>5, <2>6
  <2>8. (w <= 0 <=> Equal(a, b, i, j)) /\ (w <= 1 <=> OneApart(a, b, i, j))
    BY <2>1, <2>4, <2>7, EqualStep, ApartStep
  <2> QED
    BY <2>8 DEF w
<1>4. 0 \in T
  <2> SUFFICES ASSUME NEW i \in 0..Len(a), NEW j \in 0..Len(b), i + j <= 0 PROVE Told(i, j)
    OBVIOUS
  <2>1. i = 0
    OBVIOUS
  <2> HIDE DEF Told
  <2> QED
    BY <1>1, <2>1
<1>5. ASSUME NEW s \in T PROVE s + 1 \in T
  <2> HIDE DEF Told
  <2>1. Upto(s) /\ s \in Nat
    BY <1>5
  <2> SUFFICES ASSUME NEW i \in 0..Len(a), NEW j \in 0..Len(b), i + j <= s + 1 PROVE Told(i, j)
    BY <2>1
  <2>2. CASE i = 0
    BY <1>1, <2>2
  <2>3. CASE j = 0
    BY <1>2, <2>3
  <2>4. CASE i # 0 /\ j # 0
    <3>1. i \in 1..Len(a) /\ j \in 1..Len(b) /\ i - 1 \in 0..Len(a) /\ j - 1 \in 0..Len(b)
      BY <1>0, <2>4
    <3>2. (i - 1) + j <= s /\ i + (j - 1) <= s /\ (i - 1) + (j - 1) <= s
      BY <2>1, <3>1
    <3>3. Told(i - 1, j) /\ Told(i, j - 1) /\ Told(i - 1, j - 1)
      BY <2>1, <3>1, <3>2
    <3> QED
      BY <1>3, <3>1, <3>3
  <2> QED
    BY <2>2, <2>3, <2>4
<1>6. T = Nat
  <2> T \in SUBSET Nat
    OBVIOUS
  <2> HIDE DEF T
  <2> QED
    BY <1>4, <1>5, InductiveSet
<1> SUFFICES ASSUME NEW i \in 0..Len(a), NEW j \in 0..Len(b) PROVE Told(i, j)
  OBVIOUS
<1> HIDE DEF Told
<1>7. i + j \in Nat /\ i + j <= i + j
  BY <1>0
<1>8. Upto(i + j)
  <2> HIDE DEF Upto
  <2> QED
    BY <1>6, <1>7
<1> QED
  BY <1>7, <1>8

-----------------------------------------------------------------------------
(***************************************************************************)
(* Sorting: positions can be put in the order of what they are ranked by.  *)
(***************************************************************************)
\* Lists that are the same with one more item each are the same.
LEMMA SameLonger ==
    ASSUME NEW S, NEW s \in Seq(S), NEW t \in Seq(S), NEW x, NEW y, Append(s, x) = Append(t, y)
    PROVE  s = t /\ x = y
<1>1. Len(s) \in Nat /\ Len(t) \in Nat
  OBVIOUS
<1>2. Len(Append(s, x)) = Len(s) + 1 /\ Len(Append(t, y)) = Len(t) + 1
  OBVIOUS
<1>3. Len(s) = Len(t)
  BY <1>1, <1>2
<1>4. Append(s, x)[Len(s) + 1] = x /\ Append(t, y)[Len(t) + 1] = y
  OBVIOUS
<1>5. \A i \in 1..Len(s) : s[i] = Append(s, x)[i] /\ t[i] = Append(t, y)[i]
  BY <1>3
<1>6. \A i \in 1..Len(s) : s[i] = t[i]
  BY <1>5
<1>7. s = t
  BY <1>3, <1>6, SeqEqual
<1> QED
  BY <1>3, <1>4, <1>7

\* Among finitely many numbers there is a largest.
LEMMA LargestExists ==
    ASSUME NEW n \in Nat \ {0}, NEW h \in [1..n -> Nat]
    PROVE  \E m \in 1..n : \A j \in 1..n : h[j] <= h[m]
<1> DEFINE Good(k) == \E m \in 1..k : \A j \in 1..k : h[j] <= h[m]
           T == {k \in Nat : k \in 1..n => Good(k)}
<1>1. 0 \in T
  OBVIOUS
<1>2. ASSUME NEW k \in Nat, k \in 1..n => Good(k), k + 1 \in 1..n PROVE Good(k + 1)
  <2>1. CASE k = 0
    <3>1. 1 \in 1..(k + 1) /\ \A j \in 1..(k + 1) : j = 1
      BY <2>1
    <3>2. h[1] \in Nat
      BY <1>2, <2>1
    <3>3. \A j \in 1..(k + 1) : h[j] <= h[1]
      BY <3>1, <3>2
    <3> QED
      BY <3>1, <3>3
  <2>2. CASE k # 0
    <3>1. k \in 1..n
      BY <1>2, <2>2
    <3>2. PICK m \in 1..k : \A j \in 1..k : h[j] <= h[m]
      BY <1>2, <3>1
    <3>3. m \in 1..(k + 1) /\ k + 1 \in 1..(k + 1) /\ \A j \in 1..(k + 1) : j \in 1..k \/ j = k + 1
      OBVIOUS
    <3>4. \A j \in 1..(k + 1) : h[j] \in Nat
      BY <1>2
    <3>5. CASE h[k + 1] <= h[m]
      BY <3>2, <3>3, <3>5
    <3>6. CASE ~(h[k + 1] <= h[m])
      <4>1. \A j \in 1..(k + 1) : h[j] <= h[k + 1]
        BY <3>2, <3>3, <3>4, <3>6
      <4> QED
        BY <3>3, <4>1
    <3> QED
      BY <3>5, <3>6
  <2> QED
    BY <2>1, <2>2
<1>3. T = Nat
  <2> HIDE DEF Good
  <2>1. T \in SUBSET Nat
    OBVIOUS
  <2>2. ASSUME NEW k \in T PROVE k + 1 \in T
    BY <1>2
  <2> HIDE DEF T
  <2> QED
    BY <1>1, <2>1, <2>2, InductiveSet
<1>4. Good(n)
  <2> HIDE DEF Good
  <2> QED
    BY <1>3
<1> QED
  BY <1>4

\* Whatever finitely many positions are ranked by, they can be put in order.
Orders(n, h) == {p \in Bijection(1..n, 1..n) : \A i, j \in 1..n : i < j => h[p[i]] <= h[p[j]]}

\* There is such an order.
LEMMA OrderExists ==
    ASSUME NEW n \in Nat, NEW h \in [1..n -> Nat]
    PROVE  Orders(n, h) # {}
<1> DEFINE Good(k) == \A g \in [1..k -> Nat] : Orders(k, g) # {}
           T == {k \in Nat : Good(k)}
<1>1. 0 \in T
  <2>1. ASSUME NEW g \in [1..0 -> Nat] PROVE Orders(0, g) # {}
    <3> DEFINE p == [i \in 1..0 |-> i]
    <3>1. p \in Bijection(1..0, 1..0)
      BY DEF Bijection, Injection, Surjection, IsInjective
    <3>2. p \in Orders(0, g)
      BY <3>1 DEF Orders
    <3> QED
      BY <3>2
  <2> QED
    BY <2>1
<1>2. ASSUME NEW k \in Nat, Good(k) PROVE Good(k + 1)
  <2> SUFFICES ASSUME NEW g \in [1..(k + 1) -> Nat] PROVE Orders(k + 1, g) # {}
    OBVIOUS
  <2>1. PICK m \in 1..(k + 1) : \A j \in 1..(k + 1) : g[j] <= g[m]
    <3>1. k + 1 \in Nat \ {0}
      OBVIOUS
    <3> QED
      BY <3>1, LargestExists
  <2> DEFINE rest == [i \in 1..k |-> IF i = m THEN g[k + 1] ELSE g[i]]
  <2>2. k + 1 \in 1..(k + 1) /\ \A i \in 1..k : i \in 1..(k + 1) /\ i # k + 1
    OBVIOUS
  <2>3. rest \in [1..k -> Nat]
    BY <2>2
  <2>4. PICK p \in Orders(k, rest) : TRUE
    BY <1>2, <2>3
  <2>5. /\ p \in [1..k -> 1..k] /\ \A i, j \in 1..k : p[i] = p[j] => i = j
        /\ \A t \in 1..k : \E i \in 1..k : p[i] = t
        /\ \A i, j \in 1..k : i < j => rest[p[i]] <= rest[p[j]]
    <3> HIDE DEF rest
    <3> QED
      BY <2>4 DEF Orders, Bijection, Injection, Surjection, IsInjective
  <2> DEFINE q == [i \in 1..(k + 1) |-> IF i = k + 1 THEN m ELSE IF p[i] = m THEN k + 1 ELSE p[i]]
  <2>6. \A i \in 1..(k + 1) : i \in 1..k \/ i = k + 1
    OBVIOUS
  <2>7. q \in [1..(k + 1) -> 1..(k + 1)]
    BY <2>2, <2>5, <2>6
  <2>8. \A i \in 1..k : g[q[i]] = rest[p[i]]
    BY <2>2, <2>5
  <2>9. ASSUME NEW i \in 1..(k + 1), NEW j \in 1..(k + 1), q[i] = q[j] PROVE i = j
    BY <2>2, <2>5, <2>6, <2>9
  <2>10. ASSUME NEW t \in 1..(k + 1) PROVE \E i \in 1..(k + 1) : q[i] = t
    <3>1. CASE t = m
      BY <2>2, <3>1
    <3>2. CASE t # m /\ t = k + 1
      <4>1. m \in 1..k
        BY <2>6, <3>2
      <4>2. PICK i \in 1..k : p[i] = m
        BY <2>5, <4>1
      <4>3. i \in 1..(k + 1) /\ q[i] = t
        BY <2>2, <3>2, <4>2
      <4> QED
        BY <4>3
    <3>3. CASE t # m /\ t # k + 1
      <4>1. PICK i \in 1..k : p[i] = t
        BY <2>5, <2>6, <3>3
      <4>2. i \in 1..(k + 1) /\ q[i] = t
        BY <2>2, <3>3, <4>1
      <4> QED
        BY <4>2
    <3> QED
      BY <3>1, <3>2, <3>3
  <2>11. ASSUME NEW i \in 1..(k + 1), NEW j \in 1..(k + 1), i < j PROVE g[q[i]] <= g[q[j]]
    <3>1. i \in 1..k
      BY <2>11
    <3>2. CASE j = k + 1
      BY <2>1, <2>7, <3>2
    <3>3. CASE j # k + 1
      <4>1. j \in 1..k
        BY <3>3
      <4> HIDE DEF q, rest
      <4> QED
        BY <2>5, <2>8, <2>11, <3>1, <4>1
    <3> QED
      BY <3>2, <3>3
  <2> HIDE DEF q
  <2>12. q \in Bijection(1..(k + 1), 1..(k + 1))
    BY <2>7, <2>9, <2>10 DEF Bijection, Injection, Surjection, IsInjective
  <2>13. q \in Orders(k + 1, g)
    BY <2>11, <2>12 DEF Orders
  <2> QED
    BY <2>13
<1>3. T = Nat
  <2> HIDE DEF Good
  <2>1. T \in SUBSET Nat
    OBVIOUS
  <2>2. ASSUME NEW k \in T PROVE k + 1 \in T
    BY <1>2, SMTT(30)
  <2> HIDE DEF T
  <2> QED
    BY <1>1, <2>1, <2>2, InductiveSet
<1> QED
  BY <1>3

\* How many items arrays have that match one to one.
LEMMA MatchedLength ==
    ASSUME NEW S, NEW s \in Seq(S), NEW T, NEW t \in Seq(T), NEW f \in Bijection(DOMAIN s, DOMAIN t)
    PROVE  Len(s) = Len(t)
<1>1. Len(s) \in Nat /\ Len(t) \in Nat /\ DOMAIN s = 1..Len(s) /\ DOMAIN t = 1..Len(t)
  OBVIOUS
<1>2. ExistsBijection(1..Len(s), 1..Len(t))
  BY <1>1 DEF ExistsBijection
<1>3. ExistsBijection(1..Len(t), 1..Len(t))
  BY Fun_ExistsBijReflexive
<1> QED
  BY <1>1, <1>2, <1>3, Fun_NatBijSame

\* A loop over 1..n, as what it has made after each of its rounds.
IsLoop(f, S, n, base, step) ==
    f \in [0..n -> S] /\ f[0] = base /\ \A k \in 1..n : f[k] = step[<<f[k - 1], k>>]

LEMMA RoundsExist ==
    ASSUME NEW S, NEW n \in Nat, NEW base \in S, NEW step \in [S \X (1..n) -> S]
    PROVE  \E f : IsLoop(f, S, n, base, step)
<1>1. PICK iter : IsFold(iter, S, n, base, step)
  BY FoldExists
<1> DEFINE f == [k \in 0..n |-> iter[1..k]]
<1>2. \A k \in 0..n : f[k] = iter[1..k] /\ 1..k \in SUBSET (1..n)
  OBVIOUS
<1>3. 0 \in 0..n /\ \A k \in 1..n : k \in 0..n /\ k - 1 \in 0..n
  OBVIOUS
<1>4. f \in [0..n -> S]
  BY <1>1, <1>2 DEF IsFold
<1> HIDE DEF f
<1>5. f[0] = base
  <2>1. 1..0 = {}
    OBVIOUS
  <2>2. f[0] = iter[{}]
    BY <1>2, <1>3, <2>1
  <2> QED
    BY <1>1, <2>2 DEF IsFold, Turn
<1>6. ASSUME NEW k \in 1..n PROVE f[k] = step[<<f[k - 1], k>>]
  <2>1. k \in Nat \ {0} /\ 1..k # {}
    OBVIOUS
  <2>2. Max(1..k) = k /\ (1..k) \ {k} = 1..(k - 1)
    BY <2>1, MaxOfSegment
  <2>3. iter[1..k] = step[<<iter[1..(k - 1)], k>>]
    BY <1>1, <1>2, <1>3, <2>1, <2>2 DEF IsFold, Turn
  <2> QED
    BY <1>2, <1>3, <2>3
<1> QED
  BY <1>4, <1>5, <1>6 DEF IsLoop

\* What holds at first, and after each step that it holds before, holds up to n.
LEMMA UpTo ==
    ASSUME NEW m \in Nat, NEW n \in Nat, NEW T \in SUBSET Nat, m \in T,
           \A k \in m..(n - 1) : k \in T => k + 1 \in T
    PROVE  \A k \in m..n : k \in T
<1> DEFINE U == {k \in Nat : k \in m..n => k \in T}
<1>1. 0 \in U
  OBVIOUS
<1>2. ASSUME NEW k \in U PROVE k + 1 \in U
  <2> SUFFICES ASSUME k + 1 \in m..n PROVE k + 1 \in T
    OBVIOUS
  <2>1. CASE k + 1 = m
    BY <2>1
  <2>2. CASE k + 1 # m
    <3>1. k \in m..n /\ k \in m..(n - 1)
      BY <2>2
    <3> QED
      BY <3>1
  <2> QED
    BY <2>1, <2>2
<1>3. U = Nat
  <2>1. U \in SUBSET Nat
    OBVIOUS
  <2> HIDE DEF U
  <2> QED
    BY <1>1, <1>2, <2>1, InductiveSet
<1> QED
  BY <1>3
=============================================================================
