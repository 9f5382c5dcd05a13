------------------------------ MODULE WorkProofs ------------------------------
(***************************************************************************)
(* The work a miner is given: its target and time, and the job it is       *)
(* handed.  Times and targets are those of every window, spacing, clamp,   *)
(* threshold, reorg cap and every times that blocks are offered with; the  *)
(* job tables those of every block tree, capacity and number of callers.   *)
(* The two parts have an invariant each (TimesInv and the caches of the    *)
(* retarget; WorkInv) and share the lemmas on loops: what a recursive      *)
(* function of the model computes is tracked step by step.                 *)
(***************************************************************************)
EXTENDS Difficulty, WorkTemplates, FiniteSetTheorems, WellFoundedInduction,
        SequenceTheorems, TLAPS

(* Every non-empty set of naturals has a least element. *)
LEMMA LeastNat ==
  ASSUME NEW T, T \subseteq Nat, T # {}
  PROVE  \E m \in T : \A n \in T : m <= n
<1> DEFINE I == {0..n : n \in T}
           R == StrictSubsetOrdering(Nat)
<1>1. PICK J \in I : \A K \in I : <<K, J>> \notin R
  <2>1. I \subseteq FiniteSubsetsOf(Nat)
    <3>1. \A n \in Nat : IsFiniteSet(0..n)
      BY FS_Interval
    <3>2. \A n \in Nat : 0..n \in SUBSET Nat
      OBVIOUS
    <3> QED BY <3>1, <3>2 DEF FiniteSubsetsOf
  <2>2. I # {}
    OBVIOUS
  <2>3. IsWellFoundedOn(R, FiniteSubsetsOf(Nat))
    BY FS_StrictSubsetOrderingWellFounded
  <2> HIDE DEF I, R
  <2> QED BY <2>1, <2>2, <2>3, WFMin
<1>2. PICK m \in T : J = 0..m
  OBVIOUS
<1>3. ASSUME NEW n \in T, ~(m <= n)
      PROVE  FALSE
  <2>1. 0..n \subseteq 0..m /\ 0..n # 0..m
    BY <1>3
  <2>2. <<0..n, J>> \in R
    BY <1>2, <2>1 DEF StrictSubsetOrdering
  <2> QED BY <1>1, <2>2
<1> QED BY <1>3

(* Induction over the naturals for a set. *)
LEMMA InductionNat ==
  ASSUME NEW S, 0 \in S, \A n \in Nat : n \in S => n + 1 \in S
  PROVE  Nat \subseteq S
<1>1. SUFFICES ASSUME Nat \ S # {}
               PROVE  FALSE
  OBVIOUS
<1>2. PICK m \in Nat \ S : \A n \in Nat \ S : m <= n
  BY <1>1, LeastNat
<1>3. m # 0 /\ m - 1 \in Nat /\ (m - 1) + 1 = m
  BY <1>2
<1>4. m - 1 \in S
  BY <1>2, <1>3
<1> QED BY <1>2, <1>3, <1>4

(* The same, up to a bound. *)
LEMMA InductionUpTo ==
  ASSUME NEW k \in Nat, NEW S, 0 \in S, \A n \in 0..k - 1 : n \in S => n + 1 \in S
  PROVE  0..k \subseteq S
<1> DEFINE T == {n \in Nat : n <= k => n \in S}
<1>1. 0 \in T
  OBVIOUS
<1>2. ASSUME NEW n \in Nat, n \in T
      PROVE  n + 1 \in T
  BY <1>2
<1>3. Nat \subseteq T
  <2> HIDE DEF T
  <2> QED BY <1>1, <1>2, InductionNat
<1> QED BY <1>3

(* A loop of k steps from `base` over the values V. *)
Loops(f, k, V, base, step) ==
  f \in [0..k -> V] /\ f[0] = base /\ \A n \in 1..k : f[n] = step[n][f[n - 1]]

IsLoop(f, k, base, step) ==
  f = [n \in 0..k |-> IF n = 0 THEN base ELSE step[n][f[n - 1]]]

(* Such a loop exists. *)
LEMMA LoopExists ==
  ASSUME NEW V, NEW base \in V, NEW k \in Nat, NEW step \in [1..k -> [V -> V]]
  PROVE  \E f : Loops(f, k, V, base, step)
<1> DEFINE S == {n \in 0..k : \E f \in [0..n -> V] : IsLoop(f, n, base, step)}
<1>1. 0 \in S
  <2> DEFINE g == [i \in 0..0 |-> base]
  <2>1. g \in [0..0 -> V] /\ IsLoop(g, 0, base, step)
    BY DEF IsLoop
  <2> QED BY <2>1
<1>2. ASSUME NEW n \in 0..k - 1, n \in S
      PROVE  n + 1 \in S
  <2>1. PICK f \in [0..n -> V] : IsLoop(f, n, base, step)
    BY <1>2
  <2> DEFINE g == [i \in 0..n + 1 |-> IF i = n + 1 THEN step[n + 1][f[n]] ELSE f[i]]
  <2>2. step[n + 1][f[n]] \in V
    <3>1. n + 1 \in 1..k /\ f[n] \in V
      BY <2>1
    <3> QED BY <3>1
  <2>3. g \in [0..n + 1 -> V]
    BY <2>1, <2>2
  <2>4. ASSUME NEW i \in 0..n + 1
        PROVE  g[i] = IF i = 0 THEN base ELSE step[i][g[i - 1]]
    <3>1. CASE i = n + 1
      BY <3>1
    <3>2. CASE i # n + 1
      <4>1. i \in 0..n /\ (i # 0 => i - 1 \in 0..n + 1 /\ i - 1 # n + 1)
        BY <3>2
      <4>2. f[i] = IF i = 0 THEN base ELSE step[i][f[i - 1]]
        BY <2>1, <4>1 DEF IsLoop
      <4> QED BY <3>2, <4>1, <4>2
    <3> QED BY <3>1, <3>2
  <2>5. g = [i \in 0..n + 1 |-> g[i]]
    OBVIOUS
  <2> HIDE DEF g
  <2>6. IsLoop(g, n + 1, base, step)
    BY <2>4, <2>5 DEF IsLoop
  <2>7. n + 1 \in 0..k
    OBVIOUS
  <2> QED BY <2>3, <2>6, <2>7
<1>3. k \in S
  <2> HIDE DEF S
  <2>1. 0..k \subseteq S
    BY <1>1, <1>2, InductionUpTo
  <2> QED BY <2>1
<1>4. PICK f \in [0..k -> V] : IsLoop(f, k, base, step)
  BY <1>3
<1>5. ASSUME NEW n \in 0..k
      PROVE  f[n] = IF n = 0 THEN base ELSE step[n][f[n - 1]]
  BY <1>4 DEF IsLoop
<1>6. f[0] = base /\ \A n \in 1..k : f[n] = step[n][f[n - 1]]
  BY <1>5
<1> QED BY <1>4, <1>6 DEF Loops

(* Two loops that agree step by step agree. *)
Tracks(f, g, k) ==
  f[0] = g[0] /\ \A n \in 1..k : f[n - 1] = g[n - 1] => f[n] = g[n]
SameUpTo(f, g, k) == \A n \in 0..k : f[n] = g[n]

(* Agreement at each step is agreement throughout. *)
LEMMA LoopUnique ==
  ASSUME NEW k \in Nat, NEW f, NEW g, Tracks(f, g, k)
  PROVE  SameUpTo(f, g, k) /\ f[k] = g[k]
<1> DEFINE S == {n \in 0..k : f[n] = g[n]}
<1>1. 0 \in S
  BY DEF Tracks
<1>2. ASSUME NEW n \in 0..k - 1, n \in S
      PROVE  n + 1 \in S
  <2>1. n + 1 \in 1..k /\ (n + 1) - 1 = n
    OBVIOUS
  <2> QED BY <1>2, <2>1 DEF Tracks
<1>3. 0..k \subseteq S
  <2> HIDE DEF S
  <2> QED BY <1>1, <1>2, InductionUpTo
<1> QED BY <1>3 DEF SameUpTo

-----------------------------------------------------------------------------
(* Sums. *)

(* The partial sums of a sequence of integers. *)
PartialSums(s, f) ==
  /\ f \in [0..Len(s) -> Int]
  /\ f[0] = 0
  /\ \A n \in 1..Len(s) : f[n] = f[n - 1] + s[n]
  /\ Total(s) = f[Len(s)]

(* They exist: the recursion of Total is defined. *)
LEMMA TotalSums ==
  ASSUME NEW s \in Seq(Int)
  PROVE  \E f : PartialSums(s, f)
<1> DEFINE k == Len(s)
           step == [n \in 1..k |-> [x \in Int |-> x + s[n]]]
           IsRun(r) == r = [n \in 0..k |-> IF n = 0 THEN 0 ELSE r[n - 1] + s[n]]
           run == CHOOSE r : IsRun(r)
<1>1. k \in Nat /\ \A n \in 1..k : s[n] \in Int
  OBVIOUS
<1>2. step \in [1..k -> [Int -> Int]]
  BY <1>1
<1>3. PICK f : Loops(f, k, Int, 0, step)
  <2> HIDE DEF k, step
  <2>1. 0 \in Int
    OBVIOUS
  <2> QED BY <1>1, <1>2, <2>1, LoopExists
<1>4. ASSUME NEW n \in 1..k
      PROVE  f[n] = f[n - 1] + s[n]
  <2>1. f[n] = step[n][f[n - 1]] /\ f[n - 1] \in Int
    <3> HIDE DEF step, k
    <3> QED BY <1>1, <1>3 DEF Loops
  <2> QED BY <2>1
<1>5. IsRun(f)
  <2> HIDE DEF k, step
  <2>1. f = [n \in 0..k |-> f[n]]
    BY <1>3 DEF Loops
  <2>2. ASSUME NEW n \in 0..k
        PROVE  f[n] = IF n = 0 THEN 0 ELSE f[n - 1] + s[n]
    BY <1>1, <1>3, <1>4 DEF Loops
  <2> QED BY <2>1, <2>2
<1>6. IsRun(run)
  <2> HIDE DEF IsRun
  <2> QED BY <1>5
<1>7. Total(s) = run[k]
  BY DEF Total
<1>8. run[0] = 0 /\ \A n \in 1..k : run[n] = run[n - 1] + s[n]
  <2> HIDE DEF run
  <2> QED BY <1>1, <1>6
<1>9. run[k] = f[k]
  <2> HIDE DEF run, k
  <2>1. Tracks(run, f, k)
    BY <1>3, <1>4, <1>8 DEF Tracks, Loops
  <2> QED BY <1>1, <2>1, LoopUnique
<1> QED BY <1>3, <1>4, <1>7, <1>9 DEF Loops, PartialSums

(* A sum of integers is one. *)
LEMMA TotalInt ==
  ASSUME NEW s \in Seq(Int)
  PROVE  Total(s) \in Int
BY TotalSums DEF PartialSums

(* Numbers that are each at least as large as another sequence's.           *)
LEMMA TotalMonotone ==
  ASSUME NEW s \in Seq(Int), NEW t \in Seq(Int), Len(s) = Len(t),
         \A n \in 1..Len(s) : s[n] <= t[n]
  PROVE  Total(s) <= Total(t)
<1>1. PICK f : PartialSums(s, f)
  BY TotalSums
<1>2. PICK g : PartialSums(t, g)
  BY TotalSums
<1> DEFINE k == Len(s)
           S == {n \in 0..k : f[n] <= g[n]}
<1>3. k \in Nat /\ \A n \in 1..k : s[n] \in Int /\ t[n] \in Int /\ s[n] <= t[n]
  OBVIOUS
<1>4. 0 \in S
  BY <1>1, <1>2, <1>3 DEF PartialSums
<1>5. ASSUME NEW n \in 0..k - 1, n \in S
      PROVE  n + 1 \in S
  <2>1. n + 1 \in 1..k /\ (n + 1) - 1 = n /\ n \in 0..k /\ n + 1 \in 0..k
    BY <1>3
  <2>2. f[n + 1] = f[n] + s[n + 1] /\ g[n + 1] = g[n] + t[n + 1]
        /\ f[n] \in Int /\ g[n] \in Int
    BY <1>1, <1>2, <2>1 DEF PartialSums
  <2> QED BY <1>3, <1>5, <2>1, <2>2
<1>6. k \in S
  <2> HIDE DEF S, k
  <2>1. 0..k \subseteq S
    BY <1>3, <1>4, <1>5, InductionUpTo
  <2> QED BY <1>3, <2>1
<1> QED BY <1>1, <1>2, <1>6 DEF PartialSums

(* The sum of T, 2 * T, ... n * T. *)
LEMMA TotalTriangle ==
  ASSUME NEW T \in Nat, NEW s \in Seq(Int), \A n \in 1..Len(s) : s[n] = n * T
  PROVE  2 * Total(s) = T * (Len(s) * (Len(s) + 1))
<1>1. PICK f : PartialSums(s, f)
  BY TotalSums
<1> DEFINE k == Len(s)
           h(n) == T * (n * (n + 1))
           S == {n \in 0..k : 2 * f[n] = h(n)}
<1>2. k \in Nat
  OBVIOUS
<1>3. 0 \in S
  BY <1>1, <1>2 DEF PartialSums
<1>4. ASSUME NEW n \in 0..k - 1, n \in S
      PROVE  n + 1 \in S
  <2>1. n + 1 \in 1..k /\ (n + 1) - 1 = n /\ n \in 0..k /\ n + 1 \in 0..k
    BY <1>2
  <2> DEFINE d == (n + 1) * T
  <2>2. f[n + 1] = f[n] + d /\ f[n] \in Int /\ d \in Int
    BY <1>1, <2>1 DEF PartialSums
  <2>3. h(n) + 2 * d = h(n + 1)
    BY <2>1, SMTT(30)
  <2> HIDE DEF h, d
  <2>4. 2 * f[n] = h(n)
    BY <1>4
  <2>5. 2 * f[n + 1] = 2 * f[n] + 2 * d
    BY <2>2
  <2>6. 2 * f[n + 1] = h(n + 1)
    BY <2>3, <2>4, <2>5, Zenon
  <2> QED BY <2>1, <2>6
<1>5. k \in S
  <2> HIDE DEF S, k, h
  <2>1. 0..k \subseteq S
    BY <1>2, <1>3, <1>4, InductionUpTo
  <2> QED BY <1>2, <2>1
<1> QED BY <1>1, <1>5 DEF PartialSums

-----------------------------------------------------------------------------
(* Extremes. *)

(* The smaller of two integers. *)
LEMMA MinOfTwo ==
  ASSUME NEW x \in Int, NEW y \in Int
  PROVE  Min({x, y}) = IF x <= y THEN x ELSE y
<1>1. \E m \in {x, y} : \A z \in {x, y} : m <= z
  OBVIOUS
<1>2. Min({x, y}) \in {x, y} /\ \A z \in {x, y} : Min({x, y}) <= z
  BY <1>1 DEF Min
<1> QED BY <1>2

(* The larger of two integers. *)
LEMMA MaxOfTwo ==
  ASSUME NEW x \in Int, NEW y \in Int
  PROVE  Max({x, y}) = IF x >= y THEN x ELSE y
<1>1. \E m \in {x, y} : \A z \in {x, y} : m >= z
  OBVIOUS
<1>2. Max({x, y}) \in {x, y} /\ \A z \in {x, y} : Max({x, y}) >= z
  BY <1>1 DEF Max
<1> QED BY <1>2

(* A clamp is in its range, and monotone. *)
LEMMA ClampIn ==
  ASSUME NEW x \in Int, NEW low \in Int, NEW high \in Int, low <= high
  PROVE  /\ Clamp(x, low, high) \in low..high
         /\ \A y \in Int : x <= y => Clamp(x, low, high) <= Clamp(y, low, high)
<1> DEFINE c(z) == IF z <= high THEN z ELSE high
<1>1. \A z \in Int : Clamp(z, low, high) = IF low >= c(z) THEN low ELSE c(z)
  <2> TAKE z \in Int
  <2>1. Min({z, high}) = c(z) /\ c(z) \in Int
    BY MinOfTwo
  <2> HIDE DEF c
  <2> QED BY <2>1, MaxOfTwo DEF Clamp
<1> QED BY <1>1

(* A target in range is one, whatever the retarget computes. *)
LEMMA InRangeType ==
  ASSUME NEW x \in Int
  PROVE  /\ InRange(x) \in 1..MaxTarget
         /\ \A y \in Int : x <= y => InRange(x) <= InRange(y)
<1>1. MaxTarget \in Int /\ 1 <= MaxTarget
  BY DifficultyAssumption
<1> QED BY <1>1, ClampIn DEF InRange

(* The least element of a set of naturals is in it. *)
LEMMA MinNat ==
  ASSUME NEW T, T \subseteq Nat, T # {}
  PROVE  Min(T) \in T /\ \A n \in T : Min(T) <= n
<1>1. \E m \in T : \A n \in T : m <= n
  BY LeastNat
<1> QED BY <1>1 DEF Min

(* A sequence of naturals has a largest element. *)
LEMMA LargestExists ==
  ASSUME NEW s \in Seq(Nat), Len(s) > 0
  PROVE  \E j \in 1..Len(s) : \A i \in 1..Len(s) : s[i] <= s[j]
<1> DEFINE k == Len(s)
           S == {n \in 0..k : n = 0 \/ \E j \in 1..n : \A i \in 1..n : s[i] <= s[j]}
<1>1. k \in Nat /\ k > 0 /\ \A i \in 1..k : s[i] \in Nat
  OBVIOUS
<1>2. 0 \in S
  BY <1>1
<1>3. ASSUME NEW n \in 0..k - 1, n \in S
      PROVE  n + 1 \in S
  <2>1. n \in Nat /\ n + 1 \in 1..k /\ n + 1 \in 0..k
    BY <1>1
  <2>2. CASE n = 0
    <3>1. 1 \in 1..n + 1 /\ \A i \in 1..n + 1 : s[i] <= s[1]
      BY <1>1, <2>1, <2>2
    <3> QED BY <2>1, <3>1
  <2>3. CASE n # 0
    <3>1. PICK j \in 1..n : \A i \in 1..n : s[i] <= s[j]
      BY <1>3, <2>3
    <3>2. j \in 1..k /\ \A i \in 1..n + 1 : i \in 1..k /\ (i = n + 1 \/ i \in 1..n)
      BY <2>1, <3>1
    <3>3. CASE s[j] <= s[n + 1]
      <4>1. \A i \in 1..n + 1 : s[i] <= s[n + 1]
        <5> HIDE DEF k
        <5> QED BY <1>1, <2>1, <3>1, <3>2, <3>3
      <4> QED BY <2>1, <4>1
    <3>4. CASE ~(s[j] <= s[n + 1])
      <4>1. \A i \in 1..n + 1 : s[i] <= s[j]
        <5> HIDE DEF k
        <5> QED BY <1>1, <2>1, <3>1, <3>2, <3>4
      <4>2. j \in 1..n + 1
        BY <2>1
      <4> QED BY <2>1, <4>1, <4>2
    <3> QED BY <3>3, <3>4
  <2> QED BY <2>2, <2>3
<1>4. 0..k \subseteq S
  <2>1. \A n \in 0..k - 1 : n \in S => n + 1 \in S
    BY <1>3
  <2> HIDE DEF S, k
  <2> QED BY <1>1, <1>2, <2>1, InductionUpTo
<1>5. k \in S
  <2> HIDE DEF S, k
  <2> QED BY <1>1, <1>4
<1> QED BY <1>1, <1>5

-----------------------------------------------------------------------------
(* Times and targets. *)

ChainBlock == [time : Nat, target : 1..MaxTarget, v3 : BOOLEAN]
Prefix == {p \in Seq(ChainBlock) : Len(p) > 0}

(* The elements of a prefix. *)
LEMMA PrefixAt ==
  ASSUME NEW p \in Prefix
  PROVE  /\ Len(p) \in Nat /\ Len(p) > 0 /\ p \in Seq(ChainBlock)
         /\ \A i \in 1..Len(p) : /\ p[i] \in ChainBlock
                                 /\ p[i].time \in Nat /\ p[i].target \in 1..MaxTarget
<1>1. p \in Seq(ChainBlock) /\ Len(p) \in Nat /\ Len(p) > 0
  BY DEF Prefix
<1>2. \A i \in 1..Len(p) : p[i] \in ChainBlock
  BY <1>1
<1>3. \A b \in ChainBlock : b.time \in Nat /\ b.target \in 1..MaxTarget
  BY DEF ChainBlock
<1> HIDE DEF ChainBlock
<1> QED BY <1>1, <1>2, <1>3

(* The median is the time of one of the blocks. *)
LEMMA MedianIsOne ==
  ASSUME NEW p \in Prefix
  PROVE  \E i \in 1..Len(p) : MedianTime(p) = p[i].time
<1> DEFINE n == Min({MedianSpan, Len(p)})
           s == LastTimes(p)
           T == {t \in Range(s) : Cardinality(NotLater(s, t)) > Len(s) \div 2}
<1>1. n \in 1..Len(p)
  BY PrefixAt, MinOfTwo, DifficultyAssumption
<1>2. /\ s \in Seq(Nat) /\ Len(s) = n /\ DOMAIN s = 1..n
      /\ \A i \in 1..n : Len(p) - n + i \in 1..Len(p) /\ s[i] = p[Len(p) - n + i].time
  <2>1. s = [i \in 1..n |-> p[Len(p) - n + i].time]
    BY DEF LastTimes
  <2> HIDE DEF n
  <2>2. \A i \in 1..n : Len(p) - n + i \in 1..Len(p)
    BY <1>1, PrefixAt
  <2>3. \A i \in 1..n : p[Len(p) - n + i].time \in Nat
    BY <2>2, PrefixAt
  <2>4. s \in [1..n -> Nat]
    BY <2>1, <2>3
  <2> HIDE DEF s
  <2>5. Len(p) \in Nat
    BY PrefixAt
  <2>6. n \in Nat
    BY <1>1, <2>5
  <2>7. s \in Seq(Nat) /\ Len(s) = n /\ DOMAIN s = 1..n
    BY <2>4, <2>6
  <2>8. \A i \in 1..n : s[i] = p[Len(p) - n + i].time
    BY <2>1
  <2> QED BY <2>2, <2>7, <2>8
<1> HIDE DEF n, s
<1>3. PICK j \in 1..n : \A i \in 1..n : s[i] <= s[j]
  <2>1. s \in Seq(Nat) /\ Len(s) > 0 /\ 1..Len(s) = 1..n
    BY <1>1, <1>2, PrefixAt
  <2>2. \E j \in 1..Len(s) : \A i \in 1..Len(s) : s[i] <= s[j]
    BY <2>1, LargestExists
  <2> QED BY <2>1, <2>2, Zenon
<1>4. NotLater(s, s[j]) = 1..n
  BY <1>2, <1>3 DEF NotLater
<1>5. Cardinality(1..n) = n /\ n > n \div 2
  BY <1>1, PrefixAt, FS_Interval
<1>6. s[j] \in Range(s)
  BY <1>2 DEF Range
<1>7. s[j] \in T
  BY <1>2, <1>4, <1>5, <1>6
<1>8. T \subseteq Nat
  BY <1>2 DEF Range
<1>9. MedianTime(p) = Min(T)
  BY DEF MedianTime, s
<1>10. Min(T) \in Range(s)
  <2>1. Min(T) \in T
    <3> HIDE DEF T
    <3> QED BY <1>7, <1>8, MinNat
  <2> QED BY <2>1
<1>11. PICK i \in 1..n : Min(T) = s[i]
  BY <1>2, <1>10 DEF Range
<1> QED BY <1>2, <1>9, <1>11

(* The legacy retarget stays in range. *)
LEMMA LegacyTargetType ==
  ASSUME NEW p \in Prefix
  PROVE  LegacyTarget(p) \in 1..MaxTarget
<1> DEFINE h == Len(p)
           window == Min({RetargetWindow, h - 1})
           expected == window * BlockTargetSpacing
           actual == Clamp(p[h].time - p[h - window].time, expected \div 4, expected * 4)
           s == [k \in 1..window |-> p[h - window + k].target]
           x == ((Total(s) \div window) * actual) \div expected
<1>1. CASE h < 2
  BY <1>1, DifficultyAssumption DEF LegacyTarget
<1>2. CASE ~(h < 2)
  <2>1. h \in Nat /\ h >= 2
    BY <1>2, PrefixAt
  <2>2. window \in 1..h - 1
    BY <2>1, MinOfTwo, DifficultyAssumption
  <2>3. BlockTargetSpacing \in Nat /\ BlockTargetSpacing > 0
    BY DifficultyAssumption
  <2>4. LegacyTarget(p) = InRange(x)
    <3> HIDE DEF window
    <3> QED BY <1>2 DEF LegacyTarget, window
  <2> HIDE DEF h, window
  <2>5. expected \in Nat /\ expected > 0
    BY <2>1, <2>2, <2>3
  <2> HIDE DEF expected
  <2>6. h \in 1..h /\ h - window \in 1..h /\ \A k \in 1..window : h - window + k \in 1..h
    BY <2>1, <2>2
  <2>7. p[h].time - p[h - window].time \in Int
    BY <2>6, PrefixAt DEF h
  <2>8. expected \div 4 \in Int /\ expected * 4 \in Int /\ expected \div 4 <= expected * 4
    BY <2>5
  <2>9. actual \in Int
    BY <2>7, <2>8, ClampIn
  <2>10. s \in Seq(Int) /\ window \in Nat /\ window > 0
    <3>1. \A k \in 1..window : p[h - window + k].target \in Int
      BY <2>6, PrefixAt DEF h
    <3>2. s \in [1..window -> Int]
      BY <3>1
    <3> HIDE DEF s
    <3> QED BY <2>1, <2>2, <3>2
  <2>11. Total(s) \in Int
    BY <2>10, TotalInt
  <2> HIDE DEF s, actual
  <2>12. Total(s) \div window \in Int
    BY <2>10, <2>11
  <2>13. (Total(s) \div window) * actual \in Int
    BY <2>9, <2>12
  <2>14. x \in Int
    BY <2>5, <2>13
  <2> QED BY <2>4, <2>14, InRangeType
<1> QED BY <1>1, <1>2

(* Products keep an order. *)
LEMMA ProductMonotone ==
  ASSUME NEW x \in Nat, NEW y \in Nat, NEW z \in Nat, x <= y
  PROVE  x * z <= y * z /\ z * x <= z * y /\ x * z \in Nat /\ z * x = x * z
<1>1. y - x \in Nat /\ y = x + (y - x)
  OBVIOUS
<1>2. (y - x) * z >= 0
  BY <1>1, SMTT(30)
<1>3. y * z = x * z + (y - x) * z
  BY <1>1, SMTT(30)
<1> QED BY <1>2, <1>3, SMTT(30)

(* A quotient is the largest number whose product with the divisor fits.   *)
LEMMA QuotientLargest ==
  ASSUME NEW x \in Nat, NEW y \in Nat, y > 0
  PROVE  /\ x \div y \in Nat
         /\ (x \div y) * y <= x
         /\ \A q \in Nat : q * y <= x => q <= x \div y
<1> DEFINE d == x \div y
           r == x % y
<1>1. d \in Nat /\ r \in 0..y - 1 /\ x = y * d + r
  BY SMTT(30)
<1>2. d * y <= x
  <2>1. d * y = y * d
    BY <1>1
  <2> QED BY <1>1, <2>1
<1>3. ASSUME NEW q \in Nat, q * y <= x, ~(q <= d)
      PROVE  FALSE
  <2>1. d + 1 <= q /\ d + 1 \in Nat
    BY <1>1, <1>3
  <2> HIDE DEF d, r
  <2>2. (d + 1) * y <= q * y
    BY <2>1, ProductMonotone
  <2>3. (d + 1) * y = y * d + y
    BY <1>1, SMTT(30)
  <2> QED BY <1>1, <1>3, <2>2, <2>3
<1> QED BY <1>1, <1>2, <1>3

(* A larger divisor gives a smaller quotient. *)
LEMMA QuotientAntitone ==
  ASSUME NEW x \in Nat, NEW y \in Nat, NEW z \in Nat, 0 < y, y <= z
  PROVE  x \div z <= x \div y
<1>1. x \div z \in Nat /\ (x \div z) * z <= x
  BY QuotientLargest
<1>2. (x \div z) * y <= (x \div z) * z
  BY <1>1, ProductMonotone
<1>3. (x \div z) * y \in Nat /\ (x \div z) * z \in Nat
  BY <1>1, SMTT(30)
<1>4. (x \div z) * y <= x
  BY <1>1, <1>2, <1>3
<1> QED BY <1>1, <1>4, QuotientLargest

(* The quotient that scales an average by the pace. *)
LEMMA ScaledAverage ==
  ASSUME NEW sum \in Nat, NEW K \in Nat, K > 0, NEW n \in Nat, n > 0,
         NEW w \in Nat, w > 0
  PROVE  /\ w <= K * n => sum \div n <= (sum * K) \div w
         /\ w >= K * n => sum \div n >= (sum * K) \div w
<1> DEFINE a == sum \div n
           b == (sum * K) \div w
           c == sum * K
<1>1. a \in Nat /\ a * n <= sum /\ \A q \in Nat : q * n <= sum => q <= a
  BY QuotientLargest
<1>2. c \in Nat
  BY SMTT(30)
<1>3. b \in Nat /\ b * w <= c /\ \A q \in Nat : q * w <= c => q <= b
  <2> HIDE DEF c
  <2> QED BY <1>2, QuotientLargest DEF c
<1> HIDE DEF a, b
<1>4. K * n \in Nat
  BY SMTT(30)
<1>5. ASSUME w <= K * n
      PROVE  a <= b
  <2>1. a * w <= a * (K * n)
    BY <1>1, <1>4, <1>5, ProductMonotone
  <2>2. a * (K * n) = (a * n) * K
    BY <1>1, SMTT(30)
  <2>3. a * n \in Nat
    BY <1>1, SMTT(30)
  <2>4. (a * n) * K <= sum * K
    BY <1>1, <2>3, ProductMonotone
  <2>5. a * w \in Nat /\ (a * n) * K \in Nat
    BY <1>1, <2>3, SMTT(30)
  <2>6. a * w <= c
    BY <1>2, <2>1, <2>2, <2>4, <2>5
  <2> QED BY <1>1, <1>3, <2>6
<1>6. ASSUME w >= K * n
      PROVE  b <= a
  <2>1. b * (K * n) <= b * w
    BY <1>3, <1>4, <1>6, ProductMonotone
  <2>2. b * (K * n) = (b * n) * K
    BY <1>3, SMTT(30)
  <2>3. b * n \in Nat
    BY <1>3, SMTT(30)
  <2>4. (b * n) * K \in Nat /\ b * w \in Nat
    BY <1>3, <2>3, SMTT(30)
  <2>5. (b * n) * K <= sum * K
    BY <1>2, <1>3, <2>1, <2>2, <2>4
  <2>6. b * n <= sum
    <3> DEFINE u == b * n
    <3>1. ASSUME ~(u <= sum)
          PROVE  FALSE
      <4>1. sum + 1 <= u /\ sum + 1 \in Nat /\ u \in Nat
        BY <2>3, <3>1
      <4> HIDE DEF u
      <4>2. (sum + 1) * K <= u * K
        BY <4>1, ProductMonotone
      <4>3. (sum + 1) * K = sum * K + K
        BY SMTT(30)
      <4>4. u * K <= sum * K
        BY <2>5 DEF u
      <4>5. sum * K \in Nat /\ u * K \in Nat
        BY <4>1, SMTT(30)
      <4> QED BY <4>2, <4>3, <4>4, <4>5
    <3> QED BY <3>1
  <2> QED BY <1>1, <1>3, <2>6
<1> QED BY <1>5, <1>6 DEF a, b

-----------------------------------------------------------------------------
(* LWMA. *)

(* The window lies in the prefix. *)
LEMMA WindowInPrefix ==
  ASSUME NEW p \in Prefix, Len(p) >= LWMAWindow + 1
  PROVE  \A k \in 1..LWMAWindow : InWindow(p, k) \in 2..Len(p)
BY PrefixAt, DifficultyAssumption DEF InWindow

(* Solve times count from one second up. *)
LEMMA SolveTimeType ==
  ASSUME NEW p \in Prefix, NEW i \in 2..Len(p)
  PROVE  SolveTime(p, i) \in Nat /\ SolveTime(p, i) > 0
<1> DEFINE x == p[i].time - p[i - 1].time
           top == 10 * BlockTargetSpacing
<1>1. p[i].time \in Nat /\ p[i - 1].time \in Nat
  BY PrefixAt
<1>2. x \in Int
  BY <1>1
<1>3. BlockTargetSpacing \in Nat /\ BlockTargetSpacing > 0
  BY DifficultyAssumption
<1>4. top \in Int /\ 1 <= top
  BY <1>3
<1>5. SolveTime(p, i) = Clamp(x, 1, top)
  BY DEF SolveTime
<1> HIDE DEF x, top
<1>6. SolveTime(p, i) \in 1..top
  BY <1>2, <1>4, <1>5, ClampIn
<1> QED BY <1>4, <1>6

(* The work of a target. *)
LEMMA WorkOfType == \A g \in 1..MaxTarget : WorkOf(g) \in Nat
<1> TAKE g \in 1..MaxTarget
<1>1. HashSpace \in Nat /\ g + 1 \in Nat /\ g + 1 > 0
  BY DifficultyAssumption
<1> QED BY <1>1, QuotientLargest DEF WorkOf

(* A sum of naturals is no less than any of them, here than the first.     *)
LEMMA TotalNat ==
  ASSUME NEW s \in Seq(Nat)
  PROVE  Total(s) \in Nat /\ (Len(s) > 0 => Total(s) >= s[1])
<1>1. s \in Seq(Int)
  OBVIOUS
<1>2. PICK f : PartialSums(s, f)
  BY <1>1, TotalSums
<1> DEFINE k == Len(s)
           S == {n \in 0..k : f[n] >= 0 /\ (n > 0 => f[n] >= s[1])}
<1>3. k \in Nat /\ \A n \in 1..k : s[n] \in Nat
  OBVIOUS
<1>4. 0 \in S
  BY <1>2, <1>3 DEF PartialSums
<1>5. ASSUME NEW n \in 0..k - 1, n \in S
      PROVE  n + 1 \in S
  <2>1. n + 1 \in 1..k /\ (n + 1) - 1 = n /\ n \in 0..k /\ n + 1 \in 0..k /\ 1 \in 1..k
    BY <1>3
  <2>2. f[n + 1] = f[n] + s[n + 1] /\ f[n] \in Int
    BY <1>2, <2>1 DEF PartialSums
  <2>3. s[n + 1] \in Nat /\ s[1] \in Nat
    BY <1>3, <2>1
  <2>4. CASE n = 0
    BY <1>2, <2>1, <2>2, <2>3, <2>4 DEF PartialSums
  <2>5. CASE n # 0
    BY <1>5, <2>1, <2>2, <2>3, <2>5
  <2> QED BY <2>4, <2>5
<1>6. k \in S
  <2> HIDE DEF S, k
  <2>1. 0..k \subseteq S
    BY <1>3, <1>4, <1>5, InductionUpTo
  <2> QED BY <1>3, <2>1
<1>7. Total(s) = f[k] /\ Total(s) \in Int
  BY <1>1, <1>2, TotalInt DEF PartialSums
<1> QED BY <1>6, <1>7

(* The work and the weighted times of a window. *)
LEMMA WindowTypes ==
  ASSUME NEW p \in Prefix, Len(p) >= LWMAWindow + 1
  PROVE  /\ WindowWork(p) \in Nat
         /\ WeightedTimes(p) \in Nat /\ WeightedTimes(p) > 0
         /\ [k \in 1..LWMAWindow |-> k * SolveTime(p, InWindow(p, k))] \in Seq(Nat)
<1> DEFINE works == [k \in 1..LWMAWindow |-> WorkOf(p[InWindow(p, k)].target)]
           times == [k \in 1..LWMAWindow |-> k * SolveTime(p, InWindow(p, k))]
<1>1. LWMAWindow \in Nat /\ LWMAWindow > 0
  BY DifficultyAssumption
<1>2. \A k \in 1..LWMAWindow : InWindow(p, k) \in 2..Len(p)
  BY WindowInPrefix
<1>3. works \in Seq(Nat)
  <2>1. \A k \in 1..LWMAWindow : InWindow(p, k) \in 1..Len(p)
    BY <1>2, PrefixAt
  <2>2. \A k \in 1..LWMAWindow : WorkOf(p[InWindow(p, k)].target) \in Nat
    BY <2>1, PrefixAt, WorkOfType
  <2>3. works \in [1..LWMAWindow -> Nat]
    BY <2>2
  <2> HIDE DEF works
  <2> QED BY <1>1, <2>3
<1>4. \A k \in 1..LWMAWindow : /\ SolveTime(p, InWindow(p, k)) \in Nat
                               /\ SolveTime(p, InWindow(p, k)) > 0
  BY <1>2, SolveTimeType
<1>5. times \in Seq(Nat) /\ Len(times) = LWMAWindow
  <2>1. \A k \in 1..LWMAWindow : k * SolveTime(p, InWindow(p, k)) \in Nat
    <3> TAKE k \in 1..LWMAWindow
    <3> DEFINE t == SolveTime(p, InWindow(p, k))
    <3>1. t \in Nat /\ k \in Nat
      BY <1>1, <1>4
    <3> HIDE DEF t
    <3>2. k * t \in Nat
      BY <3>1, SMTT(30)
    <3> QED BY <3>2 DEF t
  <2>2. times \in [1..LWMAWindow -> Nat]
    BY <2>1
  <2> HIDE DEF times
  <2> QED BY <1>1, <2>2
<1>6. times[1] > 0
  <2>1. 1 \in 1..LWMAWindow
    BY <1>1
  <2>2. times[1] = 1 * SolveTime(p, InWindow(p, 1))
    BY <2>1
  <2> QED BY <1>4, <2>1, <2>2
<1>7. Total(works) \in Nat
  BY <1>3, TotalNat
<1>8. Total(times) \in Nat /\ Total(times) >= times[1] /\ times[1] \in Nat
  <2> HIDE DEF times
  <2> QED BY <1>1, <1>5, TotalNat
<1>9. Total(times) > 0
  <2> HIDE DEF times
  <2> QED BY <1>6, <1>8
<1> QED BY <1>5, <1>7, <1>8, <1>9 DEF WindowWork, WeightedTimes

(* A difficulty of at least one, and the target it stands for.              *)
LEMMA DifficultyToTarget ==
  ASSUME NEW d \in Nat, NEW e \in Nat
  PROVE  /\ InRange(HashSpace \div Max({1, d}) - 1) \in 1..MaxTarget
         /\ d <= e => InRange(HashSpace \div Max({1, e}) - 1)
                        <= InRange(HashSpace \div Max({1, d}) - 1)
<1> DEFINE m(x) == IF 1 >= x THEN 1 ELSE x
<1>1. Max({1, d}) = m(d) /\ Max({1, e}) = m(e)
  BY MaxOfTwo
<1>2. m(d) \in Nat /\ m(d) > 0 /\ m(e) \in Nat /\ m(e) > 0 /\ (d <= e => m(d) <= m(e))
  OBVIOUS
<1> HIDE DEF m
<1>3. HashSpace \in Nat
  BY DifficultyAssumption
<1>4. HashSpace \div m(d) \in Nat /\ HashSpace \div m(e) \in Nat
  BY <1>2, <1>3, QuotientLargest
<1>5. ASSUME d <= e
      PROVE  HashSpace \div m(e) <= HashSpace \div m(d)
  BY <1>2, <1>3, <1>5, QuotientAntitone
<1> DEFINE u == HashSpace \div m(d)
           v == HashSpace \div m(e)
<1> HIDE DEF u, v
<1>6. u - 1 \in Int /\ v - 1 \in Int /\ (d <= e => v - 1 <= u - 1)
  <2>1. u \in Nat /\ v \in Nat /\ (d <= e => v <= u)
    BY <1>4, <1>5 DEF u, v
  <2> QED BY <2>1
<1>7. InRange(u - 1) \in 1..MaxTarget /\ (d <= e => InRange(v - 1) <= InRange(u - 1))
  BY <1>6, InRangeType
<1> QED BY <1>1, <1>7 DEF u, v

(* The difficulty LWMA asks for. *)
LWMADifficulty(p) == (WindowWork(p) * LWMAScale) \div (2 * WeightedTimes(p))

(* A full window has one, and the target follows from it. *)
LEMMA LWMAFull ==
  ASSUME NEW p \in Prefix, Len(p) >= LWMAWindow + 1
  PROVE  /\ LWMADifficulty(p) \in Nat
         /\ LWMATarget(p) = InRange(HashSpace \div Max({1, LWMADifficulty(p)}) - 1)
<1> DEFINE w == WeightedTimes(p)
           x == WindowWork(p)
<1>1. x \in Nat /\ w \in Nat /\ w > 0
  BY WindowTypes
<1>2. LWMAScale \in Nat
  BY DifficultyAssumption, SMTT(30) DEF LWMAScale
<1>3. LWMATarget(p) = InRange(HashSpace \div Max({1, LWMADifficulty(p)}) - 1)
  <2>1. ~(Len(p) < LWMAWindow + 1)
    BY PrefixAt, DifficultyAssumption
  <2> QED BY <2>1 DEF LWMATarget, LWMADifficulty
<1> HIDE DEF w, x
<1>4. x * LWMAScale \in Nat /\ 2 * w \in Nat /\ 2 * w > 0
  BY <1>1, <1>2, SMTT(30)
<1>5. (x * LWMAScale) \div (2 * w) \in Nat
  BY <1>4, QuotientLargest
<1> QED BY <1>3, <1>5 DEF LWMADifficulty, w, x

(* The LWMA retarget stays in range. *)
LEMMA LWMATargetType ==
  ASSUME NEW p \in Prefix
  PROVE  LWMATarget(p) \in 1..MaxTarget
<1>1. CASE Len(p) < LWMAWindow + 1
  BY <1>1, LegacyTargetType DEF LWMATarget
<1>2. CASE ~(Len(p) < LWMAWindow + 1)
  <2>1. Len(p) >= LWMAWindow + 1
    BY <1>2, PrefixAt, DifficultyAssumption
  <2> QED BY <2>1, LWMAFull, DifficultyToTarget
<1> QED BY <1>1, <1>2

(* So does the target of every prefix, whatever the activation height.     *)
LEMMA TargetFromType ==
  ASSUME NEW p \in Prefix, NEW a
  PROVE  TargetFrom(p, a) \in 1..MaxTarget
BY LegacyTargetType, LWMATargetType DEF TargetFrom

(* The pace of a window bounds its weighted times. *)
LEMMA WeightedTimesBound ==
  ASSUME NEW p \in Prefix, Len(p) >= LWMAWindow + 1
  PROVE  /\ (\A k \in 1..LWMAWindow : SolveTime(p, InWindow(p, k)) <= BlockTargetSpacing)
              => 2 * WeightedTimes(p) <= LWMAScale * LWMAWindow
         /\ (\A k \in 1..LWMAWindow : SolveTime(p, InWindow(p, k)) >= BlockTargetSpacing)
              => 2 * WeightedTimes(p) >= LWMAScale * LWMAWindow
<1> DEFINE N == LWMAWindow
           T == BlockTargetSpacing
           times == [k \in 1..N |-> k * SolveTime(p, InWindow(p, k))]
           even == [k \in 1..N |-> k * T]
<1>1. N \in Nat /\ N > 0 /\ T \in Nat
  BY DifficultyAssumption
<1>2. times \in Seq(Int) /\ Len(times) = N
  <2>1. times \in Seq(Nat)
    BY WindowTypes
  <2>2. Len(times) = N
    <3>1. DOMAIN times = 1..N
      OBVIOUS
    <3> HIDE DEF times, N
    <3> QED BY <1>1, <2>1, <3>1
  <2> HIDE DEF times, N
  <2> QED BY <2>1, <2>2
<1>3. even \in Seq(Int) /\ Len(even) = N /\ \A k \in 1..N : even[k] = k * T
  <2>1. \A k \in 1..N : k * T \in Int
    <3> HIDE DEF N, T
    <3> QED BY <1>1, SMTT(30)
  <2>2. even \in [1..N -> Int]
    BY <2>1
  <2>3. \A k \in 1..N : even[k] = k * T
    OBVIOUS
  <2> HIDE DEF even, N, T
  <2> QED BY <1>1, <2>2, <2>3
<1>4. WeightedTimes(p) = Total(times)
  BY DEF WeightedTimes
<1>5. 2 * Total(even) = LWMAScale * N /\ Total(even) \in Int /\ Total(times) \in Int
  <2>1. 2 * Total(even) = T * (N * (N + 1))
    <3> HIDE DEF even, N, T
    <3> QED BY <1>1, <1>3, TotalTriangle
  <2>2. T * (N * (N + 1)) = (T * (N + 1)) * N
    <3> HIDE DEF N, T
    <3> QED BY <1>1, SMTT(30)
  <2>3. LWMAScale = T * (N + 1)
    BY DEF LWMAScale
  <2>4. Total(even) \in Int /\ Total(times) \in Int
    <3> HIDE DEF even, times
    <3> QED BY <1>2, <1>3, TotalInt
  <2> QED BY <2>1, <2>2, <2>3, <2>4
<1>6. \A k \in 1..N : /\ times[k] = k * SolveTime(p, InWindow(p, k))
                      /\ SolveTime(p, InWindow(p, k)) \in Nat
                      /\ k \in Nat
  BY <1>1, WindowInPrefix, SolveTimeType
<1>7. ASSUME \A k \in 1..N : SolveTime(p, InWindow(p, k)) <= T
      PROVE  Total(times) <= Total(even)
  <2>1. \A k \in 1..N : times[k] <= even[k]
    <3> TAKE k \in 1..N
    <3> DEFINE t == SolveTime(p, InWindow(p, k))
    <3>1. t \in Nat /\ k \in Nat /\ t <= T /\ times[k] = k * t /\ even[k] = k * T
      BY <1>3, <1>6, <1>7
    <3> HIDE DEF t, times, even, T
    <3>2. k * t <= k * T
      BY <1>1, <3>1, ProductMonotone
    <3> QED BY <3>1, <3>2
  <2> HIDE DEF times, even, N
  <2> QED BY <1>2, <1>3, <2>1, TotalMonotone
<1>8. ASSUME \A k \in 1..N : SolveTime(p, InWindow(p, k)) >= T
      PROVE  Total(times) >= Total(even)
  <2>1. \A k \in 1..N : even[k] <= times[k]
    <3> TAKE k \in 1..N
    <3> DEFINE t == SolveTime(p, InWindow(p, k))
    <3>1. t \in Nat /\ k \in Nat /\ T <= t /\ times[k] = k * t /\ even[k] = k * T
      BY <1>1, <1>3, <1>6, <1>8
    <3> HIDE DEF t, times, even, T
    <3>2. k * T <= k * t
      BY <1>1, <3>1, ProductMonotone
    <3> QED BY <3>1, <3>2
  <2> HIDE DEF times, even, N
  <2>2. Total(even) <= Total(times)
    BY <1>2, <1>3, <2>1, TotalMonotone
  <2> QED BY <1>5, <2>2
<1> HIDE DEF times, even
<1> QED BY <1>4, <1>5, <1>7, <1>8 DEF N, T

(* The retarget steers. *)
LEMMA LWMASteersOf ==
  ASSUME NEW p \in Prefix, Len(p) >= LWMAWindow + 1
  PROVE  LET average == InRange(HashSpace \div Max({1, WindowWork(p) \div LWMAWindow}) - 1)
         IN /\ (\A k \in 1..LWMAWindow : SolveTime(p, InWindow(p, k)) <= BlockTargetSpacing)
                 => LWMATarget(p) <= average
            /\ (\A k \in 1..LWMAWindow : SolveTime(p, InWindow(p, k)) >= BlockTargetSpacing)
                 => LWMATarget(p) >= average
<1> DEFINE d == LWMADifficulty(p)
           e == WindowWork(p) \div LWMAWindow
           w == 2 * WeightedTimes(p)
           x == WindowWork(p)
<1>1. /\ LWMAWindow \in Nat /\ LWMAWindow > 0
      /\ LWMAScale \in Nat /\ LWMAScale > 0
  <2>1. BlockTargetSpacing \in Nat /\ BlockTargetSpacing > 0 /\ LWMAWindow \in Nat /\ LWMAWindow > 0
    BY DifficultyAssumption
  <2>2. BlockTargetSpacing * (LWMAWindow + 1) \in Nat /\ BlockTargetSpacing * (LWMAWindow + 1) > 0
    BY <2>1, SMTT(30)
  <2> QED BY <2>1, <2>2 DEF LWMAScale
<1>2. x \in Nat /\ w \in Nat /\ w > 0
  <2>1. x \in Nat /\ WeightedTimes(p) \in Nat /\ WeightedTimes(p) > 0
    BY WindowTypes
  <2> QED BY <2>1
<1> HIDE DEF x, w
<1>3. /\ w <= LWMAScale * LWMAWindow => x \div LWMAWindow <= (x * LWMAScale) \div w
      /\ w >= LWMAScale * LWMAWindow => x \div LWMAWindow >= (x * LWMAScale) \div w
  BY <1>1, <1>2, ScaledAverage
<1>4. d = (x * LWMAScale) \div w /\ e = x \div LWMAWindow
  BY DEF LWMADifficulty, x, w
<1>5. d \in Nat /\ LWMATarget(p) = InRange(HashSpace \div Max({1, d}) - 1)
  BY LWMAFull
<1>6. e \in Nat
  BY <1>1, <1>2, <1>4, QuotientLargest
<1> HIDE DEF d, e
<1> DEFINE average == InRange(HashSpace \div Max({1, e}) - 1)
<1>7. (e <= d => LWMATarget(p) <= average) /\ (d <= e => average <= LWMATarget(p))
  BY <1>5, <1>6, DifficultyToTarget
<1>8. average \in Int /\ LWMATarget(p) \in Int
  BY <1>5, <1>6, DifficultyToTarget
<1>9. ASSUME \A k \in 1..LWMAWindow : SolveTime(p, InWindow(p, k)) <= BlockTargetSpacing
      PROVE  LWMATarget(p) <= average
  <2>1. w <= LWMAScale * LWMAWindow
    BY <1>9, WeightedTimesBound DEF w
  <2> QED BY <1>3, <1>4, <1>7, <2>1
<1>10. ASSUME \A k \in 1..LWMAWindow : SolveTime(p, InWindow(p, k)) >= BlockTargetSpacing
       PROVE  LWMATarget(p) >= average
  <2>1. w >= LWMAScale * LWMAWindow
    BY <1>10, WeightedTimesBound DEF w
  <2>2. d <= e
    BY <1>3, <1>4, <1>5, <1>6, <2>1
  <2>3. average <= LWMATarget(p)
    BY <1>7, <2>2
  <2> HIDE DEF average
  <2> QED BY <1>8, <2>3
<1> QED BY <1>9, <1>10 DEF e

-----------------------------------------------------------------------------
(* The activation height. *)

Reached(p) == {a \in SignalWindow..Len(p) : Signalled(p, a)}

(* It is the first height that is reached. *)
LEMMA ActivationIs ==
  ASSUME NEW p \in Prefix
  PROVE  /\ Activation(p) \in 0..Len(p)
         /\ Activation(p) # 0 => /\ Activation(p) \in Reached(p)
                                 /\ \A a \in Reached(p) : Activation(p) <= a
         /\ \A a \in Reached(p) : Activation(p) # 0
<1>1. SignalWindow \in Nat /\ SignalWindow > 0 /\ Len(p) \in Nat
  BY PrefixAt, DifficultyAssumption
<1>2. Reached(p) \subseteq Nat /\ \A a \in Reached(p) : a \in 1..Len(p)
  BY <1>1 DEF Reached
<1>3. Activation(p) = IF Reached(p) = {} THEN 0 ELSE Min(Reached(p))
  BY DEF Activation, Reached
<1>4. CASE Reached(p) = {}
  BY <1>1, <1>3, <1>4
<1>5. CASE Reached(p) # {}
  <2>1. Min(Reached(p)) \in Reached(p) /\ \A a \in Reached(p) : Min(Reached(p)) <= a
    BY <1>2, <1>5, MinNat
  <2> QED BY <1>1, <1>2, <1>3, <1>5, <2>1
<1> QED BY <1>4, <1>5

(* A chain that shares the blocks up to it has the same. *)
LEMMA ActivationKept ==
  ASSUME NEW p \in Prefix, NEW q \in Prefix, Activation(p) # 0,
         Activation(p) <= Len(q),
         \A i \in 1..Activation(p) : q[i] = p[i]
  PROVE  Activation(q) = Activation(p)
<1> DEFINE a == Activation(p)
<1>1. /\ SignalWindow \in Nat /\ SignalWindow > 0 /\ Len(p) \in Nat /\ Len(q) \in Nat
      /\ a \in Nat /\ a <= Len(p) /\ a <= Len(q) /\ a # 0
      /\ a \in Reached(p) /\ \A b \in Reached(p) : a <= b
  BY PrefixAt, DifficultyAssumption, ActivationIs
<1>2. \A i \in 1..a : q[i] = p[i]
  OBVIOUS
<1> HIDE DEF a
<1>3. ASSUME NEW b \in SignalWindow..a
      PROVE  Signalled(p, b) <=> Signalled(q, b)
  <2>1. \A i \in b - SignalWindow + 1 .. b : p[i] = q[i]
    <3>1. \A i \in b - SignalWindow + 1 .. b : i \in 1..a
      BY <1>1
    <3> QED BY <1>2, <3>1
  <2>2. {i \in b - SignalWindow + 1 .. b : p[i].v3} = {i \in b - SignalWindow + 1 .. b : q[i].v3}
    BY <2>1
  <2> QED BY <2>2 DEF Signalled
<1>4. a \in Reached(q)
  <2>1. a \in SignalWindow..a /\ Signalled(p, a) /\ a \in SignalWindow..Len(q)
    BY <1>1 DEF Reached
  <2> QED BY <1>3, <2>1 DEF Reached
<1>5. \A b \in Reached(q) : a <= b
  <2>1. SUFFICES ASSUME NEW b \in Reached(q), ~(a <= b)
                 PROVE  FALSE
    OBVIOUS
  <2>2. b \in SignalWindow..a /\ b \in SignalWindow..Len(p) /\ Signalled(q, b)
    BY <1>1, <2>1 DEF Reached
  <2>3. b \in Reached(p)
    BY <1>3, <2>2 DEF Reached
  <2> QED BY <1>1, <2>1, <2>3
<1>6. /\ Activation(q) # 0 /\ Activation(q) \in Reached(q)
      /\ Activation(q) <= a /\ a <= Activation(q) /\ Activation(q) \in Nat
  <2>1. Activation(q) # 0 /\ Activation(q) \in 0..Len(q)
    BY <1>4, ActivationIs
  <2>2. Activation(q) \in Reached(q) /\ Activation(q) <= a
    BY <1>4, <2>1, ActivationIs
  <2> QED BY <1>1, <1>5, <2>1, <2>2
<1> QED BY <1>1, <1>6 DEF a

-----------------------------------------------------------------------------
(* The validation of a candidate. *)

AccType == [ok : BOOLEAN, prefix : Prefix, cache : Nat, filled : Nat]

IsOffer(b) == b = TheBlock(b.time, b.target, b.v3) /\ b.time \in Int /\ b.v3 \in BOOLEAN

(* One more block on a prefix. *)
LEMMA PrefixAppend ==
  ASSUME NEW p \in Prefix, NEW b \in ChainBlock
  PROVE  /\ Append(p, b) \in Prefix
         /\ Len(Append(p, b)) = Len(p) + 1
         /\ Append(p, b)[Len(p) + 1] = b
         /\ \A i \in 1..Len(p) : Append(p, b)[i] = p[i]
<1>1. p \in Seq(ChainBlock) /\ Len(p) \in Nat
  BY PrefixAt
<1>2. Append(p, b) \in Seq(ChainBlock) /\ Len(Append(p, b)) = Len(p) + 1
      /\ Append(p, b)[Len(p) + 1] = b /\ \A i \in 1..Len(p) : Append(p, b)[i] = p[i]
  BY <1>1, AppendProperties
<1> QED BY <1>1, <1>2 DEF Prefix

(* The start of a prefix. *)
LEMMA PrefixCut ==
  ASSUME NEW p \in Prefix, NEW n \in 1..Len(p)
  PROVE  /\ SubSeq(p, 1, n) \in Prefix
         /\ Len(SubSeq(p, 1, n)) = n
         /\ \A i \in 1..n : SubSeq(p, 1, n)[i] = p[i]
<1>1. p \in Seq(ChainBlock) /\ Len(p) \in Nat
  BY PrefixAt
<1>2. SubSeq(p, 1, n) \in Seq(ChainBlock) /\ Len(SubSeq(p, 1, n)) = n
      /\ \A i \in 1..n : SubSeq(p, 1, n)[i] = p[i]
  BY <1>1, SubSeqProperties
<1> QED BY <1>1, <1>2 DEF Prefix

(* Equal starts are equal. *)
LEMMA SameCut ==
  ASSUME NEW p \in Prefix, NEW q \in Prefix, NEW n \in Nat, n > 0,
         n <= Len(p), n <= Len(q), \A i \in 1..n : p[i] = q[i]
  PROVE  SubSeq(p, 1, n) = SubSeq(q, 1, n)
<1>1. n \in 1..Len(p) /\ n \in 1..Len(q)
  BY PrefixAt
<1> DEFINE s == SubSeq(p, 1, n)
           t == SubSeq(q, 1, n)
<1>2. s \in Seq(ChainBlock) /\ Len(s) = n /\ \A i \in 1..n : s[i] = p[i]
  BY <1>1, PrefixCut, PrefixAt
<1>3. t \in Seq(ChainBlock) /\ Len(t) = n /\ \A i \in 1..n : t[i] = q[i]
  BY <1>1, PrefixCut, PrefixAt
<1> HIDE DEF s, t
<1>4. s = t
  BY <1>2, <1>3, SeqEqual
<1> QED BY <1>4 DEF s, t

(* What one block changes. *)
LEMMA ValidateNextIs ==
  ASSUME NEW acc \in AccType, NEW b, IsOffer(b)
  PROVE  LET r == ValidateNext(acc, b)
             p == acc.prefix
         IN  /\ r \in AccType
             /\ \/ /\ ~r.ok /\ r.prefix = p
                   /\ r.cache = acc.cache /\ r.filled = acc.filled
                \/ /\ acc.ok /\ TimeOK(p, b)
                   /\ r.cache = CacheAfter(acc.cache, p)
                   /\ r.filled = IF r.cache # acc.cache THEN Len(p) ELSE acc.filled
                   /\ \/ ~r.ok /\ r.prefix = p
                      \/ /\ r.ok /\ b \in ChainBlock /\ r.prefix = Append(p, b)
                         /\ b.target = TargetFrom(p, Used(acc.cache, p))
<1> DEFINE r == ValidateNext(acc, b)
           p == acc.prefix
           cache == CacheAfter(acc.cache, p)
           filled == IF cache # acc.cache THEN Len(p) ELSE acc.filled
<1>1. /\ p \in Prefix /\ acc.cache \in Nat /\ acc.filled \in Nat /\ acc.ok \in BOOLEAN
      /\ acc = [ok |-> acc.ok, prefix |-> p, cache |-> acc.cache, filled |-> acc.filled]
  BY DEF AccType
<1>2. Len(p) \in Nat
  BY <1>1, PrefixAt
<1>3. cache \in Nat
  <2>1. Activation(p) \in Nat
    BY <1>1, <1>2, ActivationIs
  <2> QED BY <1>1, <2>1 DEF CacheAfter, Used
<1>4. filled \in Nat
  BY <1>1, <1>2
<1>5. CASE ~acc.ok \/ ~TimeOK(p, b)
  <2>1. r = [ok |-> FALSE, prefix |-> p, cache |-> acc.cache, filled |-> acc.filled]
    BY <1>5 DEF ValidateNext
  <2> HIDE DEF r, p
  <2> QED BY <1>1, <2>1 DEF AccType, r, p
<1>6. CASE acc.ok /\ TimeOK(p, b) /\ b.target # TargetFrom(p, Used(acc.cache, p))
  <2>1. r = [ok |-> FALSE, prefix |-> p, cache |-> cache, filled |-> filled]
    BY <1>6 DEF ValidateNext
  <2> HIDE DEF r, p, cache
  <2> QED BY <1>1, <1>3, <1>4, <1>6, <2>1 DEF AccType, r, p, cache
<1>7. CASE acc.ok /\ TimeOK(p, b) /\ b.target = TargetFrom(p, Used(acc.cache, p))
  <2>1. r = [ok |-> TRUE, prefix |-> Append(p, b), cache |-> cache, filled |-> filled]
    BY <1>7 DEF ValidateNext
  <2>2. b \in ChainBlock
    <3>1. b.target \in 1..MaxTarget
      BY <1>1, <1>7, TargetFromType
    <3>2. PICK i \in 1..Len(p) : MedianTime(p) = p[i].time
      BY <1>1, MedianIsOne
    <3>3. MedianTime(p) \in Nat
      BY <1>1, <3>2, PrefixAt
    <3>4. b.time \in Nat
      <4>1. b.time > MedianTime(p) /\ b.time \in Int
        BY <1>7 DEF TimeOK, IsOffer
      <4> QED BY <3>3, <4>1
    <3>5. b = [time |-> b.time, target |-> b.target, v3 |-> b.v3] /\ b.v3 \in BOOLEAN
      BY DEF IsOffer, TheBlock
    <3> QED BY <3>1, <3>4, <3>5 DEF ChainBlock
  <2>3. Append(p, b) \in Prefix
    BY <1>1, <2>2, PrefixAppend
  <2> HIDE DEF r, p, cache
  <2> QED BY <1>1, <1>3, <1>4, <1>7, <2>1, <2>2, <2>3 DEF AccType, r, p, cache
<1> QED BY <1>1, <1>5, <1>6, <1>7


-----------------------------------------------------------------------------
(* A candidate, block by block. *)

IsCandidate(new) == Len(new) \in Nat /\ Len(new) > 0 /\ \A n \in 1..Len(new) : IsOffer(new[n])

BaseAcc(start) ==
  [ok |-> TRUE, prefix |-> SubSeq(blocks, 1, start), cache |-> lwmaAct, filled |-> 0]

AccRun(start, new, f) ==
  /\ f[0] = BaseAcc(start)
  /\ \A n \in 0..Len(new) : f[n] \in AccType
  /\ \A n \in 1..Len(new) : f[n] = ValidateNext(f[n - 1], new[n])
  /\ Outcome(start, new) = f[Len(new)]

(* The recursion of Outcome is defined. *)
LEMMA OutcomeRuns ==
  ASSUME blocks \in Prefix, lwmaAct \in Nat,
         NEW start \in 1..Len(blocks), NEW new, IsCandidate(new)
  PROVE  \E f : AccRun(start, new, f)
<1> DEFINE k == Len(new)
           base == BaseAcc(start)
           step == [n \in 1..k |-> [x \in AccType |-> ValidateNext(x, new[n])]]
           IsRun(r) == r = [n \in 0..k |-> IF n = 0 THEN base ELSE ValidateNext(r[n - 1], new[n])]
           run == CHOOSE r : IsRun(r)
<1>1. k \in Nat /\ \A n \in 1..k : IsOffer(new[n])
  BY DEF IsCandidate
<1>2. base \in AccType
  <2>1. SubSeq(blocks, 1, start) \in Prefix
    BY PrefixCut
  <2> QED BY <2>1 DEF AccType, BaseAcc
<1>3. \A n \in 1..k : \A x \in AccType : ValidateNext(x, new[n]) \in AccType
  BY <1>1, ValidateNextIs
<1>4. step \in [1..k -> [AccType -> AccType]]
  BY <1>3
<1>5. PICK f : Loops(f, k, AccType, base, step)
  <2> HIDE DEF k, step, base
  <2> QED BY <1>1, <1>2, <1>4, LoopExists
<1>6. ASSUME NEW n \in 1..k
      PROVE  f[n] = ValidateNext(f[n - 1], new[n])
  <2>1. f[n] = step[n][f[n - 1]] /\ f[n - 1] \in AccType
    <3> HIDE DEF step, k, base
    <3> QED BY <1>1, <1>5 DEF Loops
  <2> QED BY <2>1
<1>7. IsRun(f)
  <2> HIDE DEF k, step, base
  <2>1. f = [n \in 0..k |-> f[n]]
    BY <1>5 DEF Loops
  <2>2. ASSUME NEW n \in 0..k
        PROVE  f[n] = IF n = 0 THEN base ELSE ValidateNext(f[n - 1], new[n])
    BY <1>1, <1>5, <1>6 DEF Loops
  <2> QED BY <2>1, <2>2
<1>8. IsRun(run)
  <2> HIDE DEF IsRun
  <2> QED BY <1>7
<1>9. Outcome(start, new) = run[k]
  BY DEF Outcome, BaseAcc
<1>10. run[0] = base /\ \A n \in 1..k : run[n] = ValidateNext(run[n - 1], new[n])
  <2> HIDE DEF run, base
  <2> QED BY <1>1, <1>8
<1>11. run[k] = f[k]
  <2> HIDE DEF run, k, base
  <2>1. Tracks(run, f, k)
    BY <1>5, <1>6, <1>10 DEF Tracks, Loops
  <2> QED BY <1>1, <2>1, LoopUnique
<1>12. \A n \in 0..k : f[n] \in AccType
  <2> HIDE DEF k, step, base
  <2> QED BY <1>5 DEF Loops
<1> QED BY <1>5, <1>6, <1>9, <1>11, <1>12 DEF Loops, AccRun

(* What holds of every stage of a candidate holds of its outcome. *)
LEMMA OutcomeInduction ==
  ASSUME blocks \in Prefix, lwmaAct \in Nat,
         NEW start \in 1..Len(blocks), NEW new, IsCandidate(new), NEW S,
         <<BaseAcc(start), 0>> \in S,
         \A n \in 1..Len(new) : \A acc \in AccType :
           <<acc, n - 1>> \in S => <<ValidateNext(acc, new[n]), n>> \in S
  PROVE  <<Outcome(start, new), Len(new)>> \in S /\ Outcome(start, new) \in AccType
<1>1. PICK f : AccRun(start, new, f)
  BY OutcomeRuns
<1> DEFINE k == Len(new)
           T == {n \in 0..k : <<f[n], n>> \in S}
<1>2. k \in Nat
  BY DEF IsCandidate
<1>3. 0 \in T
  BY <1>1, <1>2 DEF AccRun
<1>4. ASSUME NEW n \in 0..k - 1, n \in T
      PROVE  n + 1 \in T
  <2>1. n + 1 \in 1..k /\ (n + 1) - 1 = n /\ n + 1 \in 0..k /\ n \in 0..k
    BY <1>2
  <2>2. f[n] \in AccType /\ f[n + 1] = ValidateNext(f[n], new[n + 1])
    BY <1>1, <2>1 DEF AccRun
  <2>3. <<ValidateNext(f[n], new[n + 1]), n + 1>> \in S
    BY <1>4, <2>1, <2>2
  <2> QED BY <2>1, <2>2, <2>3
<1>5. k \in T
  <2>1. \A n \in 0..k - 1 : n \in T => n + 1 \in T
    BY <1>4
  <2> HIDE DEF T, k
  <2>2. 0..k \subseteq T
    BY <1>2, <1>3, <2>1, InductionUpTo
  <2> QED BY <1>2, <2>2
<1> QED BY <1>1, <1>2, <1>5 DEF AccRun

-----------------------------------------------------------------------------
(* The stages of a candidate. *)

(* It grows above the fork, with times that were within the drift. *)
Grown(acc, start, n) ==
  /\ start <= Len(acc.prefix) /\ Len(acc.prefix) <= start + n
  /\ acc.ok => Len(acc.prefix) = start + n
  /\ \A i \in 1..start : acc.prefix[i] = blocks[i]
  /\ \A i \in 1..Len(acc.prefix) : acc.prefix[i].time <= clock + MaxFutureDrift
  /\ acc.cache <= MaxLength

(* Every target is what a node with an empty cache would ask for. *)
FreshTargets(p) == \A i \in 2..Len(p) : p[i].target = ExpectedTarget(SubSeq(p, 1, i - 1))

(* The cache is the height of the switch, and what filled it is buried. *)
Fresh(acc, start) ==
  /\ FreshTargets(acc.prefix)
  /\ acc.cache # 0 => acc.cache = Activation(acc.prefix)
  /\ acc.cache # lwmaAct =>
       /\ lwmaAct = 0
       /\ start <= acc.filled /\ acc.filled <= Len(acc.prefix)
       /\ acc.filled >= acc.cache + MaxReorgDepth
  /\ acc.cache = lwmaAct => acc.filled = 0

(* The bounds of the first. *)
LEMMA GrownNext ==
  ASSUME NEW start \in Nat, NEW n \in Nat, start > 0, n > 0, clock \in Nat,
         start + n <= MaxLength,
         NEW acc \in AccType, Grown(acc, start, n - 1), NEW b, IsOffer(b)
  PROVE  Grown(ValidateNext(acc, b), start, n)
<1> DEFINE r == ValidateNext(acc, b)
           p == acc.prefix
<1>1. p \in Prefix /\ acc.cache \in Nat /\ r \in AccType /\ r.ok \in BOOLEAN /\ r.prefix \in Prefix
  BY ValidateNextIs DEF AccType
<1>2. /\ \/ /\ ~r.ok /\ r.prefix = p
            /\ r.cache = acc.cache
         \/ /\ acc.ok /\ TimeOK(p, b)
            /\ r.cache = CacheAfter(acc.cache, p)
            /\ \/ ~r.ok /\ r.prefix = p
               \/ r.ok /\ b \in ChainBlock /\ r.prefix = Append(p, b)
  BY ValidateNextIs
<1>3. /\ Len(p) \in Nat /\ start <= Len(p) /\ Len(p) <= start + (n - 1)
      /\ acc.ok => Len(p) = start + (n - 1)
      /\ \A i \in 1..start : p[i] = blocks[i]
      /\ \A i \in 1..Len(p) : p[i].time <= clock + MaxFutureDrift
      /\ acc.cache <= MaxLength /\ MaxLength \in Nat
  BY <1>1, PrefixAt, DifficultyAssumption DEF Grown
<1>4. CacheAfter(acc.cache, p) <= MaxLength
  <2>1. Activation(p) \in 0..Len(p)
    BY <1>1, ActivationIs
  <2>2. Activation(p) <= MaxLength
    BY <1>3, <2>1
  <2> QED BY <1>3, <2>2 DEF CacheAfter, Used
<1>5. CASE r.prefix = p /\ ~r.ok
  <2> HIDE DEF r, p
  <2> QED BY <1>1, <1>2, <1>3, <1>4, <1>5 DEF Grown, r
<1>6. CASE r.ok /\ acc.ok /\ TimeOK(p, b) /\ b \in ChainBlock /\ r.prefix = Append(p, b)
           /\ r.cache = CacheAfter(acc.cache, p)
  <2>1. /\ Len(r.prefix) = Len(p) + 1 /\ r.prefix[Len(p) + 1] = b
        /\ \A i \in 1..Len(p) : r.prefix[i] = p[i]
    BY <1>1, <1>6, PrefixAppend
  <2>2. b.time <= clock + MaxFutureDrift
    BY <1>6 DEF TimeOK
  <2> HIDE DEF r, p
  <2>3. ASSUME NEW i \in 1..Len(r.prefix)
        PROVE  r.prefix[i].time <= clock + MaxFutureDrift
    <3>1. CASE i = Len(p) + 1
      BY <2>1, <2>2, <3>1
    <3>2. CASE i # Len(p) + 1
      <4>1. i \in 1..Len(p)
        BY <1>3, <2>1, <3>2
      <4> QED BY <1>3, <2>1, <4>1
    <3> QED BY <3>1, <3>2
  <2>4. \A i \in 1..start : r.prefix[i] = blocks[i]
    <3>1. \A i \in 1..start : i \in 1..Len(p)
      BY <1>3
    <3> QED BY <1>3, <2>1, <3>1
  <2>5. start <= Len(r.prefix) /\ Len(r.prefix) = start + n
    BY <1>3, <1>6, <2>1
  <2>6. r.cache <= MaxLength
    BY <1>4, <1>6
  <2>7. start <= Len(r.prefix) /\ Len(r.prefix) <= start + n
    BY <2>5
  <2> QED BY <2>3, <2>4, <2>5, <2>6, <2>7 DEF Grown, r
<1> QED BY <1>2, <1>5, <1>6

(* One more target on a prefix whose targets are fresh. *)
LEMMA FreshAppend ==
  ASSUME NEW p \in Prefix, NEW b \in ChainBlock, FreshTargets(p),
         b.target = ExpectedTarget(p)
  PROVE  FreshTargets(Append(p, b))
<1> DEFINE q == Append(p, b)
<1>1. /\ q \in Prefix /\ Len(q) = Len(p) + 1 /\ q[Len(p) + 1] = b
      /\ \A i \in 1..Len(p) : q[i] = p[i]
  BY PrefixAppend
<1>2. Len(p) \in Nat /\ Len(p) > 0
  BY PrefixAt
<1> HIDE DEF q
<1>3. ASSUME NEW i \in 2..Len(q)
      PROVE  q[i].target = ExpectedTarget(SubSeq(q, 1, i - 1))
  <2>1. i - 1 \in Nat /\ i - 1 > 0 /\ i - 1 <= Len(p) /\ i - 1 <= Len(q)
        /\ \A j \in 1..i - 1 : q[j] = p[j]
    BY <1>1, <1>2
  <2>2. SubSeq(q, 1, i - 1) = SubSeq(p, 1, i - 1)
    BY <1>1, <2>1, SameCut
  <2>3. CASE i = Len(p) + 1
    <3>1. i - 1 = Len(p) /\ p \in Seq(ChainBlock)
      BY <1>2, <2>3, PrefixAt
    <3>2. SubSeq(p, 1, Len(p)) = p
      BY <3>1
    <3> QED BY <1>1, <2>2, <2>3, <3>1, <3>2
  <2>4. CASE i # Len(p) + 1
    <3>1. i \in 2..Len(p) /\ i \in 1..Len(p)
      BY <1>1, <1>2, <2>4
    <3>2. p[i].target = ExpectedTarget(SubSeq(p, 1, i - 1))
      BY <3>1 DEF FreshTargets
    <3> QED BY <1>1, <2>2, <3>1, <3>2
  <2> QED BY <2>3, <2>4
<1> QED BY <1>3 DEF FreshTargets, q

(* A cut of a prefix whose targets are fresh has fresh targets. *)
LEMMA FreshCut ==
  ASSUME NEW p \in Prefix, FreshTargets(p), NEW n \in 1..Len(p)
  PROVE  FreshTargets(SubSeq(p, 1, n))
<1> DEFINE q == SubSeq(p, 1, n)
<1>1. q \in Prefix /\ Len(q) = n /\ \A i \in 1..n : q[i] = p[i]
  BY PrefixCut
<1>2. Len(p) \in Nat /\ n \in Nat /\ n <= Len(p)
  BY PrefixAt
<1> HIDE DEF q
<1>3. ASSUME NEW i \in 2..Len(q)
      PROVE  q[i].target = ExpectedTarget(SubSeq(q, 1, i - 1))
  <2>1. i - 1 \in Nat /\ i - 1 > 0 /\ i - 1 <= Len(p) /\ i - 1 <= Len(q)
        /\ i \in 1..n /\ i \in 2..Len(p) /\ \A j \in 1..i - 1 : q[j] = p[j]
    BY <1>1, <1>2
  <2>2. SubSeq(q, 1, i - 1) = SubSeq(p, 1, i - 1)
    BY <1>1, <2>1, SameCut
  <2>3. p[i].target = ExpectedTarget(SubSeq(p, 1, i - 1))
    BY <2>1 DEF FreshTargets
  <2> QED BY <1>1, <2>1, <2>2, <2>3
<1> QED BY <1>3 DEF FreshTargets, q

(* The freshness of one more stage. *)
LEMMA FreshNext ==
  ASSUME NEW start \in Nat, NEW acc \in AccType, lwmaAct \in Nat,
         start <= Len(acc.prefix), Fresh(acc, start), NEW b, IsOffer(b)
  PROVE  Fresh(ValidateNext(acc, b), start)
<1> DEFINE r == ValidateNext(acc, b)
           p == acc.prefix
<1>1. /\ p \in Prefix /\ acc.cache \in Nat /\ acc.filled \in Nat
      /\ r.ok \in BOOLEAN /\ r.cache \in Nat
      /\ Len(p) \in Nat /\ start <= Len(p) /\ MaxReorgDepth \in Nat
  BY ValidateNextIs, PrefixAt, DifficultyAssumption DEF AccType
<1>2. /\ \/ /\ ~r.ok /\ r.prefix = p
            /\ r.cache = acc.cache /\ r.filled = acc.filled
         \/ /\ acc.ok /\ TimeOK(p, b)
            /\ r.cache = CacheAfter(acc.cache, p)
            /\ r.filled = IF r.cache # acc.cache THEN Len(p) ELSE acc.filled
            /\ \/ ~r.ok /\ r.prefix = p
               \/ /\ r.ok /\ b \in ChainBlock /\ r.prefix = Append(p, b)
                  /\ b.target = TargetFrom(p, Used(acc.cache, p))
  BY ValidateNextIs
<1>3. /\ FreshTargets(p)
      /\ acc.cache # 0 => acc.cache = Activation(p)
      /\ acc.cache # lwmaAct =>
           lwmaAct = 0 /\ start <= acc.filled /\ acc.filled <= Len(p)
           /\ acc.filled >= acc.cache + MaxReorgDepth
      /\ acc.cache = lwmaAct => acc.filled = 0
  BY DEF Fresh
<1>4. Activation(p) \in Nat
  BY <1>1, ActivationIs
<1>5. Used(acc.cache, p) = Activation(p)
  BY <1>3 DEF Used
<1>6. LET c == CacheAfter(acc.cache, p)
      IN  /\ c # 0 => c = Activation(p)
          /\ c # acc.cache => acc.cache = 0 /\ c # 0 /\ Len(p) >= c + MaxReorgDepth
  BY <1>3, <1>5 DEF CacheAfter, Buried
<1> HIDE DEF r, p
<1>7. /\ r.cache # 0 => r.cache = Activation(p)
      /\ r.cache # lwmaAct =>
           lwmaAct = 0 /\ start <= r.filled /\ r.filled <= Len(p)
           /\ r.filled >= r.cache + MaxReorgDepth
      /\ r.cache = lwmaAct => r.filled = 0
  <2>1. CASE r.cache = acc.cache /\ r.filled = acc.filled
    BY <1>3, <2>1
  <2>2. CASE ~(r.cache = acc.cache /\ r.filled = acc.filled)
    <3>1. r.cache = CacheAfter(acc.cache, p) /\ r.cache # acc.cache /\ r.filled = Len(p)
      BY <1>2, <2>2
    <3>2. acc.cache = 0 /\ r.cache # 0 /\ Len(p) >= r.cache + MaxReorgDepth
          /\ r.cache = Activation(p)
      BY <1>6, <3>1
    <3>3. lwmaAct = 0
      BY <1>3, <3>2
    <3> QED BY <1>1, <3>1, <3>2, <3>3
  <2> QED BY <2>1, <2>2
<1>8. CASE r.prefix = p
  BY <1>3, <1>7, <1>8 DEF Fresh, r
<1>9. CASE b \in ChainBlock /\ r.prefix = Append(p, b)
           /\ b.target = TargetFrom(p, Used(acc.cache, p))
  <2>1. /\ r.prefix \in Prefix /\ Len(r.prefix) = Len(p) + 1
        /\ \A i \in 1..Len(p) : r.prefix[i] = p[i]
    BY <1>1, <1>9, PrefixAppend
  <2>2. FreshTargets(r.prefix)
    <3>1. b.target = ExpectedTarget(p)
      BY <1>5, <1>9 DEF ExpectedTarget
    <3> QED BY <1>1, <1>3, <1>9, <3>1, FreshAppend
  <2>3. r.cache # 0 => r.cache = Activation(r.prefix)
    <3>1. SUFFICES ASSUME r.cache # 0
                   PROVE  r.cache = Activation(r.prefix)
      OBVIOUS
    <3>2. Activation(p) # 0 /\ Activation(p) \in 0..Len(p)
      BY <1>1, <1>7, <3>1, ActivationIs
    <3>3. Activation(p) <= Len(r.prefix) /\ \A i \in 1..Activation(p) : r.prefix[i] = p[i]
      BY <1>1, <2>1, <3>2
    <3>4. Activation(r.prefix) = Activation(p)
      BY <1>1, <2>1, <3>2, <3>3, ActivationKept
    <3> QED BY <1>7, <3>1, <3>4
  <2>4. r.cache # lwmaAct => r.filled <= Len(r.prefix)
    <3>1. r.filled <= Len(p) /\ r.filled \in Nat => r.filled <= Len(r.prefix)
      BY <1>1, <2>1
    <3>2. r.filled \in Nat
      BY <1>1, <1>2
    <3> QED BY <1>7, <3>1, <3>2
  <2> QED BY <1>7, <2>2, <2>3, <2>4 DEF Fresh, r
<1> QED BY <1>2, <1>8, <1>9

-----------------------------------------------------------------------------
(* The candidates that are offered. *)

(* An offer on a prefix whose last time is known is a block. *)
LEMMA OffersAre ==
  ASSUME NEW p, p[Len(p)].time \in Int
  PROVE  \A b \in Offers(p) : IsOffer(b)
<1>1. TimeSteps \subseteq Int
  BY DifficultyAssumption
<1> TAKE b \in Offers(p)
<1>2. PICK d \in TimeSteps, g \in {ExpectedTarget(p), 1}, v \in BOOLEAN :
        b = TheBlock(p[Len(p)].time + d, g, v)
  BY DEF Offers
<1>3. p[Len(p)].time + d \in Int
  BY <1>1
<1> QED BY <1>2, <1>3 DEF IsOffer, TheBlock

(* Runs of one or two of them are candidates. *)
LEMMA RunsAre ==
  ASSUME blocks \in Prefix, NEW start \in 1..Len(blocks), NEW new \in Runs(start)
  PROVE  IsCandidate(new)
<1> DEFINE p == SubSeq(blocks, 1, start)
           one == {<<b>> : b \in Offers(p)}
           two == UNION {{<<s[1], b>> : b \in Offers(p \o s)} : s \in one}
<1>1. p \in Prefix /\ Len(p) \in Nat /\ Len(p) > 0
  BY PrefixCut, PrefixAt
<1>2. p[Len(p)].time \in Int
  BY <1>1, PrefixAt
<1>3. \A b \in Offers(p) : IsOffer(b)
  BY <1>2, OffersAre
<1>4. new \in one \/ new \in two
  BY DEF Runs
<1>5. CASE new \in one
  <2>1. PICK b \in Offers(p) : new = <<b>>
    BY <1>5
  <2> QED BY <1>3, <2>1 DEF IsCandidate
<1>6. CASE new \in two
  <2>1. PICK s \in one : \E b \in Offers(p \o s) : new = <<s[1], b>>
    BY <1>6
  <2>2. PICK b \in Offers(p \o s) : new = <<s[1], b>>
    BY <2>1
  <2>3. PICK c \in Offers(p) : s = <<c>>
    OBVIOUS
  <2>4. IsOffer(c)
    BY <1>3
  <2>5. p \in Seq(ChainBlock)
    BY <1>1, PrefixAt
  <2> DEFINE q == p \o s
  <2>6. Len(q) = Len(p) + 1 /\ q[Len(p) + 1] = c
    <3> HIDE DEF p
    <3> DEFINE C == ChainBlock \cup {c}
    <3>1. p \in Seq(C) /\ s \in Seq(C) /\ Len(s) = 1 /\ s[1] = c
      BY <2>3, <2>5
    <3>2. Len(p) + 1 \in 1..Len(p) + 1 /\ ~(Len(p) + 1 <= Len(p)) /\ (Len(p) + 1) - Len(p) = 1
      BY <1>1
    <3> HIDE DEF C
    <3>3. Len(q) = Len(p) + Len(s)
          /\ \A i \in 1..Len(p) + Len(s) : q[i] = IF i <= Len(p) THEN p[i] ELSE s[i - Len(p)]
      BY <3>1, ConcatProperties
    <3> QED BY <3>1, <3>2, <3>3
  <2>7. q[Len(q)].time \in Int
    BY <2>4, <2>6 DEF IsOffer
  <2>8. IsOffer(b)
    <3> HIDE DEF q
    <3>1. \A x \in Offers(q) : IsOffer(x)
      BY <2>7, OffersAre
    <3> QED BY <3>1 DEF q
  <2>9. Len(new) = 2 /\ new[1] = c /\ new[2] = b
    BY <2>2, <2>3
  <2> HIDE DEF p, one, two, q
  <2> QED BY <2>4, <2>8, <2>9 DEF IsCandidate
<1> QED BY <1>4, <1>5, <1>6

-----------------------------------------------------------------------------
(* The inductive invariants. *)

(* Times that were within the drift when they were checked still are. *)
TimesInv ==
  /\ blocks \in Prefix /\ Len(blocks) <= MaxLength
  /\ lwmaAct \in Nat /\ lwmaAct <= MaxLength
  /\ clock \in Nat /\ strayed \in BOOLEAN
  /\ \A i \in 1..Len(blocks) : blocks[i].time <= clock + MaxFutureDrift

FreshInv ==
  ~strayed => /\ FreshTargets(blocks)
              /\ lwmaAct # 0 => /\ lwmaAct = Activation(blocks)
                                /\ Len(blocks) >= lwmaAct + MaxReorgDepth

(* The genesis block is a prefix. *)
LEMMA GenesisPrefix ==
  LET g == <<TheBlock(GenesisTime, GenesisTarget, FALSE)>>
  IN  g \in Prefix /\ Len(g) = 1 /\ g[1].time = GenesisTime
<1>1. TheBlock(GenesisTime, GenesisTarget, FALSE) \in ChainBlock
  BY DifficultyAssumption DEF ChainBlock, TheBlock
<1>2. TheBlock(GenesisTime, GenesisTarget, FALSE).time = GenesisTime
  BY DEF TheBlock
<1>3. ASSUME NEW b \in ChainBlock
      PROVE  <<b>> \in Prefix /\ Len(<<b>>) = 1 /\ <<b>>[1] = b
  <2> HIDE DEF ChainBlock
  <2> QED BY DEF Prefix
<1> DEFINE b == TheBlock(GenesisTime, GenesisTarget, FALSE)
<1> HIDE DEF b
<1>4. b \in ChainBlock /\ b.time = GenesisTime
  BY <1>1, <1>2 DEF b
<1>5. <<b>> \in Prefix /\ Len(<<b>>) = 1 /\ <<b>>[1].time = GenesisTime
  BY <1>3, <1>4
<1> QED BY <1>5 DEF b

(* What an outcome is, once its candidate was run. *)
LEMMA OutcomeGrown ==
  ASSUME TimesInv, NEW start \in 1..Len(blocks), NEW new, IsCandidate(new),
         start + Len(new) <= MaxLength
  PROVE  Outcome(start, new) \in AccType /\ Grown(Outcome(start, new), start, Len(new))
<1> DEFINE S == {x \in AccType \X Nat : Grown(x[1], start, x[2])}
<1>1. blocks \in Prefix /\ lwmaAct \in Nat /\ clock \in Nat /\ start \in Nat /\ start > 0
      /\ Len(blocks) \in Nat /\ MaxLength \in Nat
  BY PrefixAt, DifficultyAssumption DEF TimesInv
<1>2. <<BaseAcc(start), 0>> \in S
  <2> DEFINE q == SubSeq(blocks, 1, start)
             a == BaseAcc(start)
  <2>1. q \in Prefix /\ Len(q) = start /\ \A i \in 1..start : q[i] = blocks[i]
    BY <1>1, PrefixCut
  <2>2. a \in AccType /\ a.prefix = q /\ a.cache = lwmaAct
    <3> HIDE DEF q
    <3>1. a = [ok |-> TRUE, prefix |-> q, cache |-> lwmaAct, filled |-> 0]
      BY DEF BaseAcc, q
    <3> QED BY <1>1, <2>1, <3>1 DEF AccType
  <2>3. lwmaAct <= MaxLength /\ \A i \in 1..start : blocks[i].time <= clock + MaxFutureDrift
    BY <1>1 DEF TimesInv
  <2> HIDE DEF a, q
  <2>4. Grown(a, start, 0)
    BY <1>1, <2>1, <2>2, <2>3 DEF Grown
  <2> QED BY <2>2, <2>4 DEF a
<1>3. ASSUME NEW n \in 1..Len(new), NEW acc \in AccType, <<acc, n - 1>> \in S
      PROVE  <<ValidateNext(acc, new[n]), n>> \in S
  <2>1. Len(new) \in Nat /\ n \in Nat /\ n > 0 /\ start + n <= MaxLength /\ IsOffer(new[n])
    BY <1>1 DEF IsCandidate
  <2>2. Grown(acc, start, n - 1)
    BY <1>3
  <2>3. Grown(ValidateNext(acc, new[n]), start, n)
    BY <1>1, <2>1, <2>2, GrownNext
  <2>4. ValidateNext(acc, new[n]) \in AccType
    BY <2>1, ValidateNextIs
  <2> QED BY <2>1, <2>3, <2>4
<1>4. <<Outcome(start, new), Len(new)>> \in S /\ Outcome(start, new) \in AccType
  <2>1. \A n \in 1..Len(new) : \A acc \in AccType :
          <<acc, n - 1>> \in S => <<ValidateNext(acc, new[n]), n>> \in S
    BY <1>3
  <2> HIDE DEF S
  <2> QED BY <1>1, <1>2, <2>1, OutcomeInduction
<1> QED BY <1>4

(* A reorg within the cap leaves the switch that a buried cache holds. *)
LEMMA OutcomeFresh ==
  ASSUME MaxReorgDepth > 0, TimesInv, FreshInv, ~strayed,
         NEW start \in 1..Len(blocks), NEW new, IsCandidate(new),
         start + Len(new) <= MaxLength, Considered(start, new)
  PROVE  Fresh(Outcome(start, new), start)
<1> DEFINE S == {x \in AccType \X Nat : start <= Len(x[1].prefix) /\ Fresh(x[1], start)}
<1>1. blocks \in Prefix /\ lwmaAct \in Nat /\ start \in Nat /\ start > 0
      /\ Len(blocks) \in Nat /\ start <= Len(blocks) /\ MaxReorgDepth \in Nat
  BY PrefixAt, DifficultyAssumption DEF TimesInv
<1>2. <<BaseAcc(start), 0>> \in S
  <2> DEFINE q == SubSeq(blocks, 1, start)
             a == BaseAcc(start)
  <2>1. q \in Prefix /\ Len(q) = start /\ \A i \in 1..start : q[i] = blocks[i]
    BY <1>1, PrefixCut
  <2>2. FreshTargets(q)
    BY <1>1, FreshCut DEF FreshInv
  <2>3. a \in AccType /\ a.prefix = q /\ a.cache = lwmaAct /\ a.filled = 0
    <3> HIDE DEF q
    <3>1. a = [ok |-> TRUE, prefix |-> q, cache |-> lwmaAct, filled |-> 0]
      BY DEF BaseAcc, q
    <3> QED BY <1>1, <2>1, <3>1 DEF AccType
  <2>4. lwmaAct # 0 => lwmaAct = Activation(q)
    <3>1. SUFFICES ASSUME lwmaAct # 0
                   PROVE  lwmaAct = Activation(q)
      OBVIOUS
    <3>2. lwmaAct = Activation(blocks) /\ Len(blocks) >= lwmaAct + MaxReorgDepth
      BY <3>1 DEF FreshInv
    <3>3. Len(blocks) - start <= MaxReorgDepth
      BY <1>1 DEF Considered
    <3>4. lwmaAct <= start
      BY <1>1, <3>2, <3>3
    <3> HIDE DEF q
    <3>5. Activation(blocks) # 0 /\ Activation(blocks) <= Len(q)
          /\ \A i \in 1..Activation(blocks) : q[i] = blocks[i]
      BY <1>1, <2>1, <3>1, <3>2, <3>4
    <3> QED BY <1>1, <2>1, <3>2, <3>5, ActivationKept
  <2> HIDE DEF a, q
  <2>5. Fresh(a, start) /\ start <= Len(a.prefix)
    BY <1>1, <2>1, <2>2, <2>3, <2>4 DEF Fresh
  <2> QED BY <2>3, <2>5 DEF a
<1>3. ASSUME NEW n \in 1..Len(new), NEW acc \in AccType, <<acc, n - 1>> \in S
      PROVE  <<ValidateNext(acc, new[n]), n>> \in S
  <2>1. n \in Nat /\ IsOffer(new[n])
    BY DEF IsCandidate
  <2>2. start <= Len(acc.prefix) /\ Fresh(acc, start)
    BY <1>3
  <2> DEFINE r == ValidateNext(acc, new[n])
  <2>3. Fresh(r, start)
    BY <1>1, <2>1, <2>2, FreshNext
  <2>4. r \in AccType /\ (r.prefix = acc.prefix \/ Len(r.prefix) = Len(acc.prefix) + 1)
    <3>1. acc.prefix \in Prefix
      BY DEF AccType
    <3> QED BY <2>1, <3>1, ValidateNextIs, PrefixAppend
  <2>5. start <= Len(r.prefix)
    <3>1. Len(acc.prefix) \in Nat
      BY PrefixAt DEF AccType
    <3> HIDE DEF r
    <3> QED BY <1>1, <2>2, <2>4, <3>1
  <2> HIDE DEF r
  <2> QED BY <2>1, <2>3, <2>4, <2>5 DEF r
<1>4. <<Outcome(start, new), Len(new)>> \in S
  <2>1. \A n \in 1..Len(new) : \A acc \in AccType :
          <<acc, n - 1>> \in S => <<ValidateNext(acc, new[n]), n>> \in S
    BY <1>3
  <2> HIDE DEF S
  <2> QED BY <1>1, <1>2, <2>1, OutcomeInduction
<1> QED BY <1>4

-----------------------------------------------------------------------------
(* The steps. *)

(* The initial states have the times. *)
LEMMA InitTimes == Init => TimesInv
<1> SUFFICES ASSUME Init
             PROVE  TimesInv
  OBVIOUS
<1>1. blocks \in Prefix /\ Len(blocks) = 1 /\ blocks[1].time = GenesisTime
  BY GenesisPrefix DEF Init
<1>2. lwmaAct = 0 /\ clock = GenesisTime /\ strayed = FALSE
  BY DEF Init
<1>3. GenesisTime \in Nat /\ MaxFutureDrift \in Nat /\ MaxLength \in Nat /\ MaxLength >= 1
  BY DifficultyAssumption
<1>4. \A i \in 1..Len(blocks) : blocks[i].time <= clock + MaxFutureDrift
  <2> TAKE i \in 1..Len(blocks)
  <2>1. i = 1
    BY <1>1
  <2>2. blocks[i].time = GenesisTime
    BY <1>1, <2>1
  <2> QED BY <1>2, <1>3, <2>2
<1>5. Len(blocks) <= MaxLength /\ lwmaAct \in Nat /\ lwmaAct <= MaxLength /\ clock \in Nat
  BY <1>1, <1>2, <1>3
<1>6. strayed \in BOOLEAN
  BY <1>2
<1> QED BY <1>1, <1>4, <1>5, <1>6 DEF TimesInv

(* Every step keeps them. *)
LEMMA NextTimes == TimesInv /\ [Next]_diffVars => TimesInv'
<1> SUFFICES ASSUME TimesInv, [Next]_diffVars
             PROVE  TimesInv'
  OBVIOUS
<1>1. ASSUME NEW start \in 1..Len(blocks), NEW new \in Runs(start),
             start + Len(new) <= MaxLength, TryAdoptChain(start, new)
      PROVE  TimesInv'
  <2> DEFINE out == Outcome(start, new)
  <2>1. blocks \in Prefix /\ lwmaAct \in Nat /\ strayed \in BOOLEAN /\ Len(blocks) \in Nat
        /\ clock' = clock /\ start \in Nat /\ MaxLength \in Nat
    BY <1>1, PrefixAt, DifficultyAssumption DEF TimesInv, TryAdoptChain
  <2>2. IsCandidate(new) /\ Len(new) \in Nat
    BY <2>1, RunsAre DEF IsCandidate
  <2>3. out \in AccType /\ Grown(out, start, Len(new))
    BY <1>1, <2>2, OutcomeGrown
  <2>4. out.prefix \in Prefix /\ out.cache \in Nat /\ out.ok \in BOOLEAN /\ out.filled \in Nat
        /\ Len(out.prefix) \in Nat
    BY <2>3, PrefixAt DEF AccType
  <2>5. Len(out.prefix) <= MaxLength /\ out.cache <= MaxLength
        /\ \A i \in 1..Len(out.prefix) : out.prefix[i].time <= clock + MaxFutureDrift
    BY <1>1, <2>1, <2>2, <2>3, <2>4 DEF Grown
  <2>6. CASE Considered(start, new)
    <3>1. /\ blocks' = IF out.ok THEN out.prefix ELSE blocks
          /\ lwmaAct' = out.cache
          /\ strayed' \in BOOLEAN
      BY <1>1, <2>6 DEF TryAdoptChain
    <3> HIDE DEF out
    <3> QED BY <2>1, <2>4, <2>5, <3>1 DEF TimesInv
  <2>7. CASE ~Considered(start, new)
    BY <1>1, <2>7 DEF TryAdoptChain, TimesInv
  <2> QED BY <2>6, <2>7
<1>2. ASSUME NEW n \in {1, BlockTargetSpacing}, Tick(n)
      PROVE  TimesInv'
  <2>1. n \in Nat /\ clock \in Nat /\ clock' = clock + n /\ blocks \in Prefix
        /\ blocks' = blocks /\ lwmaAct' = lwmaAct /\ strayed' = strayed /\ MaxFutureDrift \in Nat
    BY <1>2, DifficultyAssumption DEF Tick, TimesInv
  <2>2. \A i \in 1..Len(blocks) : blocks[i].time \in Nat /\ blocks[i].time <= clock + MaxFutureDrift
    BY <2>1, PrefixAt DEF TimesInv
  <2>3. \A i \in 1..Len(blocks) : blocks[i].time <= (clock + n) + MaxFutureDrift
    BY <2>1, <2>2
  <2> QED BY <2>1, <2>3 DEF TimesInv
<1>3. CASE UNCHANGED diffVars
  BY <1>3 DEF diffVars, TimesInv
<1> QED BY <1>1, <1>2, <1>3 DEF Next

(* They hold throughout. *)
LEMMA TimesAlways == Spec => []TimesInv
BY InitTimes, NextTimes, PTL DEF Spec

(* The initial chain has no target to agree about. *)
LEMMA InitFresh == Init => FreshInv
<1> SUFFICES ASSUME Init
             PROVE  FreshInv
  OBVIOUS
<1>1. Len(blocks) = 1 /\ lwmaAct = 0
  BY GenesisPrefix DEF Init
<1> QED BY <1>1 DEF FreshInv, FreshTargets

(* Every step keeps the targets fresh, while reorgs are capped. *)
LEMMA NextFresh ==
  ASSUME MaxReorgDepth > 0
  PROVE  TimesInv /\ FreshInv /\ [Next]_diffVars => FreshInv'
<1> SUFFICES ASSUME TimesInv, FreshInv, [Next]_diffVars, ~strayed'
             PROVE  (/\ FreshTargets(blocks)
                     /\ lwmaAct # 0 => /\ lwmaAct = Activation(blocks)
                                       /\ Len(blocks) >= lwmaAct + MaxReorgDepth)'
  BY DEF FreshInv
<1>1. ASSUME NEW start \in 1..Len(blocks), NEW new \in Runs(start),
             start + Len(new) <= MaxLength, TryAdoptChain(start, new), Considered(start, new)
      PROVE  (/\ FreshTargets(blocks)
              /\ lwmaAct # 0 => /\ lwmaAct = Activation(blocks)
                                /\ Len(blocks) >= lwmaAct + MaxReorgDepth)'
  <2> DEFINE out == Outcome(start, new)
  <2>1. blocks \in Prefix /\ lwmaAct \in Nat /\ Len(blocks) \in Nat
        /\ start \in Nat /\ start > 0 /\ start <= Len(blocks) /\ MaxReorgDepth \in Nat
    BY PrefixAt, DifficultyAssumption DEF TimesInv
  <2>2. IsCandidate(new) /\ Len(new) \in Nat
    BY <2>1, RunsAre DEF IsCandidate
  <2>3. out \in AccType /\ Grown(out, start, Len(new))
    BY <1>1, <2>2, OutcomeGrown
  <2>4. /\ blocks' = IF out.ok THEN out.prefix ELSE blocks
        /\ lwmaAct' = out.cache
        /\ ~strayed
        /\ ~(~out.ok /\ out.filled > start)
        /\ ~(out.ok /\ lwmaAct # 0 /\ start + Len(new) < Len(blocks))
    BY <1>1 DEF TryAdoptChain
  <2>5. Fresh(out, start)
    BY <1>1, <2>2, <2>4, OutcomeFresh
  <2>6. /\ FreshTargets(blocks)
        /\ lwmaAct # 0 => lwmaAct = Activation(blocks) /\ Len(blocks) >= lwmaAct + MaxReorgDepth
    BY <2>4 DEF FreshInv
  <2>7. out.prefix \in Prefix /\ out.cache \in Nat /\ out.filled \in Nat
        /\ Len(out.prefix) \in Nat
    BY <2>3, PrefixAt DEF AccType
  <2> HIDE DEF out
  <2>8. CASE out.ok
    <3>1. blocks' = out.prefix /\ FreshTargets(out.prefix)
          /\ (out.cache # 0 => out.cache = Activation(out.prefix))
      BY <2>4, <2>5, <2>8 DEF Fresh
    <3>2. out.cache # 0 => Len(out.prefix) >= out.cache + MaxReorgDepth
      <4>1. CASE out.cache # lwmaAct
        <5>1. out.filled <= Len(out.prefix) /\ out.filled >= out.cache + MaxReorgDepth
          BY <2>5, <4>1 DEF Fresh
        <5> QED BY <2>1, <2>7, <5>1
      <4>2. CASE out.cache = lwmaAct /\ lwmaAct # 0
        <5>1. Len(out.prefix) = start + Len(new) /\ start + Len(new) >= Len(blocks)
          BY <2>1, <2>2, <2>3, <2>4, <2>8, <4>2 DEF Grown
        <5>2. Len(blocks) >= lwmaAct + MaxReorgDepth
          BY <2>6, <4>2
        <5> QED BY <2>1, <2>7, <4>2, <5>1, <5>2
      <4> QED BY <4>1, <4>2
    <3> QED BY <2>4, <3>1, <3>2
  <2>9. CASE ~out.ok
    <3>1. blocks' = blocks
      BY <2>4, <2>9
    <3>2. out.cache # 0 => /\ out.cache = Activation(blocks)
                           /\ Len(blocks) >= out.cache + MaxReorgDepth
      <4>1. CASE out.cache = lwmaAct
        BY <2>6, <4>1
      <4>2. CASE out.cache # lwmaAct /\ out.cache # 0
        <5>1. /\ start <= out.filled /\ out.filled >= out.cache + MaxReorgDepth
              /\ out.cache = Activation(out.prefix)
          BY <2>5, <4>2 DEF Fresh
        <5>2. out.filled = start
          BY <2>1, <2>4, <2>7, <2>9, <5>1
        <5>3. out.cache <= start /\ Len(blocks) >= out.cache + MaxReorgDepth
          BY <2>1, <2>7, <5>1, <5>2
        <5>4. \A i \in 1..start : out.prefix[i] = blocks[i]
          BY <2>3 DEF Grown
        <5>5. /\ Activation(out.prefix) # 0 /\ Activation(out.prefix) <= Len(blocks)
              /\ \A i \in 1..Activation(out.prefix) : blocks[i] = out.prefix[i]
          BY <2>1, <2>7, <4>2, <5>1, <5>3, <5>4
        <5>6. Activation(blocks) = Activation(out.prefix)
          BY <2>1, <2>7, <5>5, ActivationKept
        <5> QED BY <5>1, <5>3, <5>6
      <4> QED BY <4>1, <4>2
    <3> QED BY <2>4, <2>6, <3>1, <3>2
  <2> QED BY <2>8, <2>9
<1>2. ASSUME NEW start \in 1..Len(blocks), NEW new \in Runs(start),
             TryAdoptChain(start, new), ~Considered(start, new)
      PROVE  UNCHANGED <<blocks, lwmaAct, strayed>>
  BY <1>2 DEF TryAdoptChain
<1>3. ASSUME NEW n \in {1, BlockTargetSpacing}, Tick(n)
      PROVE  UNCHANGED <<blocks, lwmaAct, strayed>>
  BY <1>3 DEF Tick
<1>4. CASE UNCHANGED diffVars
  BY <1>4 DEF diffVars, FreshInv
<1>5. CASE UNCHANGED <<blocks, lwmaAct, strayed>>
  BY <1>5 DEF FreshInv
<1> QED BY <1>1, <1>2, <1>3, <1>4, <1>5 DEF Next

-----------------------------------------------------------------------------
(* The theorems. *)

(* No sequence of times that peers and miners offer, and no reorg, leaves  *)
(* a target of zero or above the floor, and LWMA never moves the way of    *)
(* the pace of its window (chain.go, lwmaTarget and expectedTarget).       *)
THEOREM TargetsAlwaysSound == Spec => []TargetsSound
<1>1. ASSUME TimesInv
      PROVE  TargetsSound
  <2>1. blocks \in Prefix /\ Len(blocks) \in Nat /\ DOMAIN blocks = 1..Len(blocks)
        /\ LWMAWindow \in Nat
    BY <1>1, PrefixAt, DifficultyAssumption DEF TimesInv
  <2>2. DiffTypeOK
    <3>1. \A i \in DOMAIN blocks : blocks[i].time \in Nat /\ blocks[i].target \in 1..MaxTarget
                                   /\ blocks[i].v3 \in BOOLEAN
      BY <2>1, PrefixAt DEF ChainBlock
    <3>2. ExpectedTarget(blocks) \in 1..MaxTarget
      BY <2>1, TargetFromType DEF ExpectedTarget
    <3>3. lwmaAct \in 0..MaxLength /\ clock \in Nat /\ strayed \in BOOLEAN
      BY <1>1, DifficultyAssumption DEF TimesInv
    <3> QED BY <3>1, <3>2, <3>3 DEF DiffTypeOK
  <2>3. LWMASteers
    <3>1. CASE Len(blocks) > LWMAWindow
      <4>1. Len(blocks) >= LWMAWindow + 1
        BY <2>1, <3>1
      <4> QED BY <2>1, <4>1, LWMASteersOf DEF LWMASteers
    <3>2. CASE ~(Len(blocks) > LWMAWindow)
      BY <3>2 DEF LWMASteers
    <3> QED BY <3>1, <3>2
  <2> QED BY <2>2, <2>3 DEF TargetsSound
<1> QED BY <1>1, TimesAlways, PTL

(* With a cap on reorgs, a node that syncs this chain from nothing asks    *)
(* every block for the very target it has, whatever the windows and the    *)
(* depth, unless the cache was filled on a refused candidate or the chain  *)
(* got shorter since (chain.go, lwmaActivationC).                          *)
THEOREM FreshNodesAlwaysAgree ==
  ASSUME MaxReorgDepth > 0
  PROVE  Spec => []FreshNodeAgrees
<1>1. Init => TimesInv /\ FreshInv
  BY InitTimes, InitFresh
<1>2. TimesInv /\ FreshInv /\ [Next]_diffVars => (TimesInv /\ FreshInv)'
  BY NextTimes, NextFresh
<1>3. TimesInv /\ FreshInv => FreshNodeAgrees
  BY DEF FreshInv, FreshTargets, TimesInv, FreshNodeAgrees
<1> QED BY <1>1, <1>2, <1>3, PTL DEF Spec

(* The median of the chain is never past the clock by more than the drift, *)
(* so one second is enough for BuildTemplate to have a time to stamp.      *)
THEOREM RefusalAlwaysShort == Spec => RefusalIsShort
<1>1. ASSUME TimesInv, [Next]_diffVars
      PROVE  [clock' > clock => Buildable']_diffVars
  <2>1. SUFFICES ASSUME clock' > clock
                 PROVE  Buildable'
    OBVIOUS
  <2>2. clock \in Nat /\ blocks \in Prefix /\ Len(blocks) \in Nat /\ MaxFutureDrift \in Nat
    BY <1>1, DifficultyAssumption, PrefixAt DEF TimesInv
  <2>3. PICK n \in {1, BlockTargetSpacing} : Tick(n)
    <3>1. clock' # clock
      BY <2>1, <2>2
    <3> QED BY <1>1, <3>1 DEF Next, TryAdoptChain, diffVars
  <2>4. blocks' = blocks /\ clock' = clock + n /\ n \in Nat /\ n >= 1
    BY <2>3, DifficultyAssumption DEF Tick
  <2>5. PICK i \in 1..Len(blocks) : MedianTime(blocks) = blocks[i].time
    BY <2>2, MedianIsOne
  <2>6. blocks[i].time \in Nat /\ blocks[i].time <= clock + MaxFutureDrift
    BY <1>1, <2>2, PrefixAt DEF TimesInv
  <2> DEFINE m == MedianTime(blocks) + 1
  <2>7. m \in Nat /\ m <= clock' + MaxFutureDrift /\ clock' \in Nat
    BY <2>2, <2>4, <2>5, <2>6
  <2>8. TemplateTime' = Max({clock', m})
    BY <2>4 DEF TemplateTime
  <2>9. Max({clock', m}) <= clock' + MaxFutureDrift
    <3>1. ASSUME NEW x \in Nat, NEW y \in Nat, NEW d \in Nat, y <= x + d
          PROVE  Max({x, y}) <= x + d
      <4>1. Max({x, y}) = x \/ Max({x, y}) = y
        BY MaxOfTwo
      <4> QED BY <3>1, <4>1
    <3> HIDE DEF m
    <3> QED BY <2>2, <2>7, <3>1
  <2> QED BY <2>8, <2>9 DEF Buildable
<1>2. TimesInv /\ [Next]_diffVars => [clock' > clock => Buildable']_diffVars
  BY <1>1
<1> QED BY <1>2, TimesAlways, PTL DEF Spec, RefusalIsShort

-----------------------------------------------------------------------------
(* The job table: what eviction and refreshing leave of it. *)

JobSet == [prev : Block, key : Block \X {AddrOf[c] : c \in Caller}, root : Nat \X Nat,
           n : Nat, fresh : BOOLEAN]

Distinct(ts) == \A i, k \in 1..Len(ts) : ts[i].n = ts[k].n => i = k

(* The jobs a part of the table keeps of the first i of another.           *)
KeepsOf(f, i, ts, t) ==
  /\ Len(f) <= i
  /\ \A h \in 1..i : ts[h].prev = t => \E k \in 1..Len(f) : f[k] = ts[h]
  /\ \A k \in 1..Len(f) : \E h \in 1..i : f[k] = ts[h] /\ ts[h].prev = t
  /\ Distinct(ts) => Distinct(f)
  /\ (\A h \in 1..i : ts[h].prev = t) => Len(f) = i

(* One more job of the table is looked at.                                 *)
LEMMA KeepsNext ==
  ASSUME NEW J, NEW ts \in Seq(J), NEW t, NEW f \in Seq(J), NEW i \in 1..Len(ts),
         KeepsOf(f, i - 1, ts, t)
  PROVE  KeepsOf(IF ts[i].prev = t THEN Append(f, ts[i]) ELSE f, i, ts, t)
<1>1. CASE ts[i].prev # t
  <2>1. \A h \in 1..i : h \in 1..i - 1 \/ h = i
    OBVIOUS
  <2> QED BY <1>1, <2>1 DEF KeepsOf
<1>2. CASE ts[i].prev = t
  <2> DEFINE g == Append(f, ts[i])
             m == Len(f)
  <2>1. /\ m \in Nat /\ Len(g) = m + 1 /\ g[m + 1] = ts[i]
        /\ \A k \in 1..m : g[k] = f[k]
    OBVIOUS
  <2>2. (\A h \in 1..i : h \in 1..i - 1 \/ h = i) /\ \A k \in 1..m + 1 : k \in 1..m \/ k = m + 1
    BY <2>1
  <2> HIDE DEF g, m
  <2>3. m <= i - 1 /\ m + 1 <= i
    BY <2>1 DEF KeepsOf, m
  <2>4. ASSUME NEW h \in 1..i, ts[h].prev = t
        PROVE  \E k \in 1..m + 1 : g[k] = ts[h]
    <3>1. CASE h = i
      BY <2>1, <3>1
    <3>2. CASE h \in 1..i - 1
      <4>1. PICK k \in 1..m : f[k] = ts[h]
        BY <2>4, <3>2 DEF KeepsOf, m
      <4> QED BY <2>1, <4>1
    <3> QED BY <2>2, <3>1, <3>2
  <2>5. ASSUME NEW k \in 1..m
        PROVE  \E h \in 1..i - 1 : f[k] = ts[h] /\ ts[h].prev = t
    BY DEF KeepsOf, m
  <2>6. ASSUME NEW k \in 1..m + 1
        PROVE  \E h \in 1..i : g[k] = ts[h] /\ ts[h].prev = t
    BY <1>2, <2>1, <2>2, <2>5
  <2>7. ASSUME Distinct(ts), NEW k \in 1..m
        PROVE  f[k].n # ts[i].n
    <3>1. PICK h \in 1..i - 1 : f[k] = ts[h]
      BY <2>5
    <3>2. h \in 1..Len(ts) /\ h # i
      OBVIOUS
    <3> QED BY <2>7, <3>1, <3>2 DEF Distinct
  <2>8. ASSUME Distinct(ts)
        PROVE  Distinct(g)
    <3>1. Distinct(f)
      BY <2>8 DEF KeepsOf
    <3>2. ASSUME NEW k \in 1..m + 1, NEW l \in 1..m + 1, g[k].n = g[l].n
          PROVE  k = l
      <4>1. CASE k \in 1..m /\ l \in 1..m
        BY <2>1, <3>1, <3>2, <4>1 DEF Distinct, m
      <4>2. CASE k = m + 1 /\ l \in 1..m
        BY <2>1, <2>7, <2>8, <3>2, <4>2
      <4>3. CASE l = m + 1 /\ k \in 1..m
        BY <2>1, <2>7, <2>8, <3>2, <4>3
      <4> QED BY <2>2, <4>1, <4>2, <4>3
    <3> QED BY <2>1, <3>2 DEF Distinct
  <2>9. ASSUME \A h \in 1..i : ts[h].prev = t
        PROVE  m + 1 = i
    <3>1. \A h \in 1..i - 1 : ts[h].prev = t
      BY <2>9
    <3> QED BY <2>1, <3>1 DEF KeepsOf, m
  <2>10. KeepsOf(g, i, ts, t)
    BY <2>1, <2>3, <2>4, <2>6, <2>8, <2>9 DEF KeepsOf
  <2> QED BY <1>2, <2>10 DEF g
<1> QED BY <1>1, <1>2

(* What is kept of the first n jobs, for each n.                           *)
Sweeps(f, J, ts, t) ==
  /\ f \in [0..Len(ts) -> Seq(J)] /\ f[0] = <<>>
  /\ \A n \in 1..Len(ts) :
       f[n] = IF ts[n].prev = t THEN Append(f[n - 1], ts[n]) ELSE f[n - 1]
  /\ Evict(ts, t) = f[Len(ts)]

(* The recursion of Evict is defined.                                      *)
LEMMA EvictLoop ==
  ASSUME NEW J, NEW ts \in Seq(J), NEW t
  PROVE  \E f : Sweeps(f, J, ts, t)
<1> DEFINE k == Len(ts)
           step == [n \in 1..k |-> [x \in Seq(J) |->
                      IF ts[n].prev = t THEN Append(x, ts[n]) ELSE x]]
           IsRun(r) == r = [i \in 0..k |->
                         IF i = 0 THEN <<>>
                         ELSE IF ts[i].prev = t THEN Append(r[i - 1], ts[i]) ELSE r[i - 1]]
           run == CHOOSE r : IsRun(r)
<1>1. k \in Nat /\ \A n \in 1..k : ts[n] \in J
  OBVIOUS
<1>2. step \in [1..k -> [Seq(J) -> Seq(J)]]
  BY <1>1
<1>3. PICK f : Loops(f, k, Seq(J), <<>>, step)
  <2> HIDE DEF k, step
  <2>1. <<>> \in Seq(J)
    OBVIOUS
  <2> QED BY <1>1, <1>2, <2>1, LoopExists
<1>4. ASSUME NEW n \in 1..k
      PROVE  f[n] = IF ts[n].prev = t THEN Append(f[n - 1], ts[n]) ELSE f[n - 1]
  <2>1. f[n] = step[n][f[n - 1]] /\ f[n - 1] \in Seq(J)
    <3> HIDE DEF step, k
    <3> QED BY <1>1, <1>3 DEF Loops
  <2> QED BY <2>1
<1>5. IsRun(f)
  <2> HIDE DEF k, step
  <2>1. f = [n \in 0..k |-> f[n]] /\ f[0] = <<>>
    BY <1>3 DEF Loops
  <2>2. ASSUME NEW i \in 0..k
        PROVE  f[i] = IF i = 0 THEN <<>>
                      ELSE IF ts[i].prev = t THEN Append(f[i - 1], ts[i]) ELSE f[i - 1]
    BY <1>1, <1>4, <2>1
  <2> QED BY <2>1, <2>2
<1>6. IsRun(run)
  <2> HIDE DEF IsRun
  <2> QED BY <1>5
<1>7. Evict(ts, t) = run[k]
  BY DEF Evict
<1>8. /\ run[0] = <<>>
      /\ \A n \in 1..k :
           run[n] = IF ts[n].prev = t THEN Append(run[n - 1], ts[n]) ELSE run[n - 1]
  <2> HIDE DEF run
  <2>1. \A i \in 0..k : run[i] = IF i = 0 THEN <<>>
                      ELSE IF ts[i].prev = t THEN Append(run[i - 1], ts[i]) ELSE run[i - 1]
    BY <1>6
  <2> HIDE DEF k, IsRun
  <2>2. 0 \in 0..k /\ \A n \in 1..k : n \in 0..k /\ n # 0
    BY <1>1
  <2> QED BY <2>1, <2>2
<1>9. run[k] = f[k]
  <2> HIDE DEF run, k, step
  <2>1. Tracks(run, f, k)
    BY <1>3, <1>4, <1>8 DEF Tracks, Loops
  <2> QED BY <1>1, <2>1, LoopUnique
<1>10. f \in [0..k -> Seq(J)] /\ f[0] = <<>>
  <2> HIDE DEF k, step
  <2> QED BY <1>3 DEF Loops
<1> QED BY <1>4, <1>7, <1>9, <1>10 DEF Sweeps

(* Evict keeps the jobs of the tip, all of them and no others.             *)
LEMMA EvictIs ==
  ASSUME NEW J, NEW ts \in Seq(J), NEW t
  PROVE  Evict(ts, t) \in Seq(J) /\ KeepsOf(Evict(ts, t), Len(ts), ts, t)
<1>0. PICK f : Sweeps(f, J, ts, t)
  BY EvictLoop
<1>1. /\ f \in [0..Len(ts) -> Seq(J)] /\ f[0] = <<>>
      /\ \A n \in 1..Len(ts) :
           f[n] = IF ts[n].prev = t THEN Append(f[n - 1], ts[n]) ELSE f[n - 1]
      /\ Evict(ts, t) = f[Len(ts)]
  BY <1>0 DEF Sweeps
<1> DEFINE S == {i \in 0..Len(ts) : KeepsOf(f[i], i, ts, t)}
<1>2. Len(ts) \in Nat
  OBVIOUS
<1>3. 0 \in S
  <2>1. Len(<<>>) = 0 /\ 1..0 = {}
    OBVIOUS
  <2>2. KeepsOf(<<>>, 0, ts, t)
    BY <2>1 DEF KeepsOf, Distinct
  <2> QED BY <1>1, <1>2, <2>2
<1>4. ASSUME NEW n \in 0..Len(ts) - 1, n \in S
      PROVE  n + 1 \in S
  <2>1. n + 1 \in 1..Len(ts) /\ (n + 1) - 1 = n /\ f[n] \in Seq(J)
    BY <1>1
  <2>2. KeepsOf(f[n], (n + 1) - 1, ts, t)
    BY <1>4, <2>1
  <2>3. f[n + 1] = IF ts[n + 1].prev = t THEN Append(f[n], ts[n + 1]) ELSE f[n]
    BY <1>1, <2>1
  <2>4. KeepsOf(f[n + 1], n + 1, ts, t)
    BY <2>1, <2>2, <2>3, KeepsNext
  <2> QED BY <2>1, <2>4
<1>5. Len(ts) \in S
  <2> HIDE DEF S
  <2>1. 0..Len(ts) \subseteq S
    BY <1>2, <1>3, <1>4, InductionUpTo
  <2> QED BY <1>2, <2>1
<1>6. f[Len(ts)] \in Seq(J)
  BY <1>1, <1>2
<1> QED BY <1>1, <1>5, <1>6

(* A refresh moves one job to the end, and no other changes.               *)
LEMMA RefreshIs ==
  ASSUME NEW ts \in Seq(JobSet), Distinct(ts), NEW i \in 1..Len(ts)
  PROVE  /\ Refresh(ts, i) \in Seq(JobSet) /\ Len(Refresh(ts, i)) = Len(ts)
         /\ Distinct(Refresh(ts, i))
         /\ \A k \in 1..Len(ts) : \E h \in 1..Len(ts) :
              /\ Refresh(ts, i)[k].n = ts[h].n /\ Refresh(ts, i)[k].prev = ts[h].prev
         /\ \A h \in 1..Len(ts) : \E k \in 1..Len(ts) :
              /\ Refresh(ts, i)[k].n = ts[h].n /\ Refresh(ts, i)[k].prev = ts[h].prev
<1> DEFINE m == Len(ts)
           a == SubSeq(ts, 1, i - 1)
           b == SubSeq(ts, i + 1, m)
           j == [ts[i] EXCEPT !.fresh = TRUE]
           g == Refresh(ts, i)
           from(k) == IF k < i THEN k ELSE IF k < m THEN k + 1 ELSE i
           to(h) == IF h < i THEN h ELSE IF h = i THEN m ELSE h - 1
<1>1. m \in Nat /\ m >= 1 /\ i \in Nat /\ i >= 1 /\ i <= m
  OBVIOUS
<1>2. ts[i] \in JobSet /\ j \in JobSet /\ j.n = ts[i].n /\ j.prev = ts[i].prev
  <2>1. ts[i] \in JobSet
    OBVIOUS
  <2> QED BY <2>1 DEF JobSet
<1> HIDE DEF j
<1>3. /\ a \in Seq(JobSet) /\ Len(a) = i - 1 /\ \A k \in 1..i - 1 : a[k] = ts[k]
      /\ b \in Seq(JobSet) /\ Len(b) = m - i /\ \A k \in 1..m - i : b[k] = ts[i + k]
  OBVIOUS
<1>4. g = Append(a \o b, j)
  BY <1>2 DEF Refresh, RemoveAt, j
<1> HIDE DEF a, b, g
<1>5. /\ a \o b \in Seq(JobSet) /\ Len(a \o b) = m - 1
      /\ \A k \in 1..m - 1 : (a \o b)[k] = IF k < i THEN a[k] ELSE b[k - (i - 1)]
  BY <1>1, <1>3
<1>6. g \in Seq(JobSet) /\ Len(g) = m
  BY <1>1, <1>2, <1>4, <1>5
<1>7. g[m] = j /\ \A k \in 1..m - 1 : g[k] = (a \o b)[k]
  BY <1>1, <1>2, <1>4, <1>5
<1>8. ASSUME NEW k \in 1..m
      PROVE  from(k) \in 1..m /\ g[k].n = ts[from(k)].n /\ g[k].prev = ts[from(k)].prev
  <2>1. CASE k = m
    BY <1>1, <1>2, <1>7, <2>1
  <2>2. CASE k < i
    <3>1. k \in 1..m - 1 /\ k \in 1..i - 1 /\ k # m
      BY <1>1, <2>2
    <3> QED BY <1>3, <1>5, <1>7, <2>2, <3>1
  <2>3. CASE k >= i /\ k < m
    <3>1. k \in 1..m - 1 /\ k - (i - 1) \in 1..m - i /\ i + (k - (i - 1)) = k + 1 /\ ~(k < i)
      BY <1>1, <2>3
    <3>2. g[k] = ts[k + 1]
      BY <1>3, <1>5, <1>7, <3>1
    <3> QED BY <1>1, <2>3, <3>1, <3>2
  <2> QED BY <1>1, <2>1, <2>2, <2>3
<1>9. ASSUME NEW h \in 1..m
      PROVE  to(h) \in 1..m /\ from(to(h)) = h
  BY <1>1
<1>10. ASSUME NEW k \in 1..m, NEW l \in 1..m, from(k) = from(l)
       PROVE  k = l
  BY <1>1, <1>10
<1> HIDE DEF from, to, m
<1>11. Distinct(g)
  <2>1. ASSUME NEW k \in 1..m, NEW l \in 1..m, g[k].n = g[l].n
        PROVE  k = l
    <3>1. ts[from(k)].n = ts[from(l)].n
      BY <1>8, <2>1
    <3>2. from(k) = from(l)
      BY <1>8, <3>1 DEF Distinct, m
    <3> QED BY <1>10, <3>2
  <2> QED BY <1>6, <2>1 DEF Distinct
<1>12. \A k \in 1..m : \E h \in 1..m : g[k].n = ts[h].n /\ g[k].prev = ts[h].prev
  BY <1>8
<1>13. \A h \in 1..m : \E k \in 1..m : g[k].n = ts[h].n /\ g[k].prev = ts[h].prev
  BY <1>8, <1>9
<1> QED BY <1>6, <1>11, <1>12, <1>13 DEF m, g

(* A new job joins the table, and the oldest leaves a table that is full.  *)
LEMMA CapIs ==
  ASSUME NEW ts \in Seq(JobSet), Distinct(ts), Len(ts) <= MaxTemplates, NEW j \in JobSet,
         \A i \in 1..Len(ts) : ts[i].n # j.n
  PROVE  LET g == Cap(Append(ts, j))
         IN  /\ g \in Seq(JobSet) /\ Distinct(g) /\ Len(g) <= MaxTemplates
             /\ \E k \in 1..Len(g) : g[k] = j
             /\ \A k \in 1..Len(g) : g[k] = j \/ \E i \in 1..Len(ts) : g[k] = ts[i]
             /\ \/ Len(g) = MaxTemplates
                \/ \A i \in 1..Len(ts) : \E k \in 1..Len(g) : g[k] = ts[i]
<1> DEFINE m == Len(ts)
           a == Append(ts, j)
           g == Cap(a)
           Joined(x) ==
             /\ x \in Seq(JobSet) /\ Distinct(x) /\ Len(x) <= MaxTemplates
             /\ \E k \in 1..Len(x) : x[k] = j
             /\ \A k \in 1..Len(x) : x[k] = j \/ \E i \in 1..m : x[k] = ts[i]
             /\ \/ Len(x) = MaxTemplates
                \/ \A i \in 1..m : \E k \in 1..Len(x) : x[k] = ts[i]
<1>1. MaxTemplates \in Nat /\ MaxTemplates >= 1 /\ m \in Nat
  BY TemplateAssumption
<1>2. /\ a \in Seq(JobSet) /\ Len(a) = m + 1 /\ a[m + 1] = j
      /\ \A k \in 1..m : a[k] = ts[k]
  OBVIOUS
<1> HIDE DEF a
<1>3. Distinct(a)
  <2>1. ASSUME NEW k \in 1..m + 1, NEW l \in 1..m + 1, a[k].n = a[l].n
        PROVE  k = l
    <3>1. CASE k \in 1..m /\ l \in 1..m
      BY <1>2, <2>1, <3>1 DEF Distinct
    <3>2. CASE k = m + 1 /\ l \in 1..m
      BY <1>2, <2>1, <3>2
    <3>3. CASE l = m + 1 /\ k \in 1..m
      BY <1>2, <2>1, <3>3
    <3> QED BY <1>1, <3>1, <3>2, <3>3
  <2> QED BY <1>2, <2>1 DEF Distinct
<1>4. ASSUME m + 1 <= MaxTemplates
      PROVE  Joined(a)
  <2>2. \A k \in 1..m + 1 : k = m + 1 \/ k \in 1..m
    BY <1>1
  <2>3. m + 1 \in 1..m + 1 /\ \A k \in 1..m : k \in 1..m + 1
    BY <1>1
  <2> QED BY <1>1, <1>2, <1>3, <1>4, <2>2, <2>3
<1>5. ASSUME m = MaxTemplates
      PROVE  Joined(g)
  <2>1. g = SubSeq(a, 2, m + 1)
    BY <1>1, <1>2, <1>5 DEF Cap
  <2>2. g \in Seq(JobSet) /\ Len(g) = m /\ \A k \in 1..m : g[k] = a[k + 1]
    BY <1>1, <1>2, <2>1
  <2> HIDE DEF g
  <2>3. Distinct(g)
    <3>1. ASSUME NEW k \in 1..m, NEW l \in 1..m, g[k].n = g[l].n
          PROVE  k = l
      <4>1. k + 1 \in 1..m + 1 /\ l + 1 \in 1..m + 1
        BY <1>1
      <4>2. k + 1 = l + 1
        BY <1>2, <1>3, <2>2, <3>1, <4>1 DEF Distinct
      <4> QED BY <4>2
    <3> QED BY <2>2, <3>1 DEF Distinct
  <2>4. m \in 1..m /\ g[m] = j
    BY <1>1, <1>2, <1>5, <2>2
  <2>5. ASSUME NEW k \in 1..m
        PROVE  g[k] = j \/ \E i \in 1..m : g[k] = ts[i]
    <3>1. k + 1 = m + 1 \/ k + 1 \in 1..m
      BY <1>1
    <3> QED BY <1>2, <2>2, <3>1
  <2> QED BY <1>1, <1>5, <2>2, <2>3, <2>4, <2>5
<1>6. m + 1 <= MaxTemplates => g = a
  BY <1>1, <1>2 DEF Cap
<1>7. Joined(g)
  <2>1. m + 1 <= MaxTemplates \/ m = MaxTemplates
    BY <1>1
  <2> HIDE DEF Joined, g
  <2> QED BY <1>4, <1>5, <1>6, <2>1
<1> QED BY <1>7 DEF a

-----------------------------------------------------------------------------
(* The inductive invariant of the job tables. *)

(* The table: jobs of one id each, at most as many as it has places.       *)
TableInv ==
  /\ tmplSeq \in Nat
  /\ templates \in Seq(JobSet) /\ Len(templates) <= MaxTemplates /\ Distinct(templates)
  /\ \A i \in 1..Len(templates) : templates[i].n \in 1..tmplSeq
  /\ \A k \in DOMAIN latest : latest[k] \in 1..tmplSeq

ChainInv ==
  /\ tip \in Block /\ body \in Nat /\ late \in BOOLEAN
  /\ call \in [Caller -> Block \cup {NoBlock}]

OnTable(n, t) == \E i \in 1..Len(templates) : templates[i].n = n /\ templates[i].prev = t

(* A table that overflowed holds jobs for the tip only, and stays full     *)
(* until the tip moves or a late call sweeps it.                           *)
FullOf(t) == Len(templates) = MaxTemplates
             /\ \A i \in 1..Len(templates) : templates[i].prev = t

(* Work handed out for the tip is on the table as a job for the tip.       *)
GivenInv == \A n \in given : late \/ OnTable(n, tip) \/ FullOf(tip)

WorkInv == TableInv /\ ChainInv /\ GivenInv

(* Nothing is handed out yet.                                              *)
LEMMA WorkInvInit == WorkInit => WorkInv
<1> SUFFICES ASSUME WorkInit PROVE WorkInv
  OBVIOUS
<1>1. templates = <<>> /\ <<>> \in Seq(JobSet) /\ Len(<<>>) = 0 /\ 1..0 = {}
  BY DEF WorkInit
<1>2. MaxTemplates \in Nat /\ Genesis \in Block
  BY TemplateAssumption
<1>3. DOMAIN <<>> = {}
  OBVIOUS
<1>4. TableInv
  BY <1>1, <1>2, <1>3 DEF WorkInit, TableInv, Distinct
<1>5. ChainInv /\ GivenInv
  BY <1>2 DEF WorkInit, ChainInv, GivenInv
<1> QED BY <1>4, <1>5 DEF WorkInv

(* The tip moves: nothing has been handed out for the new one.             *)
LEMMA TipKeepsWorkInv ==
  ASSUME WorkInv, TipMoves \/ SubmitWork
  PROVE  WorkInv'
<1>1. /\ tip' \in Block /\ given' = {} /\ late' = FALSE
      /\ UNCHANGED <<body, templates, latest, tmplSeq, call>>
  BY DEF TipMoves, SubmitWork, MoveTo, tables
<1> QED BY <1>1 DEF WorkInv, TableInv, ChainInv, GivenInv

(* Steps that leave the table and the tip alone; a job on the table may be *)
(* handed out.                                                             *)
LEMMA TableStaysKeepsWorkInv ==
  ASSUME WorkInv, UNCHANGED <<tip, tables, late>>, body' \in Nat,
         call' \in [Caller -> Block \cup {NoBlock}],
         \A n \in given' : n \in given \/ OnTable(n, tip)
  PROVE  WorkInv'
<1>1. UNCHANGED <<tip, templates, latest, tmplSeq, late>>
  BY DEF tables
<1> QED BY <1>1 DEF WorkInv, TableInv, ChainInv, GivenInv, OnTable, FullOf

(* A call ends with a job on the table.                                    *)
LEMMA HandIs ==
  ASSUME WorkInv, NEW c \in Caller, NEW j, Hand(c, j),
         \E i \in 1..Len(templates) : templates[i] = j
  PROVE  /\ call' \in [Caller -> Block \cup {NoBlock}]
         /\ \A n \in given' : n \in given \/ OnTable(n, tip)
<1>1. call' \in [Caller -> Block \cup {NoBlock}]
  BY DEF WorkInv, ChainInv, Hand
<1>2. \A n \in given' : n \in given \/ (n = j.n /\ j.prev = tip)
  BY DEF Hand
<1> QED BY <1>1, <1>2 DEF OnTable

(* Calls that do not write the tables.                                     *)
LEMMA ReadersKeepWorkInv ==
  ASSUME WorkInv, NEW c \in Caller, ReadTip(c) \/ ServeFresh(c) \/ BuildFails(c)
  PROVE  WorkInv'
<1> USE DEF chain
<1>1. body \in Nat /\ \A ts, k : OnFile(ts, k) \subseteq ToSet(ts)
  BY DEF WorkInv, ChainInv, OnFile
<1>2. ASSUME NEW j \in ToSet(templates)
      PROVE  \E i \in 1..Len(templates) : templates[i] = j
  BY DEF ToSet, WorkInv, TableInv
<1>3. CASE ReadTip(c)
  <2>1. call' \in [Caller -> Block \cup {NoBlock}] /\ given' = given
    BY <1>3 DEF ReadTip, WorkInv, ChainInv, history
  <2>2. UNCHANGED <<tip, tables, late, body>>
    BY <1>3 DEF ReadTip, history
  <2> QED BY <1>1, <2>1, <2>2, TableStaysKeepsWorkInv
<1>4. CASE ServeFresh(c)
  <2>1. PICK j \in ToSet(templates) : Hand(c, j)
    BY <1>1, <1>4 DEF ServeFresh
  <2>2. UNCHANGED <<tip, tables, late, body>>
    BY <1>4 DEF ServeFresh
  <2> QED BY <1>1, <1>2, <2>1, <2>2, HandIs, TableStaysKeepsWorkInv
<1>5. CASE BuildFails(c)
  <2>1. UNCHANGED <<tip, tables, late, body>>
    BY <1>5 DEF BuildFails
  <2>2. CASE call' = [call EXCEPT ![c] = NoBlock] /\ UNCHANGED given
    <3>1. call' \in [Caller -> Block \cup {NoBlock}]
      BY <2>2 DEF WorkInv, ChainInv
    <3> QED BY <1>1, <2>1, <2>2, <3>1, TableStaysKeepsWorkInv
  <2>3. CASE \E j \in OnFile(templates, Key(c)) : Hand(c, j)
    <3>1. PICK j \in ToSet(templates) : Hand(c, j)
      BY <1>1, <2>3
    <3> QED BY <1>1, <1>2, <2>1, <3>1, HandIs, TableStaysKeepsWorkInv
  <2> QED BY <1>5, <2>2, <2>3 DEF BuildFails
<1> QED BY <1>3, <1>4, <1>5

(* The mempool changes.                                                    *)
LEMMA MempoolKeepsWorkInv ==
  ASSUME WorkInv, MempoolChanges
  PROVE  WorkInv'
<1>1. body' \in Nat
  BY DEF MempoolChanges, WorkInv, ChainInv
<1>2. UNCHANGED <<tip, tables, late>> /\ given' = given
      /\ call' \in [Caller -> Block \cup {NoBlock}]
  BY DEF MempoolChanges, history, WorkInv, ChainInv
<1> QED BY <1>1, <1>2, TableStaysKeepsWorkInv

(* What the table held, it holds after a step that keeps each job's id and *)
(* the block it builds on.                                                 *)
LEMMA SameJobsKeepWorkInv ==
  ASSUME WorkInv, UNCHANGED <<tip, body, late>>, tmplSeq' = tmplSeq,
         call' \in [Caller -> Block \cup {NoBlock}],
         \A k \in DOMAIN latest' : k \in DOMAIN latest /\ latest'[k] = latest[k],
         templates' \in Seq(JobSet), Distinct(templates'), Len(templates') = Len(templates),
         \A k \in 1..Len(templates) : \E h \in 1..Len(templates) :
           templates'[k].n = templates[h].n /\ templates'[k].prev = templates[h].prev,
         \A h \in 1..Len(templates) : \E k \in 1..Len(templates) :
           templates'[k].n = templates[h].n /\ templates'[k].prev = templates[h].prev,
         \A n \in given' : n \in given \/ OnTable(n, tip)
  PROVE  WorkInv'
<1>1. TableInv'
  BY DEF WorkInv, TableInv
<1>2. ChainInv'
  BY DEF WorkInv, ChainInv
<1>3. ASSUME NEW n, OnTable(n, tip)
      PROVE  OnTable(n, tip)'
  <2>1. PICK h \in 1..Len(templates) : templates[h].n = n /\ templates[h].prev = tip
    BY <1>3 DEF OnTable
  <2>2. PICK k \in 1..Len(templates) :
          templates'[k].n = templates[h].n /\ templates'[k].prev = templates[h].prev
    OBVIOUS
  <2> QED BY <2>1, <2>2 DEF OnTable
<1>4. FullOf(tip) => FullOf(tip)'
  BY DEF FullOf
<1>5. GivenInv'
  BY <1>3, <1>4 DEF WorkInv, GivenInv
<1> QED BY <1>1, <1>2, <1>5 DEF WorkInv

(* templateRefresh passes for a job.                                       *)
LEMMA AgesKeepsWorkInv ==
  ASSUME WorkInv, NEW c \in Caller, JobAges(c)
  PROVE  WorkInv'
<1>1. PICK i \in DOMAIN templates : templates' = [templates EXCEPT ![i].fresh = FALSE]
  BY DEF JobAges
<1>2. templates \in Seq(JobSet) /\ DOMAIN templates = 1..Len(templates)
      /\ Distinct(templates) /\ Len(templates) \in Nat
  BY DEF WorkInv, TableInv
<1>3. \A h \in 1..Len(templates) : templates[h] \in JobSet
  BY <1>2
<1> DEFINE j == [templates[i] EXCEPT !.fresh = FALSE]
<1>4. j \in JobSet /\ j.n = templates[i].n /\ j.prev = templates[i].prev
  <2>1. templates[i] \in JobSet
    BY <1>2, <1>3
  <2> QED BY <2>1 DEF JobSet
<1> HIDE DEF j
<1>5. templates' = [templates EXCEPT ![i] = j]
  BY <1>1 DEF j
<1>6. /\ templates' \in Seq(JobSet) /\ Len(templates') = Len(templates)
      /\ \A h \in 1..Len(templates) : templates'[h] = IF h = i THEN j ELSE templates[h]
  <2>1. i \in 1..Len(templates)
    BY <1>2
  <2> QED BY <1>2, <1>4, <1>5, <2>1, ExceptSeq
<1>7. \A h \in 1..Len(templates) :
        templates'[h].n = templates[h].n /\ templates'[h].prev = templates[h].prev
  BY <1>4, <1>6
<1>8. Distinct(templates')
  BY <1>2, <1>6, <1>7 DEF Distinct
<1>9. /\ UNCHANGED <<tip, body, late, latest, given, call>> /\ tmplSeq' = tmplSeq
      /\ call \in [Caller -> Block \cup {NoBlock}]
  BY DEF JobAges, chain, history, WorkInv, ChainInv
<1> QED BY <1>6, <1>7, <1>8, <1>9, SameJobsKeepWorkInv

(* A call behind the lock: jobs of another tip leave the table, and the    *)
(* address is given a new job, or its old one when the body is the same.   *)
LEMMA RebuildKeepsWorkInv ==
  ASSUME WorkInv, NEW c \in Caller, Rebuild(c)
  PROVE  WorkInv'
<1> DEFINE t == call[c]
           kept == Evict(templates, t)
           same == {i \in DOMAIN kept : /\ kept[i] \in OnFile(kept, Key(c))
                                        /\ SameBody(kept[i], FreshRoot)}
           keys == {k \in DOMAIN latest : k[1] = t}
           new == NewJob(c)
<1>1. /\ t \in Block /\ tip \in Block /\ tip' = tip /\ body' = body /\ body \in Nat
      /\ late' = (late \/ t # tip) /\ late \in BOOLEAN /\ late' \in BOOLEAN
  BY DEF Rebuild, chain, WorkInv, ChainInv
<1>2. /\ tmplSeq \in Nat /\ templates \in Seq(JobSet) /\ Len(templates) <= MaxTemplates
      /\ Distinct(templates) /\ Len(templates) \in Nat /\ MaxTemplates \in Nat
      /\ \A i \in 1..Len(templates) : templates[i].n \in 1..tmplSeq
      /\ \A k \in DOMAIN latest : latest[k] \in 1..tmplSeq
  BY TemplateAssumption DEF WorkInv, TableInv
<1>3. kept \in Seq(JobSet) /\ KeepsOf(kept, Len(templates), templates, t)
  BY <1>2, EvictIs
<1>4. \/ /\ same # {}
         /\ \E i \in same : templates' = Refresh(kept, i) /\ Hand(c, kept[i])
         /\ latest' = [k \in keys |-> latest[k]] /\ tmplSeq' = tmplSeq
      \/ /\ templates' = Cap(Append(kept, new)) /\ Hand(c, new)
         /\ latest' = [k \in keys \cup {Key(c)} |->
                         IF k = Key(c) THEN tmplSeq + 1 ELSE latest[k]]
         /\ tmplSeq' = tmplSeq + 1
  BY DEF Rebuild
<1> HIDE DEF t, kept, new
<1>5. /\ Len(kept) \in Nat /\ Len(kept) <= MaxTemplates /\ Distinct(kept)
      /\ DOMAIN kept = 1..Len(kept)
      /\ \A k \in 1..Len(kept) : kept[k].n \in 1..tmplSeq /\ kept[k].prev = t
      /\ \A h \in 1..Len(templates) : templates[h].prev = t =>
           \E k \in 1..Len(kept) : kept[k] = templates[h]
      /\ (\A h \in 1..Len(templates) : templates[h].prev = t) => Len(kept) = Len(templates)
  <2>1. Len(kept) \in Nat /\ DOMAIN kept = 1..Len(kept) /\ Len(kept) <= Len(templates)
    BY <1>2, <1>3 DEF KeepsOf
  <2>2. \A k \in 1..Len(kept) : kept[k].n \in 1..tmplSeq /\ kept[k].prev = t
    <3> TAKE k \in 1..Len(kept)
    <3>1. PICK h \in 1..Len(templates) : kept[k] = templates[h] /\ templates[h].prev = t
      BY <1>3 DEF KeepsOf
    <3> QED BY <1>2, <3>1
  <2> QED BY <1>2, <1>3, <2>1, <2>2 DEF KeepsOf
<1>6. /\ call' \in [Caller -> Block \cup {NoBlock}]
      /\ \A j : Hand(c, j) => given' = IF j.prev = tip THEN given \cup {j.n} ELSE given
  BY <1>4 DEF Hand, WorkInv, ChainInv
<1>7. ChainInv'
  BY <1>1, <1>6 DEF ChainInv
<1>8. ASSUME NEW n \in given
      PROVE  \/ late' \/ (\E k \in 1..Len(kept) : kept[k].n = n /\ kept[k].prev = tip)
             \/ Len(kept) = MaxTemplates /\ t = tip
  <2>1. CASE late \/ t # tip
    BY <1>1, <2>1
  <2>2. CASE t = tip /\ OnTable(n, tip)
    <3>1. PICK h \in 1..Len(templates) : templates[h].n = n /\ templates[h].prev = tip
      BY <2>2 DEF OnTable
    <3>2. PICK k \in 1..Len(kept) : kept[k] = templates[h]
      BY <1>5, <2>2, <3>1
    <3> QED BY <3>1, <3>2
  <2>3. CASE t = tip /\ FullOf(tip)
    BY <1>5, <2>3 DEF FullOf
  <2> QED BY <2>1, <2>2, <2>3 DEF WorkInv, GivenInv
<1>9. CASE /\ \E i \in same : templates' = Refresh(kept, i) /\ Hand(c, kept[i])
           /\ latest' = [k \in keys |-> latest[k]] /\ tmplSeq' = tmplSeq
  <2>1. PICK i \in 1..Len(kept) : templates' = Refresh(kept, i) /\ Hand(c, kept[i])
    BY <1>5, <1>9
  <2>2. /\ templates' \in Seq(JobSet) /\ Len(templates') = Len(kept) /\ Distinct(templates')
        /\ \A k \in 1..Len(kept) : \E h \in 1..Len(kept) :
             templates'[k].n = kept[h].n /\ templates'[k].prev = kept[h].prev
        /\ \A h \in 1..Len(kept) : \E k \in 1..Len(kept) :
             templates'[k].n = kept[h].n /\ templates'[k].prev = kept[h].prev
    <3> DEFINE g == Refresh(kept, i)
    <3>1. /\ g \in Seq(JobSet) /\ Len(g) = Len(kept) /\ Distinct(g)
          /\ \A k \in 1..Len(kept) : \E h \in 1..Len(kept) :
               g[k].n = kept[h].n /\ g[k].prev = kept[h].prev
          /\ \A h \in 1..Len(kept) : \E k \in 1..Len(kept) :
               g[k].n = kept[h].n /\ g[k].prev = kept[h].prev
      BY <1>3, <1>5, RefreshIs
    <3>2. templates' = g
      BY <2>1
    <3> HIDE DEF g
    <3> QED BY <3>1, <3>2
  <2>3. \A k \in 1..Len(kept) : templates'[k].n \in 1..tmplSeq /\ templates'[k].prev = t
    <3> TAKE k \in 1..Len(kept)
    <3>1. PICK h \in 1..Len(kept) :
            templates'[k].n = kept[h].n /\ templates'[k].prev = kept[h].prev
      BY <2>2
    <3> QED BY <1>5, <3>1
  <2>4. TableInv'
    <3>1. \A k \in DOMAIN latest' : latest'[k] \in 1..tmplSeq
      BY <1>2, <1>9
    <3> QED BY <1>2, <1>5, <1>9, <2>2, <2>3, <3>1 DEF TableInv
  <2>5. ASSUME NEW n, NEW k \in 1..Len(kept), kept[k].n = n, kept[k].prev = tip
        PROVE  OnTable(n, tip)'
    BY <1>1, <2>2, <2>5 DEF OnTable
  <2>6. Len(kept) = MaxTemplates /\ t = tip => FullOf(tip)'
    BY <1>1, <2>2, <2>3 DEF FullOf
  <2>7. ASSUME NEW n \in given'
        PROVE  late' \/ OnTable(n, tip)' \/ FullOf(tip)'
    <3>1. CASE n \in given
      BY <1>8, <2>5, <2>6, <3>1
    <3>2. CASE n = kept[i].n /\ kept[i].prev = tip
      BY <2>5, <3>2
    <3> QED BY <1>6, <2>1, <3>1, <3>2
  <2> QED BY <1>7, <2>4, <2>7 DEF WorkInv, GivenInv
<1>10. CASE /\ templates' = Cap(Append(kept, new)) /\ Hand(c, new)
            /\ latest' = [k \in keys \cup {Key(c)} |->
                            IF k = Key(c) THEN tmplSeq + 1 ELSE latest[k]]
            /\ tmplSeq' = tmplSeq + 1
  <2>1. new \in JobSet /\ new.n = tmplSeq + 1 /\ new.prev = tip
    <3>1. Key(c) \in Block \X {AddrOf[d] : d \in Caller}
      BY <1>1 DEF Key, t
    <3>2. FreshRoot \in Nat \X Nat
      BY <1>1, TemplateAssumption DEF FreshRoot
    <3> QED BY <1>1, <1>2, <3>1, <3>2 DEF NewJob, JobSet, new
  <2>2. \A k \in 1..Len(kept) : kept[k].n # new.n
    BY <1>2, <1>5, <2>1
  <2>3. /\ templates' \in Seq(JobSet) /\ Distinct(templates')
        /\ Len(templates') <= MaxTemplates
        /\ \E k \in 1..Len(templates') : templates'[k] = new
        /\ \A k \in 1..Len(templates') :
             templates'[k] = new \/ \E i \in 1..Len(kept) : templates'[k] = kept[i]
        /\ \/ Len(templates') = MaxTemplates
           \/ \A i \in 1..Len(kept) : \E k \in 1..Len(templates') : templates'[k] = kept[i]
    BY <1>3, <1>5, <1>10, <2>1, <2>2, CapIs
  <2>4. \A k \in 1..Len(templates') :
          templates'[k].n \in 1..tmplSeq + 1 /\ (t = tip => templates'[k].prev = t)
    <3> TAKE k \in 1..Len(templates')
    <3>1. CASE templates'[k] = new
      BY <1>2, <2>1, <3>1
    <3>2. CASE \E i \in 1..Len(kept) : templates'[k] = kept[i]
      <4>1. PICK i \in 1..Len(kept) : templates'[k] = kept[i]
        BY <3>2
      <4>2. kept[i].n \in 1..tmplSeq /\ kept[i].prev = t
        BY <1>5
      <4> QED BY <1>2, <4>1, <4>2
    <3> QED BY <2>3, <3>1, <3>2
  <2>5. TableInv'
    <3>1. \A k \in DOMAIN latest' : latest'[k] \in 1..tmplSeq + 1
      <4>1. \A x \in 1..tmplSeq : x \in 1..tmplSeq + 1
        BY <1>2
      <4>2. tmplSeq + 1 \in 1..tmplSeq + 1
        BY <1>2
      <4> HIDE DEF keys
      <4>3. \A k \in keys : latest[k] \in 1..tmplSeq
        BY <1>2 DEF keys
      <4> QED BY <1>10, <4>1, <4>2, <4>3
    <3> QED BY <1>2, <1>10, <2>3, <2>4, <3>1 DEF TableInv
  <2>6. t = tip /\ Len(templates') = MaxTemplates => FullOf(tip)'
    BY <1>1, <2>4 DEF FullOf
  <2>7. ASSUME NEW n, n = new.n
        PROVE  OnTable(n, tip)'
    <3>1. PICK k \in 1..Len(templates') : templates'[k] = new
      BY <2>3
    <3> QED BY <1>1, <2>1, <2>7, <3>1 DEF OnTable
  <2>8. ASSUME NEW n \in given
        PROVE  late' \/ OnTable(n, tip)' \/ FullOf(tip)'
    <3>1. CASE t # tip
      BY <1>1, <3>1
    <3>2. CASE t = tip /\ Len(templates') = MaxTemplates
      BY <2>6, <3>2
    <3>3. CASE Len(templates') # MaxTemplates /\ \E k \in 1..Len(kept) :
                 kept[k].n = n /\ kept[k].prev = tip
      <4>1. PICK i \in 1..Len(kept) : kept[i].n = n /\ kept[i].prev = tip
        BY <3>3
      <4>2. PICK k \in 1..Len(templates') : templates'[k] = kept[i]
        BY <2>3, <3>3
      <4> QED BY <1>1, <4>1, <4>2 DEF OnTable
    <3>4. CASE Len(templates') # MaxTemplates /\ Len(kept) = MaxTemplates
      <4>1. \A i \in 1..Len(kept) : \E k \in 1..Len(templates') : templates'[k] = kept[i]
        BY <2>3, <3>4
      <4>2. FALSE
        BY <1>2, <1>5, <1>10, <3>4 DEF Cap
      <4> QED BY <4>2
    <3> QED BY <1>8, <3>1, <3>2, <3>3, <3>4
  <2>9. ASSUME NEW n \in given'
        PROVE  late' \/ OnTable(n, tip)' \/ FullOf(tip)'
    <3>1. n \in given \/ n = new.n
      BY <1>6, <1>10
    <3> QED BY <2>7, <2>8, <3>1
  <2> QED BY <1>7, <2>5, <2>9 DEF WorkInv, GivenInv
<1> QED BY <1>4, <1>9, <1>10

-----------------------------------------------------------------------------
(* Every step keeps the invariant. *)

(* Each action on its own, and stuttering.                                 *)
LEMMA WorkInvStep == WorkInv /\ [WorkNext]_workVars => WorkInv'
<1> SUFFICES ASSUME WorkInv, [WorkNext]_workVars PROVE WorkInv'
  OBVIOUS
<1>1. CASE TipMoves \/ SubmitWork
  BY <1>1, TipKeepsWorkInv
<1>2. CASE MempoolChanges
  BY <1>2, MempoolKeepsWorkInv
<1>3. ASSUME NEW c \in Caller, JobAges(c) PROVE WorkInv'
  BY <1>3, AgesKeepsWorkInv
<1>4. ASSUME NEW c \in Caller, ReadTip(c) \/ ServeFresh(c) \/ BuildFails(c) PROVE WorkInv'
  BY <1>4, ReadersKeepWorkInv
<1>5. ASSUME NEW c \in Caller, Rebuild(c) PROVE WorkInv'
  BY <1>5, RebuildKeepsWorkInv
<1>6. CASE UNCHANGED workVars
  BY <1>6 DEF workVars, chain, tables, history, WorkInv, TableInv, ChainInv, GivenInv,
              OnTable, FullOf
<1> QED BY <1>1, <1>2, <1>3, <1>4, <1>5, <1>6 DEF WorkNext, GetTemplate

(* Whatever the interleaving of calls, tip changes and submits: the job    *)
(* table is well formed and bounded, and a job handed out for the tip can  *)
(* be submitted until the tip moves, unless the table overflowed or a call *)
(* that read an older tip swept it.                                        *)
THEOREM JobsAlwaysSound == WorkSpec => []JobsSound
<1>1. WorkInv => JobsSound
  <2> SUFFICES ASSUME WorkInv PROVE JobsSound
    OBVIOUS
  <2>1. /\ templates \in Seq(JobSet) /\ DOMAIN templates = 1..Len(templates)
        /\ \A i \in 1..Len(templates) : templates[i].n \in 1..tmplSeq
    BY DEF WorkInv, TableInv
  <2>2. \A j \in Jobs : j.prev \in Block /\ j.n \in 1..tmplSeq
    <3>1. \A i \in 1..Len(templates) : templates[i].prev \in Block
      <4>1. \A i \in 1..Len(templates) : templates[i] \in JobSet
        BY <2>1
      <4> QED BY <4>1 DEF JobSet
    <3> QED BY <2>1, <3>1 DEF Jobs, ToSet
  <2>3. TemplatesTypeOK
    BY <2>1, <2>2 DEF TemplatesTypeOK, WorkInv, TableInv, ChainInv, Distinct
  <2>4. TipWorkKept
    BY <2>1 DEF TipWorkKept, WorkInv, GivenInv, OnTable, FullOf, Jobs, ToSet
  <2> QED BY <2>3, <2>4 DEF JobsSound
<1>2. WorkInit => WorkInv
  BY WorkInvInit
<1>3. WorkInv /\ [WorkNext]_workVars => WorkInv'
  BY WorkInvStep
<1> QED BY <1>1, <1>2, <1>3, PTL DEF WorkSpec

=============================================================================
