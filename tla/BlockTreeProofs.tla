--------------------------- MODULE BlockTreeProofs ---------------------------
(***************************************************************************)
(* Lemmas about natural numbers, sequences of blocks and their summed      *)
(* work.  The library states induction with an operator parameter, which   *)
(* the provers cannot instantiate; NatSetInduction is its set form,        *)
(* derived from the well-foundedness of strict inclusion on finite sets.   *)
(***************************************************************************)
EXTENDS BlockTree, FiniteSetTheorems, WellFoundedInduction, SequenceTheorems, TLAPS

(* Every non-empty set of naturals has a least element. *)
LEMMA NatSetLeast ==
  ASSUME NEW T, T \subseteq Nat, T # {}
  PROVE  \E m \in T : \A n \in T : m <= n
<1> DEFINE I == {0..n : n \in T}
           R == StrictSubsetOrdering(Nat)
<1>1. PICK J \in I : \A K \in I : <<K, J>> \notin R
  <2>1. I \subseteq FiniteSubsetsOf(Nat)
    <3>1. \A n \in Nat : IsFiniteSet(0..n)
      BY FS_Interval
    <3>2. \A n \in Nat : 0..n \in SUBSET Nat
      OBVIOUS
    <3> QED BY <3>1, <3>2 DEF FiniteSubsetsOf
  <2>2. I # {}
    OBVIOUS
  <2>3. IsWellFoundedOn(R, FiniteSubsetsOf(Nat))
    BY FS_StrictSubsetOrderingWellFounded
  <2> HIDE DEF I, R
  <2> QED BY <2>1, <2>2, <2>3, WFMin
<1>2. PICK m \in T : J = 0..m
  OBVIOUS
<1>3. ASSUME NEW n \in T, ~(m <= n)
      PROVE  FALSE
  <2>1. 0..n \subseteq 0..m /\ 0..n # 0..m
    BY <1>3
  <2>2. <<0..n, J>> \in R
    BY <1>2, <2>1 DEF StrictSubsetOrdering
  <2> QED BY <1>1, <2>2
<1> QED BY <1>3

(* Induction over the naturals for a set. *)
LEMMA NatSetInduction ==
  ASSUME NEW S, 0 \in S, \A n \in Nat : n \in S => n + 1 \in S
  PROVE  Nat \subseteq S
<1>1. SUFFICES ASSUME Nat \ S # {}
               PROVE  FALSE
  OBVIOUS
<1>2. PICK m \in Nat \ S : \A n \in Nat \ S : m <= n
  BY <1>1, NatSetLeast
<1>3. m # 0 /\ m - 1 \in Nat /\ (m - 1) + 1 = m
  BY <1>2
<1>4. m - 1 \in S
  BY <1>2, <1>3
<1> QED BY <1>2, <1>3, <1>4

-----------------------------------------------------------------------------
(* The partial sums SumWork is defined by. *)
IsPartialSums(s, f) ==
  f = [i \in 0..Len(s) |-> IF i = 0 THEN 0 ELSE f[i - 1] + Work[s[i]]]

(* They exist: the recursion of SumWork is defined. *)
LEMMA PartialSumsExist ==
  ASSUME NEW s \in Seq(Block)
  PROVE  \E f : IsPartialSums(s, f)
<1> DEFINE S == {n \in Nat : \E f :
                    f = [i \in 0..n |-> IF i = 0 THEN 0 ELSE f[i - 1] + Work[s[i]]]}
<1>1. 0 \in S
  <2> DEFINE g == [i \in 0..0 |-> 0]
  <2>1. g = [i \in 0..0 |-> IF i = 0 THEN 0 ELSE g[i - 1] + Work[s[i]]]
    OBVIOUS
  <2> QED BY <2>1
<1>2. ASSUME NEW n \in Nat, n \in S
      PROVE  n + 1 \in S
  <2>1. PICK f : f = [i \in 0..n |-> IF i = 0 THEN 0 ELSE f[i - 1] + Work[s[i]]]
    BY <1>2
  <2> DEFINE g == [i \in 0..(n + 1) |-> IF i = n + 1 THEN f[n] + Work[s[i]] ELSE f[i]]
  <2>2. ASSUME NEW i \in 0..(n + 1)
        PROVE  g[i] = IF i = 0 THEN 0 ELSE g[i - 1] + Work[s[i]]
    <3>1. CASE i = n + 1
      BY <3>1
    <3>2. CASE i # n + 1
      <4>1. i \in 0..n /\ (i # 0 => i - 1 \in 0..(n + 1) /\ i - 1 # n + 1)
        BY <3>2
      <4>2. f[i] = IF i = 0 THEN 0 ELSE f[i - 1] + Work[s[i]]
        BY <2>1, <4>1
      <4> QED BY <3>2, <4>1, <4>2
    <3> QED BY <3>1, <3>2
  <2>3. g = [i \in 0..(n + 1) |-> g[i]]
    OBVIOUS
  <2>4. g = [i \in 0..(n + 1) |-> IF i = 0 THEN 0 ELSE g[i - 1] + Work[s[i]]]
    BY <2>2, <2>3
  <2> HIDE DEF g
  <2>5. n + 1 \in Nat
    OBVIOUS
  <2> QED BY <2>4, <2>5
<1>3. Len(s) \in S
  <2> HIDE DEF S
  <2> QED BY <1>1, <1>2, NatSetInduction
<1> QED BY <1>3 DEF IsPartialSums

(* SumWork is the last of them. *)
LEMMA SumWorkIsLastPartialSum ==
  ASSUME NEW s \in Seq(Block)
  PROVE  \E f : IsPartialSums(s, f) /\ SumWork(s) = f[Len(s)]
<1> DEFINE f == CHOOSE f : IsPartialSums(s, f)
<1>1. IsPartialSums(s, f)
  BY PartialSumsExist
<1>2. SumWork(s) = f[Len(s)]
  BY DEF SumWork, IsPartialSums
<1> QED BY <1>1, <1>2

(* The empty sequence has no work. *)
LEMMA SumWorkEmpty == SumWork(<<>>) = 0
<1>1. PICK f : IsPartialSums(<<>>, f) /\ SumWork(<<>>) = f[Len(<<>>)]
  BY SumWorkIsLastPartialSum, EmptySeq
<1> QED BY <1>1 DEF IsPartialSums

(* Adding a block adds its work. *)
LEMMA SumWorkAppend ==
  ASSUME NEW s \in Seq(Block), NEW b \in Block
  PROVE  SumWork(Append(s, b)) = SumWork(s) + Work[b]
<1> DEFINE t == Append(s, b)
           n == Len(s)
<1>1. PICK f : IsPartialSums(s, f) /\ SumWork(s) = f[n]
  BY SumWorkIsLastPartialSum
<1>2. t \in Seq(Block) /\ Len(t) = n + 1 /\ t[n + 1] = b
      /\ \A i \in 1..n : t[i] = s[i]
  BY AppendProperties
<1>3. PICK g : IsPartialSums(t, g) /\ SumWork(t) = g[n + 1]
  BY <1>2, SumWorkIsLastPartialSum
<1>4. n \in Nat
  OBVIOUS
<1> HIDE DEF t, n
<1> DEFINE S == {i \in Nat : i <= n => g[i] = f[i]}
<1>5. 0 \in S
  BY <1>1, <1>2, <1>3, <1>4 DEF IsPartialSums, n
<1>6. ASSUME NEW i \in Nat, i \in S
      PROVE  i + 1 \in S
  <2>1. SUFFICES ASSUME i + 1 <= n
                 PROVE  g[i + 1] = f[i + 1]
    OBVIOUS
  <2>2. g[i] = f[i]
    BY <1>6, <2>1, <1>4
  <2>3. g[i + 1] = g[i] + Work[t[i + 1]]
    BY <1>2, <1>3, <1>4, <2>1 DEF IsPartialSums
  <2>4. f[i + 1] = f[i] + Work[s[i + 1]]
    BY <1>1, <1>4, <2>1 DEF IsPartialSums, n
  <2>5. t[i + 1] = s[i + 1]
    BY <1>2, <1>4, <2>1
  <2> QED BY <2>2, <2>3, <2>4, <2>5
<1>7. n \in S
  <2> HIDE DEF S
  <2> QED BY <1>4, <1>5, <1>6, NatSetInduction
<1>8. g[n + 1] = g[n] + Work[b]
  BY <1>2, <1>3, <1>4 DEF IsPartialSums
<1>9. g[n] = f[n]
  BY <1>4, <1>7
<1> QED BY <1>1, <1>3, <1>8, <1>9 DEF t

(* The work of a fresh chain. *)
LEMMA SumWorkGenesis == SumWork(<<Genesis>>) = Work[Genesis]
<1>1. <<Genesis>> = Append(<<>>, Genesis) /\ <<>> \in Seq(Block)
  BY EmptySeq
<1>2. SumWork(<<Genesis>>) = SumWork(<<>>) + Work[Genesis]
  BY <1>1, SumWorkAppend, BlockTreeAssumption
<1> QED BY <1>2, SumWorkEmpty, BlockTreeAssumption

(* Genesis alone is a chain. *)
LEMMA GenesisChain ==
  /\ IsChain(<<Genesis>>) /\ BlocksOf(<<Genesis>>) \subseteq Sound
  /\ <<Genesis>> \in Seq(Block) /\ SumWork(<<Genesis>>) = Work[Genesis]
<1> DEFINE g == <<Genesis>>
<1>1. g \in Seq(Block) /\ Len(g) = 1 /\ g[1] = Genesis
  BY BlockTreeAssumption
<1>2. SumWork(g) = Work[Genesis]
  BY SumWorkGenesis
<1> HIDE DEF g
<1>3. IsChain(g) /\ BlocksOf(g) \subseteq Sound
  BY <1>1, BlockTreeAssumption DEF IsChain, BlocksOf
<1> QED BY <1>1, <1>2, <1>3 DEF g

(* Induction over sequences by length, in set form. *)
LEMMA SeqSetInduction ==
  ASSUME NEW S, <<>> \in S,
         \A s \in Seq(Block), b \in Block : s \in S => Append(s, b) \in S
  PROVE  Seq(Block) \subseteq S
<1> DEFINE N == {n \in Nat : \A s \in Seq(Block) : Len(s) = n => s \in S}
<1>1. 0 \in N
  BY EmptySeq
<1>2. ASSUME NEW n \in Nat, n \in N
      PROVE  n + 1 \in N
  <2>1. SUFFICES ASSUME NEW s \in Seq(Block), Len(s) = n + 1
                 PROVE  s \in S
    OBVIOUS
  <2> DEFINE front == SubSeq(s, 1, n)
  <2>2. front \in Seq(Block) /\ Len(front) = n /\ s[n + 1] \in Block
    BY <2>1, SubSeqProperties, ElementOfSeq
  <2>3. s = Append(front, s[n + 1])
    BY <2>1, <2>2
  <2> QED BY <1>2, <2>2, <2>3
<1>3. Nat \subseteq N
  <2> HIDE DEF N
  <2> QED BY <1>1, <1>2, NatSetInduction
<1> QED BY <1>3

(* Work sums are natural numbers. *)
LEMMA SumWorkType == \A s \in Seq(Block) : SumWork(s) \in Nat
<1> DEFINE S == {s \in Seq(Block) : SumWork(s) \in Nat}
<1>1. <<>> \in S
  BY SumWorkEmpty, EmptySeq
<1>2. \A s \in Seq(Block), b \in Block : s \in S => Append(s, b) \in S
  BY SumWorkAppend, AppendProperties, BlockTreeAssumption
<1>3. Seq(Block) \subseteq S
  <2> HIDE DEF S
  <2> QED BY <1>1, <1>2, SeqSetInduction
<1> QED BY <1>3

(* The work of a chain is the work of a prefix plus that of the rest. *)
LEMMA SumWorkConcat ==
  ASSUME NEW s \in Seq(Block), NEW t \in Seq(Block)
  PROVE  SumWork(s \o t) = SumWork(s) + SumWork(t)
<1> DEFINE S == {u \in Seq(Block) : SumWork(s \o u) = SumWork(s) + SumWork(u)}
<1>1. <<>> \in S
  BY SumWorkEmpty, SumWorkType, ConcatEmptySeq, EmptySeq
<1>2. ASSUME NEW u \in Seq(Block), NEW b \in Block, u \in S
      PROVE  Append(u, b) \in S
  <2>1. s \o Append(u, b) = Append(s \o u, b)
    OBVIOUS
  <2>2. SumWork(Append(s \o u, b)) = SumWork(s \o u) + Work[b]
    BY SumWorkAppend, ConcatProperties
  <2>3. SumWork(Append(u, b)) = SumWork(u) + Work[b]
    BY SumWorkAppend
  <2>4. SumWork(s) \in Nat /\ SumWork(u) \in Nat /\ Work[b] \in Nat
    BY SumWorkType, BlockTreeAssumption
  <2>5. Append(u, b) \in Seq(Block)
    BY AppendProperties
  <2>6. SumWork(s \o u) = SumWork(s) + SumWork(u)
    BY <1>2
  <2>7. SumWork(s \o Append(u, b)) = SumWork(s) + SumWork(Append(u, b))
    BY ONLY <2>1, <2>2, <2>3, <2>4, <2>6
  <2> QED BY <2>5, <2>7
<1>3. Seq(Block) \subseteq S
  <2> HIDE DEF S
  <2> QED BY <1>1, <1>2, SeqSetInduction
<1> QED BY <1>3

-----------------------------------------------------------------------------
(* A linked path is determined by its last block.                          *)

(* The walk of PathTo from b to the genesis block. *)
IsWalk(b, up) ==
  up = [n \in 0..Height[b] |-> IF n = 0 THEN b ELSE Parent[up[n - 1]]]

(* The last block of a linked path sits at its height. *)
LEMMA ChainHeights ==
  ASSUME NEW s, IsChain(s)
  PROVE  Len(s) \in Nat /\ Len(s) > 0 /\ TipOf(s) \in Block /\ Height[TipOf(s)] = Len(s) - 1
<1>1. s \in Seq(Block) /\ Len(s) \in Nat /\ Len(s) > 0 /\ s[1] = Genesis
  BY DEF IsChain
<1>2. TipOf(s) \in Block
  BY <1>1 DEF TipOf
<1>3. CASE Len(s) = 1
  BY <1>1, <1>2, <1>3, BlockTreeAssumption DEF TipOf
<1>4. CASE Len(s) # 1
  <2> DEFINE n == Len(s)
  <2>1. n \in 2..n
    <3>1. n \in Nat /\ n > 0 /\ n # 1
      BY <1>1, <1>4
    <3> HIDE DEF n
    <3> QED BY <3>1
  <2> QED BY <1>1, <1>2, <2>1 DEF IsChain, LinkedAt, TipOf
<1> QED BY <1>3, <1>4

(* Walking up from the tip of a linked path gives the path. *)
LEMMA PathToChain ==
  ASSUME NEW s, IsChain(s)
  PROVE  PathTo(TipOf(s)) = s
<1> DEFINE b == TipOf(s)
           h == Height[b]
           walk == [n \in 0..h |-> s[Len(s) - n]]
           up == CHOOSE f : IsWalk(b, f)
<1>1. s \in Seq(Block) /\ Len(s) \in Nat /\ Len(s) > 0 /\ h = Len(s) - 1 /\ h \in Nat
  BY ChainHeights DEF IsChain
<1>2. ASSUME NEW n \in 1..h
      PROVE  Parent[s[Len(s) - (n - 1)]] = s[Len(s) - n]
  <2>1. Len(s) - (n - 1) \in 2..Len(s) /\ (Len(s) - (n - 1)) - 1 = Len(s) - n
    BY <1>1
  <2> QED BY <2>1 DEF IsChain, LinkedAt
<1>3. IsWalk(b, walk)
  <2>1. ASSUME NEW n \in 0..h
        PROVE  walk[n] = IF n = 0 THEN b ELSE Parent[walk[n - 1]]
    <3>1. CASE n = 0
      BY <1>1, <3>1 DEF TipOf
    <3>2. CASE n # 0
      <4>1. n \in 1..h /\ n - 1 \in 0..h
        BY <1>1, <3>2
      <4> QED BY <1>2, <3>2, <4>1
    <3> QED BY <3>1, <3>2
  <2>2. walk = [n \in 0..h |-> walk[n]]
    OBVIOUS
  <2>3. walk = [n \in 0..h |-> IF n = 0 THEN b ELSE Parent[walk[n - 1]]]
    BY <2>1, <2>2
  <2> HIDE DEF walk
  <2> QED BY <2>3 DEF IsWalk
<1>4. IsWalk(b, up)
  <2> HIDE DEF walk, b
  <2> QED BY <1>3
<1>5. PathTo(b) = [i \in 1..h + 1 |-> up[h + 1 - i]]
  BY DEF PathTo, IsWalk
<1> HIDE DEF up
<1>6. \A n \in 0..h : up[n] = IF n = 0 THEN b ELSE Parent[up[n - 1]]
  <2>1. up = [n \in 0..h |-> IF n = 0 THEN b ELSE Parent[up[n - 1]]]
    BY <1>4 DEF IsWalk
  <2> HIDE DEF h, b
  <2>2. \A f : f = [n \in 0..h |-> IF n = 0 THEN b ELSE Parent[f[n - 1]]]
                 => \A n \in 0..h : f[n] = IF n = 0 THEN b ELSE Parent[f[n - 1]]
    <3> SUFFICES ASSUME NEW f, f = [n \in 0..h |-> IF n = 0 THEN b ELSE Parent[f[n - 1]]],
                        NEW n \in 0..h
                 PROVE  f[n] = IF n = 0 THEN b ELSE Parent[f[n - 1]]
      OBVIOUS
    <3> QED OBVIOUS
  <2> QED BY <2>1, <2>2
<1>7. \A n \in 0..h : up[n] = s[Len(s) - n]
  <2> DEFINE S == {n \in Nat : n <= h => up[n] = s[Len(s) - n]}
  <2>1. 0 \in S
    <3>1. 0 \in 0..h /\ Len(s) - 0 = Len(s)
      BY <1>1
    <3>2. up[0] = b /\ b = s[Len(s)]
      BY <1>6, <3>1 DEF TipOf
    <3> QED BY <3>1, <3>2
  <2>2. ASSUME NEW n \in Nat, n \in S
        PROVE  n + 1 \in S
    <3> SUFFICES ASSUME n + 1 <= h
                 PROVE  up[n + 1] = s[Len(s) - (n + 1)]
      OBVIOUS
    <3>1. n + 1 \in 1..h /\ n + 1 \in 0..h /\ n + 1 # 0 /\ (n + 1) - 1 = n /\ n <= h
      BY <1>1
    <3>2. up[n + 1] = Parent[up[n]]
      BY <1>6, <3>1
    <3>3. up[n] = s[Len(s) - n]
      BY <2>2, <3>1
    <3>4. Parent[s[Len(s) - ((n + 1) - 1)]] = s[Len(s) - (n + 1)]
      BY <1>2, <3>1
    <3> QED BY <3>1, <3>2, <3>3, <3>4
  <2>3. Nat \subseteq S
    <3> HIDE DEF S
    <3> QED BY <2>1, <2>2, NatSetInduction
  <2> QED BY <1>1, <2>3
<1>8. ASSUME NEW i \in 1..Len(s)
      PROVE  up[h + 1 - i] = s[i]
  <2>1. h + 1 - i \in 0..h /\ Len(s) - (h + 1 - i) = i
    BY <1>1
  <2> QED BY <1>7, <2>1
<1>9. h + 1 = Len(s)
  BY <1>1
<1>10. s = [i \in 1..Len(s) |-> s[i]]
  BY <1>1
<1> HIDE DEF h, b
<1>11. PathTo(b) = [i \in 1..Len(s) |-> s[i]]
  BY <1>5, <1>8, <1>9
<1> QED BY <1>10, <1>11 DEF b

-----------------------------------------------------------------------------
(* The choice in CommonLen always succeeds. *)
LEMMA CommonLenExists ==
  ASSUME NEW s \in Seq(Block), NEW t \in Seq(Block)
  PROVE  LET n == CommonLen(s, t)
         IN  /\ n \in 0..Len(s)
             /\ n <= Len(t)
             /\ \A i \in 1..n : s[i] = t[i]
             /\ n < Len(s) /\ n < Len(t) => s[n + 1] # t[n + 1]
<1> DEFINE Stops == {n \in Nat : n >= Len(s) \/ n >= Len(t) \/ s[n + 1] # t[n + 1]}
           Common(n) == /\ n <= Len(t)
                        /\ \A i \in 1..n : s[i] = t[i]
                        /\ n < Len(s) /\ n < Len(t) => s[n + 1] # t[n + 1]
<1>1. Len(s) \in Nat /\ Len(t) \in Nat
  OBVIOUS
<1>2. Len(s) \in Stops
  BY <1>1
<1>3. PICK n \in Stops : \A m \in Stops : n <= m
  <2> HIDE DEF Stops
  <2>1. Stops \subseteq Nat
    BY DEF Stops
  <2> QED BY <1>2, <2>1, NatSetLeast
<1>4. n \in 0..Len(s)
  BY <1>1, <1>2, <1>3
<1>5. ASSUME NEW i \in 1..n
      PROVE  s[i] = t[i]
  <2>1. i - 1 \in Nat /\ i - 1 < n /\ (i - 1) + 1 = i
    BY <1>4
  <2>2. i - 1 \notin Stops
    <3> HIDE DEF Stops
    <3> QED BY <1>3, <1>4, <2>1
  <2> QED BY <2>1, <2>2
<1>6. n <= Len(t)
  <2>1. Len(t) \in Stops
    BY <1>1
  <2> QED BY <1>3, <2>1
<1>7. Common(n)
  BY <1>3, <1>5, <1>6
<1>8. CommonLen(s, t) = CHOOSE k \in 0..Len(s) : Common(k)
  BY DEF CommonLen
<1> HIDE DEF Common, Stops
<1>9. CommonLen(s, t) \in 0..Len(s) /\ Common(CommonLen(s, t))
  BY <1>4, <1>7, <1>8
<1> QED BY <1>9 DEF Common

(* Two chains that agree up to k have at least k blocks in common. *)
LEMMA CommonLenCovers ==
  ASSUME NEW s \in Seq(Block), NEW t \in Seq(Block), NEW k \in Nat,
         k <= Len(s), k <= Len(t), \A i \in 1..k : s[i] = t[i]
  PROVE  CommonLen(s, t) \in Nat /\ CommonLen(s, t) >= k
<1> DEFINE n == CommonLen(s, t)
<1>1. /\ n \in 0..Len(s)
      /\ n < Len(s) /\ n < Len(t) => s[n + 1] # t[n + 1]
  BY CommonLenExists
<1>2. Len(s) \in Nat /\ Len(t) \in Nat
  OBVIOUS
<1> HIDE DEF n
<1>3. ASSUME n < k
      PROVE  FALSE
  <2>1. n + 1 \in 1..k /\ n < Len(s) /\ n < Len(t)
    BY <1>1, <1>2, <1>3
  <2> QED BY <1>1, <2>1
<1>4. n \in Nat /\ n >= k
  BY <1>1, <1>2, <1>3
<1> QED BY <1>4 DEF n
=============================================================================
