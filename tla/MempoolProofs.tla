---------------------------- MODULE MempoolProofs ----------------------------
(***************************************************************************)
(* The ledger and the pool for every set of addresses, transactions and    *)
(* branches, every schedule of subsidies, heights of the rules and caps.   *)
(***************************************************************************)
EXTENDS Mempool, FiniteSetTheorems, WellFoundedInduction, SequenceTheorems, TLAPS

(* Every non-empty set of naturals has a least element. *)
LEMMA LeastNat ==
  ASSUME NEW T, T \subseteq Nat, T # {}
  PROVE  \E m \in T : \A n \in T : m <= n
<1> DEFINE I == {0..n : n \in T}
           R == StrictSubsetOrdering(Nat)
<1>1. PICK J \in I : \A K \in I : <<K, J>> \notin R
  <2>1. I \subseteq FiniteSubsetsOf(Nat)
    <3>1. \A n \in Nat : IsFiniteSet(0..n)
      BY FS_Interval
    <3>2. \A n \in Nat : 0..n \in SUBSET Nat
      OBVIOUS
    <3> QED BY <3>1, <3>2 DEF FiniteSubsetsOf
  <2>2. I # {}
    OBVIOUS
  <2>3. IsWellFoundedOn(R, FiniteSubsetsOf(Nat))
    BY FS_StrictSubsetOrderingWellFounded
  <2> HIDE DEF I, R
  <2> QED BY <2>1, <2>2, <2>3, WFMin
<1>2. PICK m \in T : J = 0..m
  OBVIOUS
<1>3. ASSUME NEW n \in T, ~(m <= n)
      PROVE  FALSE
  <2>1. 0..n \subseteq 0..m /\ 0..n # 0..m
    BY <1>3
  <2>2. <<0..n, J>> \in R
    BY <1>2, <2>1 DEF StrictSubsetOrdering
  <2> QED BY <1>1, <2>2
<1> QED BY <1>3

(* Induction over the naturals for a set. *)
LEMMA InductionNat ==
  ASSUME NEW S, 0 \in S, \A n \in Nat : n \in S => n + 1 \in S
  PROVE  Nat \subseteq S
<1>1. SUFFICES ASSUME Nat \ S # {}
               PROVE  FALSE
  OBVIOUS
<1>2. PICK m \in Nat \ S : \A n \in Nat \ S : m <= n
  BY <1>1, LeastNat
<1>3. m # 0 /\ m - 1 \in Nat /\ (m - 1) + 1 = m
  BY <1>2
<1>4. m - 1 \in S
  BY <1>2, <1>3
<1> QED BY <1>2, <1>3, <1>4

(* The same, up to a bound. *)
LEMMA InductionUpTo ==
  ASSUME NEW k \in Nat, NEW S, 0 \in S, \A n \in 0..k - 1 : n \in S => n + 1 \in S
  PROVE  0..k \subseteq S
<1> DEFINE T == {n \in Nat : n <= k => n \in S}
<1>1. 0 \in T
  OBVIOUS
<1>2. ASSUME NEW n \in Nat, n \in T
      PROVE  n + 1 \in T
  BY <1>2
<1>3. Nat \subseteq T
  <2> HIDE DEF T
  <2> QED BY <1>1, <1>2, InductionNat
<1> QED BY <1>3

(* A loop of k steps from `base` over the values V. *)
Loops(f, k, V, base, step) ==
  f \in [0..k -> V] /\ f[0] = base /\ \A n \in 1..k : f[n] = step[n][f[n - 1]]

IsLoop(f, k, base, step) ==
  f = [n \in 0..k |-> IF n = 0 THEN base ELSE step[n][f[n - 1]]]

(* Such a loop exists. *)
LEMMA LoopExists ==
  ASSUME NEW V, NEW base \in V, NEW k \in Nat, NEW step \in [1..k -> [V -> V]]
  PROVE  \E f : Loops(f, k, V, base, step)
<1> DEFINE S == {n \in 0..k : \E f \in [0..n -> V] : IsLoop(f, n, base, step)}
<1>1. 0 \in S
  <2> DEFINE g == [i \in 0..0 |-> base]
  <2>1. g \in [0..0 -> V] /\ IsLoop(g, 0, base, step)
    BY DEF IsLoop
  <2> QED BY <2>1
<1>2. ASSUME NEW n \in 0..k - 1, n \in S
      PROVE  n + 1 \in S
  <2>1. PICK f \in [0..n -> V] : IsLoop(f, n, base, step)
    BY <1>2
  <2> DEFINE g == [i \in 0..n + 1 |-> IF i = n + 1 THEN step[n + 1][f[n]] ELSE f[i]]
  <2>2. step[n + 1][f[n]] \in V
    <3>1. n + 1 \in 1..k /\ f[n] \in V
      BY <2>1
    <3> QED BY <3>1
  <2>3. g \in [0..n + 1 -> V]
    BY <2>1, <2>2
  <2>4. ASSUME NEW i \in 0..n + 1
        PROVE  g[i] = IF i = 0 THEN base ELSE step[i][g[i - 1]]
    <3>1. CASE i = n + 1
      BY <3>1
    <3>2. CASE i # n + 1
      <4>1. i \in 0..n /\ (i # 0 => i - 1 \in 0..n + 1 /\ i - 1 # n + 1)
        BY <3>2
      <4>2. f[i] = IF i = 0 THEN base ELSE step[i][f[i - 1]]
        BY <2>1, <4>1 DEF IsLoop
      <4> QED BY <3>2, <4>1, <4>2
    <3> QED BY <3>1, <3>2
  <2>5. g = [i \in 0..n + 1 |-> g[i]]
    OBVIOUS
  <2> HIDE DEF g
  <2>6. IsLoop(g, n + 1, base, step)
    BY <2>4, <2>5 DEF IsLoop
  <2>7. n + 1 \in 0..k
    OBVIOUS
  <2> QED BY <2>3, <2>6, <2>7
<1>3. k \in S
  <2> HIDE DEF S
  <2>1. 0..k \subseteq S
    BY <1>1, <1>2, InductionUpTo
  <2> QED BY <2>1
<1>4. PICK f \in [0..k -> V] : IsLoop(f, k, base, step)
  BY <1>3
<1>5. ASSUME NEW n \in 0..k
      PROVE  f[n] = IF n = 0 THEN base ELSE step[n][f[n - 1]]
  BY <1>4 DEF IsLoop
<1>6. f[0] = base /\ \A n \in 1..k : f[n] = step[n][f[n - 1]]
  BY <1>5
<1> QED BY <1>4, <1>6 DEF Loops

(* Two loops that agree step by step agree. *)
Tracks(f, g, k) ==
  f[0] = g[0] /\ \A n \in 1..k : f[n - 1] = g[n - 1] => f[n] = g[n]
SameUpTo(f, g, k) == \A n \in 0..k : f[n] = g[n]

(* Agreement at each step is agreement throughout. *)
LEMMA LoopUnique ==
  ASSUME NEW k \in Nat, NEW f, NEW g, Tracks(f, g, k)
  PROVE  SameUpTo(f, g, k) /\ f[k] = g[k]
<1> DEFINE S == {n \in 0..k : f[n] = g[n]}
<1>1. 0 \in S
  BY DEF Tracks
<1>2. ASSUME NEW n \in 0..k - 1, n \in S
      PROVE  n + 1 \in S
  <2>1. n + 1 \in 1..k /\ (n + 1) - 1 = n
    OBVIOUS
  <2> QED BY <1>2, <2>1 DEF Tracks
<1>3. 0..k \subseteq S
  <2> HIDE DEF S
  <2> QED BY <1>1, <1>2, InductionUpTo
<1> QED BY <1>3 DEF SameUpTo

(* Induction over the sequences of a set. *)
LEMMA InductionSeq ==
  ASSUME NEW A, NEW S, <<>> \in S,
         \A s \in Seq(A), b \in A : s \in S => Append(s, b) \in S
  PROVE  Seq(A) \subseteq S
<1> DEFINE N == {n \in Nat : \A s \in Seq(A) : Len(s) = n => s \in S}
<1>1. 0 \in N
  BY EmptySeq
<1>2. ASSUME NEW n \in Nat, n \in N
      PROVE  n + 1 \in N
  <2>1. SUFFICES ASSUME NEW s \in Seq(A), Len(s) = n + 1
                 PROVE  s \in S
    OBVIOUS
  <2> DEFINE front == SubSeq(s, 1, n)
  <2>2. front \in Seq(A) /\ Len(front) = n /\ s[n + 1] \in A
    BY <2>1, SubSeqProperties, ElementOfSeq
  <2>3. s = Append(front, s[n + 1])
    BY <2>1, <2>2
  <2> QED BY <1>2, <2>2, <2>3
<1>3. Nat \subseteq N
  <2> HIDE DEF N
  <2> QED BY <1>1, <1>2, InductionNat
<1> QED BY <1>3

-----------------------------------------------------------------------------
(* Account states, and what a transaction makes of one. *)
Amount == 0..Word - 1
States == [Addr -> [balance : Amount, nonce : Nat]]
Blocks == [miner : Addr, txs : Seq(Tx)]

(* Remainders are amounts. *)
LEMMA AmountMod == \A i \in Int : i % Word \in Amount
  BY LedgerAssumption DEF Amount

(* So is zero. *)
LEMMA ZeroAmount == 0 \in Amount
BY LedgerAssumption DEF Amount

(* The ledger before the first block. *)
LEMMA EmptyStateType == EmptyState \in States
BY ZeroAmount DEF EmptyState, States

(* A credit changes one balance. *)
LEMMA CreditType ==
  ASSUME NEW st \in States, NEW a \in Addr, NEW v \in Int
  PROVE  /\ Credit(st, a, v) \in States
         /\ Credit(st, a, v)[a].balance = (st[a].balance + v) % Word
         /\ \A b \in Addr : Credit(st, a, v)[b].nonce = st[b].nonce
         /\ \A b \in Addr \ {a} : Credit(st, a, v)[b] = st[b]
<1> DEFINE x == (st[a].balance + v) % Word
<1>1. st[a] \in [balance : Amount, nonce : Nat] /\ st[a].balance \in Int
  BY DEF States, Amount
<1>2. x \in Amount
  BY <1>1, AmountMod
<1>3. Credit(st, a, v) = [st EXCEPT ![a].balance = x]
  BY DEF Credit
<1> HIDE DEF x
<1> QED BY <1>1, <1>2, <1>3 DEF States, x

(* The sender's half of a transaction. *)
Debit(st, t) ==
  [st EXCEPT ![t.from].balance = (@ + Word - Cost(t)) % Word, ![t.from].nonce = @ + 1]

(* What a transaction takes from its sender is an amount. *)
LEMMA CostType == \A t \in Tx : Cost(t) \in Amount
<1>1. \A t \in Tx : t.amount + t.fee \in Int
  BY DEF Tx
<1> QED BY <1>1, AmountMod DEF Cost

(* The sender's half of a transaction changes the sender alone. *)
LEMMA DebitType ==
  ASSUME NEW st \in States, NEW t \in Tx
  PROVE  /\ Debit(st, t) \in States
         /\ Debit(st, t)[t.from].balance = (st[t.from].balance + Word - Cost(t)) % Word
         /\ Debit(st, t)[t.from].nonce = st[t.from].nonce + 1
         /\ \A b \in Addr \ {t.from} : Debit(st, t)[b] = st[b]
<1> DEFINE a == t.from
           x == (st[a].balance + Word - Cost(t)) % Word
           n == st[a].nonce + 1
<1>1. a \in Addr
  BY DEF Tx
<1>2. st[a] \in [balance : Amount, nonce : Nat] /\ st[a].balance \in Int /\ Cost(t) \in Int
  BY <1>1, CostType DEF States, Amount
<1>3. x \in Amount /\ n \in Nat
  <2>1. st[a].balance + Word - Cost(t) \in Int /\ st[a].nonce \in Nat
    BY <1>2, LedgerAssumption
  <2> QED BY <2>1, AmountMod
<1>4. Debit(st, t) = [st EXCEPT ![a].balance = x, ![a].nonce = n]
  BY DEF Debit
<1> HIDE DEF x, n, a
<1>5. /\ Debit(st, t) \in States
      /\ Debit(st, t)[a].balance = x /\ Debit(st, t)[a].nonce = n
      /\ \A b \in Addr \ {a} : Debit(st, t)[b] = st[b]
  BY <1>1, <1>2, <1>3, <1>4, ZenonT(60) DEF States
<1> QED BY <1>5 DEF a, x, n

(* A transaction maps states to states. *)
LEMMA ApplyTxType ==
  ASSUME NEW st \in States, NEW t \in Tx
  PROVE  /\ ApplyTx(st, t) = Credit(Debit(st, t), t.to, t.amount)
         /\ ApplyTx(st, t) \in States
<1>1. ApplyTx(st, t) = Credit(Debit(st, t), t.to, t.amount)
  BY DEF ApplyTx, Debit
<1>2. t.to \in Addr /\ t.amount \in Int
  BY DEF Tx
<1> QED BY <1>1, <1>2, DebitType, CreditType

(* The loop of ApplyTxs. *)
LEMMA ApplyTxsRuns ==
  ASSUME NEW st \in States, NEW txs \in Seq(Tx)
  PROVE  \E f \in [0..Len(txs) -> States] :
           /\ f[0] = st
           /\ \A n \in 1..Len(txs) : f[n] = ApplyTx(f[n - 1], txs[n])
           /\ ApplyTxs(st, txs) = f[Len(txs)]
<1> DEFINE k == Len(txs)
           step == [n \in 1..k |-> [x \in States |-> ApplyTx(x, txs[n])]]
           IsRun(r) == r = [n \in 0..k |-> IF n = 0 THEN st ELSE ApplyTx(r[n - 1], txs[n])]
           run == CHOOSE r : IsRun(r)
<1>1. k \in Nat /\ \A n \in 1..k : txs[n] \in Tx
  OBVIOUS
<1>2. step \in [1..k -> [States -> States]]
  BY <1>1, ApplyTxType
<1>3. PICK f : Loops(f, k, States, st, step)
  <2> HIDE DEF k, step
  <2> QED BY <1>1, <1>2, LoopExists
<1>4. ASSUME NEW n \in 1..k
      PROVE  f[n] = ApplyTx(f[n - 1], txs[n])
  <2>1. f[n] = step[n][f[n - 1]] /\ f[n - 1] \in States
    <3> HIDE DEF step, k
    <3> QED BY <1>1, <1>3 DEF Loops
  <2> QED BY <2>1
<1>5. IsRun(f)
  <2> HIDE DEF k, step
  <2>1. f = [n \in 0..k |-> f[n]]
    BY <1>3 DEF Loops
  <2>2. ASSUME NEW n \in 0..k
        PROVE  f[n] = IF n = 0 THEN st ELSE ApplyTx(f[n - 1], txs[n])
    BY <1>1, <1>3, <1>4 DEF Loops
  <2> QED BY <2>1, <2>2
<1>6. IsRun(run)
  <2> HIDE DEF IsRun
  <2> QED BY <1>5
<1>7. ApplyTxs(st, txs) = run[k]
  BY DEF ApplyTxs
<1>8. run[0] = st /\ \A n \in 1..k : run[n] = ApplyTx(run[n - 1], txs[n])
  <2> HIDE DEF run
  <2> QED BY <1>1, <1>6
<1>9. run[k] = f[k]
  <2> HIDE DEF run, k
  <2>1. Tracks(run, f, k)
    BY <1>3, <1>4, <1>8 DEF Tracks, Loops
  <2> QED BY <1>1, <2>1, LoopUnique
<1> QED BY <1>3, <1>4, <1>7, <1>9 DEF Loops

(* So does a body. *)
LEMMA ApplyTxsType ==
  ASSUME NEW st \in States, NEW txs \in Seq(Tx)
  PROVE  ApplyTxs(st, txs) \in States
<1>1. Len(txs) \in 0..Len(txs)
  OBVIOUS
<1> QED BY <1>1, ApplyTxsRuns

(* An empty body changes nothing. *)
LEMMA ApplyTxsEmpty ==
  ASSUME NEW st \in States
  PROVE  ApplyTxs(st, <<>>) = st
<1>1. <<>> \in Seq(Tx) /\ Len(<<>>) = 0
  BY EmptySeq
<1> DEFINE e == <<>>
           k == Len(e)
<1>2. PICK f \in [0..k -> States] : f[0] = st /\ ApplyTxs(st, e) = f[k]
  BY <1>1, ApplyTxsRuns
<1> QED BY <1>1, <1>2

(* One transaction more. *)
LEMMA ApplyTxsAppend ==
  ASSUME NEW st \in States, NEW txs \in Seq(Tx), NEW t \in Tx
  PROVE  ApplyTxs(st, Append(txs, t)) = ApplyTx(ApplyTxs(st, txs), t)
<1> DEFINE k == Len(txs)
           more == Append(txs, t)
<1>1. PICK f \in [0..k -> States] :
        /\ f[0] = st
        /\ \A n \in 1..k : f[n] = ApplyTx(f[n - 1], txs[n])
        /\ ApplyTxs(st, txs) = f[k]
  BY ApplyTxsRuns
<1>2. more \in Seq(Tx) /\ Len(more) = k + 1 /\ more[k + 1] = t
      /\ \A n \in 1..k : more[n] = txs[n]
  BY AppendProperties
<1>3. PICK g \in [0..k + 1 -> States] :
        /\ g[0] = st
        /\ \A n \in 1..k + 1 : g[n] = ApplyTx(g[n - 1], more[n])
        /\ ApplyTxs(st, more) = g[k + 1]
  BY <1>2, ApplyTxsRuns
<1>4. k \in Nat
  OBVIOUS
<1> HIDE DEF k, more
<1>5. ASSUME NEW n \in 1..k, f[n - 1] = g[n - 1]
      PROVE  f[n] = g[n]
  <2>1. n \in 1..k + 1
    BY <1>4
  <2>2. f[n] = ApplyTx(f[n - 1], txs[n]) /\ g[n] = ApplyTx(g[n - 1], more[n])
    BY <1>1, <1>3, <2>1
  <2>3. more[n] = txs[n]
    BY <1>2
  <2> QED BY <1>5, <2>2, <2>3
<1>6. Tracks(f, g, k)
  BY <1>1, <1>3, <1>5 DEF Tracks
<1>7. f[k] = g[k]
  BY <1>4, <1>6, LoopUnique
<1>8. g[k + 1] = ApplyTx(g[k], more[k + 1])
  BY <1>3, <1>4
<1> QED BY <1>1, <1>2, <1>3, <1>7, <1>8 DEF more

(* The loop of TotalFees. *)
LEMMA TotalFeesRuns ==
  ASSUME NEW b \in Blocks
  PROVE  \E f \in [0..Len(b.txs) -> Amount] :
           /\ f[0] = 0
           /\ \A n \in 1..Len(b.txs) : f[n] = (f[n - 1] + b.txs[n].fee) % Word
           /\ TotalFees(b) = f[Len(b.txs)]
<1> DEFINE k == Len(b.txs)
           step == [n \in 1..k |-> [x \in Amount |-> (x + b.txs[n].fee) % Word]]
           IsRun(r) == r = [n \in 0..k |-> IF n = 0 THEN 0 ELSE (r[n - 1] + b.txs[n].fee) % Word]
           run == CHOOSE r : IsRun(r)
<1>1. k \in Nat /\ \A n \in 1..k : b.txs[n] \in Tx
  BY DEF Blocks
<1>2. step \in [1..k -> [Amount -> Amount]]
  <2>1. ASSUME NEW n \in 1..k, NEW x \in Amount
        PROVE  (x + b.txs[n].fee) % Word \in Amount
    <3>1. x + b.txs[n].fee \in Int
      BY <1>1 DEF Tx, Amount
    <3> QED BY <3>1, AmountMod
  <2> QED BY <2>1
<1>3. PICK f : Loops(f, k, Amount, 0, step)
  <2> HIDE DEF k, step
  <2> QED BY <1>1, <1>2, LoopExists, ZeroAmount
<1>4. ASSUME NEW n \in 1..k
      PROVE  f[n] = (f[n - 1] + b.txs[n].fee) % Word
  <2>1. f[n] = step[n][f[n - 1]] /\ f[n - 1] \in Amount
    <3> HIDE DEF step, k
    <3> QED BY <1>1, <1>3 DEF Loops
  <2> QED BY <2>1
<1>5. IsRun(f)
  <2> HIDE DEF k, step
  <2>1. f = [n \in 0..k |-> f[n]]
    BY <1>3 DEF Loops
  <2>2. ASSUME NEW n \in 0..k
        PROVE  f[n] = IF n = 0 THEN 0 ELSE (f[n - 1] + b.txs[n].fee) % Word
    <3>1. CASE n = 0
      BY <1>3, <3>1 DEF Loops
    <3>2. CASE n # 0
      <4>1. n \in 1..k
        BY <1>1, <3>2
      <4> QED BY <1>4, <3>2, <4>1
    <3> QED BY <3>1, <3>2
  <2> QED BY <2>1, <2>2
<1>6. IsRun(run)
  <2> HIDE DEF IsRun
  <2> QED BY <1>5
<1>7. TotalFees(b) = run[k]
  BY DEF TotalFees
<1>8. run[0] = 0 /\ \A n \in 1..k : run[n] = (run[n - 1] + b.txs[n].fee) % Word
  <2> HIDE DEF run, k
  <2>1. \A n \in 0..k : run[n] = IF n = 0 THEN 0 ELSE (run[n - 1] + b.txs[n].fee) % Word
    BY <1>6
  <2>2. 0 \in 0..k /\ \A n \in 1..k : n \in 0..k /\ n # 0
    BY <1>1
  <2> QED BY <2>1, <2>2
<1>9. run[k] = f[k]
  <2> HIDE DEF run, k
  <2>1. Tracks(run, f, k)
    BY <1>3, <1>4, <1>8 DEF Tracks, Loops
  <2> QED BY <1>1, <2>1, LoopUnique
<1> QED BY <1>3, <1>4, <1>7, <1>9 DEF Loops

(* The fees of a block are an amount. *)
LEMMA TotalFeesType ==
  ASSUME NEW b \in Blocks
  PROVE  TotalFees(b) \in Amount
<1>1. Len(b.txs) \in 0..Len(b.txs)
  BY DEF Blocks
<1> QED BY <1>1, TotalFeesRuns

(* What the coinbase of a block pays. *)
Reward(b, h) == (SubsidyAt[h] + TotalFees(b)) % Word

(* So is its reward. *)
LEMMA RewardType ==
  ASSUME NEW b \in Blocks, NEW h \in 0..MaxHeight
  PROVE  Reward(b, h) \in Amount /\ Reward(b, h) \in Int
<1>1. SubsidyAt[h] + TotalFees(b) \in Int
  BY TotalFeesType, LedgerAssumption DEF Amount
<1>2. Reward(b, h) \in Amount
  BY <1>1, AmountMod DEF Reward
<1> QED BY <1>2 DEF Amount

(* A block maps states to states. *)
LEMMA ApplyBlockType ==
  ASSUME NEW st \in States, NEW b \in Blocks, NEW h \in 0..MaxHeight
  PROVE  /\ ApplyBlock(st, b, h) = ApplyTxs(Credit(st, b.miner, Reward(b, h)), b.txs)
         /\ Credit(st, b.miner, Reward(b, h)) \in States
         /\ ApplyBlock(st, b, h) \in States
<1>1. ApplyBlock(st, b, h) = ApplyTxs(Credit(st, b.miner, Reward(b, h)), b.txs)
  BY DEF ApplyBlock, Reward
<1>2. b.miner \in Addr /\ b.txs \in Seq(Tx)
  BY DEF Blocks
<1>3. Credit(st, b.miner, Reward(b, h)) \in States
  BY <1>2, RewardType, CreditType
<1> QED BY <1>1, <1>2, <1>3, ApplyTxsType

(* Heights at which blocks fit. *)
Fits(bs, h) == h + Len(bs) <= MaxHeight + 1

(* The loop of Advance. *)
LEMMA AdvanceRuns ==
  ASSUME NEW st \in States, NEW bs \in Seq(Blocks), NEW h \in Nat, Fits(bs, h)
  PROVE  \E f \in [0..Len(bs) -> States] :
           /\ f[0] = st
           /\ \A n \in 1..Len(bs) : f[n] = ApplyBlock(f[n - 1], bs[n], h + n - 1)
           /\ Advance(st, bs, h) = f[Len(bs)]
<1> DEFINE k == Len(bs)
           step == [n \in 1..k |-> [x \in States |-> ApplyBlock(x, bs[n], h + n - 1)]]
           IsRun(r) == r = [n \in 0..k |-> IF n = 0 THEN st ELSE ApplyBlock(r[n - 1], bs[n], h + n - 1)]
           run == CHOOSE r : IsRun(r)
<1>1. k \in Nat /\ \A n \in 1..k : bs[n] \in Blocks
  OBVIOUS
<1>2. step \in [1..k -> [States -> States]]
  <2>1. \A n \in 1..k : h + n - 1 \in 0..MaxHeight
    BY LedgerAssumption DEF Fits
  <2> QED BY <1>1, <2>1, ApplyBlockType
<1>3. PICK f : Loops(f, k, States, st, step)
  <2> HIDE DEF k, step
  <2> QED BY <1>1, <1>2, LoopExists
<1>4. ASSUME NEW n \in 1..k
      PROVE  f[n] = ApplyBlock(f[n - 1], bs[n], h + n - 1)
  <2>1. f[n] = step[n][f[n - 1]] /\ f[n - 1] \in States
    <3> HIDE DEF step, k
    <3> QED BY <1>1, <1>3 DEF Loops
  <2> QED BY <2>1
<1>5. IsRun(f)
  <2> HIDE DEF k, step
  <2>1. f = [n \in 0..k |-> f[n]]
    BY <1>3 DEF Loops
  <2>2. ASSUME NEW n \in 0..k
        PROVE  f[n] = IF n = 0 THEN st ELSE ApplyBlock(f[n - 1], bs[n], h + n - 1)
    <3>1. CASE n = 0
      BY <1>3, <3>1 DEF Loops
    <3>2. CASE n # 0
      <4>1. n \in 1..k
        BY <1>1, <3>2
      <4> QED BY <1>4, <3>2, <4>1
    <3> QED BY <3>1, <3>2
  <2> QED BY <2>1, <2>2
<1>6. IsRun(run)
  <2> HIDE DEF IsRun
  <2> QED BY <1>5
<1>7. Advance(st, bs, h) = run[k]
  BY DEF Advance
<1>8. run[0] = st /\ \A n \in 1..k : run[n] = ApplyBlock(run[n - 1], bs[n], h + n - 1)
  <2> HIDE DEF run, k
  <2>1. \A n \in 0..k : run[n] = IF n = 0 THEN st ELSE ApplyBlock(run[n - 1], bs[n], h + n - 1)
    BY <1>6
  <2>2. 0 \in 0..k /\ \A n \in 1..k : n \in 0..k /\ n # 0
    BY <1>1
  <2> QED BY <2>1, <2>2
<1>9. run[k] = f[k]
  <2> HIDE DEF run, k
  <2>1. Tracks(run, f, k)
    BY <1>3, <1>4, <1>8 DEF Tracks, Loops
  <2> QED BY <1>1, <2>1, LoopUnique
<1> QED BY <1>3, <1>4, <1>7, <1>9 DEF Loops


(* So do several. *)
LEMMA AdvanceType ==
  ASSUME NEW st \in States, NEW bs \in Seq(Blocks), NEW h \in Nat, Fits(bs, h)
  PROVE  Advance(st, bs, h) \in States
<1>1. Len(bs) \in 0..Len(bs)
  OBVIOUS
<1> QED BY <1>1, AdvanceRuns

(* Blocks after blocks. *)
LEMMA AdvanceConcat ==
  ASSUME NEW st \in States, NEW bs \in Seq(Blocks), NEW cs \in Seq(Blocks), NEW h \in Nat,
         Fits(bs \o cs, h)
  PROVE  Advance(st, bs \o cs, h) = Advance(Advance(st, bs, h), cs, h + Len(bs))
<1> DEFINE m == Len(bs)
           k == Len(cs)
           all == bs \o cs
           i == h + m
<1>1. /\ all \in Seq(Blocks) /\ Len(all) = m + k /\ m \in Nat /\ k \in Nat
      /\ \A n \in 1..m : all[n] = bs[n]
      /\ \A n \in 1..k : all[m + n] = cs[n]
  BY ConcatProperties
<1>2. Fits(all, h) /\ Fits(bs, h) /\ Fits(cs, i) /\ i \in Nat /\ i = h + m
  <2>1. m \in Nat /\ k \in Nat /\ Len(all) = m + k
    BY <1>1
  <2> HIDE DEF all
  <2> QED BY <2>1, LedgerAssumption DEF Fits, all
<1>3. PICK f \in [0..Len(all) -> States] :
        /\ f[0] = st
        /\ \A n \in 1..Len(all) : f[n] = ApplyBlock(f[n - 1], all[n], h + n - 1)
        /\ Advance(st, all, h) = f[Len(all)]
  <2> HIDE DEF all
  <2> QED BY <1>1, <1>2, AdvanceRuns, ZenonT(60)
<1>4. PICK g \in [0..m -> States] :
        /\ g[0] = st
        /\ \A n \in 1..m : g[n] = ApplyBlock(g[n - 1], bs[n], h + n - 1)
        /\ Advance(st, bs, h) = g[m]
  BY <1>2, AdvanceRuns
<1>5. PICK e \in [0..k -> States] :
        /\ e[0] = g[m]
        /\ \A n \in 1..k : e[n] = ApplyBlock(e[n - 1], cs[n], i + n - 1)
        /\ Advance(g[m], cs, i) = e[k]
  <2>1. g[m] \in States
    BY <1>1
  <2> HIDE DEF i
  <2> QED BY <1>2, <2>1, AdvanceRuns, ZenonT(60)
<1> HIDE DEF m, k, all, i
<1>6. f[m] = g[m]
  <2>1. ASSUME NEW n \in 1..m, f[n - 1] = g[n - 1]
        PROVE  f[n] = g[n]
    <3>1. n \in 1..Len(all) /\ all[n] = bs[n]
      BY <1>1
    <3> QED BY <1>3, <1>4, <2>1, <3>1
  <2>2. Tracks(f, g, m)
    BY <1>3, <1>4, <2>1 DEF Tracks
  <2> QED BY <1>1, <2>2, LoopUnique
<1> DEFINE rest == [n \in 0..k |-> f[m + n]]
<1>7. rest[k] = e[k]
  <2>1. ASSUME NEW n \in 1..k, rest[n - 1] = e[n - 1]
        PROVE  rest[n] = e[n]
    <3>1. m + n \in 1..Len(all) /\ all[m + n] = cs[n] /\ i + n - 1 = h + (m + n) - 1
      BY <1>1, <1>2
    <3>2. n \in 0..k /\ n - 1 \in 0..k /\ m + (n - 1) = m + n - 1
      BY <1>1
    <3>3. rest[n] = f[m + n] /\ rest[n - 1] = f[m + n - 1]
      BY <3>2
    <3> DEFINE q == m + n
    <3>4. f[q] = ApplyBlock(f[q - 1], all[q], h + q - 1)
      <4>1. q \in 1..Len(all)
        BY <3>1
      <4> HIDE DEF q, rest
      <4> QED BY <1>3, <4>1
    <3>5. e[n] = ApplyBlock(e[n - 1], cs[n], i + n - 1)
      BY <1>5
    <3> HIDE DEF rest
    <3>6. f[q - 1] = e[n - 1] /\ f[q] = rest[n]
      BY <1>1, <2>1, <3>3
    <3>7. all[q] = cs[n]
      BY <3>1
    <3>8. h + q - 1 = i + n - 1
      BY <3>1
    <3> HIDE DEF q
    <3> QED BY <3>4, <3>5, <3>6, <3>7, <3>8
  <2>2. rest[0] = f[m]
    BY <1>1
  <2> HIDE DEF rest
  <2>3. Tracks(rest, e, k)
    BY <1>5, <1>6, <2>1, <2>2 DEF Tracks
  <2> QED BY <1>1, <2>3, LoopUnique
<1>8. rest[k] = f[m + k]
  BY <1>1
<1> HIDE DEF rest
<1>9. Advance(st, all, h) = Advance(Advance(st, bs, h), cs, i)
  BY <1>1, <1>3, <1>4, <1>5, <1>7, <1>8
<1> QED BY <1>9 DEF all, i, m

-----------------------------------------------------------------------------
(* The lifetime totals, the same way. *)
Totals == [Addr -> [received : Amount, mined : Amount, sent : Amount, txn : Nat]]

(* The totals before the first block. *)
LEMMA EmptyTotalsType == EmptyTotals \in Totals
BY ZeroAmount DEF EmptyTotals, Totals

(* A reward maps totals to totals. *)
LEMMA CountRewardType ==
  ASSUME NEW tot \in Totals, NEW a \in Addr, NEW v \in Int
  PROVE  CountReward(tot, a, v) \in Totals
<1> DEFINE r == [received |-> (tot[a].received + v) % Word, mined |-> (tot[a].mined + v) % Word,
                 sent |-> tot[a].sent, txn |-> tot[a].txn + 1]
<1>1. tot[a] \in [received : Amount, mined : Amount, sent : Amount, txn : Nat]
  BY DEF Totals
<1>2. r \in [received : Amount, mined : Amount, sent : Amount, txn : Nat]
  <2>1. tot[a].received + v \in Int /\ tot[a].mined + v \in Int
    BY <1>1 DEF Amount
  <2> QED BY <1>1, <2>1, AmountMod
<1>3. CountReward(tot, a, v) = [tot EXCEPT ![a] = r]
  BY DEF CountReward
<1> HIDE DEF r
<1> QED BY <1>2, <1>3 DEF Totals

(* So does a transaction. *)
LEMMA CountTxType ==
  ASSUME NEW tot \in Totals, NEW t \in Tx
  PROVE  CountTx(tot, t) \in Totals
<1> DEFINE a == t.from
           x == (tot[a].sent + Cost(t)) % Word
           n == tot[a].txn + 1
           sent == [tot EXCEPT ![a].sent = x, ![a].txn = n]
           b == t.to
           y == (sent[b].received + t.amount) % Word
           m == sent[b].txn + 1
<1>1. a \in Addr /\ b \in Addr /\ t.amount \in Int /\ Cost(t) \in Int
  BY CostType DEF Tx, Amount
<1>2. tot[a] \in [received : Amount, mined : Amount, sent : Amount, txn : Nat]
  BY <1>1 DEF Totals
<1>3. x \in Amount /\ n \in Nat
  <2>1. tot[a].sent + Cost(t) \in Int /\ tot[a].txn \in Nat
    BY <1>1, <1>2 DEF Amount
  <2> QED BY <2>1, AmountMod
<1> HIDE DEF a, b, x, n
<1>4. sent \in Totals
  BY <1>1, <1>2, <1>3 DEF Totals
<1> HIDE DEF sent
<1>5. sent[b] \in [received : Amount, mined : Amount, sent : Amount, txn : Nat]
  BY <1>1, <1>4 DEF Totals
<1>6. y \in Amount /\ m \in Nat
  <2>1. sent[b].received + t.amount \in Int /\ sent[b].txn \in Nat
    BY <1>1, <1>5 DEF Amount
  <2> QED BY <2>1, AmountMod
<1>7. CountTx(tot, t) = IF b = a THEN sent
                        ELSE [sent EXCEPT ![b].received = y, ![b].txn = m]
  BY DEF CountTx, sent, a, b, x, n
<1> HIDE DEF y, m
<1>8. [sent EXCEPT ![b].received = y, ![b].txn = m] \in Totals
  BY <1>1, <1>4, <1>5, <1>6 DEF Totals
<1> QED BY <1>4, <1>7, <1>8

(* The loop over the transactions of a block. *)
LEMMA CountTxsRuns ==
  ASSUME NEW tot \in Totals, NEW txs \in Seq(Tx)
  PROVE  \E f \in [0..Len(txs) -> Totals] :
           /\ f[0] = tot
           /\ \A n \in 1..Len(txs) : f[n] = CountTx(f[n - 1], txs[n])
           /\ CountTxs(tot, txs) = f[Len(txs)]
<1> DEFINE k == Len(txs)
           step == [n \in 1..k |-> [x \in Totals |-> CountTx(x, txs[n])]]
           IsRun(r) == r = [n \in 0..k |-> IF n = 0 THEN tot ELSE CountTx(r[n - 1], txs[n])]
           run == CHOOSE r : IsRun(r)
<1>1. k \in Nat /\ \A n \in 1..k : txs[n] \in Tx
  OBVIOUS
<1>2. step \in [1..k -> [Totals -> Totals]]
  BY <1>1, CountTxType
<1>3. PICK f : Loops(f, k, Totals, tot, step)
  <2> HIDE DEF k, step
  <2> QED BY <1>1, <1>2, LoopExists
<1>4. ASSUME NEW n \in 1..k
      PROVE  f[n] = CountTx(f[n - 1], txs[n])
  <2>1. f[n] = step[n][f[n - 1]] /\ f[n - 1] \in Totals
    <3> HIDE DEF step, k
    <3> QED BY <1>1, <1>3 DEF Loops
  <2> QED BY <2>1
<1>5. IsRun(f)
  <2> HIDE DEF k, step
  <2>1. f = [n \in 0..k |-> f[n]]
    BY <1>3 DEF Loops
  <2>2. ASSUME NEW n \in 0..k
        PROVE  f[n] = IF n = 0 THEN tot ELSE CountTx(f[n - 1], txs[n])
    <3>1. CASE n = 0
      BY <1>3, <3>1 DEF Loops
    <3>2. CASE n # 0
      <4>1. n \in 1..k
        BY <1>1, <3>2
      <4> QED BY <1>4, <3>2, <4>1
    <3> QED BY <3>1, <3>2
  <2> QED BY <2>1, <2>2
<1>6. IsRun(run)
  <2> HIDE DEF IsRun
  <2> QED BY <1>5
<1>7. CountTxs(tot, txs) = run[k]
  BY DEF CountTxs
<1>8. run[0] = tot /\ \A n \in 1..k : run[n] = CountTx(run[n - 1], txs[n])
  <2> HIDE DEF run, k
  <2>1. \A n \in 0..k : run[n] = IF n = 0 THEN tot ELSE CountTx(run[n - 1], txs[n])
    BY <1>6
  <2>2. 0 \in 0..k /\ \A n \in 1..k : n \in 0..k /\ n # 0
    BY <1>1
  <2> QED BY <2>1, <2>2
<1>9. run[k] = f[k]
  <2> HIDE DEF run, k
  <2>1. Tracks(run, f, k)
    BY <1>3, <1>4, <1>8 DEF Tracks, Loops
  <2> QED BY <1>1, <2>1, LoopUnique
<1> QED BY <1>3, <1>4, <1>7, <1>9 DEF Loops

(* So does a block. *)
LEMMA CountBlockType ==
  ASSUME NEW tot \in Totals, NEW b \in Blocks, NEW h \in 0..MaxHeight
  PROVE  CountBlock(tot, b, h) \in Totals
<1>1. b.miner \in Addr /\ b.txs \in Seq(Tx) /\ Len(b.txs) \in 0..Len(b.txs)
  BY DEF Blocks
<1> DEFINE paid == CountReward(tot, b.miner, Reward(b, h))
<1>2. paid \in Totals
  BY <1>1, RewardType, CountRewardType
<1>3. CountBlock(tot, b, h) = CountTxs(paid, b.txs)
  BY DEF CountBlock, Reward
<1> HIDE DEF paid
<1> QED BY <1>1, <1>2, <1>3, CountTxsRuns

(* The loop over blocks. *)
LEMMA CountBlocksRuns ==
  ASSUME NEW st \in Totals, NEW bs \in Seq(Blocks), NEW h \in Nat, Fits(bs, h)
  PROVE  \E f \in [0..Len(bs) -> Totals] :
           /\ f[0] = st
           /\ \A n \in 1..Len(bs) : f[n] = CountBlock(f[n - 1], bs[n], h + n - 1)
           /\ CountBlocks(st, bs, h) = f[Len(bs)]
<1> DEFINE k == Len(bs)
           step == [n \in 1..k |-> [x \in Totals |-> CountBlock(x, bs[n], h + n - 1)]]
           IsRun(r) == r = [n \in 0..k |-> IF n = 0 THEN st ELSE CountBlock(r[n - 1], bs[n], h + n - 1)]
           run == CHOOSE r : IsRun(r)
<1>1. k \in Nat /\ \A n \in 1..k : bs[n] \in Blocks
  OBVIOUS
<1>2. step \in [1..k -> [Totals -> Totals]]
  <2>1. \A n \in 1..k : h + n - 1 \in 0..MaxHeight
    BY LedgerAssumption DEF Fits
  <2> QED BY <1>1, <2>1, CountBlockType
<1>3. PICK f : Loops(f, k, Totals, st, step)
  <2> HIDE DEF k, step
  <2> QED BY <1>1, <1>2, LoopExists
<1>4. ASSUME NEW n \in 1..k
      PROVE  f[n] = CountBlock(f[n - 1], bs[n], h + n - 1)
  <2>1. f[n] = step[n][f[n - 1]] /\ f[n - 1] \in Totals
    <3> HIDE DEF step, k
    <3> QED BY <1>1, <1>3 DEF Loops
  <2> QED BY <2>1
<1>5. IsRun(f)
  <2> HIDE DEF k, step
  <2>1. f = [n \in 0..k |-> f[n]]
    BY <1>3 DEF Loops
  <2>2. ASSUME NEW n \in 0..k
        PROVE  f[n] = IF n = 0 THEN st ELSE CountBlock(f[n - 1], bs[n], h + n - 1)
    <3>1. CASE n = 0
      BY <1>3, <3>1 DEF Loops
    <3>2. CASE n # 0
      <4>1. n \in 1..k
        BY <1>1, <3>2
      <4> QED BY <1>4, <3>2, <4>1
    <3> QED BY <3>1, <3>2
  <2> QED BY <2>1, <2>2
<1>6. IsRun(run)
  <2> HIDE DEF IsRun
  <2> QED BY <1>5
<1>7. CountBlocks(st, bs, h) = run[k]
  BY DEF CountBlocks
<1>8. run[0] = st /\ \A n \in 1..k : run[n] = CountBlock(run[n - 1], bs[n], h + n - 1)
  <2> HIDE DEF run, k
  <2>1. \A n \in 0..k : run[n] = IF n = 0 THEN st ELSE CountBlock(run[n - 1], bs[n], h + n - 1)
    BY <1>6
  <2>2. 0 \in 0..k /\ \A n \in 1..k : n \in 0..k /\ n # 0
    BY <1>1
  <2> QED BY <2>1, <2>2
<1>9. run[k] = f[k]
  <2> HIDE DEF run, k
  <2>1. Tracks(run, f, k)
    BY <1>3, <1>4, <1>8 DEF Tracks, Loops
  <2> QED BY <1>1, <2>1, LoopUnique
<1> QED BY <1>3, <1>4, <1>7, <1>9 DEF Loops

(* So do several. *)
LEMMA CountBlocksType ==
  ASSUME NEW st \in Totals, NEW bs \in Seq(Blocks), NEW h \in Nat, Fits(bs, h)
  PROVE  CountBlocks(st, bs, h) \in Totals
<1>1. Len(bs) \in 0..Len(bs)
  OBVIOUS
<1> QED BY <1>1, CountBlocksRuns

(* Blocks after blocks. *)
LEMMA CountBlocksConcat ==
  ASSUME NEW st \in Totals, NEW bs \in Seq(Blocks), NEW cs \in Seq(Blocks), NEW h \in Nat,
         Fits(bs \o cs, h)
  PROVE  CountBlocks(st, bs \o cs, h) = CountBlocks(CountBlocks(st, bs, h), cs, h + Len(bs))
<1> DEFINE m == Len(bs)
           k == Len(cs)
           all == bs \o cs
           i == h + m
<1>1. /\ all \in Seq(Blocks) /\ Len(all) = m + k /\ m \in Nat /\ k \in Nat
      /\ \A n \in 1..m : all[n] = bs[n]
      /\ \A n \in 1..k : all[m + n] = cs[n]
  BY ConcatProperties
<1>2. Fits(all, h) /\ Fits(bs, h) /\ Fits(cs, i) /\ i \in Nat /\ i = h + m
  <2>1. m \in Nat /\ k \in Nat /\ Len(all) = m + k
    BY <1>1
  <2> HIDE DEF all
  <2> QED BY <2>1, LedgerAssumption DEF Fits, all
<1>3. PICK f \in [0..Len(all) -> Totals] :
        /\ f[0] = st
        /\ \A n \in 1..Len(all) : f[n] = CountBlock(f[n - 1], all[n], h + n - 1)
        /\ CountBlocks(st, all, h) = f[Len(all)]
  <2> HIDE DEF all
  <2> QED BY <1>1, <1>2, CountBlocksRuns, ZenonT(60)
<1>4. PICK g \in [0..m -> Totals] :
        /\ g[0] = st
        /\ \A n \in 1..m : g[n] = CountBlock(g[n - 1], bs[n], h + n - 1)
        /\ CountBlocks(st, bs, h) = g[m]
  BY <1>2, CountBlocksRuns
<1>5. PICK e \in [0..k -> Totals] :
        /\ e[0] = g[m]
        /\ \A n \in 1..k : e[n] = CountBlock(e[n - 1], cs[n], i + n - 1)
        /\ CountBlocks(g[m], cs, i) = e[k]
  <2>1. g[m] \in Totals
    BY <1>1
  <2> HIDE DEF i
  <2> QED BY <1>2, <2>1, CountBlocksRuns, ZenonT(60)
<1> HIDE DEF m, k, all, i
<1>6. f[m] = g[m]
  <2>1. ASSUME NEW n \in 1..m, f[n - 1] = g[n - 1]
        PROVE  f[n] = g[n]
    <3>1. n \in 1..Len(all) /\ all[n] = bs[n]
      BY <1>1
    <3> QED BY <1>3, <1>4, <2>1, <3>1
  <2>2. Tracks(f, g, m)
    BY <1>3, <1>4, <2>1 DEF Tracks
  <2> QED BY <1>1, <2>2, LoopUnique
<1> DEFINE rest == [n \in 0..k |-> f[m + n]]
<1>7. rest[k] = e[k]
  <2>1. ASSUME NEW n \in 1..k, rest[n - 1] = e[n - 1]
        PROVE  rest[n] = e[n]
    <3>1. m + n \in 1..Len(all) /\ all[m + n] = cs[n] /\ i + n - 1 = h + (m + n) - 1
      BY <1>1, <1>2
    <3>2. n \in 0..k /\ n - 1 \in 0..k /\ m + (n - 1) = m + n - 1
      BY <1>1
    <3>3. rest[n] = f[m + n] /\ rest[n - 1] = f[m + n - 1]
      BY <3>2
    <3> DEFINE q == m + n
    <3>4. f[q] = CountBlock(f[q - 1], all[q], h + q - 1)
      <4>1. q \in 1..Len(all)
        BY <3>1
      <4> HIDE DEF q, rest
      <4> QED BY <1>3, <4>1
    <3>5. e[n] = CountBlock(e[n - 1], cs[n], i + n - 1)
      BY <1>5
    <3> HIDE DEF rest
    <3>6. f[q - 1] = e[n - 1] /\ f[q] = rest[n]
      BY <1>1, <2>1, <3>3
    <3>7. all[q] = cs[n]
      BY <3>1
    <3>8. h + q - 1 = i + n - 1
      BY <3>1
    <3> HIDE DEF q
    <3> QED BY <3>4, <3>5, <3>6, <3>7, <3>8
  <2>2. rest[0] = f[m]
    BY <1>1
  <2> HIDE DEF rest
  <2>3. Tracks(rest, e, k)
    BY <1>5, <1>6, <2>1, <2>2 DEF Tracks
  <2> QED BY <1>1, <2>3, LoopUnique
<1>8. rest[k] = f[m + k]
  BY <1>1
<1> HIDE DEF rest
<1>9. CountBlocks(st, all, h) = CountBlocks(CountBlocks(st, bs, h), cs, i)
  BY <1>1, <1>3, <1>4, <1>5, <1>7, <1>8
<1> QED BY <1>9 DEF all, i, m


-----------------------------------------------------------------------------
(* Loops over finite sets. *)

(* Induction over the subsets of a finite set. *)
LEMMA InductionSubsets ==
  ASSUME NEW T, IsFiniteSet(T), NEW S, {} \in S,
         \A s \in SUBSET T : s # {} /\ (\A x \in s : s \ {x} \in S) => s \in S
  PROVE  SUBSET T \subseteq S
<1> DEFINE N == {n \in Nat : \A s \in SUBSET T : Cardinality(s) = n => s \in S}
<1>1. \A s \in SUBSET T : IsFiniteSet(s) /\ Cardinality(s) \in Nat
  BY FS_Subset, FS_CardinalityType
<1>2. 0 \in N
  BY <1>1, FS_EmptySet
<1>3. ASSUME NEW n \in Nat, n \in N
      PROVE  n + 1 \in N
  <2>1. ASSUME NEW s \in SUBSET T, Cardinality(s) = n + 1
        PROVE  s \in S
    <3>1. s # {}
      <4>1. Cardinality({}) = 0
        BY FS_EmptySet
      <4>2. Cardinality(s) # 0
        BY <2>1
      <4> QED BY <4>1, <4>2
    <3>2. ASSUME NEW x \in s
          PROVE  s \ {x} \in S
      <4>1. s \ {x} \in SUBSET T /\ Cardinality(s \ {x}) = n
        BY <1>1, <2>1, FS_RemoveElement
      <4> QED BY <1>3, <4>1
    <3> QED BY <3>1, <3>2
  <2> QED BY <2>1
<1>4. Nat \subseteq N
  <2> HIDE DEF N
  <2> QED BY <1>2, <1>3, InductionNat
<1> QED BY <1>1, <1>4

(* A loop that takes the elements of a set in the order of `pick`. *)
SetLoops(f, D, base, pick, step) ==
  \A s \in D : f[s] = IF s = {} THEN base ELSE step[pick[s]][f[s \ {pick[s]}]]

PicksFrom(pick, T) == \A s \in SUBSET T : s # {} => pick[s] \in s

(* Such a loop exists. *)
LEMMA SetLoopExists ==
  ASSUME NEW T, IsFiniteSet(T), NEW V, NEW base \in V, NEW pick, PicksFrom(pick, T),
         NEW step \in [T -> [V -> V]]
  PROVE  \E f \in [SUBSET T -> V] : SetLoops(f, SUBSET T, base, pick, step)
<1> DEFINE D(n) == {s \in SUBSET T : Cardinality(s) <= n}
           N == {n \in Nat : \E f \in [D(n) -> V] : SetLoops(f, D(n), base, pick, step)}
<1>1. \A s \in SUBSET T : IsFiniteSet(s) /\ Cardinality(s) \in Nat
  BY FS_Subset, FS_CardinalityType
<1>2. ASSUME NEW s \in SUBSET T, s # {}
      PROVE  /\ s \ {pick[s]} \in SUBSET T
             /\ Cardinality(s \ {pick[s]}) = Cardinality(s) - 1
             /\ pick[s] \in T
  BY <1>1, <1>2, FS_RemoveElement DEF PicksFrom
<1>3. 0 \in N
  <2> DEFINE g == [s \in D(0) |-> base]
  <2>1. D(0) = {{}}
    BY <1>1, FS_EmptySet
  <2>2. g \in [D(0) -> V]
    OBVIOUS
  <2>3. SetLoops(g, D(0), base, pick, step)
    BY <2>1 DEF SetLoops
  <2> HIDE DEF g, D
  <2> QED BY <2>2, <2>3
<1>4. ASSUME NEW n \in Nat, n \in N
      PROVE  n + 1 \in N
  <2>1. PICK f \in [D(n) -> V] : SetLoops(f, D(n), base, pick, step)
    BY <1>4
  <2> DEFINE val(s) == IF s = {} THEN base ELSE step[pick[s]][f[s \ {pick[s]}]]
             g == [s \in D(n + 1) |-> val(s)]
  <2>2. ASSUME NEW s \in D(n + 1)
        PROVE  val(s) \in V
    <3>1. CASE s = {}
      BY <3>1
    <3>2. CASE s # {}
      <4>1. s \ {pick[s]} \in D(n) /\ pick[s] \in T
        BY <1>1, <1>2, <3>2
      <4>2. f[s \ {pick[s]}] \in V
        <5> HIDE DEF D
        <5> QED BY <2>1, <4>1
      <4>3. step[pick[s]] \in [V -> V]
        BY <4>1
      <4>4. step[pick[s]][f[s \ {pick[s]}]] \in V
        BY <4>2, <4>3
      <4> QED BY <3>2, <4>4
    <3> QED BY <3>1, <3>2
  <2>3. ASSUME NEW s \in D(n)
        PROVE  s \in D(n + 1) /\ g[s] = f[s]
    <3>1. s \in D(n + 1)
      BY <1>1
    <3>2. f[s] = val(s)
      <4> HIDE DEF D
      <4> QED BY <2>1 DEF SetLoops
    <3> HIDE DEF val, D
    <3> QED BY <3>1, <3>2
  <2>4. ASSUME NEW s \in D(n + 1)
        PROVE  g[s] = IF s = {} THEN base ELSE step[pick[s]][g[s \ {pick[s]}]]
    <3>1. CASE s = {}
      BY <3>1
    <3>2. CASE s # {}
      <4>1. s \ {pick[s]} \in D(n)
        BY <1>1, <1>2, <3>2
      <4>2. g[s \ {pick[s]}] = f[s \ {pick[s]}]
        <5> HIDE DEF g, D
        <5> QED BY <2>3, <4>1
      <4>3. g[s] = val(s)
        <5> HIDE DEF val, D
        <5> QED OBVIOUS
      <4> HIDE DEF g
      <4> QED BY <3>2, <4>2, <4>3
    <3> QED BY <3>1, <3>2
  <2>5. g \in [D(n + 1) -> V]
    <3> HIDE DEF val, D
    <3> QED BY <2>2
  <2>6. SetLoops(g, D(n + 1), base, pick, step)
    <3> HIDE DEF g, D
    <3> QED BY <2>4 DEF SetLoops
  <2> HIDE DEF g, D
  <2> QED BY <2>5, <2>6
<1>5. Nat \subseteq N
  <2> HIDE DEF N
  <2> QED BY <1>3, <1>4, InductionNat
<1>6. Cardinality(T) \in Nat /\ D(Cardinality(T)) = SUBSET T
  BY <1>1, FS_Subset
<1> DEFINE c == Cardinality(T)
<1>7. c \in N
  <2> HIDE DEF N
  <2> QED BY <1>5, <1>6
<1>8. PICK f \in [D(c) -> V] : SetLoops(f, D(c), base, pick, step)
  BY <1>7
<1> HIDE DEF D
<1> QED BY <1>6, <1>8

SetLoopsAgree(f, g, pick, T) ==
  /\ f[{}] = g[{}]
  /\ \A s \in SUBSET T : s # {} => pick[s] \in s
  /\ \A s \in SUBSET T : s # {} /\ f[s \ {pick[s]}] = g[s \ {pick[s]}] => f[s] = g[s]

(* Two such loops that agree step by step agree. *)
LEMMA SetLoopUnique ==
  ASSUME NEW T, IsFiniteSet(T), NEW f, NEW g, NEW pick, SetLoopsAgree(f, g, pick, T)
  PROVE  f[T] = g[T]
<1> DEFINE S == {s \in SUBSET T : f[s] = g[s]}
<1>1. {} \in S
  BY DEF SetLoopsAgree
<1>2. ASSUME NEW s \in SUBSET T, s # {}, \A x \in s : s \ {x} \in S
      PROVE  s \in S
  <2>1. s \ {pick[s]} \in S
    BY <1>2 DEF SetLoopsAgree
  <2> QED BY <1>2, <2>1 DEF SetLoopsAgree
<1>3. SUBSET T \subseteq S
  <2> HIDE DEF S
  <2> QED BY <1>1, <1>2, InductionSubsets
<1> QED BY <1>3

-----------------------------------------------------------------------------
(* The pool as a data structure. *)
InOrder(s) == \A i, j \in 1..Len(s) : i < j => s[i].nonce < s[j].nonce

Listed(p, a) ==
  /\ p.bySender[a] \in Seq(Txs)
  /\ Range(p.bySender[a]) = {t \in p.txs : t.from = a}
  /\ InOrder(p.bySender[a])
  /\ Len(p.bySender[a]) <= MaxPerSender

Pools == [txs : SUBSET Txs, bySender : [Addr -> Seq(Txs)]]

PoolOK(p) ==
  /\ p \in Pools
  /\ IsFiniteSet(p.txs) /\ Cardinality(p.txs) <= PoolLimit + 1
  /\ \A a \in Addr : Listed(p, a)

(* The loop of Without. *)
LEMMA WithoutRuns ==
  ASSUME NEW s \in Seq(Txs), NEW gone
  PROVE  \E f \in [0..Len(s) -> Seq(Txs)] :
           /\ f[0] = <<>>
           /\ \A n \in 1..Len(s) : f[n] = IF s[n] \in gone THEN f[n - 1] ELSE Append(f[n - 1], s[n])
           /\ Without(s, gone) = f[Len(s)]
<1> DEFINE k == Len(s)
           step == [n \in 1..k |-> [x \in Seq(Txs) |-> IF s[n] \in gone THEN x ELSE Append(x, s[n])]]
           IsRun(r) == r = [n \in 0..k |-> IF n = 0 THEN <<>> ELSE IF s[n] \in gone THEN r[n - 1] ELSE Append(r[n - 1], s[n])]
           run == CHOOSE r : IsRun(r)
<1>1. k \in Nat /\ \A n \in 1..k : s[n] \in Txs
  OBVIOUS
<1>2. step \in [1..k -> [Seq(Txs) -> Seq(Txs)]]
  BY <1>1, AppendProperties
<1>3. PICK f : Loops(f, k, Seq(Txs), <<>>, step)
  <2> HIDE DEF k, step
  <2> QED BY <1>1, <1>2, LoopExists, EmptySeq
<1>4. ASSUME NEW n \in 1..k
      PROVE  f[n] = IF s[n] \in gone THEN f[n - 1] ELSE Append(f[n - 1], s[n])
  <2>1. f[n] = step[n][f[n - 1]] /\ f[n - 1] \in Seq(Txs)
    <3> HIDE DEF step, k
    <3> QED BY <1>1, <1>3 DEF Loops
  <2> QED BY <2>1
<1>5. IsRun(f)
  <2> HIDE DEF k, step
  <2>1. f = [n \in 0..k |-> f[n]]
    BY <1>3 DEF Loops
  <2>2. ASSUME NEW n \in 0..k
        PROVE  f[n] = IF n = 0 THEN <<>> ELSE IF s[n] \in gone THEN f[n - 1] ELSE Append(f[n - 1], s[n])
    <3>1. CASE n = 0
      BY <1>3, <3>1 DEF Loops
    <3>2. CASE n # 0
      <4>1. n \in 1..k
        BY <1>1, <3>2
      <4> QED BY <1>4, <3>2, <4>1
    <3> QED BY <3>1, <3>2
  <2> QED BY <2>1, <2>2
<1>6. IsRun(run)
  <2> HIDE DEF IsRun
  <2> QED BY <1>5
<1>7. Without(s, gone) = run[k]
  BY DEF Without
<1>8. run[0] = <<>> /\ \A n \in 1..k : run[n] = IF s[n] \in gone THEN run[n - 1] ELSE Append(run[n - 1], s[n])
  <2> HIDE DEF run, k
  <2>1. \A n \in 0..k : run[n] = IF n = 0 THEN <<>> ELSE IF s[n] \in gone THEN run[n - 1] ELSE Append(run[n - 1], s[n])
    BY <1>6
  <2>2. 0 \in 0..k /\ \A n \in 1..k : n \in 0..k /\ n # 0
    BY <1>1
  <2> QED BY <2>1, <2>2
<1>9. run[k] = f[k]
  <2> HIDE DEF run, k
  <2>1. Tracks(run, f, k)
    BY <1>3, <1>4, <1>8 DEF Tracks, Loops
  <2> QED BY <1>1, <2>1, LoopUnique
<1> QED BY <1>3, <1>4, <1>7, <1>9 DEF Loops

(* What is left of a list when some transactions leave it. *)
LEMMA WithoutKeeps ==
  ASSUME NEW s \in Seq(Txs), InOrder(s), NEW gone
  PROVE  /\ Without(s, gone) \in Seq(Txs)
         /\ Range(Without(s, gone)) = Range(s) \ gone
         /\ InOrder(Without(s, gone))
         /\ Len(Without(s, gone)) <= Len(s)
         /\ Range(s) \cap gone # {} => Len(Without(s, gone)) < Len(s)
<1> DEFINE k == Len(s)
           Kept(r, n) == /\ Range(r) = {s[j] : j \in 1..n} \ gone
                         /\ InOrder(r)
                         /\ Len(r) <= n
                         /\ \A j \in 1..n : s[j] \in gone => Len(r) < n
<1>1. PICK f \in [0..k -> Seq(Txs)] :
        /\ f[0] = <<>>
        /\ \A n \in 1..k : f[n] = IF s[n] \in gone THEN f[n - 1] ELSE Append(f[n - 1], s[n])
        /\ Without(s, gone) = f[k]
  BY WithoutRuns
<1>2. k \in Nat /\ \A n \in 1..k : s[n] \in Txs
  OBVIOUS
<1> DEFINE S == {n \in 0..k : Kept(f[n], n)}
<1>3. 0 \in S
  <2>1. Kept(<<>>, 0)
    BY DEF InOrder, Range
  <2> HIDE DEF Kept
  <2> QED BY <1>1, <1>2, <2>1
<1>4. ASSUME NEW n \in 0..k - 1, n \in S
      PROVE  n + 1 \in S
  <2> DEFINE r == f[n]
             m == n + 1
             t == s[m]
             q == f[m]
  <2>1. /\ m \in 1..k /\ m - 1 = n /\ r \in Seq(Txs) /\ t \in Txs /\ Kept(r, n)
        /\ m = n + 1 /\ n \in Nat /\ m \in 0..k
    BY <1>1, <1>2, <1>4
  <2>2. q = IF t \in gone THEN r ELSE Append(r, t)
    BY <1>1, <2>1
  <2> HIDE DEF r, q, m
  <2>3. {s[j] : j \in 1..m} = {s[j] : j \in 1..n} \cup {t}
    <3>1. 1..m = 1..n \cup {m}
      BY <2>1
    <3> QED BY <3>1
  <2>4. CASE t \in gone
    <3>1. q = r /\ Len(r) \in Nat /\ Len(r) <= n
      BY <2>1, <2>2, <2>4
    <3>2. Range(q) = {s[j] : j \in 1..m} \ gone
      BY <2>1, <2>3, <2>4, <3>1
    <3>3. Len(q) < m /\ Len(q) <= m
      BY <2>1, <3>1
    <3> QED BY <2>1, <3>1, <3>2, <3>3 DEF q, m
  <2>5. CASE t \notin gone
    <3>1. /\ q \in Seq(Txs) /\ Len(q) = Len(r) + 1 /\ q[Len(r) + 1] = t
          /\ \A i \in 1..Len(r) : q[i] = r[i]
          /\ Len(r) \in Nat /\ Len(r) <= n
      BY <2>1, <2>2, <2>5, AppendProperties
    <3>2. Range(q) = Range(r) \cup {t}
      <4>1. 1..Len(q) = 1..Len(r) \cup {Len(r) + 1}
        BY <3>1
      <4>2. Range(q) = {q[i] : i \in 1..Len(q)} /\ Range(r) = {r[i] : i \in 1..Len(r)}
        <5>1. DOMAIN q = 1..Len(q) /\ DOMAIN r = 1..Len(r)
          BY <2>1, <3>1
        <5> QED BY <5>1 DEF Range
      <4> QED BY <3>1, <4>1, <4>2
    <3>3. Range(q) = {s[j] : j \in 1..m} \ gone
      BY <2>1, <2>3, <2>5, <3>2
    <3>4. InOrder(q)
      <4>1. ASSUME NEW i \in 1..Len(r)
            PROVE  r[i].nonce < t.nonce
        <5>1. r[i] \in Range(r)
          BY <2>1 DEF Range
        <5>2. PICK j \in 1..n : r[i] = s[j]
          BY <2>1, <5>1
        <5> QED BY <2>1, <5>2 DEF InOrder
      <4>2. \A i, j \in 1..Len(r) : i < j => r[i].nonce < r[j].nonce
        BY <2>1 DEF InOrder
      <4>3. ASSUME NEW i \in 1..Len(q), NEW j \in 1..Len(q), i < j
            PROVE  q[i].nonce < q[j].nonce
        <5>1. CASE j = Len(r) + 1
          <6>1. i \in 1..Len(r)
            BY <3>1, <4>3, <5>1
          <6>2. q[i] = r[i] /\ q[j] = t
            BY <3>1, <5>1, <6>1
          <6>3. r[i].nonce < t.nonce
            BY <4>1, <6>1
          <6> QED BY <6>2, <6>3
        <5>2. CASE j # Len(r) + 1
          <6> DEFINE l == Len(r)
          <6>0. l \in Nat /\ i \in 1..l + 1 /\ j \in 1..l + 1 /\ j # l + 1 /\ i < j
            <7>1. Len(q) = l + 1 /\ l \in Nat
              BY <3>1
            <7> QED BY <4>3, <5>2, <7>1
          <6> HIDE DEF l
          <6>1. i \in 1..l /\ j \in 1..l
            BY <6>0
          <6>2. q[i] = r[i] /\ q[j] = r[j]
            BY <3>1, <6>1 DEF l
          <6>3. r[i].nonce < r[j].nonce
            BY <4>2, <6>0, <6>1 DEF l
          <6> QED BY <6>2, <6>3
        <5> QED BY <5>1, <5>2
      <4> QED BY <4>3 DEF InOrder
    <3>5. Len(q) <= m
      BY <2>1, <3>1
    <3>6. ASSUME NEW j \in 1..m, s[j] \in gone
          PROVE  Len(q) < m
      <4>1. j \in 1..n
        BY <2>1, <2>5, <3>6
      <4>2. Len(r) < n
        BY <2>1, <3>6, <4>1
      <4> QED BY <2>1, <3>1, <4>2
    <3>7. Kept(q, m)
      BY <3>3, <3>4, <3>5, <3>6
    <3> HIDE DEF Kept
    <3> QED BY <2>1, <3>7 DEF q, m
  <2> QED BY <2>4, <2>5
<1>5. Kept(f[k], k)
  <2> HIDE DEF S
  <2>1. 0..k \subseteq S
    BY <1>2, <1>3, <1>4, InductionUpTo
  <2>2. k \in S
    BY <1>2, <2>1
  <2> HIDE DEF Kept
  <2> QED BY <2>2 DEF S
<1>6. f[k] \in Seq(Txs)
  BY <1>1, <1>2
<1>7. Range(s) = {s[j] : j \in 1..k}
  BY DEF Range
<1>8. Range(s) \cap gone # {} => \E j \in 1..k : s[j] \in gone
  BY <1>7
<1> HIDE DEF k
<1> QED BY <1>1, <1>5, <1>6, <1>7, <1>8 DEF k

(* The empty pool is one. *)
LEMMA EmptyPoolOK == PoolOK(EmptyPool)
<1>1. <<>> \in Seq(Txs) /\ Len(<<>>) = 0 /\ Range(<<>>) = {}
  BY EmptySeq DEF Range
<1> DEFINE e == <<>>
           none == {}
<1>2. EmptyPool = [txs |-> none, bySender |-> [a \in Addr |-> e]]
  BY DEF EmptyPool
<1>3. EmptyPool \in Pools
  BY <1>1 DEF EmptyPool, Pools
<1>4. IsFiniteSet(EmptyPool.txs) /\ Cardinality(EmptyPool.txs) <= PoolLimit + 1
  BY FS_EmptySet, MempoolAssumption DEF EmptyPool
<1>5. ASSUME NEW a \in Addr
      PROVE  Listed(EmptyPool, a)
  <2>1. EmptyPool.bySender[a] = e /\ EmptyPool.txs = none
    BY DEF EmptyPool
  <2>2. InOrder(e)
    BY DEF InOrder
  <2>3. Len(e) <= MaxPerSender
    BY MempoolAssumption
  <2> QED BY <1>1, <2>1, <2>2, <2>3 DEF Listed
<1> QED BY <1>3, <1>4, <1>5 DEF PoolOK

(* Transactions leave. *)
LEMMA mpDelAllKeeps ==
  ASSUME NEW p, PoolOK(p), NEW gone
  PROVE  /\ PoolOK(mpDelAll(p, gone))
         /\ mpDelAll(p, gone).txs = p.txs \ gone
         /\ \A a \in Addr : mpDelAll(p, gone).bySender[a] = Without(p.bySender[a], gone)
<1> DEFINE q == mpDelAll(p, gone)
           lists == [a \in Addr |-> Without(p.bySender[a], gone)]
           left == p.txs \ gone
<1>1. q = [txs |-> left, bySender |-> lists]
  BY DEF mpDelAll
<1>2. q.txs = left /\ q.bySender = lists
  BY <1>1
<1>3. ASSUME NEW a \in Addr
      PROVE  Without(p.bySender[a], gone) \in Seq(Txs) /\ Listed(q, a)
  <2> DEFINE s == p.bySender[a]
             r == Without(s, gone)
  <2>1. /\ s \in Seq(Txs) /\ Range(s) = {t \in p.txs : t.from = a} /\ InOrder(s)
        /\ Len(s) <= MaxPerSender
    BY DEF PoolOK, Listed
  <2>2. /\ r \in Seq(Txs) /\ Range(r) = Range(s) \ gone /\ InOrder(r) /\ Len(r) <= Len(s)
    <3> HIDE DEF s
    <3> QED BY <2>1, WithoutKeeps
  <2>3. q.bySender[a] = r
    BY <1>2
  <2>4. Range(r) = {t \in q.txs : t.from = a}
    BY <1>2, <2>1, <2>2
  <2>5. Len(r) <= MaxPerSender
    <3>1. Len(r) \in Nat /\ Len(s) \in Nat
      BY <2>1, <2>2
    <3> HIDE DEF s, r
    <3> QED BY <2>1, <2>2, <3>1, MempoolAssumption
  <2> HIDE DEF r, q
  <2>6. Listed(q, a)
    BY <2>2, <2>3, <2>4, <2>5 DEF Listed
  <2> QED BY <2>2, <2>6 DEF r
<1>4. q \in Pools
  <2>1. lists \in [Addr -> Seq(Txs)]
    BY <1>3
  <2>2. left \in SUBSET Txs
    BY DEF PoolOK, Pools
  <2> HIDE DEF lists, left
  <2> QED BY <1>1, <2>1, <2>2 DEF Pools
<1>5. IsFiniteSet(left) /\ Cardinality(left) <= PoolLimit + 1
  <2>1. IsFiniteSet(p.txs) /\ Cardinality(p.txs) <= PoolLimit + 1 /\ left \in SUBSET p.txs
    BY DEF PoolOK
  <2>2. IsFiniteSet(left) /\ Cardinality(left) <= Cardinality(p.txs)
    BY <2>1, FS_Subset
  <2>3. Cardinality(left) \in Nat /\ Cardinality(p.txs) \in Nat
    BY <2>1, <2>2, FS_CardinalityType
  <2> QED BY <2>1, <2>2, <2>3, MempoolAssumption
<1>6. PoolOK(q)
  <2> HIDE DEF q
  <2> QED BY <1>2, <1>3, <1>4, <1>5 DEF PoolOK
<1> QED BY <1>2, <1>6

(* Where a nonce falls in an ordered list. *)
LEMMA CutAt ==
  ASSUME NEW s \in Seq(Txs), InOrder(s), NEW n \in Nat
  PROVE  \E i \in 0..Len(s) :
           /\ {k \in 1..Len(s) : s[k].nonce < n} = 1..i
           /\ Cardinality({k \in 1..Len(s) : s[k].nonce < n}) = i
<1> DEFINE T == {k \in 1..Len(s) : ~(s[k].nonce < n)}
           below == {k \in 1..Len(s) : s[k].nonce < n}
<1>1. \A k \in 1..Len(s) : s[k].nonce \in Nat
  <2>1. \A k \in 1..Len(s) : s[k] \in Tx
    BY MempoolAssumption
  <2> QED BY <2>1 DEF Tx
<1>2. \E i \in 0..Len(s) : below = 1..i
  <2>1. CASE T = {}
    <3>1. below = 1..Len(s) /\ Len(s) \in 0..Len(s)
      BY <2>1
    <3> HIDE DEF below
    <3> QED BY <3>1
  <2>2. CASE T # {}
    <3>1. PICK m \in T : \A k \in T : m <= k
      <4>1. T \subseteq Nat
        OBVIOUS
      <4> HIDE DEF T
      <4> QED BY <2>2, <4>1, LeastNat
    <3>2. m \in 1..Len(s) /\ s[m].nonce >= n
      BY <1>1, <3>1
    <3>3. ASSUME NEW k \in 1..Len(s)
          PROVE  k \in below <=> k <= m - 1
      <4>1. CASE k < m
        <5>1. k \notin T
          BY <3>1, <3>2, <4>1
        <5> QED BY <3>2, <4>1, <5>1
      <4>2. CASE k >= m
        <5>1. s[k].nonce >= s[m].nonce
          <6>1. CASE k = m
            BY <1>1, <6>1
          <6>2. CASE k > m
            BY <1>1, <3>2, <6>2 DEF InOrder
          <6> QED BY <3>2, <4>2, <6>1, <6>2
        <5>2. ~(s[k].nonce < n)
          BY <1>1, <3>2, <5>1
        <5> QED BY <3>2, <4>2, <5>2
      <4> QED BY <3>2, <4>1, <4>2
    <3>4. below \subseteq 1..Len(s) /\ m - 1 \in 0..Len(s)
      BY <3>2
    <3> DEFINE i == m - 1
               l == Len(s)
    <3>5. i \in 0..l /\ l \in Nat /\ below \subseteq 1..l
          /\ \A k \in 1..l : k \in below <=> k <= i
      BY <3>3, <3>4
    <3> HIDE DEF below, i, l
    <3>6. below = 1..i
      <4>1. \A k \in 1..i : k \in 1..l /\ k <= i
        BY <3>5
      <4>2. \A k \in below : k \in 1..l /\ k <= i /\ k \in 1..i
        BY <3>5
      <4> QED BY <3>5, <4>1, <4>2
    <3> QED BY <3>5, <3>6 DEF l
  <2> QED BY <2>1, <2>2
<1>3. PICK i \in 0..Len(s) : below = 1..i
  BY <1>2
<1>4. Cardinality(1..i) = i
  BY FS_Interval
<1> QED BY <1>3, <1>4

Spliced(r, s, t, i) == r = SubSeq(s, 1, i) \o <<t>> \o SubSeq(s, i + 1, Len(s))
Before(s, n) == Cardinality({k \in 1..Len(s) : s[k].nonce < n})
Fresh(s, n) == \A k \in 1..Len(s) : s[k].nonce # n
Placed(r, s, t, i, l) ==
  /\ r \in Seq(Txs) /\ Len(r) = l + 1 /\ r[i + 1] = t
  /\ \A k \in 1..i : r[k] = s[k]
  /\ \A k \in i + 1..l : r[k + 1] = s[k]

(* An element spliced into a list after its first i. *)
LEMMA Splice ==
  ASSUME NEW s \in Seq(Txs), NEW t \in Txs, NEW i \in 0..Len(s), NEW r, Spliced(r, s, t, i)
  PROVE  Placed(r, s, t, i, Len(s))
<1>0. PICK l : l = Len(s)
  OBVIOUS
<1> DEFINE u == SubSeq(s, 1, i)
           v == SubSeq(s, i + 1, l)
           w == Append(u, t)
<1>1. l \in Nat /\ i \in Nat /\ i <= l /\ i \in Int /\ i + 1 \in Int /\ 1 \in Int
  BY <1>0
<1>2. \A k \in 1..l : s[k] \in Txs
  BY <1>0
<1>3. u \in Seq(Txs) /\ Len(u) = i /\ \A k \in 1..i : u[k] = s[k]
  <2>1. \A k \in 1..i : s[k] \in Txs
    <3>1. \A k \in 1..i : k \in 1..l
      BY <1>1
    <3> QED BY <1>2, <3>1
  <2>2. /\ u \in Seq(Txs) /\ Len(u) = IF 1 <= i THEN i - 1 + 1 ELSE 0
        /\ \A k \in 1..i - 1 + 1 : u[k] = s[1 + k - 1]
    BY <1>1, <2>1, SubSeqProperties
  <2>3. Len(u) = i
    <3>1. Len(u) = IF 1 <= i THEN i - 1 + 1 ELSE 0
      BY <2>2
    <3> HIDE DEF u
    <3> QED BY <1>1, <3>1
  <2>4. ASSUME NEW k \in 1..i
        PROVE  u[k] = s[k]
    <3>1. k \in 1..i - 1 + 1 /\ 1 + k - 1 = k
      BY <1>1
    <3> HIDE DEF u
    <3> QED BY <2>2, <3>1
  <2> QED BY <2>2, <2>3, <2>4
<1>4. /\ v \in Seq(Txs) /\ Len(v) = l - i
      /\ \A k \in 1..l - i : v[k] = s[i + k]
  <2>1. \A k \in i + 1..l : s[k] \in Txs
    <3>1. \A k \in i + 1..l : k \in 1..l
      BY <1>1
    <3> QED BY <1>2, <3>1
  <2>2. /\ v \in Seq(Txs) /\ Len(v) = IF i + 1 <= l THEN l - (i + 1) + 1 ELSE 0
        /\ \A k \in 1..l - (i + 1) + 1 : v[k] = s[i + 1 + k - 1]
    BY <1>1, <2>1, SubSeqProperties
  <2>3. Len(v) = l - i
    <3>1. Len(v) = IF i + 1 <= l THEN l - (i + 1) + 1 ELSE 0
      BY <2>2
    <3> HIDE DEF v
    <3> QED BY <1>1, <3>1
  <2>4. ASSUME NEW k \in 1..l - i
        PROVE  v[k] = s[i + k]
    <3>1. k \in 1..l - (i + 1) + 1 /\ i + 1 + k - 1 = i + k
      BY <1>1
    <3> HIDE DEF v
    <3> QED BY <2>2, <3>1
  <2> QED BY <2>2, <2>3, <2>4
<1> HIDE DEF v
<1>5. u \o <<t>> = w
  <2>1. u \in Seq(Txs)
    BY <1>3
  <2> HIDE DEF u
  <2> QED BY <2>1, AppendIsConcat
<1>6. r = w \o v
  <2>1. r = (u \o <<t>>) \o v
    BY <1>0 DEF v, Spliced
  <2> HIDE DEF u, w
  <2> QED BY <1>5, <2>1
<1> HIDE DEF u
<1>7. /\ w \in Seq(Txs) /\ Len(w) = i + 1 /\ w[i + 1] = t
      /\ \A k \in 1..i : w[k] = s[k]
  BY <1>3, AppendProperties
<1> HIDE DEF w
<1>8. /\ r \in Seq(Txs) /\ Len(r) = Len(w) + Len(v)
      /\ \A k \in 1..Len(w) + Len(v) : r[k] = IF k <= Len(w) THEN w[k] ELSE v[k - Len(w)]
  <2>1. w \in Seq(Txs) /\ v \in Seq(Txs)
    BY <1>4, <1>7
  <2>2. /\ w \o v \in Seq(Txs) /\ Len(w \o v) = Len(w) + Len(v)
        /\ \A k \in 1..Len(w) + Len(v) : (w \o v)[k] = IF k <= Len(w) THEN w[k] ELSE v[k - Len(w)]
    BY <2>1, ConcatProperties
  <2> QED BY <1>6, <2>2
<1>9. Len(r) = l + 1
  <2>1. Len(r) = (i + 1) + (l - i)
    <3>1. Len(w) = i + 1 /\ Len(v) = l - i
      BY <1>4, <1>7
    <3>2. Len(r) = Len(w) + Len(v)
      BY <1>8
    <3> QED BY <3>1, <3>2
  <2> QED BY <1>1, <2>1
<1>10. \A k \in 1..l + 1 : r[k] = IF k <= i + 1 THEN w[k] ELSE v[k - (i + 1)]
  <2>1. (i + 1) + (l - i) = l + 1
    BY <1>1
  <2> QED BY <1>4, <1>7, <1>8, <2>1
<1>11. r[i + 1] = t
  <2>1. i + 1 \in 1..l + 1 /\ i + 1 <= i + 1
    BY <1>1
  <2> QED BY <1>7, <1>10, <2>1
<1>12. ASSUME NEW k \in 1..i
      PROVE  r[k] = s[k]
  <2>1. k \in 1..l + 1 /\ k <= i + 1
    BY <1>1
  <2> QED BY <1>7, <1>10, <2>1
<1>13. ASSUME NEW k \in i + 1..l
      PROVE  r[k + 1] = s[k]
  <2> DEFINE m == k + 1
             n == k - i
  <2>1. m \in 1..l + 1 /\ ~(m <= i + 1) /\ m - (i + 1) = n /\ n \in 1..l - i /\ i + n = k
    BY <1>1
  <2> HIDE DEF m, n
  <2>2. r[m] = v[n]
    BY <1>10, <2>1
  <2>3. v[n] = s[k]
    BY <1>4, <2>1
  <2> QED BY <2>2, <2>3 DEF m
<1> QED BY <1>0, <1>8, <1>9, <1>11, <1>12, <1>13 DEF Placed

(* A transaction takes its place in a list. *)
LEMMA InsertKeeps ==
  ASSUME NEW s \in Seq(Txs), InOrder(s), NEW t \in Txs, Fresh(s, t.nonce),
         NEW i, i = Before(s, t.nonce), NEW r, Spliced(r, s, t, i)
  PROVE  /\ r \in Seq(Txs) /\ Len(r) = Len(s) + 1
         /\ Range(r) = Range(s) \cup {t}
         /\ InOrder(r)
<1>1. PICK l : l = Len(s)
  OBVIOUS
<1>2. l \in Nat
  BY <1>1
<1>3. t \in Tx /\ \A k \in 1..l : s[k] \in Tx
  BY <1>1, MempoolAssumption
<1>4. \A k \in 1..l : s[k].nonce \in Nat /\ s[k].nonce # t.nonce
  BY <1>1, <1>3 DEF Tx, Fresh
<1>5. t.nonce \in Nat
  BY <1>3 DEF Tx
<1>6. i \in 0..l /\ {k \in 1..l : s[k].nonce < t.nonce} = 1..i
  BY <1>1, <1>5, CutAt DEF Before
<1>7. i \in Nat /\ i <= l
  BY <1>2, <1>6
<1>8. \A k \in 1..i : s[k].nonce < t.nonce
  BY <1>6
<1>9. ASSUME NEW k \in i + 1..l
      PROVE  t.nonce < s[k].nonce
  <2>1. k \in 1..l /\ k \notin 1..i
    BY <1>2, <1>7
  <2>2. ~(s[k].nonce < t.nonce)
    BY <1>6, <2>1
  <2>3. s[k].nonce \in Nat /\ s[k].nonce # t.nonce
    BY <1>4, <2>1
  <2> QED BY <1>5, <2>2, <2>3
<1>10. /\ r \in Seq(Txs) /\ Len(r) = l + 1 /\ r[i + 1] = t
       /\ \A k \in 1..i : r[k] = s[k]
       /\ \A k \in i + 1..l : r[k + 1] = s[k]
  <2>1. Placed(r, s, t, i, Len(s))
    BY <1>1, <1>6, Splice
  <2> QED BY <1>1, <2>1 DEF Placed
<1>11. ASSUME NEW k \in 1..l + 1
       PROVE  \/ k \in 1..i /\ k \in 1..l
              \/ k = i + 1
              \/ \E j \in i + 1..l : j \in 1..l /\ k = j + 1
  <2>1. CASE k <= i + 1
    BY <1>2, <1>7, <2>1
  <2>2. CASE k > i + 1
    <3>1. k - 1 \in i + 1..l /\ k - 1 \in 1..l /\ k = (k - 1) + 1
      BY <1>2, <1>7, <2>2
    <3> QED BY <3>1
  <2> QED BY <1>2, <1>7, <2>1, <2>2
<1>12. Range(r) = Range(s) \cup {t}
  <2>1. Range(r) = {r[k] : k \in 1..l + 1} /\ Range(s) = {s[k] : k \in 1..l}
    <3>1. DOMAIN r = 1..l + 1 /\ DOMAIN s = 1..l
      BY <1>1, <1>10
    <3> QED BY <3>1 DEF Range
  <2>2. ASSUME NEW k \in 1..l + 1
        PROVE  r[k] \in Range(s) \cup {t}
    <3>1. CASE k \in 1..i /\ k \in 1..l
      <4>1. r[k] = s[k] /\ s[k] \in Range(s)
        BY <1>10, <2>1, <3>1
      <4> QED BY <4>1
    <3>2. CASE k = i + 1
      BY <1>10, <3>2
    <3>3. CASE \E j \in i + 1..l : j \in 1..l /\ k = j + 1
      <4>1. PICK j \in i + 1..l : j \in 1..l /\ k = j + 1
        BY <3>3
      <4>2. r[k] = s[j] /\ s[j] \in Range(s)
        BY <1>10, <2>1, <4>1
      <4> QED BY <4>2
    <3> QED BY <1>11, <3>1, <3>2, <3>3
  <2>3. ASSUME NEW k \in 1..l
        PROVE  s[k] \in Range(r)
    <3>1. CASE k <= i
      <4>1. k \in 1..i /\ k \in 1..l + 1
        BY <1>2, <1>7, <3>1
      <4> QED BY <1>10, <2>1, <4>1
    <3>2. CASE k > i
      <4>1. k \in i + 1..l /\ k + 1 \in 1..l + 1
        BY <1>2, <1>7, <3>2
      <4>2. r[k + 1] = s[k]
        BY <1>10, <4>1
      <4>3. r[k + 1] \in Range(r)
        BY <2>1, <4>1
      <4> QED BY <4>2, <4>3
    <3> QED BY <1>2, <1>7, <3>1, <3>2
  <2>4. t \in Range(r)
    <3>1. i + 1 \in 1..l + 1
      BY <1>2, <1>7
    <3> QED BY <1>10, <2>1, <3>1
  <2>5. \A x \in Range(r) : x \in Range(s) \cup {t}
    BY <2>1, <2>2
  <2>6. \A x \in Range(s) : x \in Range(r)
    BY <2>1, <2>3
  <2> HIDE DEF Range
  <2> QED BY <2>4, <2>5, <2>6
<1>13. ASSUME NEW a \in 1..l, NEW b \in 1..l, a < b
       PROVE  s[a].nonce < s[b].nonce
  BY <1>1, <1>13 DEF InOrder
<1>14. ASSUME NEW a \in 1..l + 1, NEW b \in 1..l + 1, a < b
       PROVE  r[a].nonce < r[b].nonce
  <2>1. CASE b \in 1..i /\ b \in 1..l
    <3>1. a \in 1..i /\ a \in 1..l
      BY <1>2, <1>7, <1>14, <2>1
    <3>2. r[a] = s[a] /\ r[b] = s[b]
      BY <1>10, <2>1, <3>1
    <3>3. s[a].nonce < s[b].nonce
      BY <1>13, <1>14, <2>1, <3>1
    <3> QED BY <3>2, <3>3
  <2>2. CASE b = i + 1
    <3>1. a \in 1..i
      BY <1>2, <1>7, <1>14, <2>2
    <3>2. r[a] = s[a] /\ r[b] = t /\ s[a].nonce < t.nonce
      BY <1>8, <1>10, <2>2, <3>1
    <3> QED BY <3>2
  <2>3. CASE \E j \in i + 1..l : j \in 1..l /\ b = j + 1
    <3>1. PICK j \in i + 1..l : j \in 1..l /\ b = j + 1
      BY <2>3
    <3>2. r[b] = s[j]
      BY <1>10, <3>1
    <3>3. t.nonce < s[j].nonce /\ s[j].nonce \in Nat
      BY <1>4, <1>9, <3>1
    <3>4. CASE a \in 1..i /\ a \in 1..l
      <4>1. r[a] = s[a] /\ s[a].nonce < t.nonce /\ s[a].nonce \in Nat
        BY <1>4, <1>8, <1>10, <3>4
      <4>2. s[a].nonce < s[j].nonce
        BY <1>5, <3>3, <4>1
      <4> QED BY <3>2, <4>1, <4>2
    <3>5. CASE a = i + 1
      BY <1>10, <3>2, <3>3, <3>5
    <3>6. CASE \E k \in i + 1..l : k \in 1..l /\ a = k + 1
      <4>1. PICK k \in i + 1..l : k \in 1..l /\ a = k + 1
        BY <3>6
      <4>2. r[a] = s[k]
        BY <1>10, <4>1
      <4>3. k < j
        BY <1>14, <3>1, <4>1
      <4>4. s[k].nonce < s[j].nonce
        BY <1>13, <3>1, <4>1, <4>3
      <4> QED BY <3>2, <4>2, <4>4
    <3> QED BY <1>11, <3>4, <3>5, <3>6
  <2> QED BY <1>11, <2>1, <2>2, <2>3
<1>15. InOrder(r)
  BY <1>10, <1>14 DEF InOrder
<1> QED BY <1>1, <1>10, <1>12, <1>15

(* A transaction joins. *)
LEMMA mpAddKeeps ==
  ASSUME NEW p, PoolOK(p), NEW t \in Txs, t \notin p.txs, Rivals(p, t) = {},
         Len(p.bySender[t.from]) < MaxPerSender, Cardinality(p.txs) <= PoolLimit
  PROVE  PoolOK(mpAdd(p, t))
<1> DEFINE s == p.bySender[t.from]
           i == Cardinality({k \in 1..Len(s) : s[k].nonce < t.nonce})
           r == SubSeq(s, 1, i) \o <<t>> \o SubSeq(s, i + 1, Len(s))
           more == p.txs \cup {t}
           q == mpAdd(p, t)
<1>1. t.from \in Addr
  BY MempoolAssumption DEF Tx
<1>2. /\ s \in Seq(Txs) /\ Range(s) = {u \in p.txs : u.from = t.from} /\ InOrder(s)
      /\ Len(s) < MaxPerSender
  BY <1>1 DEF PoolOK, Listed
<1>3. q = [txs |-> more, bySender |-> [p.bySender EXCEPT ![t.from] = r]]
  BY DEF mpAdd
<1>4. Fresh(s, t.nonce)
  <2>1. ASSUME NEW k \in 1..Len(s)
        PROVE  s[k].nonce # t.nonce
    <3>1. s[k] \in Range(s)
      BY <1>2 DEF Range
    <3>2. s[k] \in p.txs /\ s[k].from = t.from
      BY <1>2, <3>1
    <3> HIDE DEF s
    <3> QED BY <3>2 DEF Rivals
  <2> HIDE DEF s
  <2> QED BY <2>1 DEF Fresh
<1>5. /\ r \in Seq(Txs) /\ Len(r) = Len(s) + 1
      /\ Range(r) = Range(s) \cup {t} /\ InOrder(r)
  <2> HIDE DEF s, i, r
  <2>1. i = Before(s, t.nonce)
    BY DEF i, Before
  <2>2. Spliced(r, s, t, i)
    BY DEF r, Spliced
  <2> QED BY <1>2, <1>4, <2>1, <2>2, InsertKeeps
<1> HIDE DEF r
<1>6. q \in Pools
  <2>1. p.bySender \in [Addr -> Seq(Txs)] /\ p.txs \in SUBSET Txs
    BY DEF PoolOK, Pools
  <2>2. [p.bySender EXCEPT ![t.from] = r] \in [Addr -> Seq(Txs)]
    BY <1>5, <2>1
  <2>3. more \in SUBSET Txs
    BY <2>1
  <2> HIDE DEF q, more
  <2> QED BY <1>3, <2>2, <2>3 DEF Pools
<1>7. /\ q.txs = more /\ q.bySender[t.from] = r
      /\ \A a \in Addr \ {t.from} : q.bySender[a] = p.bySender[a]
  <2>1. p.bySender \in [Addr -> Seq(Txs)]
    BY DEF PoolOK, Pools
  <2>2. q.txs = more /\ q.bySender = [p.bySender EXCEPT ![t.from] = r]
    <3> HIDE DEF q, more
    <3> QED BY <1>3
  <2> HIDE DEF q
  <2> QED BY <1>1, <2>1, <2>2
<1>8. IsFiniteSet(more) /\ Cardinality(more) <= PoolLimit + 1
  <2>1. IsFiniteSet(p.txs)
    BY DEF PoolOK
  <2>2. IsFiniteSet(more) /\ Cardinality(more) = Cardinality(p.txs) + 1
    BY <2>1, FS_AddElement
  <2>3. Cardinality(p.txs) \in Nat
    BY <2>1, FS_CardinalityType
  <2> QED BY <2>2, <2>3, MempoolAssumption
<1>9. ASSUME NEW a \in Addr
      PROVE  Listed(q, a)
  <2>1. CASE a = t.from
    <3>1. Range(r) = {u \in q.txs : u.from = a}
      <4> HIDE DEF q
      <4> QED BY <1>2, <1>5, <1>7, <2>1
    <3>2. Len(r) <= MaxPerSender
      <4>1. Len(s) \in Nat /\ Len(r) = Len(s) + 1 /\ Len(s) < MaxPerSender
        BY <1>2, <1>5
      <4> HIDE DEF s
      <4> QED BY <4>1, MempoolAssumption
    <3> HIDE DEF q
    <3> QED BY <1>5, <1>7, <2>1, <3>1, <3>2 DEF Listed
  <2>2. CASE a # t.from
    <3>1. Listed(p, a)
      BY DEF PoolOK
    <3>2. q.bySender[a] = p.bySender[a] /\ {u \in q.txs : u.from = a} = {u \in p.txs : u.from = a}
      <4> HIDE DEF q
      <4> QED BY <1>7, <2>2
    <3> HIDE DEF q
    <3> QED BY <3>1, <3>2 DEF Listed
  <2> QED BY <2>1, <2>2
<1> HIDE DEF q
<1>10. PoolOK(q)
  BY <1>6, <1>7, <1>8, <1>9 DEF PoolOK
<1> QED BY <1>10 DEF q

(* One transaction per sender and nonce. *)
LEMMA OnePerSlot ==
  ASSUME NEW p, PoolOK(p), NEW t \in p.txs, NEW u \in p.txs,
         t.from = u.from, t.nonce = u.nonce
  PROVE  t = u
<1> DEFINE a == t.from
           s == p.bySender[a]
<1>1. t \in Txs /\ t \in Tx
  BY MempoolAssumption DEF PoolOK, Pools
<1>2. a \in Addr /\ t.nonce \in Nat
  BY <1>1 DEF Tx
<1>3. s \in Seq(Txs) /\ Range(s) = {x \in p.txs : x.from = a} /\ InOrder(s)
  BY <1>2 DEF PoolOK, Listed
<1>4. t \in Range(s) /\ u \in Range(s)
  BY <1>3
<1>5. Range(s) = {s[k] : k \in 1..Len(s)}
  <2>1. DOMAIN s = 1..Len(s)
    BY <1>3
  <2> HIDE DEF s
  <2> QED BY <2>1 DEF Range
<1> HIDE DEF s
<1>6. PICK i \in 1..Len(s), j \in 1..Len(s) : s[i] = t /\ s[j] = u
  BY <1>4, <1>5
<1>7. ~(i < j) /\ ~(j < i)
  BY <1>2, <1>3, <1>6 DEF InOrder
<1>8. i = j
  BY <1>3, <1>7
<1> QED BY <1>6, <1>8

(* A slot is freed and taken again. *)
LEMMA SwapKeeps ==
  ASSUME NEW p, PoolOK(p), NEW m \in p.txs, NEW t \in Txs,
         m.from = t.from, m.nonce = t.nonce, t \in p.txs => t = m
  PROVE  PoolOK(mpDel(p, m)) /\ PoolOK(mpAdd(mpDel(p, m), t))
<1> DEFINE rest == mpDel(p, m)
           a == t.from
           s == p.bySender[a]
           r == rest.bySender[a]
<1>1. a \in Addr /\ m \in Txs
  BY MempoolAssumption DEF Tx, PoolOK, Pools
<1>2. /\ PoolOK(rest) /\ rest.txs = p.txs \ {m}
      /\ rest.bySender[a] = Without(s, {m})
  BY <1>1, mpDelAllKeeps DEF mpDel
<1>3. /\ s \in Seq(Txs) /\ Range(s) = {x \in p.txs : x.from = a} /\ InOrder(s)
      /\ Len(s) <= MaxPerSender
  BY <1>1 DEF PoolOK, Listed
<1>4. Len(r) < MaxPerSender
  <2>1. Range(s) \cap {m} # {}
    BY <1>3
  <2>2. Len(r) < Len(s) /\ r \in Seq(Txs)
    <3> HIDE DEF s
    <3>1. Without(s, {m}) \in Seq(Txs) /\ Len(Without(s, {m})) < Len(s)
      BY <1>3, <2>1, WithoutKeeps
    <3> HIDE DEF rest
    <3> QED BY <1>2, <3>1
  <2>3. Len(s) \in Nat /\ Len(r) \in Nat
    BY <1>3, <2>2
  <2> HIDE DEF s, r
  <2> QED BY <1>3, <2>2, <2>3, MempoolAssumption
<1>5. Cardinality(rest.txs) <= PoolLimit
  <2>1. IsFiniteSet(p.txs) /\ Cardinality(p.txs) <= PoolLimit + 1
    BY DEF PoolOK
  <2>2. Cardinality(p.txs \ {m}) = Cardinality(p.txs) - 1 /\ Cardinality(p.txs) \in Nat
    BY <2>1, FS_RemoveElement, FS_CardinalityType
  <2> HIDE DEF rest
  <2> QED BY <1>2, <2>1, <2>2, MempoolAssumption
<1>6. t \notin rest.txs
  <2> HIDE DEF rest
  <2> QED BY <1>2
<1>7. Rivals(rest, t) = {}
  <2>1. ASSUME NEW u \in rest.txs, u.from = t.from, u.nonce = t.nonce
        PROVE  FALSE
    <3>1. u \in p.txs /\ u # m
      <4> HIDE DEF rest
      <4> QED BY <1>2, <2>1
    <3> QED BY <2>1, <3>1, OnePerSlot
  <2> HIDE DEF rest
  <2> QED BY <2>1 DEF Rivals
<1>8. PoolOK(mpAdd(rest, t))
  <2> HIDE DEF rest
  <2> QED BY <1>2, <1>4, <1>5, <1>6, <1>7, mpAddKeeps DEF r
<1> QED BY <1>2, <1>8

(* AddTx *)
LEMMA AfterAddTxKeeps ==
  ASSUME NEW c, NEW st, NEW p, PoolOK(p), NEW t \in Txs
  PROVE  PoolOK(AfterAddTx(c, st, p, t))
<1> DEFINE m == CHOOSE m \in Rivals(p, t) : TRUE
           rest == mpDel(p, m)
           q == AfterAddTx(c, st, p, t)
<1>1. CASE t \in p.txs
  BY <1>1 DEF AfterAddTx
<1>2. CASE t \notin p.txs /\ Rivals(p, t) # {}
  <2>1. m \in Rivals(p, t)
    BY <1>2
  <2>2. m \in p.txs /\ m.from = t.from /\ m.nonce = t.nonce /\ m \in Txs
    BY <2>1 DEF Rivals, PoolOK, Pools
  <2>3. q = IF t.fee < BumpedFee(m.fee) THEN p
            ELSE IF Admits(c, st, rest, t) THEN mpAdd(rest, t) ELSE mpAdd(rest, m)
    BY <1>2 DEF AfterAddTx
  <2> HIDE DEF m, q
  <2>4. PoolOK(mpAdd(rest, t))
    BY <1>2, <2>2, SwapKeeps
  <2>5. PoolOK(mpAdd(rest, m))
    BY <2>2, SwapKeeps
  <2> QED BY <2>3, <2>4, <2>5 DEF q
<1>3. CASE t \notin p.txs /\ Rivals(p, t) = {}
  <2>1. CASE Cardinality(p.txs) > PoolLimit \/ ~Admits(c, st, p, t)
    <3>1. q = p
      BY <1>3, <2>1 DEF AfterAddTx
    <3> QED BY <3>1
  <2>2. CASE ~(Cardinality(p.txs) > PoolLimit) /\ Admits(c, st, p, t)
    <3>1. q = mpAdd(p, t)
      BY <1>3, <2>2 DEF AfterAddTx
    <3>2. Len(p.bySender[t.from]) < MaxPerSender
      BY <2>2 DEF Admits
    <3>3. Cardinality(p.txs) <= PoolLimit
      <4>1. IsFiniteSet(p.txs)
        BY DEF PoolOK
      <4>2. Cardinality(p.txs) \in Nat
        BY <4>1, FS_CardinalityType
      <4> QED BY <2>2, <4>2, MempoolAssumption
    <3>4. PoolOK(mpAdd(p, t))
      BY <1>3, <3>2, <3>3, mpAddKeeps
    <3> HIDE DEF q
    <3> QED BY <3>1, <3>4 DEF q
  <2> QED BY <2>1, <2>2
<1> QED BY <1>1, <1>2, <1>3

(* A finite set has an element of greatest measure. *)
LEMMA GreatestIn ==
  ASSUME NEW T, IsFiniteSet(T), T # {}, NEW f \in [T -> Nat]
  PROVE  \E t \in T : \A u \in T : f[t] >= f[u]
<1> DEFINE Top(t, s) == t \in s /\ \A u \in s : f[t] >= f[u]
           S == {s \in SUBSET T : s # {} => \E t \in T : Top(t, s)}
<1>1. \A t \in T : f[t] \in Nat
  OBVIOUS
<1>2. {} \in S
  OBVIOUS
<1>3. ASSUME NEW s \in SUBSET T, s # {}, \A x \in s : s \ {x} \in S
      PROVE  s \in S
  <2>1. PICK x : x \in s
    BY <1>3
  <2>2. x \in T /\ f[x] \in Nat
    BY <1>1, <2>1
  <2>3. CASE s \ {x} = {}
    <3>1. \A u \in s : u = x
      BY <2>3
    <3>2. Top(x, s)
      BY <2>1, <2>2, <3>1
    <3> HIDE DEF Top
    <3> QED BY <2>2, <3>2
  <2>4. CASE s \ {x} # {}
    <3>1. PICK t \in T : Top(t, s \ {x})
      <4>1. s \ {x} \in S
        BY <1>3, <2>1
      <4> HIDE DEF Top
      <4> QED BY <2>4, <4>1
    <3>2. f[t] \in Nat /\ t \in s
      BY <1>1, <3>1
    <3>3. \A u \in s : u = x \/ f[t] >= f[u]
      BY <3>1
    <3>4. CASE f[t] >= f[x]
      <4>1. Top(t, s)
        BY <3>2, <3>3, <3>4
      <4> HIDE DEF Top
      <4> QED BY <4>1
    <3>5. CASE f[x] > f[t]
      <4>1. ASSUME NEW u \in s
            PROVE  f[x] >= f[u]
        <5>1. f[u] \in Nat
          BY <1>1
        <5> QED BY <2>2, <3>2, <3>3, <3>5, <5>1
      <4>2. Top(x, s)
        BY <2>1, <4>1
      <4> HIDE DEF Top
      <4> QED BY <2>2, <4>2
    <3> QED BY <2>2, <3>2, <3>4, <3>5
  <2> QED BY <2>3, <2>4
<1>4. T \in S
  <2> HIDE DEF S
  <2>1. SUBSET T \subseteq S
    BY <1>2, <1>3, InductionSubsets
  <2> QED BY <2>1
<1> QED BY <1>4

(* The transactions LoadMempool and BuildTemplate take next are among      *)
(* those they are given.                                                   *)
LEMMA HighestNonceIn ==
  ASSUME NEW T \in SUBSET Txs, IsFiniteSet(T), T # {}
  PROVE  HighestNonce(T) \in T /\ \A u \in T : HighestNonce(T).nonce >= u.nonce
<1> DEFINE f == [t \in T |-> t.nonce]
<1>1. f \in [T -> Nat]
  <2>1. \A t \in T : t \in Tx
    BY MempoolAssumption
  <2> QED BY <2>1 DEF Tx
<1>2. \E t \in T : \A u \in T : f[t] >= f[u]
  <2> HIDE DEF f
  <2> QED BY <1>1, GreatestIn
<1>3. \E t \in T : \A u \in T : t.nonce >= u.nonce
  BY <1>2
<1> QED BY <1>3 DEF HighestNonce

(* The same of the highest fee. *)
LEMMA HighestFeeIn ==
  ASSUME NEW T \in SUBSET Txs, IsFiniteSet(T), T # {}
  PROVE  HighestFee(T) \in T
<1> DEFINE f == [t \in T |-> t.fee]
<1>1. f \in [T -> Nat]
  <2>1. \A t \in T : t \in Tx
    BY MempoolAssumption
  <2>2. \A t \in T : t.fee \in Nat
    BY <2>1, LedgerAssumption DEF Tx
  <2> QED BY <2>2
<1>2. \E t \in T : \A u \in T : f[t] >= f[u]
  <2> HIDE DEF f
  <2> QED BY <1>1, GreatestIn
<1>3. \E t \in T : \A u \in T : t.fee >= u.fee
  BY <1>2
<1> QED BY <1>3 DEF HighestFee

(* A loop that submits each set of transactions in the order of nonces. *)
Reloads(f, c, st, T) ==
  /\ f[{}] = EmptyPool
  /\ \A some \in SUBSET T :
       some # {} => f[some] = AfterAddTx(c, st, f[some \ {HighestNonce(some)}], HighestNonce(some))
  /\ LoadMempool(c, st, T) = f[T]

(* What submissions to an empty pool keep in V. *)
Closed(V, c, st, T) ==
  EmptyPool \in V /\ \A p \in V, t \in T : AfterAddTx(c, st, p, t) \in V

(* What a restart reloads is what such submissions can reach. *)
LEMMA LoadMempoolRuns ==
  ASSUME NEW c, NEW st, NEW T \in SUBSET Txs, IsFiniteSet(T), NEW V, Closed(V, c, st, T)
  PROVE  \E f : f \in [SUBSET T -> V] /\ Reloads(f, c, st, T)
<1> DEFINE add(t, p) == AfterAddTx(c, st, p, t)
           step == [t \in T |-> [p \in V |-> add(t, p)]]
           pick == [some \in SUBSET T |-> HighestNonce(some)]
           D == SUBSET T
           IsRun(r) == r = [some \in D |-> IF some = {} THEN EmptyPool
                             ELSE AfterAddTx(c, st, r[some \ {HighestNonce(some)}], HighestNonce(some))]
           run == CHOOSE r : IsRun(r)
<1>1. \A s \in D : s # {} => pick[s] \in s /\ pick[s] \in T /\ s \ {pick[s]} \in D /\ pick[s] = HighestNonce(s)
  <2>1. ASSUME NEW s \in D, s # {}
        PROVE  HighestNonce(s) \in s
    <3>1. s \in SUBSET Txs /\ IsFiniteSet(s)
      BY FS_Subset
    <3> QED BY <2>1, <3>1, HighestNonceIn
  <2> QED BY <2>1
<1>3. step \in [T -> [V -> V]]
  <2>1. ASSUME NEW t \in T, NEW p \in V
        PROVE  add(t, p) \in V
    BY DEF Closed
  <2> HIDE DEF add
  <2> QED BY <2>1
<1>4. EmptyPool \in V
  BY DEF Closed
<1>5. PICK f \in [D -> V] : SetLoops(f, D, EmptyPool, pick, step)
  <2> HIDE DEF step
  <2>1. PicksFrom(pick, T)
    BY <1>1 DEF PicksFrom
  <2> HIDE DEF pick
  <2> QED BY <1>3, <1>4, <2>1, SetLoopExists
<1>6. ASSUME NEW s \in D, s # {}
      PROVE  f[s] = add(HighestNonce(s), f[s \ {HighestNonce(s)}])
  <2>1. f[s] = step[pick[s]][f[s \ {pick[s]}]]
    <3> HIDE DEF step, pick, D
    <3> QED BY <1>5, <1>6 DEF SetLoops
  <2>2. pick[s] \in T /\ f[s \ {pick[s]}] \in V /\ pick[s] = HighestNonce(s)
    <3> HIDE DEF pick
    <3> QED BY <1>1, <1>5, <1>6
  <2> HIDE DEF pick, add
  <2> QED BY <2>1, <2>2
<1>7. IsRun(f)
  <2>1. f = [s \in D |-> f[s]]
    BY <1>5
  <2>2. f[{}] = EmptyPool
    <3>1. {} \in D
      OBVIOUS
    <3> HIDE DEF D, step, pick
    <3> QED BY <1>5, <3>1 DEF SetLoops
  <2>3. ASSUME NEW s \in D
        PROVE  f[s] = IF s = {} THEN EmptyPool ELSE add(HighestNonce(s), f[s \ {HighestNonce(s)}])
    <3> HIDE DEF D, add
    <3> QED BY <1>6, <2>2
  <2> HIDE DEF D
  <2> QED BY <2>1, <2>3
<1>8. IsRun(run)
  <2> HIDE DEF IsRun
  <2> QED BY <1>7
<1>9. LoadMempool(c, st, T) = run[T]
  BY DEF LoadMempool
<1>10. run[T] = f[T]
  <2>1. \A s \in D : run[s] = IF s = {} THEN EmptyPool ELSE add(HighestNonce(s), run[s \ {HighestNonce(s)}])
    <3> HIDE DEF run, D
    <3> QED BY <1>8
  <2>2. \A s \in D : f[s] = IF s = {} THEN EmptyPool ELSE add(HighestNonce(s), f[s \ {HighestNonce(s)}])
    <3> HIDE DEF D
    <3> QED BY <1>7
  <2>3. {} \in D
    OBVIOUS
  <2> HIDE DEF run, add, pick
  <2>4. run[{}] = f[{}]
    <3> HIDE DEF D
    <3> QED BY <2>1, <2>2, <2>3
  <2>5. ASSUME NEW s \in D, s # {}, run[s \ {pick[s]}] = f[s \ {pick[s]}]
        PROVE  run[s] = f[s]
    <3>1. pick[s] = HighestNonce(s)
      BY <1>1, <2>5
    <3> HIDE DEF D
    <3> QED BY <2>1, <2>2, <2>5, <3>1
  <2>6. \A s \in SUBSET T : s # {} => pick[s] \in s
    BY <1>1
  <2>7. \A s \in SUBSET T : s # {} /\ run[s \ {pick[s]}] = f[s \ {pick[s]}] => run[s] = f[s]
    BY <2>5
  <2>8. SetLoopsAgree(run, f, pick, T)
    BY <2>4, <2>6, <2>7 DEF SetLoopsAgree
  <2> QED BY <2>8, SetLoopUnique
<1>11. f \in [SUBSET T -> V]
  BY <1>5
<1>12. Reloads(f, c, st, T)
  <2>1. {} \in D
    OBVIOUS
  <2>2. f[{}] = EmptyPool
    <3> HIDE DEF D, step, pick
    <3> QED BY <1>5, <2>1 DEF SetLoops
  <2>3. LoadMempool(c, st, T) = f[T]
    <3> HIDE DEF run
    <3> QED BY <1>9, <1>10
  <2> QED BY <1>6, <2>2, <2>3 DEF Reloads
<1> QED BY <1>11, <1>12

(* So what every submission keeps, a reload has. *)
LEMMA LoadMempoolIn ==
  ASSUME NEW c, NEW st, NEW T \in SUBSET Txs, IsFiniteSet(T), NEW V, EmptyPool \in V,
         \A p \in V, t \in T : AfterAddTx(c, st, p, t) \in V
  PROVE  LoadMempool(c, st, T) \in V
<1>1. PICK f : f \in [SUBSET T -> V] /\ Reloads(f, c, st, T)
  <2>1. Closed(V, c, st, T)
    BY DEF Closed
  <2> QED BY <2>1, LoadMempoolRuns
<1>2. T \in SUBSET T /\ LoadMempool(c, st, T) = f[T]
  BY <1>1 DEF Reloads
<1> QED BY <1>1, <1>2

(* In particular the pool stays a pool. *)
LEMMA LoadMempoolOK ==
  ASSUME NEW c, NEW st, NEW T \in SUBSET Txs, IsFiniteSet(T)
  PROVE  PoolOK(LoadMempool(c, st, T))
<1> DEFINE V == {p \in Pools : PoolOK(p)}
<1>1. \A q : q \in V <=> PoolOK(q)
  BY DEF PoolOK
<1> HIDE DEF V
<1>2. EmptyPool \in V
  BY <1>1, EmptyPoolOK
<1>3. \A p \in V, t \in T : AfterAddTx(c, st, p, t) \in V
  BY <1>1, AfterAddTxKeeps
<1> QED BY <1>1, <1>2, <1>3, LoadMempoolIn

-----------------------------------------------------------------------------
(* Block templates. *)

(* The loop of BuildTemplate. *)
Picks(x) == IF Executable(x) = {} THEN x ELSE Append(x, HighestFee(Executable(x)))

(* It runs as written, on a pool of finitely many transactions. *)
LEMMA BuildTemplateRuns ==
  ASSUME pool.txs \in SUBSET Txs, IsFiniteSet(pool.txs)
  PROVE  \E f \in [0..MaxBlockTxs - 1 -> Seq(Txs)] :
           /\ f[0] = <<>>
           /\ \A n \in 1..MaxBlockTxs - 1 : f[n] = Picks(f[n - 1])
           /\ BuildTemplate = [miner |-> Miner, txs |-> f[MaxBlockTxs - 1]]
<1> DEFINE k == MaxBlockTxs - 1
           step == [n \in 1..k |-> [x \in Seq(Txs) |-> Picks(x)]]
           IsRun(r) == r = [n \in 0..k |-> IF n = 0 THEN <<>> ELSE
                              IF Executable(r[n - 1]) = {} THEN r[n - 1]
                              ELSE Append(r[n - 1], HighestFee(Executable(r[n - 1])))]
           run == CHOOSE r : IsRun(r)
<1>1. k \in Nat
  BY LedgerAssumption
<1>2. \A x \in Seq(Txs) : Picks(x) \in Seq(Txs)
  <2>1. ASSUME NEW x \in Seq(Txs), Executable(x) # {}
        PROVE  HighestFee(Executable(x)) \in Txs
    <3>1. Executable(x) \in SUBSET pool.txs
      BY DEF Executable
    <3>2. IsFiniteSet(Executable(x)) /\ Executable(x) \in SUBSET Txs
      BY <3>1, FS_Subset
    <3>3. HighestFee(Executable(x)) \in Executable(x)
      BY <2>1, <3>2, HighestFeeIn
    <3> QED BY <3>2, <3>3
  <2> QED BY <2>1, AppendProperties DEF Picks
<1>3. step \in [1..k -> [Seq(Txs) -> Seq(Txs)]]
  <2> HIDE DEF k
  <2> QED BY <1>2
<1>4. PICK f : Loops(f, k, Seq(Txs), <<>>, step)
  <2> HIDE DEF k, step
  <2> QED BY <1>1, <1>3, LoopExists, EmptySeq
<1>5. ASSUME NEW n \in 1..k
      PROVE  f[n] = Picks(f[n - 1])
  <2>1. f[n] = step[n][f[n - 1]] /\ f[n - 1] \in Seq(Txs)
    <3> HIDE DEF step, k
    <3> QED BY <1>1, <1>4 DEF Loops
  <2> QED BY <2>1
<1>6. IsRun(f)
  <2> HIDE DEF k, step
  <2>1. f = [n \in 0..k |-> f[n]]
    BY <1>4 DEF Loops
  <2>2. ASSUME NEW n \in 0..k
        PROVE  f[n] = IF n = 0 THEN <<>> ELSE
                              IF Executable(f[n - 1]) = {} THEN f[n - 1]
                              ELSE Append(f[n - 1], HighestFee(Executable(f[n - 1])))
    <3>1. CASE n = 0
      BY <1>4, <3>1 DEF Loops
    <3>2. CASE n # 0
      <4>1. n \in 1..k
        BY <1>1, <3>2
      <4> QED BY <1>5, <3>2, <4>1 DEF Picks
    <3> QED BY <3>1, <3>2
  <2> QED BY <2>1, <2>2
<1>7. IsRun(run)
  <2> HIDE DEF IsRun
  <2> QED BY <1>6
<1>8. BuildTemplate = [miner |-> Miner, txs |-> run[k]]
  BY DEF BuildTemplate
<1>9. run[0] = <<>> /\ \A n \in 1..k : run[n] = Picks(run[n - 1])
  <2> HIDE DEF run, k
  <2>1. \A n \in 0..k : run[n] = IF n = 0 THEN <<>> ELSE
                              IF Executable(run[n - 1]) = {} THEN run[n - 1]
                              ELSE Append(run[n - 1], HighestFee(Executable(run[n - 1])))
    BY <1>7
  <2>2. 0 \in 0..k /\ \A n \in 1..k : n \in 0..k /\ n # 0
    BY <1>1
  <2> QED BY <2>1, <2>2 DEF Picks
<1>10. run[k] = f[k]
  <2> HIDE DEF run, k
  <2>1. Tracks(run, f, k)
    BY <1>4, <1>5, <1>9 DEF Tracks, Loops
  <2> QED BY <1>1, <2>1, LoopUnique
<1> HIDE DEF run
<1> QED BY <1>4, <1>5, <1>8, <1>10 DEF Loops

-----------------------------------------------------------------------------
(* Prefixes of sequences. *)
LEMMA PrefixOf ==
  ASSUME NEW S, NEW s \in Seq(S), NEW n \in 0..Len(s)
  PROVE  /\ SubSeq(s, 1, n) \in Seq(S) /\ Len(SubSeq(s, 1, n)) = n
         /\ \A k \in 1..n : SubSeq(s, 1, n)[k] = s[k]
<1> DEFINE u == SubSeq(s, 1, n)
<1>1. n \in Nat /\ n \in Int /\ \A k \in 1..n : s[k] \in S
  <2>1. \A k \in 1..n : k \in 1..Len(s)
    OBVIOUS
  <2> QED BY <2>1
<1>2. /\ u \in Seq(S) /\ Len(u) = IF 1 <= n THEN n - 1 + 1 ELSE 0
      /\ \A k \in 1..n - 1 + 1 : u[k] = s[1 + k - 1]
  BY <1>1, SubSeqProperties
<1> HIDE DEF u
<1>3. Len(u) = n
  BY <1>1, <1>2
<1>4. ASSUME NEW k \in 1..n
      PROVE  u[k] = s[k]
  <2>1. k \in 1..n - 1 + 1 /\ 1 + k - 1 = k
    BY <1>1
  <2> QED BY <1>2, <2>1
<1> QED BY <1>2, <1>3, <1>4 DEF u

(* A prefix of a prefix is a prefix. *)
LEMMA PrefixOfPrefix ==
  ASSUME NEW S, NEW s \in Seq(S), NEW n \in 0..Len(s), NEW m \in 0..n
  PROVE  SubSeq(SubSeq(s, 1, n), 1, m) = SubSeq(s, 1, m)
<1> DEFINE u == SubSeq(s, 1, n)
           v == SubSeq(u, 1, m)
           w == SubSeq(s, 1, m)
<1>1. u \in Seq(S) /\ Len(u) = n /\ \A k \in 1..n : u[k] = s[k]
  BY PrefixOf
<1> HIDE DEF u
<1>2. v \in Seq(S) /\ Len(v) = m /\ \A k \in 1..m : v[k] = u[k]
  BY <1>1, PrefixOf
<1>3. m \in 0..Len(s) /\ \A k \in 1..m : k \in 1..n
  OBVIOUS
<1>4. w \in Seq(S) /\ Len(w) = m /\ \A k \in 1..m : w[k] = s[k]
  BY <1>3, PrefixOf
<1> HIDE DEF v, w
<1>5. Len(v) = Len(w) /\ \A k \in 1..Len(v) : v[k] = w[k]
  BY <1>1, <1>2, <1>3, <1>4
<1>6. v = w
  BY <1>2, <1>4, <1>5, SeqEqual
<1> QED BY <1>6 DEF u, v, w

(* The prefixes of a concatenation. *)
LEMMA PrefixOfConcat ==
  ASSUME NEW S, NEW s \in Seq(S), NEW t \in Seq(S)
  PROVE  /\ \A n \in 0..Len(s) : SubSeq(s \o t, 1, n) = SubSeq(s, 1, n)
         /\ \A n \in 0..Len(t) : SubSeq(s \o t, 1, Len(s) + n) = s \o SubSeq(t, 1, n)
<1> DEFINE a == Len(s)
           b == Len(t)
           c == s \o t
<1>1. /\ c \in Seq(S) /\ Len(c) = a + b /\ a \in Nat /\ b \in Nat
      /\ \A i \in 1..a + b : c[i] = IF i <= a THEN s[i] ELSE t[i - a]
  BY ConcatProperties
<1>2. ASSUME NEW n \in 0..a
      PROVE  SubSeq(c, 1, n) = SubSeq(s, 1, n)
  <2> DEFINE u == SubSeq(c, 1, n)
             v == SubSeq(s, 1, n)
  <2>1. n \in 0..Len(c) /\ \A k \in 1..n : k \in 1..a + b /\ k <= a
    <3> HIDE DEF a, b, c
    <3> QED BY <1>1
  <2>2. u \in Seq(S) /\ Len(u) = n /\ \A k \in 1..n : u[k] = c[k]
    <3> HIDE DEF c
    <3> QED BY <1>1, <2>1, PrefixOf
  <2>3. v \in Seq(S) /\ Len(v) = n /\ \A k \in 1..n : v[k] = s[k]
    BY PrefixOf
  <2> HIDE DEF u, v, a, b, c
  <2>4. Len(u) = Len(v) /\ \A k \in 1..Len(u) : u[k] = v[k]
    BY <1>1, <2>1, <2>2, <2>3
  <2>5. u = v
    BY <2>2, <2>3, <2>4, SeqEqual
  <2> QED BY <2>5 DEF u, v
<1>3. ASSUME NEW n \in 0..b
      PROVE  SubSeq(c, 1, a + n) = s \o SubSeq(t, 1, n)
  <2> DEFINE u == SubSeq(c, 1, a + n)
             w == SubSeq(t, 1, n)
             v == s \o w
  <2>1. a + n \in 0..Len(c) /\ n \in Nat
    <3> HIDE DEF a, b, c
    <3> QED BY <1>1
  <2>2. u \in Seq(S) /\ Len(u) = a + n /\ \A k \in 1..a + n : u[k] = c[k]
    <3> HIDE DEF c, a
    <3> QED BY <1>1, <2>1, PrefixOf
  <2>3. w \in Seq(S) /\ Len(w) = n /\ \A k \in 1..n : w[k] = t[k]
    BY PrefixOf
  <2> HIDE DEF u, w, c
  <2>4. /\ v \in Seq(S) /\ Len(v) = a + n
        /\ \A k \in 1..a + n : v[k] = IF k <= a THEN s[k] ELSE w[k - a]
    BY <2>3, ConcatProperties
  <2>5. ASSUME NEW k \in 1..a + n
        PROVE  u[k] = v[k]
    <3> HIDE DEF a, b, v
    <3>1. k \in 1..a + b /\ k \in Nat
      BY <1>1, <2>1
    <3>2. CASE k <= a
      BY <1>1, <2>2, <2>4, <3>1, <3>2
    <3>3. CASE k > a
      <4>1. k - a \in 1..n /\ ~(k <= a)
        BY <1>1, <2>1, <3>3
      <4>2. c[k] = t[k - a] /\ v[k] = w[k - a] /\ w[k - a] = t[k - a]
        BY <1>1, <2>3, <2>4, <3>1, <4>1
      <4> QED BY <2>2, <4>2
    <3> QED BY <1>1, <3>1, <3>2, <3>3
  <2> HIDE DEF v, a
  <2>6. u = v
    <3>1. Len(u) = Len(v) /\ \A k \in 1..Len(u) : u[k] = v[k]
      BY <2>2, <2>4, <2>5
    <3> QED BY <2>2, <2>4, <3>1, SeqEqual
  <2> QED BY <2>6 DEF u, v, w
<1> QED BY <1>2, <1>3

(* The prefix that is one longer. *)
LEMMA PrefixNext ==
  ASSUME NEW S, NEW s \in Seq(S), NEW n \in 1..Len(s)
  PROVE  SubSeq(s, 1, n) = Append(SubSeq(s, 1, n - 1), s[n])
<1> DEFINE u == SubSeq(s, 1, n - 1)
           v == SubSeq(s, 1, n)
           x == s[n]
           w == Append(u, x)
<1>1. n - 1 \in 0..Len(s) /\ n \in 0..Len(s) /\ x \in S /\ n \in Nat
  OBVIOUS
<1>2. u \in Seq(S) /\ Len(u) = n - 1 /\ \A k \in 1..n - 1 : u[k] = s[k]
  BY <1>1, PrefixOf
<1>3. v \in Seq(S) /\ Len(v) = n /\ \A k \in 1..n : v[k] = s[k]
  BY <1>1, PrefixOf
<1> HIDE DEF u, v, x
<1>4. /\ w \in Seq(S) /\ Len(w) = Len(u) + 1 /\ w[Len(u) + 1] = x
      /\ \A k \in 1..Len(u) : w[k] = u[k]
  BY <1>1, <1>2, AppendProperties
<1> HIDE DEF w
<1>5. Len(w) = n /\ w[n] = x
  <2>1. Len(u) + 1 = n
    BY <1>1, <1>2
  <2> QED BY <1>4, <2>1
<1>6. ASSUME NEW k \in 1..n
      PROVE  v[k] = w[k]
  <2>1. CASE k = n
    BY <1>3, <1>5, <2>1 DEF x
  <2>2. CASE k # n
    <3>1. k \in 1..n - 1
      BY <1>1, <2>2
    <3> QED BY <1>2, <1>3, <1>4, <3>1
  <2> QED BY <2>1, <2>2
<1>7. Len(v) = Len(w) /\ \A k \in 1..Len(v) : v[k] = w[k]
  BY <1>3, <1>5, <1>6
<1>8. v = w
  BY <1>3, <1>4, <1>7, SeqEqual
<1> QED BY <1>8 DEF u, v, w, x

-----------------------------------------------------------------------------
(* Chains every block of which is valid on what precedes it. *)
Body == [miner : Addr, txs : Seq(Txs)]

(* What the chain holds are blocks. *)
LEMMA BodyBlocks == Body \subseteq Blocks /\ Seq(Body) \subseteq Seq(Blocks)
<1>1. Seq(Txs) \subseteq Seq(Tx)
  BY MempoolAssumption
<1>2. Body \subseteq Blocks
  BY <1>1 DEF Body, Blocks
<1> HIDE DEF Body
<1>3. Seq(Body) \subseteq Seq(Blocks)
  BY <1>2
<1> QED BY <1>2, <1>3

ValidOn(before, b) == ValidBody(before, Replay(before), b.txs)
ChainValid(ch) == \A i \in 1..Len(ch) : ValidOn(SubSeq(ch, 1, i - 1), ch[i])

(* A chain of the genesis block alone is valid. *)
LEMMA GenesisValid ==
  /\ Genesis \in Body
  /\ <<Genesis>> \in Seq(Body) /\ Len(<<Genesis>>) = 1
  /\ ChainValid(<<Genesis>>)
<1> DEFINE g == <<Genesis>>
           e == <<>>
<1>1. Genesis.txs = e /\ Genesis \in Body
  BY MempoolAssumption, EmptySeq DEF Body
<1>2. g \in Seq(Body) /\ Len(g) = 1 /\ g[1] = Genesis
  BY <1>1
<1>3. Len(e) = 0 /\ MaxBlockTxs \in Nat /\ MaxBlockTxs >= 2
  BY LedgerAssumption
<1>4. \A c, st : ValidBody(c, st, e)
  <2>1. \A i \in 1..Len(e) : FALSE
    BY <1>3
  <2>2. Len(e) + 1 <= MaxBlockTxs
    <3> HIDE DEF e
    <3> QED BY <1>3
  <2> HIDE DEF e
  <2> QED BY <2>1, <2>2 DEF ValidBody
<1> HIDE DEF g, e
<1>5. ChainValid(g)
  <2>1. \A i \in 1..Len(g) : g[i] = Genesis
    BY <1>2
  <2> QED BY <1>1, <1>4, <2>1 DEF ChainValid, ValidOn
<1> QED BY <1>1, <1>2, <1>5 DEF g

(* A prefix of a valid chain is valid. *)
LEMMA PrefixValid ==
  ASSUME NEW ch \in Seq(Body), ChainValid(ch), NEW n \in 0..Len(ch)
  PROVE  ChainValid(SubSeq(ch, 1, n))
<1> DEFINE u == SubSeq(ch, 1, n)
<1>1. u \in Seq(Body) /\ Len(u) = n /\ \A k \in 1..n : u[k] = ch[k]
  BY PrefixOf
<1>2. ASSUME NEW i \in 1..n
      PROVE  ValidOn(SubSeq(u, 1, i - 1), u[i])
  <2>1. i \in 1..Len(ch) /\ i - 1 \in 0..n
    OBVIOUS
  <2>2. SubSeq(u, 1, i - 1) = SubSeq(ch, 1, i - 1)
    BY <2>1, PrefixOfPrefix
  <2>3. ValidOn(SubSeq(ch, 1, i - 1), ch[i])
    BY <2>1 DEF ChainValid
  <2> HIDE DEF u
  <2> QED BY <1>1, <2>2, <2>3
<1> HIDE DEF u
<1>3. ChainValid(u)
  BY <1>1, <1>2 DEF ChainValid
<1> QED BY <1>3 DEF u

(* A branch that is valid on a valid chain. *)
BranchValid(ch, bs) ==
  \A i \in 1..Len(bs) : ValidOn(ch \o SubSeq(bs, 1, i - 1), bs[i])

(* A valid chain with a valid branch on it is valid. *)
LEMMA ConcatValid ==
  ASSUME NEW ch \in Seq(Body), ChainValid(ch), NEW bs \in Seq(Body), BranchValid(ch, bs)
  PROVE  ChainValid(ch \o bs)
<1> DEFINE a == Len(ch)
           b == Len(bs)
           c == ch \o bs
<1>1. /\ c \in Seq(Body) /\ Len(c) = a + b /\ a \in Nat /\ b \in Nat
      /\ \A i \in 1..a + b : c[i] = IF i <= a THEN ch[i] ELSE bs[i - a]
  BY ConcatProperties
<1>2. /\ \A n \in 0..a : SubSeq(c, 1, n) = SubSeq(ch, 1, n)
      /\ \A n \in 0..b : SubSeq(c, 1, a + n) = ch \o SubSeq(bs, 1, n)
  BY PrefixOfConcat
<1>3. ASSUME NEW i \in 1..a + b
      PROVE  ValidOn(SubSeq(c, 1, i - 1), c[i])
  <2> HIDE DEF c, a, b
  <2>1. CASE i <= a
    <3>1. i - 1 \in 0..a /\ i \in 1..a
      BY <1>1, <2>1
    <3>2. c[i] = ch[i] /\ SubSeq(c, 1, i - 1) = SubSeq(ch, 1, i - 1)
      BY <1>1, <1>2, <2>1, <3>1
    <3>3. ValidOn(SubSeq(ch, 1, i - 1), ch[i])
      BY <3>1 DEF ChainValid, a
    <3> QED BY <3>2, <3>3
  <2>2. CASE i > a
    <3> DEFINE j == i - a
               p == j - 1
    <3>1. j \in 1..b /\ p \in 0..b /\ i - 1 = a + p /\ ~(i <= a)
      BY <1>1, <2>2
    <3>2. c[i] = bs[j]
      BY <1>1, <3>1
    <3>3. ValidOn(ch \o SubSeq(bs, 1, p), bs[j])
      <4>1. j \in 1..Len(bs)
        BY <3>1 DEF b
      <4> HIDE DEF j
      <4> QED BY <4>1 DEF BranchValid
    <3> HIDE DEF p, j
    <3>4. SubSeq(c, 1, i - 1) = ch \o SubSeq(bs, 1, p)
      BY <1>2, <3>1
    <3> QED BY <3>2, <3>3, <3>4
  <2> QED BY <1>1, <2>1, <2>2
<1> HIDE DEF c
<1> QED BY <1>1, <1>3 DEF ChainValid, c

(* The state and totals of a longer chain are those of the shorter one,    *)
(* advanced.                                                               *)
LEMMA ReplayConcat ==
  ASSUME NEW ch \in Seq(Body), NEW bs \in Seq(Body), Len(ch) + Len(bs) <= MaxHeight
  PROVE  /\ Replay(ch \o bs) = Advance(Replay(ch), bs, Len(ch))
         /\ ReplayTotals(ch \o bs) = CountBlocks(ReplayTotals(ch), bs, Len(ch))
         /\ Replay(ch) \in States /\ ReplayTotals(ch) \in Totals
<1> DEFINE zero == 0
           all == ch \o bs
<1>1. ch \in Seq(Blocks) /\ bs \in Seq(Blocks) /\ zero \in Nat
  BY BodyBlocks
<1>2. Fits(all, zero) /\ Fits(ch, zero) /\ zero + Len(ch) = Len(ch)
  <2> DEFINE a == Len(ch)
             b == Len(bs)
             c == Len(all)
  <2>1. c = a + b /\ a \in Nat /\ b \in Nat /\ a + b <= MaxHeight /\ MaxHeight \in Nat
    BY <1>1, ConcatProperties, LedgerAssumption
  <2> HIDE DEF all, a, b, c
  <2>2. 0 + c <= MaxHeight + 1 /\ 0 + a <= MaxHeight + 1 /\ 0 + a = a
    BY <2>1
  <2> QED BY <2>2 DEF Fits, a, c
<1>3. EmptyState \in States /\ EmptyTotals \in Totals
  BY EmptyStateType, EmptyTotalsType
<1> HIDE DEF zero
<1>4. Advance(EmptyState, all, zero) = Advance(Advance(EmptyState, ch, zero), bs, zero + Len(ch))
  BY <1>1, <1>2, <1>3, AdvanceConcat
<1>5. CountBlocks(EmptyTotals, all, zero) = CountBlocks(CountBlocks(EmptyTotals, ch, zero), bs, zero + Len(ch))
  BY <1>1, <1>2, <1>3, CountBlocksConcat
<1>6. Advance(EmptyState, ch, zero) \in States /\ CountBlocks(EmptyTotals, ch, zero) \in Totals
  BY <1>1, <1>2, <1>3, AdvanceType, CountBlocksType
<1> QED BY <1>2, <1>4, <1>5, <1>6 DEF Replay, ReplayTotals, zero

-----------------------------------------------------------------------------
(* The inductive invariant. *)
LedgerInv ==
  /\ chain \in Seq(Body) /\ Len(chain) \in 1..MaxHeight
  /\ LedgerIsReplay
  /\ ChainValid(chain)

PoolInv ==
  /\ PoolOK(pool)
  /\ saved \in SUBSET Txs /\ IsFiniteSet(saved)

MemInv == LedgerInv /\ PoolInv

(* MemInv holds at first. *)
LEMMA InitInv == Init => MemInv
<1> SUFFICES ASSUME Init PROVE MemInv
  OBVIOUS
<1>1. Len(<<Genesis>>) \in 1..MaxHeight
  BY GenesisValid, LedgerAssumption
<1>2. chain \in Seq(Body) /\ Len(chain) \in 1..MaxHeight /\ ChainValid(chain)
  BY <1>1, GenesisValid DEF Init
<1>3. LedgerIsReplay
  BY DEF Init, LedgerIsReplay
<1>4. PoolOK(pool)
  BY EmptyPoolOK DEF Init
<1>5. saved \in SUBSET Txs /\ IsFiniteSet(saved)
  BY FS_EmptySet DEF Init
<1> QED BY <1>2, <1>3, <1>4, <1>5 DEF MemInv, LedgerInv, PoolInv

(* What a reorg that keeps `keep` blocks makes of the chain. *)
LEMMA AdoptValid ==
  ASSUME LedgerInv, NEW keep \in 1..Len(chain), NEW bs \in Seq(Body),
         keep + Len(bs) <= MaxHeight, ValidBranch(keep, bs)
  PROVE  /\ SubSeq(chain, 1, keep) \o bs \in Seq(Body)
         /\ Len(SubSeq(chain, 1, keep) \o bs) \in 1..MaxHeight
         /\ ChainValid(SubSeq(chain, 1, keep) \o bs)
<1> DEFINE u == SubSeq(chain, 1, keep)
<1>1. keep \in 0..Len(chain) /\ keep \in Nat /\ keep >= 1 /\ chain \in Seq(Body) /\ ChainValid(chain)
  BY DEF LedgerInv
<1>2. u \in Seq(Body) /\ Len(u) = keep
  BY <1>1, PrefixOf
<1>3. ChainValid(u)
  BY <1>1, PrefixValid
<1>4. BranchValid(u, bs)
  BY DEF BranchValid, ValidBranch, ValidOn
<1> HIDE DEF u
<1>5. ChainValid(u \o bs)
  BY <1>2, <1>3, <1>4, ConcatValid
<1>6. u \o bs \in Seq(Body) /\ Len(u \o bs) = keep + Len(bs) /\ Len(bs) \in Nat
  <2>1. u \o bs \in Seq(Body) /\ Len(u \o bs) = Len(u) + Len(bs)
    BY <1>2, ConcatProperties
  <2>2. Len(bs) \in Nat
    OBVIOUS
  <2> QED BY <1>2, <2>1, <2>2
<1>7. Len(u \o bs) \in 1..MaxHeight
  <2> DEFINE l == Len(u \o bs)
             n == Len(bs)
  <2> HIDE DEF l, n
  <2>1. l = keep + n /\ n \in Nat /\ keep + n <= MaxHeight
    BY <1>6 DEF l, n
  <2>2. l \in 1..MaxHeight
    BY <1>1, <2>1, LedgerAssumption
  <2> QED BY <2>2 DEF l
<1> QED BY <1>5, <1>6, <1>7 DEF u

(* A pruned pool is a pool. *)
LEMMA PruneKeeps ==
  ASSUME NEW p, PoolOK(p), NEW st
  PROVE  PoolOK(Prune(p, st))
BY mpDelAllKeeps DEF Prune

(* Blocks on the tip keep MemInv. *)
LEMMA ExtendInv ==
  ASSUME MemInv, NEW bs \in Seq(Body), Extend(bs)
  PROVE  MemInv'
<1>1. /\ chain \in Seq(Body) /\ Len(chain) \in 1..MaxHeight /\ LedgerInv /\ PoolInv
      /\ LedgerIsReplay
  BY DEF MemInv, LedgerInv
<1>2. Len(chain) + Len(bs) <= MaxHeight /\ ValidBranch(Len(chain), bs) /\ chain' = chain \o bs
  BY DEF Extend
<1>3. SubSeq(chain, 1, Len(chain)) = chain /\ Len(chain) \in 1..Len(chain)
  BY <1>1, SubSeqFull
<1>4. chain' \in Seq(Body) /\ Len(chain') \in 1..MaxHeight /\ ChainValid(chain')
  BY <1>1, <1>2, <1>3, AdoptValid
<1>5. LedgerIsReplay'
  <2>1. state' = Advance(state, bs, Len(chain)) /\ totals' = CountBlocks(totals, bs, Len(chain))
    BY DEF Extend
  <2>2. state = Replay(chain) /\ totals = ReplayTotals(chain)
    BY <1>1 DEF LedgerIsReplay
  <2>3. /\ Replay(chain \o bs) = Advance(Replay(chain), bs, Len(chain))
        /\ ReplayTotals(chain \o bs) = CountBlocks(ReplayTotals(chain), bs, Len(chain))
    BY <1>1, <1>2, ReplayConcat
  <2> QED BY <1>2, <2>1, <2>2, <2>3 DEF LedgerIsReplay
<1>6. PoolInv'
  <2>1. pool' = Prune(mpDelAll(pool, BodyTxs(bs)), state') /\ saved' = saved
    BY DEF Extend
  <2>2. PoolOK(mpDelAll(pool, BodyTxs(bs)))
    BY <1>1, mpDelAllKeeps DEF PoolInv
  <2>3. PoolOK(pool')
    BY <2>1, <2>2, PruneKeeps
  <2> QED BY <1>1, <2>1, <2>3 DEF PoolInv
<1> QED BY <1>4, <1>5, <1>6 DEF MemInv, LedgerInv

(* A reorg keeps MemInv. *)
LEMMA ReorgInv ==
  ASSUME MemInv, NEW bs \in Seq(Body), NEW keep, Reorg(keep, bs)
  PROVE  MemInv'
<1>1. chain \in Seq(Body) /\ Len(chain) \in 1..MaxHeight /\ LedgerInv /\ PoolInv
  BY DEF MemInv, LedgerInv
<1>2. /\ keep \in 1..Len(chain) /\ keep + Len(bs) <= MaxHeight /\ ValidBranch(keep, bs)
      /\ chain' = SubSeq(chain, 1, keep) \o bs
  BY <1>1 DEF Reorg
<1>3. chain' \in Seq(Body) /\ Len(chain') \in 1..MaxHeight /\ ChainValid(chain')
  BY <1>1, <1>2, AdoptValid
<1>4. LedgerIsReplay'
  BY DEF Reorg, LedgerIsReplay
<1>5. PoolInv'
  <2>1. pool' = Prune(pool, state') /\ saved' = saved
    BY DEF Reorg
  <2>2. PoolOK(pool')
    BY <1>1, <2>1, PruneKeeps DEF PoolInv
  <2> QED BY <1>1, <2>1, <2>2 DEF PoolInv
<1> QED BY <1>3, <1>4, <1>5 DEF MemInv, LedgerInv

(* A restart keeps MemInv. *)
LEMMA RestartInv ==
  ASSUME MemInv, Restart
  PROVE  MemInv'
<1>1. /\ chain \in Seq(Body) /\ Len(chain) \in 1..MaxHeight /\ LedgerInv /\ PoolInv
      /\ ChainValid(chain)
  BY DEF MemInv, LedgerInv
<1>2. PICK keep \in {Len(chain), Len(chain) - 1} \ {0} : chain' = SubSeq(chain, 1, keep)
  BY DEF Restart
<1>3. keep \in 0..Len(chain) /\ keep \in 1..MaxHeight
  <2> DEFINE l == Len(chain)
  <2>1. l \in 1..MaxHeight /\ MaxHeight \in Nat /\ (keep = l \/ keep = l - 1) /\ keep # 0
    BY <1>1, <1>2, LedgerAssumption
  <2> HIDE DEF l
  <2>2. keep \in 0..l /\ keep \in 1..MaxHeight
    BY <2>1
  <2> QED BY <2>2 DEF l
<1>4. chain' \in Seq(Body) /\ Len(chain') = keep /\ ChainValid(chain')
  BY <1>1, <1>2, <1>3, PrefixOf, PrefixValid
<1>5. LedgerIsReplay'
  BY DEF Restart, LedgerIsReplay
<1>6. PoolInv'
  <2>1. pool' = LoadMempool(chain', state', saved) /\ saved' = saved
    BY DEF Restart
  <2>2. PoolOK(pool')
    BY <1>1, <2>1, LoadMempoolOK DEF PoolInv
  <2> QED BY <1>1, <2>1, <2>2 DEF PoolInv
<1> QED BY <1>3, <1>4, <1>5, <1>6 DEF MemInv, LedgerInv

(* A template is a block. *)
LEMMA TemplateIsBody ==
  ASSUME PoolInv
  PROVE  BuildTemplate \in Body
<1>1. pool.txs \in SUBSET Txs /\ IsFiniteSet(pool.txs)
  BY DEF PoolInv, PoolOK, Pools
<1>2. PICK f \in [0..MaxBlockTxs - 1 -> Seq(Txs)] :
        BuildTemplate = [miner |-> Miner, txs |-> f[MaxBlockTxs - 1]]
  BY <1>1, BuildTemplateRuns
<1>3. MaxBlockTxs - 1 \in 0..MaxBlockTxs - 1
  BY LedgerAssumption
<1>4. f[MaxBlockTxs - 1] \in Seq(Txs)
  BY <1>2, <1>3
<1> QED BY <1>2, <1>4, MempoolAssumption DEF Body

(* Every step keeps MemInv. *)
LEMMA NextInv == MemInv /\ [Next]_vars => MemInv'
<1> SUFFICES ASSUME MemInv, [Next]_vars
             PROVE  MemInv'
  OBVIOUS
<1>1. ASSUME NEW t \in Txs, AddTx(t)
      PROVE  MemInv'
  <2>1. LedgerInv'
    <3>1. LedgerInv /\ chain' = chain /\ state' = state /\ totals' = totals
      BY <1>1 DEF AddTx, MemInv
    <3> QED BY <3>1 DEF LedgerInv, LedgerIsReplay
  <2>2. PoolInv'
    <3>1. PoolInv /\ pool' = AfterAddTx(chain, state, pool, t) /\ saved' = saved
      BY <1>1 DEF AddTx, MemInv
    <3>2. PoolOK(pool')
      BY <3>1, AfterAddTxKeeps DEF PoolInv
    <3> QED BY <3>1, <3>2 DEF PoolInv
  <2> QED BY <2>1, <2>2 DEF MemInv
<1>2. CASE MineTemplate
  <2> DEFINE bs == <<BuildTemplate>>
  <2>1. bs \in Seq(Body)
    <3>1. BuildTemplate \in Body
      BY TemplateIsBody DEF MemInv
    <3> QED BY <3>1
  <2>2. Extend(bs)
    BY <1>2 DEF MineTemplate
  <2> HIDE DEF bs
  <2> QED BY <2>1, <2>2, ExtendInv
<1>3. ASSUME NEW branch \in Branches, Extend(branch)
      PROVE  MemInv'
  BY <1>3, ExtendInv, MempoolAssumption DEF Body
<1>4. ASSUME NEW keep \in 1..MaxHeight, NEW branch \in Branches, Reorg(keep, branch)
      PROVE  MemInv'
  BY <1>4, ReorgInv, MempoolAssumption DEF Body
<1>5. CASE SaveMempool
  <2>1. LedgerInv'
    <3>1. LedgerInv /\ chain' = chain /\ state' = state /\ totals' = totals
      BY <1>5 DEF SaveMempool, MemInv
    <3> QED BY <3>1 DEF LedgerInv, LedgerIsReplay
  <2>2. PoolInv'
    BY <1>5 DEF SaveMempool, MemInv, PoolInv, PoolOK, Pools
  <2> QED BY <2>1, <2>2 DEF MemInv
<1>6. CASE Restart
  BY <1>6, RestartInv
<1>7. CASE UNCHANGED vars
  <2>1. LedgerInv'
    <3>1. LedgerInv /\ chain' = chain /\ state' = state /\ totals' = totals
      BY <1>7 DEF vars, MemInv
    <3> QED BY <3>1 DEF LedgerInv, LedgerIsReplay
  <2>2. PoolInv'
    BY <1>7 DEF vars, MemInv, PoolInv
  <2> QED BY <2>1, <2>2 DEF MemInv
<1> QED BY <1>1, <1>2, <1>3, <1>4, <1>5, <1>6, <1>7 DEF Next

(* MemInv is inductive. *)
LEMMA MemInvHolds == Spec => []MemInv
BY InitInv, NextInv, PTL DEF Spec

(* The state and totals kept beside the chain are what a replay of it from *)
(* genesis gives, whatever extensions, reorgs and restarts led to it.      *)
THEOREM LedgerAlwaysReplay == Spec => []LedgerIsReplay
<1>1. MemInv => LedgerIsReplay
  BY DEF MemInv, LedgerInv
<1> QED BY <1>1, MemInvHolds, PTL

(* The pool keeps its types, one transaction per slot, its per-sender      *)
(* lists and its caps, whatever is added, replaced, mined, reorganized or  *)
(* reloaded.                                                               *)
THEOREM PoolAlwaysSound == Spec => []PoolSound
<1>1. MemInv => PoolSound
  <2> SUFFICES ASSUME MemInv PROVE PoolSound
    OBVIOUS
  <2>1. PoolOK(pool) /\ saved \in SUBSET Txs /\ LedgerInv
    BY DEF MemInv, PoolInv
  <2>2. pool.txs \in SUBSET Txs /\ Cardinality(pool.txs) <= PoolLimit + 1 /\ \A a \in Addr : Listed(pool, a)
    BY <2>1 DEF PoolOK, Pools
  <2>3. \A t, u \in pool.txs : t.from = u.from /\ t.nonce = u.nonce => t = u
    BY <2>1, OnePerSlot
  <2>4. state \in [Addr -> [balance : 0..Word - 1, nonce : Nat]]
    <3>1. chain \in Seq(Body) /\ Len(chain) <= MaxHeight /\ state = Replay(chain)
      BY <2>1 DEF LedgerInv, LedgerIsReplay
    <3> DEFINE e == <<>>
    <3>2. e \in Seq(Body) /\ Len(e) = 0
      BY EmptySeq
    <3>3. Len(chain) + Len(e) <= MaxHeight
      <4>1. Len(chain) \in Nat
        BY <3>1
      <4> HIDE DEF e
      <4> QED BY <3>1, <3>2, <4>1
    <3> HIDE DEF e
    <3>4. Replay(chain) \in States
      BY <3>1, <3>2, <3>3, ReplayConcat
    <3> QED BY <3>1, <3>4 DEF States, Amount
  <2>5. PoolTypeOK
    BY <2>1, <2>2, <2>3, <2>4 DEF PoolTypeOK, LedgerInv, Body
  <2>6. IndexLockstep
    BY <2>2 DEF IndexLockstep, Listed, InOrder
  <2>7. PoolBounded
    BY <2>2 DEF PoolBounded, Listed
  <2> QED BY <2>5, <2>6, <2>7 DEF PoolSound
<1> QED BY <1>1, MemInvHolds, PTL

-----------------------------------------------------------------------------
(* Bodies checked transaction by transaction. *)
LEMMA NonceStep ==
  ASSUME NEW st \in States, NEW t \in Tx, NEW a \in Addr
  PROVE  /\ ApplyTx(st, t)[a].nonce = IF a = t.from THEN st[a].nonce + 1 ELSE st[a].nonce
         /\ st[a].nonce \in Nat
<1>1. ApplyTx(st, t) = Credit(Debit(st, t), t.to, t.amount)
  BY ApplyTxType
<1>2. t.to \in Addr /\ t.amount \in Int /\ t.from \in Addr
  BY DEF Tx
<1>3. /\ Debit(st, t) \in States /\ Debit(st, t)[t.from].nonce = st[t.from].nonce + 1
      /\ \A b \in Addr \ {t.from} : Debit(st, t)[b] = st[b]
  BY DebitType
<1>4. \A b \in Addr : Credit(Debit(st, t), t.to, t.amount)[b].nonce = Debit(st, t)[b].nonce
  BY <1>2, <1>3, CreditType
<1>5. st[a].nonce \in Nat
  BY DEF States
<1> QED BY <1>1, <1>3, <1>4, <1>5

(* The states inside a body. *)
LEMMA PrefixState ==
  ASSUME NEW st \in States, NEW x \in Seq(Tx)
  PROVE  /\ \A n \in 0..Len(x) : ApplyTxs(st, SubSeq(x, 1, n)) \in States
         /\ \A n \in 1..Len(x) :
              ApplyTxs(st, SubSeq(x, 1, n)) = ApplyTx(ApplyTxs(st, SubSeq(x, 1, n - 1)), x[n])
<1>1. ASSUME NEW n \in 0..Len(x)
      PROVE  SubSeq(x, 1, n) \in Seq(Tx) /\ ApplyTxs(st, SubSeq(x, 1, n)) \in States
  BY PrefixOf, ApplyTxsType
<1>2. ASSUME NEW n \in 1..Len(x)
      PROVE  ApplyTxs(st, SubSeq(x, 1, n)) = ApplyTx(ApplyTxs(st, SubSeq(x, 1, n - 1)), x[n])
  <2>1. SubSeq(x, 1, n) = Append(SubSeq(x, 1, n - 1), x[n]) /\ x[n] \in Tx
    BY PrefixNext
  <2>2. n - 1 \in 0..Len(x)
    OBVIOUS
  <2>3. SubSeq(x, 1, n - 1) \in Seq(Tx)
    BY <1>1, <2>2
  <2> QED BY <2>1, <2>3, ApplyTxsAppend
<1> QED BY <1>1, <1>2

(* Every transaction is valid on the state the ones before it leave. *)
Steps(c, st, x) ==
  \A i \in 1..Len(x) :
    PaysFloor(c, x[i]) /\ ValidTx(c, ApplyTxs(st, SubSeq(x, 1, i - 1)), x[i])

(* One more valid transaction at the end of a valid body. *)
LEMMA StepsAppend ==
  ASSUME NEW c, NEW st, NEW x \in Seq(Txs), NEW t \in Txs, Steps(c, st, x),
         PaysFloor(c, t), ValidTx(c, ApplyTxs(st, x), t)
  PROVE  Steps(c, st, Append(x, t))
<1> DEFINE k == Len(x)
           y == Append(x, t)
<1>1. /\ y \in Seq(Txs) /\ Len(y) = k + 1 /\ y[k + 1] = t /\ k \in Nat
      /\ \A i \in 1..k : y[i] = x[i]
  BY AppendProperties
<1>2. SubSeq(y, 1, k) = x
  <2> DEFINE u == SubSeq(y, 1, k)
  <2>1. k \in 0..Len(y) /\ \A i \in 1..k : i \in 1..k
    <3> HIDE DEF y, k
    <3> QED BY <1>1
  <2>2. u \in Seq(Txs) /\ Len(u) = k /\ \A i \in 1..k : u[i] = y[i]
    <3> HIDE DEF y, k
    <3> QED BY <1>1, <2>1, PrefixOf
  <2> HIDE DEF u
  <2>3. u = x
    BY <1>1, <2>2, SeqEqual
  <2> QED BY <2>3 DEF u
<1>3. ASSUME NEW i \in 1..k + 1
      PROVE  PaysFloor(c, y[i]) /\ ValidTx(c, ApplyTxs(st, SubSeq(y, 1, i - 1)), y[i])
  <2>1. CASE i = k + 1
    <3>1. i - 1 = k /\ y[i] = t
      BY <1>1, <2>1
    <3>2. SubSeq(y, 1, i - 1) = x
      BY <1>2, <3>1
    <3> HIDE DEF y
    <3> QED BY <3>1, <3>2
  <2>2. CASE i # k + 1
    <3>1. i \in 1..k /\ i - 1 \in 0..k
      BY <1>1, <2>2
    <3>2. k \in 0..Len(y)
      <4> HIDE DEF y, k
      <4> QED BY <1>1
    <3>3. SubSeq(SubSeq(y, 1, k), 1, i - 1) = SubSeq(y, 1, i - 1)
      <4> HIDE DEF y, k
      <4> QED BY <1>1, <3>1, <3>2, PrefixOfPrefix
    <3>4. SubSeq(x, 1, i - 1) = SubSeq(y, 1, i - 1) /\ y[i] = x[i]
      <4> HIDE DEF y
      <4> QED BY <1>1, <1>2, <3>1, <3>3
    <3>5. PaysFloor(c, x[i]) /\ ValidTx(c, ApplyTxs(st, SubSeq(x, 1, i - 1)), x[i])
      BY <3>1 DEF Steps
    <3> HIDE DEF y
    <3> QED BY <3>4, <3>5
  <2> QED BY <2>1, <2>2
<1> HIDE DEF y
<1>4. Steps(c, st, y)
  BY <1>1, <1>3 DEF Steps
<1> QED BY <1>4 DEF y

(* A sender's nonces rise along such a body. *)
LEMMA StepsRise ==
  ASSUME NEW c, NEW st \in States, NEW x \in Seq(Txs), Steps(c, st, x),
         NEW i \in 1..Len(x), NEW j \in 1..Len(x), i < j, x[i].from = x[j].from
  PROVE  x[i].nonce < x[j].nonce
<1> DEFINE k == Len(x)
           a == x[i].from
           N == [n \in 0..k |-> ApplyTxs(st, SubSeq(x, 1, n))[a].nonce]
           S == {n \in 0..k : i <= n => N[i] <= N[n]}
<1>1. x \in Seq(Tx) /\ k \in Nat /\ \A n \in 1..k : x[n] \in Tx
  BY MempoolAssumption
<1>2. a \in Addr
  BY <1>1 DEF Tx
<1>3. ASSUME NEW n \in 0..k
      PROVE  N[n] \in Nat
  <2>1. ApplyTxs(st, SubSeq(x, 1, n)) \in States
    BY <1>1, PrefixState
  <2> QED BY <1>2, <2>1 DEF States
<1>4. ASSUME NEW n \in 1..k
      PROVE  n - 1 \in 0..k /\ N[n] = IF a = x[n].from THEN N[n - 1] + 1 ELSE N[n - 1]
  <2>1. n - 1 \in 0..k /\ n \in 0..k
    BY <1>1
  <2>2. /\ ApplyTxs(st, SubSeq(x, 1, n - 1)) \in States
        /\ ApplyTxs(st, SubSeq(x, 1, n)) = ApplyTx(ApplyTxs(st, SubSeq(x, 1, n - 1)), x[n])
    BY <1>1, <2>1, PrefixState
  <2> DEFINE old == ApplyTxs(st, SubSeq(x, 1, n - 1))
             new == ApplyTxs(st, SubSeq(x, 1, n))
  <2>3. N[n] = new[a].nonce /\ N[n - 1] = old[a].nonce
    BY <2>1
  <2>4. new[a].nonce = IF a = x[n].from THEN old[a].nonce + 1 ELSE old[a].nonce
    <3>1. old \in States /\ new = ApplyTx(old, x[n])
      BY <2>2
    <3> HIDE DEF old, new, a
    <3> QED BY <1>1, <1>2, <3>1, NonceStep
  <2> HIDE DEF N, old, new, a
  <2> QED BY <2>1, <2>3, <2>4
<1>5. ASSUME NEW n \in 1..k, x[n].from = a
      PROVE  n - 1 \in 0..k /\ x[n].nonce = N[n - 1]
  <2>1. n - 1 \in 0..k
    BY <1>1
  <2>2. ValidTx(c, ApplyTxs(st, SubSeq(x, 1, n - 1)), x[n])
    BY DEF Steps
  <2>3. x[n].nonce = ApplyTxs(st, SubSeq(x, 1, n - 1))[x[n].from].nonce
    BY <2>2 DEF ValidTx
  <2>4. N[n - 1] = ApplyTxs(st, SubSeq(x, 1, n - 1))[a].nonce
    BY <2>1
  <2> HIDE DEF a, N
  <2> QED BY <1>5, <2>1, <2>3, <2>4
<1>6. a = x[i].from /\ x[j].from = a
  OBVIOUS
<1> HIDE DEF N, a, k
<1>7. i \in 0..k /\ i \in 1..k /\ j \in 1..k /\ i \in Nat /\ j \in Nat
  BY <1>1 DEF k
<1>8. 0 \in S
  BY <1>1, <1>7
<1>9. ASSUME NEW n \in 0..k - 1, n \in S
      PROVE  n + 1 \in S
  <2>1. n + 1 \in 1..k /\ n + 1 \in 0..k /\ n \in 0..k /\ (n + 1) - 1 = n
    BY <1>1
  <2>2. N[n + 1] >= N[n] /\ N[n] \in Nat /\ N[n + 1] \in Nat /\ N[i] \in Nat
    <3>1. N[n + 1] = N[n] + 1 \/ N[n + 1] = N[n]
      BY <1>4, <2>1
    <3>2. N[n] \in Nat /\ N[n + 1] \in Nat /\ N[i] \in Nat
      BY <1>3, <1>7, <2>1
    <3> QED BY <3>1, <3>2
  <2>3. i <= n + 1 => N[i] <= N[n + 1]
    <3>1. CASE i = n + 1
      BY <2>2, <3>1
    <3>2. CASE i <= n
      BY <1>9, <2>2, <3>2
    <3> QED BY <1>7, <2>1, <3>1, <3>2
  <2> QED BY <2>1, <2>3
<1>10. j - 1 \in S
  <2>1. 0..k \subseteq S
    <3> HIDE DEF S
    <3> QED BY <1>1, <1>8, <1>9, InductionUpTo
  <2>2. j - 1 \in 0..k
    BY <1>1, <1>7
  <2> QED BY <2>1, <2>2
<1>11. N[i] <= N[j - 1]
  <2>1. i <= j - 1
    BY <1>7
  <2> QED BY <1>10, <2>1
<1>12. N[i] = N[i - 1] + 1 /\ x[i].nonce = N[i - 1] /\ N[i - 1] \in Nat
  BY <1>3, <1>4, <1>5, <1>6, <1>7
<1>13. x[j].nonce = N[j - 1] /\ N[j - 1] \in Nat
  BY <1>3, <1>5, <1>6, <1>7
<1> QED BY <1>11, <1>12, <1>13

(* Such a body is a valid one if it is short enough. *)
LEMMA StepsValid ==
  ASSUME NEW c, NEW st \in States, NEW x \in Seq(Txs), Steps(c, st, x), Len(x) + 1 <= MaxBlockTxs
  PROVE  ValidBody(c, st, x)
<1>1. \A i \in 1..Len(x) : x[i] \in Tx
  BY MempoolAssumption
<1>2. ASSUME NEW i \in 1..Len(x), NEW j \in 1..Len(x), x[i] = x[j]
      PROVE  i = j
  <2>1. x[i].nonce \in Nat
    BY <1>1 DEF Tx
  <2>2. ~(i < j)
    BY <1>2, <2>1, StepsRise
  <2>3. ~(j < i)
    BY <1>2, <2>1, StepsRise
  <2> QED BY <2>2, <2>3
<1> QED BY <1>2 DEF ValidBody, Steps

(* Whatever the pool holds, the body BuildTemplate picks is one            *)
(* validateBlock accepts.                                                  *)
THEOREM TemplateAlwaysValid == Spec => []TemplateValid
<1>1. MemInv => TemplateValid
  <2> SUFFICES ASSUME MemInv PROVE TemplateValid
    OBVIOUS
  <2> DEFINE k == MaxBlockTxs - 1
  <2>1. pool.txs \in SUBSET Txs /\ IsFiniteSet(pool.txs) /\ k \in Nat
    BY LedgerAssumption DEF MemInv, PoolInv, PoolOK, Pools
  <2>2. PICK f \in [0..k -> Seq(Txs)] :
          /\ f[0] = <<>>
          /\ \A n \in 1..k : f[n] = Picks(f[n - 1])
          /\ BuildTemplate = [miner |-> Miner, txs |-> f[k]]
    BY <2>1, BuildTemplateRuns
  <2>3. state \in States
    <3>1. chain \in Seq(Body) /\ Len(chain) <= MaxHeight /\ state = Replay(chain) /\ Len(chain) \in Nat
      BY DEF MemInv, LedgerInv, LedgerIsReplay
    <3> DEFINE e == <<>>
    <3>2. e \in Seq(Body) /\ Len(e) = 0
      BY EmptySeq
    <3> HIDE DEF e
    <3>3. Len(chain) + Len(e) <= MaxHeight
      BY <3>1, <3>2
    <3> QED BY <3>1, <3>2, <3>3, ReplayConcat
  <2> DEFINE S == {n \in 0..k : Len(f[n]) <= n /\ Steps(chain, state, f[n])}
  <2>4. 0 \in S
    <3> DEFINE e == <<>>
    <3>1. Len(e) <= 0 /\ Steps(chain, state, e)
      BY DEF Steps
    <3> HIDE DEF e, k
    <3>2. f[0] = e /\ 0 \in 0..k
      BY <2>1, <2>2 DEF e
    <3> QED BY <3>1, <3>2
  <2>5. ASSUME NEW n \in 0..k - 1, n \in S
        PROVE  n + 1 \in S
    <3> DEFINE m == n + 1
               x == f[n]
               y == f[m]
               more == Executable(x)
               t == HighestFee(more)
    <3>1. m \in 1..k /\ m \in 0..k /\ m - 1 = n /\ n \in 0..k /\ n \in Nat /\ m = n + 1
      BY <2>1
    <3>2. x \in Seq(Txs) /\ y \in Seq(Txs) /\ Len(x) <= n /\ Len(x) \in Nat /\ Steps(chain, state, x)
      BY <2>2, <2>5, <3>1
    <3>3. y = IF more = {} THEN x ELSE Append(x, t)
      <4>1. y = Picks(x)
        BY <2>2, <3>1
      <4> HIDE DEF y, x
      <4> QED BY <4>1 DEF Picks
    <3> HIDE DEF x, y, m
    <3>4. CASE more = {}
      <4>1. Len(y) <= m /\ Steps(chain, state, y)
        BY <3>1, <3>2, <3>3, <3>4
      <4> QED BY <3>1, <4>1 DEF y, m
    <3>5. CASE more # {}
      <4>1. more \in SUBSET pool.txs /\ IsFiniteSet(more) /\ more \in SUBSET Txs
        <5>1. more \in SUBSET pool.txs
          BY DEF Executable
        <5> QED BY <2>1, <5>1, FS_Subset
      <4>2. t \in more /\ t \in Txs
        BY <3>5, <4>1, HighestFeeIn
      <4>3. PaysFloor(chain, t) /\ ValidTx(chain, ApplyTxs(state, x), t)
        <5> HIDE DEF t
        <5> QED BY <4>2 DEF Executable
      <4> HIDE DEF t, more
      <4>4. Steps(chain, state, Append(x, t))
        BY <3>2, <4>2, <4>3, StepsAppend
      <4>5. Len(Append(x, t)) = Len(x) + 1
        BY <3>2, <4>2, AppendProperties
      <4>6. Len(y) <= m /\ Steps(chain, state, y)
        BY <3>1, <3>2, <3>3, <3>5, <4>4, <4>5
      <4> QED BY <3>1, <4>6 DEF y, m
    <3> QED BY <3>4, <3>5
  <2>6. k \in S
    <3> HIDE DEF S, k
    <3>1. 0..k \subseteq S
      BY <2>1, <2>4, <2>5, InductionUpTo
    <3> QED BY <2>1, <3>1
  <2>7. f[k] \in Seq(Txs) /\ Steps(chain, state, f[k]) /\ Len(f[k]) + 1 <= MaxBlockTxs
    <3>1. f[k] \in Seq(Txs) /\ Len(f[k]) <= k
      BY <2>1, <2>2, <2>6
    <3>2. Len(f[k]) \in Nat /\ k + 1 = MaxBlockTxs
      BY <3>1, LedgerAssumption
    <3>3. Steps(chain, state, f[k])
      BY <2>6
    <3> DEFINE l == Len(f[k])
    <3>4. l + 1 <= MaxBlockTxs
      <4>1. l \in Nat /\ l <= k /\ k + 1 = MaxBlockTxs
        BY <3>1, <3>2
      <4> HIDE DEF l, k
      <4> QED BY <2>1, <4>1
    <3> QED BY <3>1, <3>3, <3>4
  <2>8. ValidBody(chain, state, f[k])
    <3> HIDE DEF k
    <3> QED BY <2>3, <2>7, StepsValid
  <2> QED BY <2>2, <2>8 DEF TemplateValid
<1> QED BY <1>1, MemInvHolds, PTL

-----------------------------------------------------------------------------
(* What each sender has on the chain. *)

(* Nonces follow from nonces alone. *)
LEMMA SameNonces ==
  ASSUME NEW st \in States, NEW su \in States, NEW x \in Seq(Tx), NEW a \in Addr,
         st[a].nonce = su[a].nonce
  PROVE  ApplyTxs(st, x)[a].nonce = ApplyTxs(su, x)[a].nonce
<1> DEFINE k == Len(x)
           S == {n \in 0..k : ApplyTxs(st, SubSeq(x, 1, n))[a].nonce = ApplyTxs(su, SubSeq(x, 1, n))[a].nonce}
<1>1. k \in Nat /\ k \in 0..k /\ 0 \in 0..k /\ \A n \in 1..k : x[n] \in Tx
  OBVIOUS
<1>2. 0 \in S
  <2>1. SubSeq(x, 1, 0) = <<>>
    BY SubSeqEmpty
  <2>2. ApplyTxs(st, SubSeq(x, 1, 0)) = st /\ ApplyTxs(su, SubSeq(x, 1, 0)) = su
    BY <2>1, ApplyTxsEmpty
  <2> HIDE DEF k
  <2> QED BY <1>1, <2>2
<1>3. ASSUME NEW n \in 0..k - 1, n \in S
      PROVE  n + 1 \in S
  <2> DEFINE m == n + 1
             p == SubSeq(x, 1, n)
             q == SubSeq(x, 1, m)
  <2>1. m \in 1..k /\ m \in 0..k /\ m - 1 = n /\ n \in 0..k
    BY <1>1
  <2>2. /\ ApplyTxs(st, p) \in States /\ ApplyTxs(su, p) \in States
        /\ ApplyTxs(st, q) = ApplyTx(ApplyTxs(st, p), x[m])
        /\ ApplyTxs(su, q) = ApplyTx(ApplyTxs(su, p), x[m])
    <3> HIDE DEF m
    <3> QED BY <2>1, PrefixState
  <2>3. ApplyTxs(st, p)[a].nonce = ApplyTxs(su, p)[a].nonce
    BY <1>3
  <2>4. ApplyTxs(st, q)[a].nonce = ApplyTxs(su, q)[a].nonce
    <3> HIDE DEF m, p, q
    <3> QED BY <1>1, <2>1, <2>2, <2>3, NonceStep
  <2> QED BY <2>1, <2>4
<1>4. k \in S
  <2> HIDE DEF S, k
  <2>1. 0..k \subseteq S
    BY <1>1, <1>2, <1>3, InductionUpTo
  <2> QED BY <1>1, <2>1
<1>5. SubSeq(x, 1, k) = x
  BY SubSeqFull
<1> QED BY <1>4, <1>5

Others(a) == {t \in Txs : t.from # a}
CountsFrom(s, n) == \A i \in 1..Len(s) : s[i].nonce = n + i - 1

(* What a sender has in a body. *)
LEMMA BodyNonces ==
  ASSUME NEW c, NEW st \in States, NEW x \in Seq(Txs), Steps(c, st, x), NEW a \in Addr
  PROVE  /\ ApplyTxs(st, x)[a].nonce = st[a].nonce + Len(Without(x, Others(a)))
         /\ CountsFrom(Without(x, Others(a)), st[a].nonce)
         /\ Without(x, Others(a)) \in Seq(Txs) /\ st[a].nonce \in Nat
<1> DEFINE k == Len(x)
           gone == Others(a)
           N == [n \in 0..k |-> ApplyTxs(st, SubSeq(x, 1, n))[a].nonce]
           z == st[a].nonce
<1>1. x \in Seq(Tx) /\ k \in Nat /\ k \in 0..k /\ 0 \in 0..k /\ \A n \in 1..k : x[n] \in Tx /\ x[n] \in Txs
  BY MempoolAssumption
<1>2. PICK f \in [0..k -> Seq(Txs)] :
        /\ f[0] = <<>>
        /\ \A n \in 1..k : f[n] = IF x[n] \in gone THEN f[n - 1] ELSE Append(f[n - 1], x[n])
        /\ Without(x, gone) = f[k]
  BY WithoutRuns
<1>3. z \in Nat
  BY DEF States
<1>4. N[0] = z
  <2>1. SubSeq(x, 1, 0) = <<>>
    BY SubSeqEmpty
  <2>2. ApplyTxs(st, SubSeq(x, 1, 0)) = st
    BY <2>1, ApplyTxsEmpty
  <2> HIDE DEF k
  <2> QED BY <1>1, <2>2
<1>5. ASSUME NEW n \in 1..k
      PROVE  /\ n - 1 \in 0..k /\ N[n - 1] \in Nat
             /\ N[n] = IF a = x[n].from THEN N[n - 1] + 1 ELSE N[n - 1]
             /\ x[n].from = a => x[n].nonce = N[n - 1]
  <2> DEFINE old == ApplyTxs(st, SubSeq(x, 1, n - 1))
             new == ApplyTxs(st, SubSeq(x, 1, n))
  <2>1. n - 1 \in 0..k /\ n \in 0..k
    BY <1>1
  <2>2. old \in States /\ new = ApplyTx(old, x[n])
    BY <1>1, <2>1, PrefixState
  <2>3. N[n] = new[a].nonce /\ N[n - 1] = old[a].nonce
    BY <2>1
  <2>4. ValidTx(c, old, x[n])
    BY DEF Steps
  <2>5. x[n].nonce = old[x[n].from].nonce
    <3> HIDE DEF old
    <3> QED BY <2>4 DEF ValidTx
  <2> HIDE DEF old, new, N
  <2>6. new[a].nonce = (IF a = x[n].from THEN old[a].nonce + 1 ELSE old[a].nonce) /\ old[a].nonce \in Nat
    BY <1>1, <2>2, NonceStep
  <2> QED BY <2>1, <2>3, <2>5, <2>6
<1> DEFINE S == {n \in 0..k : N[n] = z + Len(f[n]) /\ CountsFrom(f[n], z)}
<1> HIDE DEF N, z
<1>6. 0 \in S
  <2> DEFINE e == <<>>
  <2>1. Len(e) = 0 /\ CountsFrom(e, z)
    BY DEF CountsFrom
  <2>2. f[0] = e
    BY <1>2
  <2> HIDE DEF e, k
  <2>3. Len(f[0]) = 0 /\ CountsFrom(f[0], z)
    BY <2>1, <2>2
  <2>4. N[0] = z + Len(f[0])
    BY <1>3, <1>4, <2>3
  <2> QED BY <1>1, <2>3, <2>4
<1>7. ASSUME NEW n \in 0..k - 1, n \in S
      PROVE  n + 1 \in S
  <2> DEFINE m == n + 1
             s == f[n]
             r == f[m]
             t == x[m]
  <2>1. m \in 1..k /\ m \in 0..k /\ m - 1 = n /\ n \in 0..k /\ t \in Txs
    BY <1>1
  <2>2. s \in Seq(Txs) /\ Len(s) \in Nat /\ N[n] = z + Len(s) /\ CountsFrom(s, z)
    BY <1>2, <1>7, <2>1
  <2>3. r = IF t \in gone THEN s ELSE Append(s, t)
    BY <1>2, <2>1
  <2>4. N[m] = IF a = t.from THEN N[n] + 1 ELSE N[n]
    <3> HIDE DEF m
    <3> QED BY <1>5, <2>1
  <2>5. t.from = a => t.nonce = N[n]
    <3> HIDE DEF m
    <3> QED BY <1>5, <2>1
  <2> HIDE DEF m, s, r, t
  <2>6. CASE t.from # a
    <3>1. r = s /\ N[m] = N[n]
      BY <2>1, <2>3, <2>4, <2>6 DEF Others
    <3>2. N[m] = z + Len(r) /\ CountsFrom(r, z)
      BY <2>2, <3>1
    <3> QED BY <2>1, <3>2 DEF m, r
  <2>7. CASE t.from = a
    <3>1. r = Append(s, t) /\ N[m] = N[n] + 1 /\ t.nonce = N[n]
      BY <2>1, <2>3, <2>4, <2>5, <2>7 DEF Others
    <3>2. /\ Len(r) = Len(s) + 1 /\ r[Len(s) + 1] = t
          /\ \A i \in 1..Len(s) : r[i] = s[i]
      BY <2>1, <2>2, <3>1, AppendProperties
    <3>3. N[m] = z + Len(r)
      BY <1>3, <2>2, <3>1, <3>2
    <3>4. ASSUME NEW i \in 1..Len(r)
          PROVE  r[i].nonce = z + i - 1
      <4> DEFINE l == Len(s)
      <4>1. l \in Nat /\ i \in 1..l + 1 /\ t.nonce = z + l /\ r[l + 1] = t
        BY <2>2, <3>1, <3>2
      <4>2. \A j \in 1..l : r[j] = s[j] /\ s[j].nonce = z + j - 1
        BY <2>2, <3>2 DEF CountsFrom
      <4> HIDE DEF l
      <4>3. CASE i = l + 1
        BY <1>3, <4>1, <4>3
      <4>4. CASE i # l + 1
        <5>1. i \in 1..l
          BY <4>1, <4>4
        <5> QED BY <4>2, <5>1
      <4> QED BY <4>3, <4>4
    <3>5. CountsFrom(r, z)
      BY <3>4 DEF CountsFrom
    <3> QED BY <2>1, <3>3, <3>5 DEF m, r
  <2> QED BY <2>6, <2>7
<1>8. k \in S
  <2> HIDE DEF S, k
  <2>1. 0..k \subseteq S
    BY <1>1, <1>6, <1>7, InductionUpTo
  <2> QED BY <1>1, <2>1
<1>9. N[k] = ApplyTxs(st, x)[a].nonce
  <2>1. SubSeq(x, 1, k) = x
    BY SubSeqFull
  <2> QED BY <1>1, <2>1 DEF N
<1>10. f[k] \in Seq(Txs)
  BY <1>1, <1>2
<1> HIDE DEF k
<1> QED BY <1>2, <1>3, <1>8, <1>9, <1>10 DEF z

(* One block more. *)
LEMMA ReplayNext ==
  ASSUME NEW ch \in Seq(Body), NEW n \in 1..Len(ch), Len(ch) <= MaxHeight
  PROVE  /\ Replay(SubSeq(ch, 1, n - 1)) \in States /\ Replay(SubSeq(ch, 1, n)) \in States
         /\ Replay(SubSeq(ch, 1, n)) = ApplyBlock(Replay(SubSeq(ch, 1, n - 1)), ch[n], n - 1)
<1> DEFINE u == SubSeq(ch, 1, n - 1)
           v == SubSeq(ch, 1, n)
           b == ch[n]
           one == <<b>>
           h == n - 1
<1>1. /\ h \in 0..Len(ch) /\ n \in 0..Len(ch) /\ b \in Body /\ h \in 0..MaxHeight
      /\ n <= MaxHeight /\ h + 1 = n /\ n \in Nat /\ h \in Nat
  BY LedgerAssumption
<1>2. u \in Seq(Body) /\ Len(u) = h
  <2> HIDE DEF h
  <2> QED BY <1>1, PrefixOf DEF h
<1>3. v = u \o one
  <2>1. v = Append(u, b)
    BY PrefixNext
  <2> HIDE DEF u, v, b
  <2> QED BY <1>1, <1>2, <2>1, AppendIsConcat
<1>4. one \in Seq(Body) /\ Len(one) = 1 /\ one[1] = b
  BY <1>1
<1>5. v \in Seq(Body) /\ Len(v) = n
  BY <1>1, PrefixOf
<1> HIDE DEF u, v, b, h, one
<1>6. Len(u) + Len(one) <= MaxHeight
  BY <1>1, <1>2, <1>4
<1>7. Replay(v) = Advance(Replay(u), one, Len(u)) /\ Replay(u) \in States
  BY <1>2, <1>3, <1>4, <1>6, ReplayConcat
<1>8. Fits(one, h) /\ one \in Seq(Blocks) /\ b \in Blocks
  <2>1. h + 1 <= MaxHeight + 1 /\ MaxHeight \in Nat
    BY <1>1, LedgerAssumption
  <2> QED BY <1>1, <1>4, <2>1, BodyBlocks DEF Fits
<1>9. Advance(Replay(u), one, h) = ApplyBlock(Replay(u), b, h)
  <2> DEFINE k == Len(one)
             z == Replay(u)
  <2>1. PICK f \in [0..k -> States] :
          /\ f[0] = z
          /\ \A i \in 1..k : f[i] = ApplyBlock(f[i - 1], one[i], h + i - 1)
          /\ Advance(z, one, h) = f[k]
    BY <1>1, <1>7, <1>8, AdvanceRuns
  <2> HIDE DEF z
  <2>2. k = 1 /\ h + 1 - 1 = h
    BY <1>1, <1>4
  <2> HIDE DEF k
  <2>3. f[1] = ApplyBlock(f[1 - 1], one[1], h + 1 - 1)
    BY <2>1, <2>2
  <2>4. f[1] = ApplyBlock(z, b, h)
    BY <1>4, <2>1, <2>2, <2>3
  <2> QED BY <2>1, <2>2, <2>4 DEF z
<1>10. ApplyBlock(Replay(u), b, h) \in States
  BY <1>1, <1>7, <1>8, ApplyBlockType
<1> QED BY <1>2, <1>7, <1>9, <1>10 DEF u, v, b, h

(* The loop of SentTxs. *)
LEMMA SentTxsRuns ==
  ASSUME chain \in Seq(Body), NEW a \in Addr
  PROVE  \E f \in [0..Len(chain) -> Seq(Txs)] :
           /\ f[0] = <<>>
           /\ \A n \in 1..Len(chain) : f[n] = f[n - 1] \o Without(chain[n].txs, Others(a))
           /\ SentTxs(a) = f[Len(chain)]
<1> DEFINE k == Len(chain)
           part(n) == Without(chain[n].txs, Others(a))
           step == [n \in 1..k |-> [x \in Seq(Txs) |-> x \o part(n)]]
           IsRun(r) == r = [n \in 0..k |-> IF n = 0 THEN <<>> ELSE r[n - 1] \o Without(chain[n].txs, {t \in Txs : t.from # a})]
           run == CHOOSE r : IsRun(r)
<1>1. k \in Nat /\ \A n \in 1..k : chain[n].txs \in Seq(Txs)
  <2>1. k \in Nat /\ \A n \in 1..k : chain[n] \in Body
    OBVIOUS
  <2> QED BY <2>1 DEF Body
<1>2. ASSUME NEW n \in 1..k
      PROVE  part(n) \in Seq(Txs)
  <2> DEFINE y == chain[n].txs
             o == Others(a)
  <2>1. y \in Seq(Txs)
    BY <1>1
  <2> HIDE DEF y, o
  <2>2. PICK f \in [0..Len(y) -> Seq(Txs)] : Without(y, o) = f[Len(y)]
    BY <2>1, WithoutRuns
  <2>3. Len(y) \in 0..Len(y)
    BY <2>1
  <2>4. Without(y, o) \in Seq(Txs)
    BY <2>2, <2>3
  <2> QED BY <2>4 DEF y, o
<1>3. step \in [1..k -> [Seq(Txs) -> Seq(Txs)]]
  <2>1. ASSUME NEW n \in 1..k, NEW x \in Seq(Txs)
        PROVE  x \o part(n) \in Seq(Txs)
    <3> HIDE DEF part
    <3> QED BY <1>2, ConcatProperties
  <2> HIDE DEF part, k
  <2> QED BY <2>1
<1>4. PICK f : Loops(f, k, Seq(Txs), <<>>, step)
  <2> HIDE DEF k, step
  <2> QED BY <1>1, <1>3, LoopExists, EmptySeq
<1>5. ASSUME NEW n \in 1..k
      PROVE  f[n] = f[n - 1] \o part(n)
  <2>1. f[n] = step[n][f[n - 1]] /\ f[n - 1] \in Seq(Txs)
    <3> HIDE DEF step, k
    <3> QED BY <1>1, <1>4 DEF Loops
  <2> HIDE DEF part
  <2> QED BY <2>1
<1>6. IsRun(f)
  <2> HIDE DEF k, step
  <2>1. f = [n \in 0..k |-> f[n]]
    BY <1>4 DEF Loops
  <2>2. ASSUME NEW n \in 0..k
        PROVE  f[n] = IF n = 0 THEN <<>> ELSE f[n - 1] \o Without(chain[n].txs, {t \in Txs : t.from # a})
    <3>1. CASE n = 0
      BY <1>4, <3>1 DEF Loops
    <3>2. CASE n # 0
      <4>1. n \in 1..k
        BY <1>1, <3>2
      <4> QED BY <1>5, <3>2, <4>1 DEF Others
    <3> QED BY <3>1, <3>2
  <2> QED BY <2>1, <2>2
<1>7. IsRun(run)
  <2> HIDE DEF IsRun
  <2> QED BY <1>6
<1>8. SentTxs(a) = run[k]
  BY DEF SentTxs
<1>9. run[0] = <<>> /\ \A n \in 1..k : run[n] = run[n - 1] \o part(n)
  <2> HIDE DEF run, k
  <2>1. \A n \in 0..k : run[n] = IF n = 0 THEN <<>> ELSE run[n - 1] \o Without(chain[n].txs, {t \in Txs : t.from # a})
    BY <1>7
  <2>2. 0 \in 0..k /\ \A n \in 1..k : n \in 0..k /\ n # 0
    BY <1>1
  <2> QED BY <2>1, <2>2 DEF Others
<1>10. run[k] = f[k]
  <2> HIDE DEF run, k, part
  <2>1. Tracks(run, f, k)
    BY <1>4, <1>5, <1>9 DEF Tracks, Loops
  <2> QED BY <1>1, <2>1, LoopUnique
<1> HIDE DEF run
<1> QED BY <1>4, <1>5, <1>8, <1>10 DEF Loops

(* The body of a valid block, on the state before it. *)
LEMMA BodySteps ==
  ASSUME NEW ch \in Seq(Body), ChainValid(ch), NEW n \in 1..Len(ch)
  PROVE  Steps(SubSeq(ch, 1, n - 1), Replay(SubSeq(ch, 1, n - 1)), ch[n].txs)
<1>1. ValidOn(SubSeq(ch, 1, n - 1), ch[n])
  BY DEF ChainValid
<1> QED BY <1>1 DEF ValidOn, ValidBody, Steps

(* A block moves nonces as its body does. *)
LEMMA BlockNonces ==
  ASSUME NEW st \in States, NEW b \in Body, NEW h \in 0..MaxHeight, NEW a \in Addr
  PROVE  ApplyBlock(st, b, h)[a].nonce = ApplyTxs(st, b.txs)[a].nonce
<1>1. b \in Blocks
  BY BodyBlocks
<1>2. b.miner \in Addr /\ b.txs \in Seq(Tx)
  BY <1>1 DEF Blocks
<1> DEFINE v == Reward(b, h)
           paid == Credit(st, b.miner, v)
<1>3. v \in Int
  BY <1>1, RewardType
<1>4. ApplyBlock(st, b, h) = ApplyTxs(paid, b.txs) /\ paid \in States
  BY <1>1, ApplyBlockType
<1> HIDE DEF v
<1>5. paid[a].nonce = st[a].nonce
  BY <1>2, <1>3, CreditType
<1> HIDE DEF paid
<1> QED BY <1>2, <1>4, <1>5, SameNonces

(* No block, no coin. *)
LEMMA ReplayEmpty == Replay(<<>>) = EmptyState
<1> DEFINE e == <<>>
           z == 0
           l == Len(e)
<1>0. Len(e) = 0
  OBVIOUS
<1>1. e \in Seq(Blocks)
  BY EmptySeq
<1>2. Fits(e, z) /\ z \in Nat
  BY LedgerAssumption DEF Fits
<1> DEFINE st == EmptyState
<1>3. PICK g \in [0..l -> States] :
        /\ g[0] = st
        /\ \A n \in 1..l : g[n] = ApplyBlock(g[n - 1], e[n], z + n - 1)
        /\ Advance(st, e, z) = g[l]
  <2>1. st \in States
    BY EmptyStateType
  <2> HIDE DEF e, z, st
  <2> QED BY <1>1, <1>2, <2>1, AdvanceRuns
<1> HIDE DEF e
<1>4. Replay(e) = EmptyState
  BY <1>0, <1>3 DEF Replay
<1> QED BY <1>4 DEF e

(* The chain holds, for each sender, exactly the nonces 0, 1, 2, ... in    *)
(* this order: nothing is mined twice and nothing is skipped.              *)
THEOREM NoncesAlwaysInOrder == Spec => []NoncesInOrder
<1>1. MemInv => NoncesInOrder
  <2> SUFFICES ASSUME MemInv, NEW a \in Addr
               PROVE  /\ Len(SentTxs(a)) = state[a].nonce
                      /\ \A i \in 1..Len(SentTxs(a)) : SentTxs(a)[i].nonce = i - 1
    BY DEF NoncesInOrder
  <2> DEFINE k == Len(chain)
  <2>1. /\ chain \in Seq(Body) /\ k \in 1..MaxHeight /\ ChainValid(chain)
        /\ state = Replay(chain) /\ k <= MaxHeight /\ k \in Nat /\ 0 \in 0..k /\ k \in 0..k
    BY LedgerAssumption DEF MemInv, LedgerInv, LedgerIsReplay
  <2>2. PICK f \in [0..k -> Seq(Txs)] :
          /\ f[0] = <<>>
          /\ \A n \in 1..k : f[n] = f[n - 1] \o Without(chain[n].txs, Others(a))
          /\ SentTxs(a) = f[k]
    BY <2>1, SentTxsRuns
  <2> DEFINE N == [n \in 0..k |-> Replay(SubSeq(chain, 1, n))[a].nonce]
             S == {n \in 0..k : Len(f[n]) = N[n] /\ CountsFrom(f[n], 0)}
  <2>3. 0 \in S
    <3> DEFINE e == <<>>
    <3>1. Len(e) = 0 /\ CountsFrom(e, 0) /\ e \in Seq(Blocks)
      BY EmptySeq DEF CountsFrom
    <3>2. SubSeq(chain, 1, 0) = e
      BY SubSeqEmpty
    <3>3. Replay(e) = EmptyState
      BY ReplayEmpty
    <3>4. EmptyState[a].nonce = 0
      BY DEF EmptyState
    <3>5. N[0] = 0
      <4> HIDE DEF e, k
      <4> QED BY <2>1, <3>2, <3>3, <3>4
    <3> HIDE DEF e, k, N
    <3> QED BY <2>1, <2>2, <3>1, <3>5 DEF e
  <2>4. ASSUME NEW n \in 0..k - 1, n \in S
        PROVE  n + 1 \in S
    <3> DEFINE m == n + 1
               before == SubSeq(chain, 1, n)
               st == Replay(before)
               b == chain[m]
               x == b.txs
               w == Without(x, Others(a))
               s == f[n]
               r == f[m]
               z == st[a].nonce
    <3>1. m \in 1..k /\ m \in 0..k /\ m - 1 = n /\ n \in 0..k /\ n \in 0..MaxHeight /\ n \in Nat
      <4>1. k \in Nat /\ k <= MaxHeight /\ MaxHeight \in Nat
        BY <2>1, LedgerAssumption
      <4> HIDE DEF k
      <4> QED BY <4>1
    <3>2. b \in Body /\ x \in Seq(Txs)
      <4>1. b \in Body
        BY <2>1, <3>1
      <4> HIDE DEF b
      <4> QED BY <4>1 DEF Body
    <3>3. Steps(before, st, x)
      <4>1. Steps(SubSeq(chain, 1, m - 1), Replay(SubSeq(chain, 1, m - 1)), chain[m].txs)
        <5> HIDE DEF m
        <5> QED BY <2>1, <3>1, BodySteps
      <4> QED BY <3>1, <4>1
    <3>4. /\ st \in States
          /\ Replay(SubSeq(chain, 1, m)) = ApplyBlock(st, b, n)
      <4> HIDE DEF m
      <4>1. /\ Replay(SubSeq(chain, 1, m - 1)) \in States
            /\ Replay(SubSeq(chain, 1, m)) = ApplyBlock(Replay(SubSeq(chain, 1, m - 1)), chain[m], m - 1)
        BY <2>1, <3>1, ReplayNext
      <4> QED BY <3>1, <4>1
    <3>5. N[n] = z /\ N[m] = Replay(SubSeq(chain, 1, m))[a].nonce
      BY <3>1
    <3>6. r = s \o w /\ s \in Seq(Txs)
      BY <2>2, <3>1
    <3>7. Len(s) = N[n] /\ CountsFrom(s, 0)
      BY <2>4
    <3> HIDE DEF before, st, b, x, N, m
    <3>8. /\ ApplyTxs(st, x)[a].nonce = z + Len(w) /\ CountsFrom(w, z)
          /\ w \in Seq(Txs) /\ z \in Nat
      BY <3>2, <3>3, <3>4, BodyNonces
    <3>9. N[m] = z + Len(w)
      <4>1. ApplyBlock(st, b, n)[a].nonce = ApplyTxs(st, x)[a].nonce
        BY <3>1, <3>2, <3>4, BlockNonces DEF x
      <4> QED BY <3>4, <3>5, <3>8, <4>1
    <3> HIDE DEF w, s, r, z
    <3> DEFINE lw == Len(w)
               ls == Len(s)
    <3>10. /\ Len(r) = ls + lw /\ ls \in Nat /\ lw \in Nat /\ ls = z /\ N[m] = z + lw
           /\ \A i \in 1..ls + lw : r[i] = IF i <= ls THEN s[i] ELSE w[i - ls]
      BY <3>5, <3>6, <3>7, <3>8, <3>9, ConcatProperties
    <3>11. /\ \A i \in 1..ls : s[i].nonce = 0 + i - 1
           /\ \A i \in 1..lw : w[i].nonce = z + i - 1
      BY <3>7, <3>8 DEF CountsFrom
    <3> HIDE DEF ls, lw
    <3>12. ASSUME NEW i \in 1..ls + lw
           PROVE  r[i].nonce = 0 + i - 1
      <4>1. CASE i <= ls
        <5>1. i \in 1..ls
          BY <3>10, <4>1
        <5> QED BY <3>10, <3>11, <4>1, <5>1
      <4>2. CASE i > ls
        <5> DEFINE j == i - ls
        <5>1. j \in 1..lw /\ ~(i <= ls) /\ ls + j = i
          BY <3>10, <4>2
        <5>2. r[i] = w[j] /\ w[j].nonce = z + j - 1
          BY <3>10, <3>11, <5>1
        <5>3. z + j - 1 = 0 + i - 1
          BY <3>10
        <5> QED BY <5>2, <5>3
      <4> QED BY <3>10, <4>1, <4>2
    <3>13. CountsFrom(r, 0) /\ Len(r) = N[m]
      BY <3>10, <3>12 DEF CountsFrom
    <3> HIDE DEF k
    <3> QED BY <3>1, <3>13 DEF r, m
  <2>5. k \in S
    <3> HIDE DEF S, k
    <3>1. 0..k \subseteq S
      BY <2>1, <2>3, <2>4, InductionUpTo
    <3> QED BY <2>1, <3>1
  <2>6. N[k] = state[a].nonce
    <3>1. SubSeq(chain, 1, k) = chain
      BY <2>1, SubSeqFull
    <3> QED BY <2>1, <3>1
  <2>7. Len(f[k]) = state[a].nonce /\ CountsFrom(f[k], 0)
    <3> HIDE DEF N, k
    <3> QED BY <2>5, <2>6
  <2>8. \A i \in 1..Len(f[k]) : f[k][i].nonce = i - 1
    <3>1. \A i \in 1..Len(f[k]) : f[k][i].nonce = 0 + i - 1
      BY <2>7 DEF CountsFrom
    <3> HIDE DEF k
    <3> QED BY <3>1
  <2> QED BY <2>2, <2>7, <2>8
<1> QED BY <1>1, MemInvHolds, PTL

-----------------------------------------------------------------------------
(* Sums over finite sets. *)
PickOf(s) == CHOOSE x \in s : TRUE

Summands(g, T) == \A x \in T : g[x] \in Int

IsSum(f, g, T) ==
  /\ f \in [SUBSET T -> Int] /\ f[{}] = 0
  /\ \A s \in SUBSET T : s # {} => f[s] = g[PickOf(s)] + f[s \ {PickOf(s)}]

(* The loop of SumFunctionOnSet. *)
LEMMA SumRuns ==
  ASSUME NEW T, IsFiniteSet(T), NEW g, Summands(g, T)
  PROVE  \E f : IsSum(f, g, T) /\ SumFunctionOnSet(g, T) = f[T]
<1> DEFINE D == SUBSET T
           zero == 0
           pick == [s \in D |-> PickOf(s)]
           step == [x \in T |-> [n \in Int |-> g[x] + n]]
           IsRun(r) == r = [s \in D |-> IF s = {} THEN 0 ELSE g[PickOf(s)] + r[s \ {PickOf(s)}]]
           run == CHOOSE r : IsRun(r)
<1>1. \A s \in D : s # {} => PickOf(s) \in s /\ PickOf(s) \in T /\ pick[s] = PickOf(s)
  BY DEF PickOf
<1>2. step \in [T -> [Int -> Int]]
  BY DEF Summands
<1>3. PICK f \in [D -> Int] : SetLoops(f, D, zero, pick, step)
  <2> DEFINE V == Int
  <2>0. step \in [T -> [V -> V]] /\ zero \in V
    BY <1>2
  <2>1. PicksFrom(pick, T)
    BY <1>1 DEF PicksFrom
  <2> HIDE DEF step, pick, zero, V
  <2>2. \E f \in [SUBSET T -> V] : SetLoops(f, SUBSET T, zero, pick, step)
    BY <2>0, <2>1, SetLoopExists
  <2> QED BY <2>2 DEF V
<1>4. ASSUME NEW s \in D, s # {}
      PROVE  f[s] = g[PickOf(s)] + f[s \ {PickOf(s)}]
  <2>1. f[s] = step[pick[s]][f[s \ {pick[s]}]]
    <3> HIDE DEF step, pick, D
    <3> QED BY <1>3, <1>4 DEF SetLoops
  <2>2. PickOf(s) \in T /\ f[s \ {PickOf(s)}] \in Int /\ pick[s] = PickOf(s)
    <3>1. s \ {PickOf(s)} \in D
      OBVIOUS
    <3> HIDE DEF D, pick
    <3> QED BY <1>1, <1>3, <1>4, <3>1
  <2> HIDE DEF pick
  <2> QED BY <2>1, <2>2
<1>5. f[{}] = 0
  <2>1. {} \in D
    OBVIOUS
  <2> HIDE DEF D, step, pick
  <2> QED BY <1>3, <2>1 DEF SetLoops
<1>6. IsRun(f)
  <2>1. f = [s \in D |-> f[s]]
    BY <1>3
  <2>2. ASSUME NEW s \in D
        PROVE  f[s] = IF s = {} THEN 0 ELSE g[PickOf(s)] + f[s \ {PickOf(s)}]
    <3> HIDE DEF D
    <3> QED BY <1>4, <1>5
  <2> HIDE DEF D
  <2> QED BY <2>1, <2>2
<1>7. IsRun(run)
  <2> HIDE DEF IsRun
  <2> QED BY <1>6
<1>8. SumFunctionOnSet(g, T) = run[T]
  BY DEF SumFunctionOnSet, FoldFunctionOnSet, MapThenFoldSet, PickOf
<1>9. run[T] = f[T]
  <2>1. \A s \in D : run[s] = IF s = {} THEN 0 ELSE g[PickOf(s)] + run[s \ {PickOf(s)}]
    <3> HIDE DEF run, D
    <3> QED BY <1>7
  <2>2. {} \in D
    OBVIOUS
  <2> HIDE DEF run
  <2>3. run[{}] = f[{}]
    <3> HIDE DEF D
    <3> QED BY <1>5, <2>1, <2>2
  <2>4. ASSUME NEW s \in SUBSET T, s # {}
        PROVE  pick[s] \in s /\ (run[s \ {pick[s]}] = f[s \ {pick[s]}] => run[s] = f[s])
    <3>1. pick[s] = PickOf(s) /\ PickOf(s) \in s /\ s \in D
      BY <1>1, <2>4
    <3> HIDE DEF D, pick
    <3> QED BY <1>4, <2>1, <2>4, <3>1
  <2>5. SetLoopsAgree(run, f, pick, T)
    <3> HIDE DEF pick
    <3> QED BY <2>3, <2>4 DEF SetLoopsAgree
  <2> QED BY <2>5, SetLoopUnique
<1>10. IsSum(f, g, T)
  BY <1>3, <1>4, <1>5 DEF IsSum
<1> HIDE DEF run
<1> QED BY <1>8, <1>9, <1>10

(* A sum does not depend on which element it takes first. *)
LEMMA SumSplit ==
  ASSUME NEW T, IsFiniteSet(T), NEW g, Summands(g, T), NEW f, IsSum(f, g, T)
  PROVE  \A s \in SUBSET T : \A y \in s : f[s] = g[y] + f[s \ {y}]
<1> DEFINE S == {s \in SUBSET T : \A y \in s : f[s] = g[y] + f[s \ {y}]}
<1>1. {} \in S
  OBVIOUS
<1>2. ASSUME NEW s \in SUBSET T, s # {}, \A x \in s : s \ {x} \in S
      PROVE  s \in S
  <2>1. SUFFICES ASSUME NEW y \in s
                 PROVE  f[s] = g[y] + f[s \ {y}]
    OBVIOUS
  <2> DEFINE x == PickOf(s)
             u == s \ {x}
             v == s \ {y}
             w == s \ {x, y}
  <2>2. x \in s /\ f[s] = g[x] + f[u]
    BY <1>2 DEF IsSum, PickOf
  <2>3. CASE x = y
    BY <2>2, <2>3
  <2>4. CASE x # y
    <3>1. u \in S /\ y \in u /\ u \ {y} = w
      BY <1>2, <2>2, <2>4
    <3>2. v \in S /\ x \in v /\ v \ {x} = w
      BY <1>2, <2>2, <2>4
    <3>3. f[u] = g[y] + f[w]
      BY <3>1
    <3>4. f[v] = g[x] + f[w]
      BY <3>2
    <3>5. g[x] \in Int /\ g[y] \in Int /\ f[w] \in Int
      <4>1. x \in T /\ y \in T /\ w \in SUBSET T
        BY <2>2
      <4> HIDE DEF x, w
      <4> QED BY <4>1 DEF Summands, IsSum
    <3> HIDE DEF x, u, v, w
    <3>6. f[s] = g[y] + f[v]
      BY <2>2, <3>3, <3>4, <3>5
    <3> QED BY <3>6 DEF v
  <2> QED BY <2>3, <2>4
<1>3. SUBSET T \subseteq S
  <2> HIDE DEF S
  <2> QED BY <1>1, <1>2, InductionSubsets
<1> QED BY <1>3

(* Sums of functions that agree. *)
SameOn(g, h, T) == \A x \in T : g[x] = h[x]

(* The sum depends on the summands alone. *)
LEMMA SumSame ==
  ASSUME NEW T, IsFiniteSet(T), NEW g, Summands(g, T), NEW h, SameOn(g, h, T)
  PROVE  SumFunctionOnSet(g, T) = SumFunctionOnSet(h, T)
<1>1. Summands(h, T)
  BY DEF Summands, SameOn
<1>2. PICK f : IsSum(f, g, T) /\ SumFunctionOnSet(g, T) = f[T]
  BY SumRuns
<1>3. PICK e : IsSum(e, h, T) /\ SumFunctionOnSet(h, T) = e[T]
  BY <1>1, SumRuns
<1> DEFINE pick == [s \in SUBSET T |-> PickOf(s)]
<1>4. SetLoopsAgree(f, e, pick, T)
  <2>1. f[{}] = e[{}]
    BY <1>2, <1>3 DEF IsSum
  <2>2. ASSUME NEW s \in SUBSET T, s # {}
        PROVE  pick[s] \in s /\ (f[s \ {pick[s]}] = e[s \ {pick[s]}] => f[s] = e[s])
    <3>1. pick[s] = PickOf(s) /\ PickOf(s) \in s /\ PickOf(s) \in T
      BY <2>2 DEF PickOf
    <3>2. g[PickOf(s)] = h[PickOf(s)]
      BY <3>1 DEF SameOn
    <3>3. f[s] = g[PickOf(s)] + f[s \ {PickOf(s)}] /\ e[s] = h[PickOf(s)] + e[s \ {PickOf(s)}]
      BY <1>2, <1>3, <2>2 DEF IsSum
    <3> HIDE DEF pick
    <3> QED BY <3>1, <3>2, <3>3
  <2> HIDE DEF pick
  <2> QED BY <2>1, <2>2 DEF SetLoopsAgree
<1>5. f[T] = e[T]
  <2> HIDE DEF pick
  <2> QED BY <1>4, SetLoopUnique
<1> QED BY <1>2, <1>3, <1>5

(* An element taken out of a sum. *)
LEMMA SumWithout ==
  ASSUME NEW T, IsFiniteSet(T), NEW g, Summands(g, T), NEW y \in T
  PROVE  /\ SumFunctionOnSet(g, T) = g[y] + SumFunctionOnSet(g, T \ {y})
         /\ SumFunctionOnSet(g, T) \in Int /\ SumFunctionOnSet(g, T \ {y}) \in Int
<1> DEFINE U == T \ {y}
<1>1. IsFiniteSet(U) /\ Summands(g, U) /\ U \in SUBSET T
  <2>1. U \in SUBSET T
    OBVIOUS
  <2> QED BY <2>1, FS_Subset DEF Summands
<1>2. PICK f : IsSum(f, g, T) /\ SumFunctionOnSet(g, T) = f[T]
  BY SumRuns
<1> HIDE DEF U
<1>3. PICK e : IsSum(e, g, U) /\ SumFunctionOnSet(g, U) = e[U]
  BY <1>1, SumRuns
<1> DEFINE pick == [s \in SUBSET U |-> PickOf(s)]
<1>4. SetLoopsAgree(f, e, pick, U)
  <2>1. f[{}] = e[{}]
    BY <1>2, <1>3 DEF IsSum
  <2>2. ASSUME NEW s \in SUBSET U, s # {}
        PROVE  pick[s] \in s /\ (f[s \ {pick[s]}] = e[s \ {pick[s]}] => f[s] = e[s])
    <3>1. pick[s] = PickOf(s) /\ PickOf(s) \in s /\ s \in SUBSET T
      BY <1>1, <2>2 DEF PickOf
    <3>2. f[s] = g[PickOf(s)] + f[s \ {PickOf(s)}]
      BY <1>2, <2>2, <3>1 DEF IsSum
    <3>3. e[s] = g[PickOf(s)] + e[s \ {PickOf(s)}]
      BY <1>3, <2>2 DEF IsSum
    <3> HIDE DEF pick
    <3> QED BY <3>1, <3>2, <3>3
  <2> HIDE DEF pick
  <2> QED BY <2>1, <2>2 DEF SetLoopsAgree
<1>5. f[U] = e[U]
  <2> HIDE DEF pick
  <2> QED BY <1>1, <1>4, SetLoopUnique
<1>6. f[T] = g[y] + f[U]
  <2>1. f[T] = g[y] + f[T \ {y}]
    BY <1>2, SumSplit
  <2> QED BY <2>1 DEF U
<1>7. f[T] \in Int /\ f[U] \in Int
  BY <1>1, <1>2 DEF IsSum
<1> QED BY <1>2, <1>3, <1>5, <1>6, <1>7 DEF U

(* Sums of amounts. *)
Weights(g, T) == \A x \in T : g[x] \in Nat

(* A sum of naturals is a natural. *)
LEMMA SumNat ==
  ASSUME NEW T, IsFiniteSet(T), NEW g, Weights(g, T)
  PROVE  /\ Summands(g, T) /\ SumFunctionOnSet(g, T) \in Nat
         /\ \A y \in T : g[y] <= SumFunctionOnSet(g, T)
<1>1. Summands(g, T)
  BY DEF Weights, Summands
<1>2. PICK f : IsSum(f, g, T) /\ SumFunctionOnSet(g, T) = f[T]
  BY <1>1, SumRuns
<1> DEFINE S == {s \in SUBSET T : f[s] \in Nat}
<1>3. {} \in S
  BY <1>2 DEF IsSum
<1>4. ASSUME NEW s \in SUBSET T, s # {}, \A x \in s : s \ {x} \in S
      PROVE  s \in S
  <2>1. PickOf(s) \in s /\ PickOf(s) \in T
    BY <1>4 DEF PickOf
  <2>2. f[s \ {PickOf(s)}] \in Nat
    BY <1>4, <2>1
  <2>3. f[s] = g[PickOf(s)] + f[s \ {PickOf(s)}]
    BY <1>2, <1>4 DEF IsSum
  <2>4. g[PickOf(s)] \in Nat
    BY <2>1 DEF Weights
  <2>5. f[s] \in Nat
    BY <2>2, <2>3, <2>4
  <2> QED BY <2>5
<1>5. SUBSET T \subseteq S
  <2> HIDE DEF S
  <2> QED BY <1>3, <1>4, InductionSubsets
<1>6. ASSUME NEW y \in T
      PROVE  g[y] <= f[T]
  <2>1. f[T] = g[y] + f[T \ {y}]
    BY <1>1, <1>2, SumSplit
  <2>2. f[T \ {y}] \in Nat
    BY <1>5
  <2>3. g[y] \in Nat
    BY DEF Weights
  <2> QED BY <2>1, <2>2, <2>3
<1>7. f[T] \in Nat
  BY <1>5
<1> QED BY <1>1, <1>2, <1>6, <1>7

(* One value of a sum changes. *)
LEMMA SumChange ==
  ASSUME NEW T, IsFiniteSet(T), NEW g, Summands(g, T), NEW h, Summands(h, T),
         NEW y \in T, SameOn(g, h, T \ {y})
  PROVE  SumFunctionOnSet(h, T) = SumFunctionOnSet(g, T) + h[y] - g[y]
<1> DEFINE U == T \ {y}
<1>1. IsFiniteSet(U) /\ Summands(g, U)
  <2>1. U \in SUBSET T
    OBVIOUS
  <2> QED BY <2>1, FS_Subset DEF Summands
<1>2. SumFunctionOnSet(g, U) = SumFunctionOnSet(h, U)
  <2> HIDE DEF U
  <2>1. SameOn(g, h, U)
    BY DEF U
  <2> QED BY <1>1, <2>1, SumSame
<1>3. /\ SumFunctionOnSet(g, T) = g[y] + SumFunctionOnSet(g, U)
      /\ SumFunctionOnSet(g, U) \in Int
  BY SumWithout
<1>4. SumFunctionOnSet(h, T) = h[y] + SumFunctionOnSet(h, U)
  BY SumWithout
<1>5. g[y] \in Int /\ h[y] \in Int
  BY DEF Summands
<1> HIDE DEF U
<1> QED BY <1>2, <1>3, <1>4, <1>5

(* The sum over a part of the set, from the same loop. *)
LEMMA SumOn ==
  ASSUME NEW T, IsFiniteSet(T), NEW g, Summands(g, T), NEW f, IsSum(f, g, T), NEW U \in SUBSET T
  PROVE  SumFunctionOnSet(g, U) = f[U]
<1>1. IsFiniteSet(U) /\ Summands(g, U)
  BY FS_Subset DEF Summands
<1>2. PICK e : IsSum(e, g, U) /\ SumFunctionOnSet(g, U) = e[U]
  BY <1>1, SumRuns
<1> DEFINE pick == [s \in SUBSET U |-> PickOf(s)]
<1>3. SetLoopsAgree(f, e, pick, U)
  <2>1. f[{}] = e[{}]
    BY <1>2 DEF IsSum
  <2>2. ASSUME NEW s \in SUBSET U, s # {}
        PROVE  pick[s] \in s /\ (f[s \ {pick[s]}] = e[s \ {pick[s]}] => f[s] = e[s])
    <3>1. pick[s] = PickOf(s) /\ PickOf(s) \in s /\ s \in SUBSET T
      BY <2>2 DEF PickOf
    <3>2. f[s] = g[PickOf(s)] + f[s \ {PickOf(s)}]
      BY <2>2, <3>1 DEF IsSum
    <3>3. e[s] = g[PickOf(s)] + e[s \ {PickOf(s)}]
      BY <1>2, <2>2 DEF IsSum
    <3> HIDE DEF pick
    <3> QED BY <3>1, <3>2, <3>3
  <2> HIDE DEF pick
  <2> QED BY <2>1, <2>2 DEF SetLoopsAgree
<1>4. f[U] = e[U]
  <2> HIDE DEF pick
  <2> QED BY <1>1, <1>3, SetLoopUnique
<1> QED BY <1>2, <1>4

(* A part adds up to no more than the whole. *)
LEMMA SumSubset ==
  ASSUME NEW T, IsFiniteSet(T), NEW g, Weights(g, T), NEW U \in SUBSET T
  PROVE  /\ SumFunctionOnSet(g, U) <= SumFunctionOnSet(g, T)
         /\ SumFunctionOnSet(g, U) \in Nat /\ SumFunctionOnSet(g, T) \in Nat
<1>1. Summands(g, T)
  BY DEF Weights, Summands
<1>2. PICK f : IsSum(f, g, T) /\ SumFunctionOnSet(g, T) = f[T]
  BY <1>1, SumRuns
<1>3. \A s \in SUBSET T : SumFunctionOnSet(g, s) = f[s] /\ SumFunctionOnSet(g, s) \in Nat
  <2> SUFFICES ASSUME NEW s \in SUBSET T
               PROVE  SumFunctionOnSet(g, s) = f[s] /\ SumFunctionOnSet(g, s) \in Nat
    OBVIOUS
  <2>1. IsFiniteSet(s) /\ Weights(g, s)
    BY FS_Subset DEF Weights
  <2>2. SumFunctionOnSet(g, s) \in Nat
    BY <2>1, SumNat
  <2>3. SumFunctionOnSet(g, s) = f[s]
    BY <1>1, <1>2, SumOn
  <2> QED BY <2>2, <2>3
<1> DEFINE S == {s \in SUBSET T : \A u \in SUBSET s : f[u] <= f[s]}
<1>4. {} \in S
  <2>1. f[{}] = 0
    BY <1>2 DEF IsSum
  <2> QED BY <2>1
<1>5. ASSUME NEW s \in SUBSET T, s # {}, \A x \in s : s \ {x} \in S
      PROVE  s \in S
  <2> SUFFICES ASSUME NEW u \in SUBSET s
               PROVE  f[u] <= f[s]
    OBVIOUS
  <2>1. f[u] \in Nat /\ f[s] \in Nat
    <3>1. u \in SUBSET T
      OBVIOUS
    <3> QED BY <1>3, <3>1
  <2>2. CASE u = s
    BY <2>1, <2>2
  <2>3. CASE u # s
    <3>1. PICK y \in s : y \notin u
      BY <2>3
    <3> DEFINE v == s \ {y}
    <3>2. u \in SUBSET v /\ v \in S /\ v \in SUBSET T
      BY <1>5, <3>1
    <3>3. f[u] <= f[v]
      BY <3>2
    <3>4. f[s] = g[y] + f[v]
      BY <1>1, <1>2, SumSplit
    <3>5. g[y] \in Nat
      BY DEF Weights
    <3> HIDE DEF v
    <3>6. f[v] \in Nat
      BY <1>3, <3>2
    <3> QED BY <2>1, <3>3, <3>4, <3>5, <3>6
  <2> QED BY <2>2, <2>3
<1>6. SUBSET T \subseteq S
  <2> HIDE DEF S
  <2> QED BY <1>4, <1>5, InductionSubsets
<1>7. f[U] <= f[T]
  BY <1>6
<1>8. SumFunctionOnSet(g, U) = f[U] /\ SumFunctionOnSet(g, U) \in Nat /\ SumFunctionOnSet(g, T) \in Nat
  BY <1>3
<1> QED BY <1>2, <1>7, <1>8

(* A sum of values none of which is over a bound. *)
LEMMA SumAtMost ==
  ASSUME NEW T, IsFiniteSet(T), NEW g, Weights(g, T), NEW B \in Nat, \A x \in T : g[x] <= B
  PROVE  SumFunctionOnSet(g, T) <= Cardinality(T) * B
<1>1. Summands(g, T)
  BY DEF Weights, Summands
<1>2. PICK f : IsSum(f, g, T) /\ SumFunctionOnSet(g, T) = f[T]
  BY <1>1, SumRuns
<1> DEFINE S == {s \in SUBSET T : f[s] \in Nat /\ f[s] <= Cardinality(s) * B}
<1>3. {} \in S
  <2>1. f[{}] = 0
    BY <1>2 DEF IsSum
  <2>2. Cardinality({}) = 0
    BY FS_EmptySet
  <2>3. 0 <= 0 * B
    OBVIOUS
  <2> QED BY <2>1, <2>2, <2>3
<1>4. ASSUME NEW s \in SUBSET T, s # {}, \A x \in s : s \ {x} \in S
      PROVE  s \in S
  <2> DEFINE y == PickOf(s)
             v == s \ {y}
             c == Cardinality(v)
             d == Cardinality(s)
  <2>1. y \in s /\ y \in T
    BY <1>4 DEF PickOf
  <2>2. f[v] \in Nat /\ f[v] <= c * B
    BY <1>4, <2>1
  <2>3. f[s] = g[y] + f[v]
    BY <1>2, <1>4 DEF IsSum
  <2>4. g[y] \in Nat /\ g[y] <= B
    BY <2>1 DEF Weights
  <2>5. c \in Nat /\ d \in Nat /\ d = c + 1
    <3>1. IsFiniteSet(s)
      BY FS_Subset
    <3>2. IsFiniteSet(v) /\ Cardinality(v) = Cardinality(s) - 1
      <4> HIDE DEF y
      <4> QED BY <2>1, <3>1, FS_RemoveElement
    <3>3. Cardinality(s) \in Nat /\ Cardinality(v) \in Nat
      BY <3>1, <3>2, FS_CardinalityType
    <3> HIDE DEF v
    <3> QED BY <3>2, <3>3
  <2> HIDE DEF c, v, y
  <2>6. d * B = c * B + B
    <3> HIDE DEF d
    <3> QED BY <2>5
  <2>7. c * B \in Nat
    BY <2>5
  <2> DEFINE cB == c * B
             dB == d * B
  <2> HIDE DEF cB, dB
  <2>8. f[s] \in Nat /\ f[s] <= dB
    <3>1. dB = cB + B /\ cB \in Nat /\ f[v] <= cB
      BY <2>2, <2>6, <2>7 DEF cB, dB
    <3> QED BY <2>2, <2>3, <2>4, <3>1
  <2> QED BY <2>8 DEF dB
<1>5. SUBSET T \subseteq S
  <2> HIDE DEF S
  <2> QED BY <1>3, <1>4, InductionSubsets
<1>6. f[T] <= Cardinality(T) * B
  BY <1>5
<1> QED BY <1>2, <1>6

(* A sum of zeros is zero. *)
LEMMA SumZero ==
  ASSUME NEW T, IsFiniteSet(T), NEW g, \A x \in T : g[x] = 0
  PROVE  SumFunctionOnSet(g, T) = 0
<1>1. Summands(g, T)
  BY DEF Summands
<1>2. PICK f : IsSum(f, g, T) /\ SumFunctionOnSet(g, T) = f[T]
  BY <1>1, SumRuns
<1> DEFINE S == {s \in SUBSET T : f[s] = 0}
<1>3. {} \in S
  BY <1>2 DEF IsSum
<1>4. ASSUME NEW s \in SUBSET T, s # {}, \A x \in s : s \ {x} \in S
      PROVE  s \in S
  <2>1. PickOf(s) \in s /\ PickOf(s) \in T
    BY <1>4 DEF PickOf
  <2>2. f[s \ {PickOf(s)}] = 0
    BY <1>4, <2>1
  <2>3. f[s] = g[PickOf(s)] + f[s \ {PickOf(s)}]
    BY <1>2, <1>4 DEF IsSum
  <2> QED BY <2>1, <2>2, <2>3
<1>5. SUBSET T \subseteq S
  <2> HIDE DEF S
  <2> QED BY <1>3, <1>4, InductionSubsets
<1> QED BY <1>2, <1>5

-----------------------------------------------------------------------------
(* Arithmetic modulo Word. *)
LEMMA ModUnique ==
  ASSUME NEW i \in Int, NEW q \in Int, NEW r \in Amount, i = Word * q + r
  PROVE  i % Word = r
BY LedgerAssumption DEF Amount

(* Amounts are their own remainders. *)
LEMMA ModSmall == \A i \in Amount : i % Word = i
BY LedgerAssumption DEF Amount

(* Whole words do not matter to a remainder. *)
LEMMA ModDivides ==
  ASSUME NEW i \in Int
  PROVE  i = Word * (i \div Word) + (i % Word) /\ i \div Word \in Int /\ i % Word \in Amount
BY LedgerAssumption DEF Amount

(* Nor do remainders taken on the way. *)
LEMMA ModAdd ==
  ASSUME NEW i \in Int, NEW j \in Int
  PROVE  ((i % Word) + j) % Word = (i + j) % Word
<1> DEFINE q == i \div Word
           r == i % Word
           k == (i + j) \div Word
           s == (i + j) % Word
<1>1. i = Word * q + r /\ q \in Int /\ r \in Amount
  BY ModDivides
<1>2. i + j = Word * k + s /\ k \in Int /\ s \in Amount
  BY ModDivides
<1> HIDE DEF q, r, k, s
<1>3. r + j = Word * (k - q) + s /\ k - q \in Int /\ r + j \in Int
  BY <1>1, <1>2, LedgerAssumption DEF Amount
<1>4. (r + j) % Word = s
  <2> DEFINE kk == k - q
             ii == r + j
  <2>1. ii = Word * kk + s /\ kk \in Int /\ ii \in Int
    BY <1>3
  <2> HIDE DEF kk, ii
  <2>2. ii % Word = s
    BY <1>2, <2>1, ModUnique
  <2> QED BY <2>2 DEF ii
<1> QED BY <1>4 DEF r, s

-----------------------------------------------------------------------------
(* A coinbase paid before the body or after it. *)
Gain(a, m, v) == IF a = m THEN v ELSE 0

(* What a credit adds to each balance. *)
LEMMA CreditGain ==
  ASSUME NEW st \in States, NEW m \in Addr, NEW v \in Int, NEW a \in Addr
  PROVE  Credit(st, m, v)[a].balance = (st[a].balance + Gain(a, m, v)) % Word
<1>1. st[a].balance \in Amount /\ st[a].balance \in Int
  BY DEF States, Amount
<1>2. CASE a = m
  BY <1>2, CreditType DEF Gain
<1>3. CASE a # m
  <2>1. Credit(st, m, v)[a] = st[a]
    BY <1>3, CreditType
  <2>2. Gain(a, m, v) = 0 /\ st[a].balance + 0 = st[a].balance
    BY <1>1, <1>3 DEF Gain
  <2> QED BY <1>1, <2>1, <2>2, ModSmall
<1> QED BY <1>2, <1>3

(* What a transaction adds to each balance and takes from it. *)
LEMMA TxGain ==
  ASSUME NEW st \in States, NEW t \in Tx, NEW a \in Addr
  PROVE  /\ ApplyTx(st, t)[a].balance
              = (st[a].balance + (Gain(a, t.from, Word - Cost(t)) + Gain(a, t.to, t.amount))) % Word
         /\ Gain(a, t.from, Word - Cost(t)) \in Int /\ Gain(a, t.to, t.amount) \in Int
         /\ st[a].balance \in Int
<1> DEFINE d == Gain(a, t.from, Word - Cost(t))
           e == Gain(a, t.to, t.amount)
           x == st[a].balance
           st1 == Debit(st, t)
<1>1. t.from \in Addr /\ t.to \in Addr /\ t.amount \in Int /\ Cost(t) \in Int /\ Word \in Int
  BY CostType, LedgerAssumption DEF Tx, Amount
<1>2. x \in Amount /\ x \in Int /\ d \in Int /\ e \in Int
  BY <1>1 DEF States, Amount, Gain
<1>3. st1 \in States /\ st1[a].balance = (x + d) % Word
  <2>1. st1 \in States
    BY DebitType
  <2>2. CASE a = t.from
    <3>1. st1[a].balance = (st[t.from].balance + Word - Cost(t)) % Word
      BY <2>2, DebitType
    <3>2. d = Word - Cost(t)
      BY <2>2 DEF Gain
    <3>3. x + Word - Cost(t) = x + (Word - Cost(t))
      <4> HIDE DEF x
      <4> QED BY <1>1, <1>2
    <3> HIDE DEF st1, d
    <3> QED BY <2>1, <2>2, <3>1, <3>2, <3>3
  <2>3. CASE a # t.from
    <3>1. st1[a] = st[a]
      BY <2>3, DebitType
    <3>2. d = 0
      BY <2>3 DEF Gain
    <3>3. (x + 0) % Word = x
      <4>1. x + 0 = x
        <5> HIDE DEF x
        <5> QED BY <1>2
      <4> HIDE DEF x
      <4> QED BY <1>2, <4>1, ModSmall
    <3> HIDE DEF st1, d
    <3> QED BY <2>1, <3>1, <3>2, <3>3
  <2> QED BY <2>2, <2>3
<1>4. ApplyTx(st, t) = Credit(st1, t.to, t.amount)
  BY ApplyTxType
<1> HIDE DEF d, x, st1
<1>5. ApplyTx(st, t)[a].balance = (st1[a].balance + e) % Word
  BY <1>1, <1>3, <1>4, CreditGain
<1> HIDE DEF e
<1>6. (((x + d) % Word) + e) % Word = ((x + d) + e) % Word
  <2>1. x + d \in Int
    BY <1>2
  <2> QED BY <1>2, <2>1, ModAdd
<1>7. (x + d) + e = x + (d + e)
  BY <1>2
<1>8. ApplyTx(st, t)[a].balance = (x + (d + e)) % Word
  BY <1>3, <1>5, <1>6, <1>7
<1> QED BY <1>2, <1>8 DEF d, e, x

(* States that agree at each address are the same. *)
LEMMA SameStates ==
  ASSUME NEW st \in States, NEW su \in States,
         \A a \in Addr : st[a].balance = su[a].balance /\ st[a].nonce = su[a].nonce
  PROVE  st = su
<1>1. ASSUME NEW a \in Addr
      PROVE  st[a] = su[a]
  <2>1. st[a] \in [balance : Amount, nonce : Nat] /\ su[a] \in [balance : Amount, nonce : Nat]
    BY DEF States
  <2> QED BY <2>1
<1> QED BY <1>1 DEF States

(* A credit before a transaction or after it. *)
LEMMA CreditCommutes ==
  ASSUME NEW st \in States, NEW m \in Addr, NEW v \in Int, NEW t \in Tx
  PROVE  ApplyTx(Credit(st, m, v), t) = Credit(ApplyTx(st, t), m, v)
<1> DEFINE paid == Credit(st, m, v)
           new == ApplyTx(st, t)
           left == ApplyTx(paid, t)
           right == Credit(new, m, v)
<1>1. paid \in States /\ new \in States
  BY CreditType, ApplyTxType
<1>2. left \in States /\ right \in States
  BY <1>1, CreditType, ApplyTxType
<1>3. ASSUME NEW a \in Addr
      PROVE  left[a].balance = right[a].balance /\ left[a].nonce = right[a].nonce
  <2> DEFINE d == Gain(a, t.from, Word - Cost(t)) + Gain(a, t.to, t.amount)
             e == Gain(a, m, v)
             x == st[a].balance
  <2>1. /\ new[a].balance = (x + d) % Word /\ x \in Int /\ d \in Int
    BY TxGain
  <2>2. left[a].balance = (paid[a].balance + d) % Word
    <3> HIDE DEF paid
    <3> QED BY <1>1, TxGain
  <2>3. paid[a].balance = (x + e) % Word
    BY CreditGain
  <2>4. right[a].balance = (new[a].balance + e) % Word
    <3> HIDE DEF new
    <3> QED BY <1>1, CreditGain
  <2>5. e \in Int
    BY DEF Gain
  <2>6. left[a].nonce = right[a].nonce
    <3>1. paid[a].nonce = st[a].nonce
      BY CreditType
    <3>2. right[a].nonce = new[a].nonce
      <4> HIDE DEF new
      <4> QED BY <1>1, CreditType
    <3>3. left[a].nonce = IF a = t.from THEN paid[a].nonce + 1 ELSE paid[a].nonce
      <4> HIDE DEF paid
      <4> QED BY <1>1, NonceStep
    <3>4. new[a].nonce = IF a = t.from THEN st[a].nonce + 1 ELSE st[a].nonce
      BY NonceStep
    <3> HIDE DEF left, right, new, paid
    <3> QED BY <3>1, <3>2, <3>3, <3>4
  <2> HIDE DEF d, e, x, left, right, new, paid
  <2>7. (((x + e) % Word) + d) % Word = ((x + e) + d) % Word
    <3>1. x + e \in Int
      BY <2>1, <2>5
    <3> QED BY <2>1, <3>1, ModAdd
  <2>8. (((x + d) % Word) + e) % Word = ((x + d) + e) % Word
    <3>1. x + d \in Int
      BY <2>1
    <3> QED BY <2>5, <3>1, ModAdd
  <2>9. (x + e) + d = (x + d) + e
    BY <2>1, <2>5
  <2>10. left[a].balance = right[a].balance
    BY <2>1, <2>2, <2>3, <2>4, <2>7, <2>8, <2>9
  <2> QED BY <2>6, <2>10
<1> HIDE DEF left, right
<1>4. left = right
  BY <1>2, <1>3, SameStates
<1> QED BY <1>4 DEF left, right

(* The reward may as well be paid after the body: validateBlock checks a   *)
(* body on a state without it, applyBlockToState pays it first.            *)
LEMMA CoinbaseLast ==
  ASSUME NEW st \in States, NEW m \in Addr, NEW v \in Int, NEW x \in Seq(Tx)
  PROVE  ApplyTxs(Credit(st, m, v), x) = Credit(ApplyTxs(st, x), m, v)
<1> DEFINE k == Len(x)
           paid == Credit(st, m, v)
           S == {n \in 0..k : ApplyTxs(paid, SubSeq(x, 1, n)) = Credit(ApplyTxs(st, SubSeq(x, 1, n)), m, v)}
<1>1. k \in Nat /\ k \in 0..k /\ 0 \in 0..k /\ (\A n \in 1..k : x[n] \in Tx) /\ paid \in States
  BY CreditType
<1> HIDE DEF paid
<1>2. 0 \in S
  <2>1. SubSeq(x, 1, 0) = <<>>
    BY SubSeqEmpty
  <2>2. ApplyTxs(st, SubSeq(x, 1, 0)) = st /\ ApplyTxs(paid, SubSeq(x, 1, 0)) = paid
    BY <1>1, <2>1, ApplyTxsEmpty
  <2> HIDE DEF k
  <2> QED BY <1>1, <2>2 DEF paid
<1>3. ASSUME NEW n \in 0..k - 1, n \in S
      PROVE  n + 1 \in S
  <2> DEFINE l == n + 1
             p == SubSeq(x, 1, n)
             q == SubSeq(x, 1, l)
  <2>1. l \in 1..k /\ l \in 0..k /\ l - 1 = n /\ n \in 0..k
    BY <1>1
  <2>2. /\ ApplyTxs(st, p) \in States
        /\ ApplyTxs(st, q) = ApplyTx(ApplyTxs(st, p), x[l])
        /\ ApplyTxs(paid, q) = ApplyTx(ApplyTxs(paid, p), x[l])
    <3> HIDE DEF l
    <3> QED BY <1>1, <2>1, PrefixState
  <2>3. ApplyTxs(paid, p) = Credit(ApplyTxs(st, p), m, v)
    BY <1>3
  <2>4. ApplyTxs(paid, q) = Credit(ApplyTxs(st, q), m, v)
    <3> HIDE DEF l, p, q
    <3> QED BY <1>1, <2>1, <2>2, <2>3, CreditCommutes
  <2> QED BY <2>1, <2>4
<1>4. k \in S
  <2> HIDE DEF S, k
  <2>1. 0..k \subseteq S
    BY <1>1, <1>2, <1>3, InductionUpTo
  <2> QED BY <1>1, <2>1
<1>5. SubSeq(x, 1, k) = x
  BY SubSeqFull
<1> QED BY <1>4, <1>5 DEF paid

-----------------------------------------------------------------------------
(* What the accounts hold together. *)
Holdings(st) == [a \in Addr |-> st[a].balance]
Held(st) == SumFunction(Holdings(st))

(* The coins of a state are a sum of amounts. *)
LEMMA HeldIs ==
  ASSUME NEW st \in States
  PROVE  /\ Held(st) = SumFunctionOnSet(Holdings(st), Addr)
         /\ IsFiniteSet(Addr) /\ Summands(Holdings(st), Addr)
         /\ Held(st) \in Nat /\ \A a \in Addr : st[a].balance <= Held(st) /\ st[a].balance \in Amount
         /\ \A a \in Addr : Holdings(st)[a] = st[a].balance
<1> DEFINE g == Holdings(st)
<1>1. DOMAIN g = Addr /\ \A a \in Addr : g[a] = st[a].balance
  BY DEF Holdings
<1>2. \A a \in Addr : st[a].balance \in Amount
  BY DEF States
<1>3. Weights(g, Addr)
  <2> HIDE DEF g
  <2> QED BY <1>1, <1>2 DEF Weights, Amount
<1>4. Held(st) = SumFunctionOnSet(g, Addr)
  BY <1>1 DEF Held, SumFunction
<1>5. IsFiniteSet(Addr)
  BY LedgerAssumption
<1> HIDE DEF g
<1>6. /\ Summands(g, Addr) /\ SumFunctionOnSet(g, Addr) \in Nat
      /\ \A a \in Addr : g[a] <= SumFunctionOnSet(g, Addr)
  BY <1>3, <1>5, SumNat
<1> QED BY <1>1, <1>2, <1>4, <1>5, <1>6 DEF g

(* One balance changes. *)
LEMMA HeldChange ==
  ASSUME NEW st \in States, NEW su \in States, NEW a \in Addr,
         \A b \in Addr \ {a} : su[b].balance = st[b].balance
  PROVE  Held(su) = Held(st) + su[a].balance - st[a].balance
<1> DEFINE g == Holdings(st)
           h == Holdings(su)
<1>1. Summands(g, Addr) /\ Held(st) = SumFunctionOnSet(g, Addr) /\ \A b \in Addr : g[b] = st[b].balance
  BY HeldIs
<1>2. Summands(h, Addr) /\ Held(su) = SumFunctionOnSet(h, Addr) /\ \A b \in Addr : h[b] = su[b].balance
  BY HeldIs
<1> HIDE DEF g, h
<1>3. SameOn(g, h, Addr \ {a})
  BY <1>1, <1>2 DEF SameOn
<1>4. SumFunctionOnSet(h, Addr) = SumFunctionOnSet(g, Addr) + h[a] - g[a]
  BY <1>1, <1>2, <1>3, SumChange, LedgerAssumption
<1> QED BY <1>1, <1>2, <1>4

(* A credit that does not wrap adds to them. *)
LEMMA HeldCredit ==
  ASSUME NEW st \in States, NEW a \in Addr, NEW v \in Nat, Held(st) + v < Word
  PROVE  Held(Credit(st, a, v)) = Held(st) + v
<1> DEFINE x == st[a].balance
           su == Credit(st, a, v)
<1>1. /\ su \in States /\ su[a].balance = (x + v) % Word
      /\ \A b \in Addr \ {a} : su[b].balance = st[b].balance
  <2>1. /\ su \in States /\ su[a].balance = (x + v) % Word
        /\ \A b \in Addr \ {a} : su[b] = st[b]
    BY CreditType
  <2> HIDE DEF su
  <2> QED BY <2>1
<1>2. x <= Held(st) /\ x \in Amount /\ Held(st) \in Nat
  BY HeldIs
<1> HIDE DEF x, su
<1>3. x + v \in Amount
  BY <1>2, LedgerAssumption DEF Amount
<1>4. su[a].balance = x + v
  BY <1>1, <1>3, ModSmall
<1>5. Held(su) = Held(st) + su[a].balance - st[a].balance
  BY <1>1, HeldChange
<1>6. x \in Nat
  BY <1>2 DEF Amount
<1>7. Held(su) = Held(st) + (x + v) - x
  BY <1>4, <1>5 DEF x
<1>8. Held(su) = Held(st) + v
  BY <1>2, <1>6, <1>7
<1> QED BY <1>8 DEF su

(* A debit that is covered takes from them. *)
LEMMA HeldDebit ==
  ASSUME NEW st \in States, NEW t \in Tx, st[t.from].balance >= Cost(t)
  PROVE  /\ Held(Debit(st, t)) = Held(st) - Cost(t) /\ Cost(t) <= Held(st)
         /\ Debit(st, t)[t.from].balance = st[t.from].balance - Cost(t)
<1> DEFINE a == t.from
           x == st[a].balance
           c == Cost(t)
           su == Debit(st, t)
           i == x + Word - c
<1>1. a \in Addr /\ c \in Amount
  BY CostType DEF Tx
<1>2. /\ su \in States /\ su[a].balance = i % Word
      /\ \A b \in Addr \ {a} : su[b].balance = st[b].balance
  <2>1. /\ su \in States /\ su[a].balance = i % Word
        /\ \A b \in Addr \ {a} : su[b] = st[b]
    BY DebitType
  <2> HIDE DEF su, i
  <2> QED BY <2>1
<1>3. x <= Held(st) /\ x \in Amount /\ Held(st) \in Nat /\ x >= c
  BY <1>1, HeldIs
<1> HIDE DEF x, c, a, su
<1>4. i \in Int /\ x - c \in Amount /\ i = Word * 1 + (x - c)
  BY <1>1, <1>3, LedgerAssumption DEF Amount
<1> HIDE DEF i
<1>5. i % Word = x - c
  <2> DEFINE r == x - c
             q == 1
  <2>1. r \in Amount /\ q \in Int /\ i = Word * q + r
    BY <1>4
  <2> HIDE DEF r, q
  <2>2. i % Word = r
    BY <1>4, <2>1, ModUnique
  <2> QED BY <2>2 DEF r
<1>6. Held(su) = Held(st) + su[a].balance - st[a].balance
  BY <1>1, <1>2, HeldChange
<1>7. x \in Nat /\ c \in Nat
  BY <1>1, <1>3 DEF Amount
<1>8. Held(su) = Held(st) + (x - c) - x
  BY <1>2, <1>5, <1>6 DEF x
<1>9. Held(su) = Held(st) - c /\ c <= Held(st)
  BY <1>3, <1>7, <1>8
<1> QED BY <1>2, <1>5, <1>9 DEF su, c, x, a

(* A transaction the sender can pay moves its amount and burns its fee. *)
LEMMA HeldTx ==
  ASSUME NEW st \in States, NEW t \in Tx, Held(st) < Word,
         Cost(t) >= t.amount, st[t.from].balance >= Cost(t)
  PROVE  Held(ApplyTx(st, t)) = Held(st) - t.fee
<1> DEFINE c == Cost(t)
           v == t.amount
           e == t.fee
           z == Held(st)
           su == Debit(st, t)
<1>1. v \in Amount /\ e \in Amount /\ t.to \in Addr
  BY DEF Tx, Amount
<1>2. c = v + e
  <2>1. c = (v + e) % Word /\ c \in Amount /\ c >= v
    BY CostType DEF Cost
  <2> HIDE DEF c, v, e
  <2>2. CASE v + e < Word
    <3>1. v + e \in Amount
      BY <1>1, <2>2, LedgerAssumption DEF Amount
    <3> QED BY <2>1, <3>1, ModSmall
  <2>3. CASE v + e >= Word
    <3> DEFINE i == v + e
               r == i - Word
               q == 1
    <3>1. i \in Int /\ r \in Amount /\ q \in Int /\ i = Word * q + r /\ r < v
      BY <1>1, <2>3, LedgerAssumption DEF Amount
    <3> HIDE DEF i, r, q
    <3>2. i % Word = r
      BY <3>1, ModUnique
    <3>3. c = r
      BY <2>1, <3>2 DEF i
    <3>4. c \in Int /\ v \in Int /\ c >= v /\ c < v
      BY <1>1, <2>1, <3>1, <3>3 DEF Amount
    <3> QED BY <3>4
  <2>4. v + e \in Int /\ Word \in Int
    BY <1>1, LedgerAssumption DEF Amount
  <2> QED BY <2>2, <2>3, <2>4
<1>3. su \in States /\ Held(su) = z - c /\ c <= z
  BY DebitType, HeldDebit
<1>4. z \in Nat /\ z < Word
  BY HeldIs
<1>5. ApplyTx(st, t) = Credit(su, t.to, v)
  BY ApplyTxType
<1> HIDE DEF c, v, e, z, su
<1>6. v \in Nat /\ e \in Nat /\ Held(su) + v < Word
  BY <1>1, <1>2, <1>3, <1>4, LedgerAssumption DEF Amount
<1>7. Held(ApplyTx(st, t)) = Held(su) + v
  BY <1>1, <1>3, <1>5, <1>6, HeldCredit
<1>8. (z - c) + v = z - e
  BY <1>2, <1>4, <1>6
<1> QED BY <1>3, <1>7, <1>8 DEF z, e

(* The rewards the maturity rule holds back from a at height h. *)
Young(ch, a, h) ==
  {k \in (IF h > CoinbaseMaturity THEN h - CoinbaseMaturity + 1 ELSE 0)..h - 1 :
     k < Len(ch) /\ ch[k + 1].miner = a}

HoldsBack(f, ch, T) ==
  /\ f \in [SUBSET T -> Amount] /\ f[{}] = 0
  /\ \A s \in SUBSET T :
       s # {} => f[s] = (SubsidyAt[PickOf(s)] + TotalFees(ch[PickOf(s) + 1])
                           + f[s \ {PickOf(s)}]) % Word

(* The loop of Immature. *)
LEMMA ImmatureRuns ==
  ASSUME NEW ch \in Seq(Body), Len(ch) <= MaxHeight, NEW a \in Addr, NEW h \in Nat
  PROVE  /\ IsFiniteSet(Young(ch, a, h))
         /\ \A k \in Young(ch, a, h) : k \in 0..MaxHeight /\ k + 1 \in 1..Len(ch)
         /\ \E f : /\ HoldsBack(f, ch, Young(ch, a, h))
                   /\ h >= MaturityHeight => Immature(ch, a, h) = f[Young(ch, a, h)]
<1> DEFINE lo == IF h > CoinbaseMaturity THEN h - CoinbaseMaturity + 1 ELSE 0
           young == {k \in lo..h - 1 : k < Len(ch) /\ ch[k + 1].miner = a}
           D == SUBSET young
           zero == 0
           term(k, n) == (SubsidyAt[k] + TotalFees(ch[k + 1]) + n) % Word
           step == [k \in young |-> [n \in Amount |-> term(k, n)]]
           pick == [s \in D |-> CHOOSE x \in s : TRUE]
           IsRun(r) == r = [s \in D |-> IF s = {} THEN 0 ELSE
                              (SubsidyAt[CHOOSE x \in s : TRUE] + TotalFees(ch[(CHOOSE x \in s : TRUE) + 1])
                                 + r[s \ {CHOOSE x \in s : TRUE}]) % Word]
           run == CHOOSE r : IsRun(r)
<1>1. lo \in Nat /\ CoinbaseMaturity \in Nat
  BY LedgerAssumption
<1>2. IsFiniteSet(young)
  <2>1. young \in SUBSET (lo..h - 1)
    OBVIOUS
  <2>2. IsFiniteSet(lo..h - 1)
    <3>1. lo \in Int /\ h - 1 \in Int
      BY <1>1
    <3> HIDE DEF lo
    <3> QED BY <3>1, FS_Interval
  <2> HIDE DEF young, lo
  <2> QED BY <2>1, <2>2, FS_Subset
<1>0. ASSUME NEW k \in young
      PROVE  k \in 0..MaxHeight /\ k + 1 \in 1..Len(ch)
  <2> DEFINE l == Len(ch)
  <2>1. k \in lo..h - 1 /\ k < l /\ l \in Nat /\ l <= MaxHeight /\ MaxHeight \in Nat
    BY LedgerAssumption
  <2> HIDE DEF lo, l, young
  <2>2. k \in 0..MaxHeight /\ k + 1 \in 1..l
    BY <1>1, <2>1
  <2> QED BY <2>2 DEF l
<1>3. ASSUME NEW k \in young, NEW n \in Amount
      PROVE  term(k, n) \in Amount
  <2>1. k \in 0..MaxHeight /\ k + 1 \in 1..Len(ch)
    BY <1>0
  <2>2. ch[k + 1] \in Blocks
    <3>1. ch[k + 1] \in Body
      BY <2>1
    <3> QED BY <3>1, BodyBlocks
  <2>3. TotalFees(ch[k + 1]) \in Int /\ SubsidyAt[k] \in Int
    BY <2>1, <2>2, TotalFeesType, LedgerAssumption DEF Amount
  <2>4. SubsidyAt[k] + TotalFees(ch[k + 1]) + n \in Int
    BY <2>3 DEF Amount
  <2> QED BY <2>4, AmountMod
<1>4. step \in [young -> [Amount -> Amount]]
  <2> HIDE DEF young, term
  <2> QED BY <1>3
<1>5. PicksFrom(pick, young)
  <2> HIDE DEF young
  <2> QED BY DEF PicksFrom
<1> HIDE DEF young, lo
<1>6. PICK f \in [D -> Amount] : SetLoops(f, D, zero, pick, step)
  <2>1. zero \in Amount
    BY ZeroAmount
  <2> HIDE DEF step, pick, zero
  <2> QED BY <1>2, <1>4, <1>5, <2>1, SetLoopExists
<1>7. ASSUME NEW s \in D, s # {}
      PROVE  f[s] = term(CHOOSE x \in s : TRUE, f[s \ {CHOOSE x \in s : TRUE}])
  <2>1. f[s] = step[pick[s]][f[s \ {pick[s]}]]
    <3> HIDE DEF step, pick, D
    <3> QED BY <1>6, <1>7 DEF SetLoops
  <2>2. pick[s] \in young /\ f[s \ {pick[s]}] \in Amount /\ pick[s] = CHOOSE x \in s : TRUE
    <3>1. pick[s] \in s
      BY <1>5, <1>7 DEF PicksFrom
    <3>2. s \ {pick[s]} \in D
      OBVIOUS
    <3>3. pick[s] = CHOOSE x \in s : TRUE
      OBVIOUS
    <3> HIDE DEF pick
    <3> QED BY <1>6, <3>1, <3>2, <3>3
  <2> HIDE DEF pick, term
  <2> QED BY <2>1, <2>2
<1>8. f[{}] = 0
  <2>1. {} \in D
    OBVIOUS
  <2> HIDE DEF D, step, pick
  <2> QED BY <1>6, <2>1 DEF SetLoops
<1>9. IsRun(f)
  <2>1. f = [s \in D |-> f[s]]
    BY <1>6
  <2>2. ASSUME NEW s \in D
        PROVE  f[s] = IF s = {} THEN 0 ELSE
                              (SubsidyAt[CHOOSE x \in s : TRUE] + TotalFees(ch[(CHOOSE x \in s : TRUE) + 1])
                                 + f[s \ {CHOOSE x \in s : TRUE}]) % Word
    <3> HIDE DEF D
    <3> QED BY <1>7, <1>8
  <2> HIDE DEF D
  <2> QED BY <2>1, <2>2
<1>10. IsRun(run)
  <2> HIDE DEF IsRun
  <2> QED BY <1>9
<1>11. \A s \in D : run[s] = IF s = {} THEN 0 ELSE term(CHOOSE x \in s : TRUE, run[s \ {CHOOSE x \in s : TRUE}])
  <2> HIDE DEF run, D
  <2> QED BY <1>10
<1>12. run[young] = f[young]
  <2>1. run[{}] = f[{}]
    <3>1. {} \in D
      OBVIOUS
    <3> HIDE DEF D, run, term
    <3> QED BY <1>8, <1>11, <3>1
  <2> HIDE DEF run, term
  <2>2. ASSUME NEW s \in SUBSET young, s # {}
        PROVE  pick[s] \in s /\ (run[s \ {pick[s]}] = f[s \ {pick[s]}] => run[s] = f[s])
    <3>1. pick[s] \in s /\ s \in D
      BY <1>5, <2>2 DEF PicksFrom
    <3>2. pick[s] = CHOOSE x \in s : TRUE
      OBVIOUS
    <3>3. f[s] = term(pick[s], f[s \ {pick[s]}])
      <4> HIDE DEF pick
      <4> QED BY <1>7, <2>2, <3>1, <3>2
    <3>4. run[s] = term(pick[s], run[s \ {pick[s]}])
      <4> HIDE DEF pick, D
      <4> QED BY <1>11, <2>2, <3>1, <3>2
    <3> HIDE DEF pick
    <3> QED BY <3>1, <3>3, <3>4
  <2> HIDE DEF pick
  <2>3. SetLoopsAgree(run, f, pick, young)
    BY <2>1, <2>2 DEF SetLoopsAgree
  <2> QED BY <1>2, <2>3, SetLoopUnique
<1>13. HoldsBack(f, ch, young)
  <2>1. \A s \in D : s # {} => f[s] = (SubsidyAt[PickOf(s)] + TotalFees(ch[PickOf(s) + 1])
                           + f[s \ {PickOf(s)}]) % Word
    <3> HIDE DEF D
    <3> QED BY <1>7 DEF PickOf
  <2> QED BY <1>6, <1>8, <2>1 DEF HoldsBack
<1>14. young = Young(ch, a, h)
  BY DEF Young, young, lo
<1>15. ASSUME h >= MaturityHeight
       PROVE  Immature(ch, a, h) = run[young]
  <2>1. ~(h < MaturityHeight)
    BY <1>15, LedgerAssumption
  <2> QED BY <2>1 DEF Immature, FoldSet, MapThenFoldSet, young, lo
<1> HIDE DEF run
<1> QED BY <1>0, <1>2, <1>12, <1>13, <1>14, <1>15

(* They are an amount. *)
LEMMA ImmatureType ==
  ASSUME NEW ch \in Seq(Body), Len(ch) <= MaxHeight, NEW a \in Addr, NEW h \in Nat
  PROVE  Immature(ch, a, h) \in Amount
<1>1. CASE h < MaturityHeight
  BY <1>1, ZeroAmount DEF Immature
<1>2. CASE h >= MaturityHeight
  <2> DEFINE T == Young(ch, a, h)
  <2>1. PICK f : HoldsBack(f, ch, T) /\ Immature(ch, a, h) = f[T]
    BY <1>2, ImmatureRuns
  <2>2. T \in SUBSET T
    OBVIOUS
  <2> HIDE DEF T
  <2> QED BY <2>1, <2>2 DEF HoldsBack
<1> QED BY <1>1, <1>2, LedgerAssumption

(* What a sender can spend it holds. *)
LEMMA SpendsHeld ==
  ASSUME NEW ch \in Seq(Body), Len(ch) <= MaxHeight, NEW st \in States, NEW a \in Addr,
         NEW c \in Amount, Available(ch, st, a) >= c
  PROVE  st[a].balance >= c
<1> DEFINE m == Immature(ch, a, Len(ch))
           x == st[a].balance
<1>1. m \in Amount
  <2>1. Len(ch) \in Nat
    OBVIOUS
  <2> QED BY <2>1, ImmatureType
<1>2. x \in Amount
  BY DEF States
<1>3. Available(ch, st, a) = IF m >= x THEN 0 ELSE x - m
  BY DEF Available, Spendable
<1> HIDE DEF m, x
<1>4. x >= c
  BY <1>1, <1>2, <1>3 DEF Amount
<1> QED BY <1>4 DEF x

(* A valid body burns its fees. *)
LEMMA BodyHeld ==
  ASSUME NEW c \in Seq(Body), Len(c) <= MaxHeight, NEW st \in States, NEW b \in Body,
         Steps(c, st, b.txs), Held(st) < Word
  PROVE  TotalFees(b) + Held(ApplyTxs(st, b.txs)) = Held(st)
<1> DEFINE x == b.txs
           k == Len(x)
           total == Held(st)
           H == [n \in 0..k |-> Held(ApplyTxs(st, SubSeq(x, 1, n)))]
<1>1. b \in Blocks /\ x \in Seq(Tx)
  BY BodyBlocks DEF Blocks
<1>2. PICK f \in [0..k -> Amount] :
        /\ f[0] = 0
        /\ \A n \in 1..k : f[n] = (f[n - 1] + x[n].fee) % Word
        /\ TotalFees(b) = f[k]
  BY <1>1, TotalFeesRuns
<1> HIDE DEF x
<1>3. k \in Nat /\ k \in 0..k /\ 0 \in 0..k /\ \A n \in 1..k : x[n] \in Tx
  BY <1>1
<1>4. total \in Nat /\ total < Word
  BY HeldIs
<1>5. H[0] = total
  <2>1. SubSeq(x, 1, 0) = <<>>
    BY SubSeqEmpty
  <2>2. ApplyTxs(st, SubSeq(x, 1, 0)) = st
    BY <2>1, ApplyTxsEmpty
  <2> HIDE DEF k
  <2> QED BY <1>3, <2>2
<1>6. ASSUME NEW n \in 1..k, H[n - 1] <= total
      PROVE  /\ n - 1 \in 0..k /\ H[n - 1] \in Nat /\ H[n] \in Nat /\ x[n].fee \in Nat
             /\ H[n] = H[n - 1] - x[n].fee
  <2> DEFINE old == ApplyTxs(st, SubSeq(x, 1, n - 1))
             new == ApplyTxs(st, SubSeq(x, 1, n))
             t == x[n]
  <2>1. n - 1 \in 0..k /\ n \in 0..k /\ t \in Tx
    BY <1>3
  <2>2. old \in States /\ new = ApplyTx(old, t)
    BY <1>1, <2>1, PrefixState
  <2>3. H[n - 1] = Held(old) /\ H[n] = Held(new)
    <3> HIDE DEF k
    <3> QED BY <2>1
  <2>4. ValidTx(c, old, t)
    BY <1>1 DEF Steps, x
  <2> HIDE DEF H, old, new, t
  <2>5. Cost(t) >= t.amount /\ Available(c, old, t.from) >= Cost(t)
    BY <2>4 DEF ValidTx
  <2>6. t.from \in Addr /\ Cost(t) \in Amount /\ t.fee \in Nat
    BY <2>1, CostType, LedgerAssumption DEF Tx
  <2>7. old[t.from].balance >= Cost(t)
    BY <2>2, <2>5, <2>6, SpendsHeld
  <2>8. Held(old) \in Nat /\ new \in States
    BY <2>1, <2>2, HeldIs, ApplyTxType
  <2>9. Held(old) < Word /\ Held(new) \in Nat
    <3>1. Held(new) \in Nat
      BY <2>8, HeldIs
    <3>2. Held(old) <= total
      BY <1>6, <2>3
    <3> HIDE DEF total
    <3>3. Held(old) < Word
      BY <1>4, <2>8, <3>2, LedgerAssumption
    <3> QED BY <3>1, <3>3
  <2>10. Held(new) = Held(old) - t.fee
    BY <2>1, <2>2, <2>5, <2>7, <2>9, HeldTx
  <2> QED BY <2>1, <2>3, <2>6, <2>8, <2>9, <2>10 DEF t
<1> DEFINE S == {n \in 0..k : H[n] \in Nat /\ f[n] + H[n] = total}
<1> HIDE DEF H, total
<1>7. 0 \in S
  BY <1>2, <1>3, <1>4, <1>5
<1>8. ASSUME NEW n \in 0..k - 1, n \in S
      PROVE  n + 1 \in S
  <2> DEFINE m == n + 1
             e == x[m].fee
             i == f[n] + e
  <2>1. m \in 1..k /\ m \in 0..k /\ m - 1 = n /\ n \in 0..k
    BY <1>3
  <2>2. f[n] \in Amount /\ H[n] \in Nat /\ f[n] + H[n] = total
    BY <1>2, <1>8, <2>1
  <2>3. H[n] <= total
    BY <2>2 DEF Amount
  <2>4. H[m] \in Nat /\ e \in Nat /\ H[m] = H[n] - e
    <3> HIDE DEF m, k
    <3> QED BY <1>6, <2>1, <2>3
  <2>5. f[m] = i % Word
    <3> HIDE DEF m, k
    <3> QED BY <1>2, <2>1
  <2> HIDE DEF m, e
  <2>6. i \in Amount
    BY <1>4, <2>2, <2>4, LedgerAssumption, SMTT(30) DEF Amount
  <2>7. f[m] = f[n] + e
    <3> HIDE DEF i
    <3>1. f[m] = i
      BY <2>5, <2>6, ModSmall
    <3> QED BY <3>1 DEF i
  <2>8. f[m] + H[m] = total
    BY <1>4, <2>2, <2>4, <2>7 DEF Amount
  <2> QED BY <2>1, <2>4, <2>8 DEF m
<1>9. k \in S
  <2> HIDE DEF S, k
  <2>1. 0..k \subseteq S
    BY <1>3, <1>7, <1>8, InductionUpTo
  <2> QED BY <1>3, <2>1
<1>10. SubSeq(x, 1, k) = x
  BY <1>1, SubSeqFull
<1>11. H[k] = Held(ApplyTxs(st, x))
  BY <1>3, <1>10 DEF H
<1> QED BY <1>2, <1>9, <1>11 DEF x, total

(* A valid block mints its subsidy and gives the fees back. *)
LEMMA BlockHeld ==
  ASSUME NEW c \in Seq(Body), Len(c) <= MaxHeight, NEW st \in States, NEW b \in Body,
         Steps(c, st, b.txs), NEW h \in 0..MaxHeight, Held(st) + SubsidyAt[h] < Word
  PROVE  /\ Held(ApplyBlock(st, b, h)) = Held(st) + SubsidyAt[h]
         /\ TotalFees(b) <= Held(st)
         /\ ApplyTxs(st, b.txs) \in States
         /\ \A a \in Addr : ApplyBlock(st, b, h)[a].balance
              = ApplyTxs(st, b.txs)[a].balance + Gain(a, b.miner, SubsidyAt[h] + TotalFees(b))
<1> DEFINE x == b.txs
           m == b.miner
           v == Reward(b, h)
           after == ApplyTxs(st, x)
           s == SubsidyAt[h]
           z == Held(st)
           e == TotalFees(b)
           y == Held(after)
<1>1. b \in Blocks /\ x \in Seq(Tx) /\ m \in Addr
  BY BodyBlocks DEF Blocks
<1>2. s \in Nat /\ e \in Amount /\ z \in Nat
  BY <1>1, TotalFeesType, HeldIs, LedgerAssumption DEF Amount
<1>3. after \in States
  BY <1>1, ApplyTxsType
<1>4. y \in Nat
  BY <1>3, HeldIs
<1>5. z < Word /\ z + s < Word
  <2>1. z + s < Word
    OBVIOUS
  <2> HIDE DEF z, s
  <2> QED BY <1>2, <2>1, LedgerAssumption
<1>6. e + y = z
  BY <1>5, BodyHeld
<1>7. v = s + e
  <2> DEFINE i == s + e
  <2>1. v = i % Word
    BY DEF Reward
  <2>2. i \in Amount
    <3> HIDE DEF s, e, y, z
    <3> QED BY <1>2, <1>4, <1>5, <1>6, LedgerAssumption DEF Amount
  <2> HIDE DEF i, v
  <2>3. v = i
    BY <2>1, <2>2, ModSmall
  <2> QED BY <2>3 DEF i
<1>8. ApplyBlock(st, b, h) = Credit(after, m, v)
  <2>1. v \in Int
    BY <1>1, RewardType
  <2>2. ApplyBlock(st, b, h) = ApplyTxs(Credit(st, m, v), x)
    BY <1>1, ApplyBlockType
  <2> HIDE DEF v, x, m
  <2> QED BY <1>1, <2>1, <2>2, CoinbaseLast
<1> HIDE DEF v, s, e, z, after
<1>9. v \in Nat /\ y + v < Word /\ y + v = z + s
  BY <1>2, <1>4, <1>5, <1>6, <1>7 DEF Amount
<1>10. Held(Credit(after, m, v)) = y + v
  BY <1>1, <1>3, <1>9, HeldCredit
<1>11. ASSUME NEW a \in Addr
       PROVE  Credit(after, m, v)[a].balance = after[a].balance + Gain(a, m, s + e)
  <2> DEFINE g == Gain(a, m, v)
             w == after[a].balance
  <2>1. Credit(after, m, v)[a].balance = (w + g) % Word
    <3>1. v \in Int
      BY <1>9
    <3> QED BY <1>1, <1>3, <3>1, CreditGain
  <2>2. w <= y /\ w \in Amount
    BY <1>3, HeldIs
  <2>3. g = Gain(a, m, s + e) /\ g \in Nat /\ g <= v
    BY <1>7, <1>9 DEF Gain
  <2> HIDE DEF w, g
  <2>4. w + g \in Amount
    BY <1>4, <1>9, <2>2, <2>3, LedgerAssumption DEF Amount
  <2>5. (w + g) % Word = w + g
    BY <2>4, ModSmall
  <2> QED BY <2>1, <2>3, <2>5 DEF w
<1>12. e <= z
  BY <1>2, <1>4, <1>6 DEF Amount
<1> QED BY <1>3, <1>8, <1>9, <1>10, <1>11, <1>12 DEF z, s, e, after, m, x

(* The subsidies of the first n heights. *)
Minted(n) == SumFunctionOnSet(SubsidyAt, 0..n - 1)

(* What is minted grows height by height and stays below Word. *)
LEMMA MintedRises ==
  /\ Minted(0) = 0
  /\ \A n \in 0..MaxHeight : /\ Minted(n + 1) = Minted(n) + SubsidyAt[n]
                             /\ Minted(n) \in Nat /\ SubsidyAt[n] \in Nat
                             /\ Minted(n) + SubsidyAt[n] < Word
                             /\ Minted(n) + SubsidyAt[n] <= SumFunction(SubsidyAt)
  /\ SumFunction(SubsidyAt) \in Nat
<1>1. MaxHeight \in Nat /\ \A n \in 0..MaxHeight : SubsidyAt[n] \in Nat
  BY LedgerAssumption
<1>2. Minted(0) = 0
  <2> DEFINE T == 0..0 - 1
  <2>1. IsFiniteSet(T) /\ \A x \in T : SubsidyAt[x] = 0
    <3>1. T = {}
      OBVIOUS
    <3> HIDE DEF T
    <3> QED BY <3>1, FS_EmptySet
  <2> HIDE DEF T
  <2>2. SumFunctionOnSet(SubsidyAt, T) = 0
    BY <2>1, SumZero
  <2> QED BY <2>2 DEF T, Minted
<1>3. ASSUME NEW n \in 0..MaxHeight
      PROVE  /\ Minted(n + 1) = Minted(n) + SubsidyAt[n] /\ Minted(n) \in Nat /\ Minted(n + 1) \in Nat
             /\ SubsidyAt[n] \in Nat
  <2> DEFINE T == 0..(n + 1) - 1
             U == 0..n - 1
  <2>1. U = T \ {n} /\ n \in T /\ T \in SUBSET (0..MaxHeight) /\ U \in SUBSET (0..MaxHeight)
    BY <1>1
  <2>2. IsFiniteSet(T) /\ IsFiniteSet(U)
    <3>1. IsFiniteSet(0..MaxHeight)
      BY <1>1, FS_Interval
    <3> HIDE DEF T, U
    <3> QED BY <2>1, <3>1, FS_Subset
  <2> HIDE DEF T, U
  <2>3. Weights(SubsidyAt, T) /\ Weights(SubsidyAt, U)
    BY <1>1, <2>1 DEF Weights
  <2>4. /\ SumFunctionOnSet(SubsidyAt, T) \in Nat /\ SumFunctionOnSet(SubsidyAt, U) \in Nat
        /\ Summands(SubsidyAt, T)
    BY <2>2, <2>3, SumNat
  <2>5. SumFunctionOnSet(SubsidyAt, T) = SubsidyAt[n] + SumFunctionOnSet(SubsidyAt, U)
    BY <2>1, <2>2, <2>4, SumWithout
  <2>6. SubsidyAt[n] \in Nat
    BY <1>1
  <2>7. Minted(n + 1) = SumFunctionOnSet(SubsidyAt, T) /\ Minted(n) = SumFunctionOnSet(SubsidyAt, U)
    BY DEF Minted, T, U
  <2> HIDE DEF Minted
  <2> QED BY <2>4, <2>5, <2>6, <2>7
<1>4. Minted(MaxHeight + 1) = SumFunction(SubsidyAt)
  <2> DEFINE T == 0..MaxHeight
  <2>1. DOMAIN SubsidyAt = T /\ 0..(MaxHeight + 1) - 1 = T
    BY <1>1, LedgerAssumption
  <2> HIDE DEF T
  <2> QED BY <2>1 DEF Minted, SumFunction
<1> HIDE DEF Minted
<1>5. ASSUME NEW n \in 0..MaxHeight
      PROVE  Minted(n + 1) <= Minted(MaxHeight + 1)
  <2> DEFINE top == MaxHeight + 1
             M == [i \in 0..MaxHeight |-> Minted(top - i)]
             S == {i \in 0..MaxHeight : Minted(top - i) <= Minted(top)}
  <2>1. Minted(top) \in Nat
    BY <1>1, <1>3
  <2>2. 0 \in S
    BY <1>1, <2>1
  <2>3. ASSUME NEW i \in 0..MaxHeight - 1, i \in S
        PROVE  i + 1 \in S
    <3> DEFINE j == top - (i + 1)
    <3>1. j \in 0..MaxHeight /\ j + 1 = top - i /\ i + 1 \in 0..MaxHeight
      BY <1>1
    <3>2. Minted(top - i) <= Minted(top)
      BY <2>3
    <3> HIDE DEF j, top
    <3>3. Minted(j) <= Minted(top)
      BY <1>3, <2>1, <3>1, <3>2
    <3> QED BY <3>1, <3>3 DEF j
  <2>4. 0..MaxHeight \subseteq S
    <3> HIDE DEF S
    <3> QED BY <1>1, <2>2, <2>3, InductionUpTo
  <2>5. MaxHeight - n \in S /\ top - (MaxHeight - n) = n + 1
    <3>1. MaxHeight - n \in 0..MaxHeight /\ top - (MaxHeight - n) = n + 1
      BY <1>1
    <3> HIDE DEF S, top
    <3> QED BY <2>4, <3>1
  <2> HIDE DEF top
  <2> QED BY <2>5 DEF top
<1> DEFINE all == SumFunction(SubsidyAt)
<1>6. all \in Nat /\ all < Word
  <2>1. MaxHeight \in 0..MaxHeight
    BY <1>1
  <2> QED BY <1>3, <1>4, <2>1, SupplyAssumption
<1> HIDE DEF all
<1>7. ASSUME NEW n \in 0..MaxHeight
      PROVE  Minted(n + 1) < Word /\ Minted(n + 1) <= all
  <2>1. Minted(n + 1) \in Nat /\ Minted(n + 1) <= all
    BY <1>3, <1>4, <1>5 DEF all
  <2> QED BY <1>6, <2>1, LedgerAssumption
<1> QED BY <1>2, <1>3, <1>6, <1>7 DEF all

(* The accounts hold what was minted, block after block. *)
ChainHolds(ch) == \A n \in 0..Len(ch) : Held(Replay(SubSeq(ch, 1, n))) = Minted(n)

(* Every prefix of a valid chain holds what its blocks minted. *)
LEMMA ChainHeld ==
  ASSUME NEW ch \in Seq(Body), ChainValid(ch), Len(ch) <= MaxHeight
  PROVE  ChainHolds(ch)
<1> DEFINE k == Len(ch)
           Q(n) == Replay(SubSeq(ch, 1, n))
           S == {n \in 0..k : Held(Q(n)) = Minted(n)}
<1>1. k <= MaxHeight /\ k \in Nat /\ 0 \in 0..k /\ k \in 0..k
  BY LedgerAssumption
<1>2. 0 \in S
  <2> DEFINE e == <<>>
  <2>1. Len(e) = 0 /\ e \in Seq(Blocks)
    BY EmptySeq
  <2>2. SubSeq(ch, 1, 0) = e
    BY SubSeqEmpty
  <2>3. Replay(e) = EmptyState
    BY ReplayEmpty
  <2>4. Held(EmptyState) = 0
    <3> DEFINE g == Holdings(EmptyState)
    <3>1. Held(EmptyState) = SumFunctionOnSet(g, Addr) /\ \A a \in Addr : g[a] = EmptyState[a].balance
      BY EmptyStateType, HeldIs
    <3>2. \A a \in Addr : EmptyState[a].balance = 0
      BY DEF EmptyState
    <3> HIDE DEF g
    <3> QED BY <3>1, <3>2, SumZero, LedgerAssumption
  <2> HIDE DEF e, k
  <2> QED BY <1>1, <2>2, <2>3, <2>4, MintedRises
<1>3. ASSUME NEW n \in 0..k - 1, n \in S
      PROVE  n + 1 \in S
  <2> DEFINE m == n + 1
             before == SubSeq(ch, 1, n)
             st == Replay(before)
             b == ch[m]
  <2>1. m \in 1..k /\ m \in 0..k /\ m - 1 = n /\ n \in 0..k /\ n \in 0..MaxHeight /\ n \in Nat /\ n <= MaxHeight
    <3>1. k \in Nat /\ k <= MaxHeight /\ MaxHeight \in Nat
      BY <1>1, LedgerAssumption
    <3> HIDE DEF k
    <3> QED BY <3>1
  <2>2. b \in Body
    BY <1>1, <2>1
  <2>3. Steps(before, st, b.txs)
    <3>1. Steps(SubSeq(ch, 1, m - 1), Replay(SubSeq(ch, 1, m - 1)), ch[m].txs)
      <4> HIDE DEF m
      <4> QED BY <1>1, <2>1, BodySteps
    <3> QED BY <2>1, <3>1
  <2>4. /\ st \in States
        /\ Q(m) = ApplyBlock(st, b, n)
    <3> HIDE DEF m
    <3>1. /\ Replay(SubSeq(ch, 1, m - 1)) \in States
          /\ Replay(SubSeq(ch, 1, m)) = ApplyBlock(Replay(SubSeq(ch, 1, m - 1)), ch[m], m - 1)
      BY <1>1, <2>1, ReplayNext
    <3> QED BY <2>1, <3>1
  <2>5. before \in Seq(Body) /\ Len(before) <= MaxHeight
    <3>1. before \in Seq(Body) /\ Len(before) = n
      BY <1>1, <2>1, PrefixOf
    <3> HIDE DEF before
    <3> QED BY <2>1, <3>1
  <2>6. Held(st) = Minted(n)
    BY <1>3
  <2> HIDE DEF before, st, b, m, Q, k
  <2>7. /\ Minted(n + 1) = Minted(n) + SubsidyAt[n] /\ Minted(n) + SubsidyAt[n] < Word
    BY <2>1, MintedRises
  <2>8. Held(ApplyBlock(st, b, n)) = Held(st) + SubsidyAt[n]
    BY <2>1, <2>2, <2>3, <2>4, <2>5, <2>6, <2>7, BlockHeld
  <2>9. Held(Q(m)) = Minted(m)
    BY <2>4, <2>6, <2>7, <2>8 DEF m
  <2> QED BY <2>1, <2>9 DEF m
<1>4. 0..k \subseteq S
  <2> HIDE DEF S, k
  <2> QED BY <1>1, <1>2, <1>3, InductionUpTo
<1> QED BY <1>4 DEF ChainHolds

(* No coin is made or lost: in every reachable state the balances add up   *)
(* to the subsidies of the blocks, and no uint64 subtraction has wrapped.  *)
THEOREM SupplyAlwaysSubsidies == Spec => []SupplyIsSubsidies
<1>1. MemInv => SupplyIsSubsidies
  <2> SUFFICES ASSUME MemInv PROVE SupplyIsSubsidies
    OBVIOUS
  <2> DEFINE k == Len(chain)
  <2>1. chain \in Seq(Body) /\ ChainValid(chain) /\ state = Replay(chain) /\ k <= MaxHeight /\ k \in 0..k
    BY LedgerAssumption DEF MemInv, LedgerInv, LedgerIsReplay
  <2>2. SubSeq(chain, 1, k) = chain
    BY <2>1, SubSeqFull
  <2>3. Held(state) = Minted(k)
    BY <2>1, <2>2, ChainHeld DEF ChainHolds
  <2> QED BY <2>3 DEF SupplyIsSubsidies, Held, Holdings, Minted
<1> QED BY <1>1, MemInvHolds, PTL

-----------------------------------------------------------------------------
(* Why a transaction leaves the pool. *)

(* A function that never falls from one position to the next. *)
Climbs(N, k) ==
  (\A n \in 0..k : N[n] \in Nat) /\ \A n \in 1..k : N[n - 1] <= N[n]

(* A later position has no smaller value. *)
LEMMA ClimbsFrom ==
  ASSUME NEW k \in Nat, NEW N, Climbs(N, k), NEW i \in 0..k, NEW j \in i..k
  PROVE  N[i] <= N[j]
<1> DEFINE S == {n \in 0..k : i <= n => N[i] <= N[n]}
<1>1. (\A n \in 0..k : N[n] \in Nat) /\ \A n \in 1..k : N[n - 1] <= N[n]
  BY DEF Climbs
<1>2. 0 \in S
  <2>1. i <= 0 => i = 0
    OBVIOUS
  <2>2. 0 \in 0..k /\ N[0] \in Nat
    BY <1>1
  <2> QED BY <2>1, <2>2
<1>3. ASSUME NEW n \in 0..k - 1, n \in S
      PROVE  n + 1 \in S
  <2> DEFINE m == n + 1
  <2>1. m \in 1..k /\ m \in 0..k /\ m - 1 = n /\ n \in 0..k
    OBVIOUS
  <2>2. N[n] <= N[m] /\ N[n] \in Nat /\ N[m] \in Nat /\ N[i] \in Nat
    <3> HIDE DEF m
    <3> QED BY <1>1, <2>1
  <2>3. i <= n => N[i] <= N[n]
    BY <1>3
  <2>4. i <= m => i <= n \/ i = m
    OBVIOUS
  <2> HIDE DEF m
  <2>5. i <= m => N[i] <= N[m]
    BY <2>2, <2>3, <2>4
  <2> QED BY <2>1, <2>5 DEF m
<1>4. 0..k \subseteq S
  <2> HIDE DEF S
  <2> QED BY <1>2, <1>3, InductionUpTo
<1>5. j \in 0..k /\ i <= j
  OBVIOUS
<1> QED BY <1>4, <1>5

(* A body takes nonces past those of its transactions. *)
LEMMA BodyPast ==
  ASSUME NEW c, NEW st \in States, NEW x \in Seq(Txs), Steps(c, st, x)
  PROVE  /\ \A a \in Addr : st[a].nonce <= ApplyTxs(st, x)[a].nonce
         /\ \A t \in Range(x) : t.nonce < ApplyTxs(st, x)[t.from].nonce
<1> DEFINE k == Len(x)
           P(n) == ApplyTxs(st, SubSeq(x, 1, n))
<1>1. /\ x \in Seq(Tx) /\ k \in Nat /\ k \in 0..k /\ 0 \in 0..k
      /\ \A n \in 1..k : x[n] \in Tx /\ n - 1 \in 0..k /\ n \in 0..k
  BY MempoolAssumption
<1>2. /\ \A n \in 0..k : P(n) \in States
      /\ \A n \in 1..k : P(n) = ApplyTx(P(n - 1), x[n])
  BY <1>1, PrefixState
<1>3. P(0) = st
  <2>1. SubSeq(x, 1, 0) = <<>>
    BY SubSeqEmpty
  <2> QED BY <2>1, ApplyTxsEmpty
<1>4. P(k) = ApplyTxs(st, x)
  <2>1. SubSeq(x, 1, k) = x
    BY SubSeqFull
  <2> QED BY <2>1
<1>5. \A n \in 1..k : ValidTx(c, P(n - 1), x[n])
  BY DEF Steps
<1> HIDE DEF P, k
<1>6. ASSUME NEW a \in Addr, NEW i \in 0..k
      PROVE  P(i)[a].nonce <= P(k)[a].nonce
  <2> DEFINE N == [n \in 0..k |-> P(n)[a].nonce]
  <2>1. ASSUME NEW n \in 0..k
        PROVE  N[n] \in Nat
    BY <1>2 DEF States
  <2>2. ASSUME NEW n \in 1..k
        PROVE  N[n - 1] <= N[n]
    <3>1. /\ P(n)[a].nonce = IF a = x[n].from THEN P(n - 1)[a].nonce + 1 ELSE P(n - 1)[a].nonce
          /\ P(n - 1)[a].nonce \in Nat
      BY <1>1, <1>2, NonceStep
    <3>2. N[n] = P(n)[a].nonce /\ N[n - 1] = P(n - 1)[a].nonce
      BY <1>1
    <3> HIDE DEF N
    <3> QED BY <3>1, <3>2
  <2>3. N[i] = P(i)[a].nonce /\ N[k] = P(k)[a].nonce
    BY <1>1
  <2>4. k \in i..k
    BY <1>1
  <2> HIDE DEF N
  <2>5. Climbs(N, k)
    BY <2>1, <2>2 DEF Climbs
  <2> QED BY <1>1, <2>3, <2>4, <2>5, ClimbsFrom
<1>7. ASSUME NEW t \in Range(x)
      PROVE  t.nonce < P(k)[t.from].nonce
  <2>1. PICK n \in 1..k : t = x[n]
    BY DEF Range, k
  <2>2. t \in Tx /\ t.from \in Addr /\ n - 1 \in 0..k /\ n \in 0..k
    BY <1>1, <2>1 DEF Tx
  <2>3. /\ P(n)[t.from].nonce = P(n - 1)[t.from].nonce + 1 /\ P(n - 1)[t.from].nonce \in Nat
    BY <1>2, <2>1, <2>2, NonceStep
  <2>4. t.nonce = P(n - 1)[t.from].nonce
    BY <1>5, <2>1 DEF ValidTx
  <2>5. P(n)[t.from].nonce <= P(k)[t.from].nonce
    BY <1>6, <2>2
  <2>6. P(k)[t.from].nonce \in Nat
    BY <1>1, <1>2, <2>2 DEF States
  <2> QED BY <2>3, <2>4, <2>5, <2>6
<1> QED BY <1>1, <1>3, <1>4, <1>6, <1>7

(* A transaction of a valid chain is spent on its state. *)
LEMMA MinedIsPast ==
  ASSUME NEW ch \in Seq(Body), ChainValid(ch), Len(ch) <= MaxHeight,
         NEW i \in 1..Len(ch), NEW t \in Range(ch[i].txs)
  PROVE  t.nonce < Replay(ch)[t.from].nonce
<1> DEFINE k == Len(ch)
           a == t.from
           Q(n) == Replay(SubSeq(ch, 1, n))
<1>1. k \in Nat /\ k \in 0..k /\ i \in 0..k /\ k \in i..k /\ k <= MaxHeight /\ MaxHeight \in Nat
  BY LedgerAssumption
<1>2. ASSUME NEW n \in 1..k
      PROVE  /\ n - 1 \in 0..MaxHeight /\ n - 1 \in 0..k /\ n \in 0..k
             /\ ch[n] \in Body /\ ch[n].txs \in Seq(Txs) /\ Q(n - 1) \in States /\ Q(n) \in States
             /\ Q(n) = ApplyBlock(Q(n - 1), ch[n], n - 1)
             /\ Steps(SubSeq(ch, 1, n - 1), Q(n - 1), ch[n].txs)
  <2>1. n - 1 \in 0..MaxHeight /\ n - 1 \in 0..k /\ n \in 0..k
    BY <1>1
  <2>2. ch[n] \in Body /\ ch[n].txs \in Seq(Txs)
    <3>1. ch[n] \in Body
      OBVIOUS
    <3> QED BY <3>1 DEF Body
  <2>3. /\ Q(n - 1) \in States /\ Q(n) \in States
        /\ Q(n) = ApplyBlock(Q(n - 1), ch[n], n - 1)
    BY ReplayNext
  <2>4. Steps(SubSeq(ch, 1, n - 1), Q(n - 1), ch[n].txs)
    BY BodySteps
  <2> QED BY <2>1, <2>2, <2>3, <2>4
<1>3. Q(k) = Replay(ch)
  <2>1. SubSeq(ch, 1, k) = ch
    BY SubSeqFull
  <2> QED BY <2>1
<1>4. a \in Addr
  <2> DEFINE x == ch[i].txs
  <2>1. x \in Seq(Txs) /\ t \in Range(x)
    BY <1>2
  <2> HIDE DEF x
  <2>2. t \in Txs
    BY <2>1 DEF Range
  <2> QED BY <2>2, MempoolAssumption DEF Tx
<1> HIDE DEF Q, k
<1>5. ASSUME NEW n \in 1..k
      PROVE  /\ \A b \in Addr : Q(n - 1)[b].nonce <= Q(n)[b].nonce /\ Q(n)[b].nonce \in Nat /\ Q(n - 1)[b].nonce \in Nat
             /\ \A u \in Range(ch[n].txs) : u.from \in Addr => u.nonce < Q(n)[u.from].nonce
  <2> DEFINE st == Q(n - 1)
             x == ch[n].txs
             h == n - 1
             after == ApplyTxs(st, x)
             c == SubSeq(ch, 1, n - 1)
  <2>1. st \in States /\ x \in Seq(Txs) /\ h \in 0..MaxHeight /\ Steps(c, st, x) /\ ch[n] \in Body
        /\ Q(n) = ApplyBlock(st, ch[n], h) /\ Q(n) \in States
    BY <1>2
  <2>2. \A b \in Addr : Q(n)[b].nonce = after[b].nonce
    <3> HIDE DEF st, h
    <3> QED BY <2>1, BlockNonces
  <2>3. /\ \A b \in Addr : st[b].nonce <= after[b].nonce
        /\ \A u \in Range(x) : u.nonce < after[u.from].nonce
    <3> HIDE DEF st, x, c
    <3> QED BY <2>1, BodyPast
  <2>4. \A b \in Addr : Q(n)[b].nonce \in Nat /\ st[b].nonce \in Nat
    <3> HIDE DEF st
    <3> QED BY <2>1 DEF States
  <2> HIDE DEF after
  <2> QED BY <2>2, <2>3, <2>4
<1>6. Q(i)[a].nonce <= Q(k)[a].nonce /\ Q(i)[a].nonce \in Nat /\ Q(k)[a].nonce \in Nat
  <2> DEFINE N == [n \in 0..k |-> Q(n)[a].nonce]
  <2>0. i \in 1..k /\ k \in 1..k
    BY <1>1 DEF k
  <2>1. ASSUME NEW n \in 0..k
        PROVE  N[n] \in Nat
    <3>1. CASE n = 0
      <4>1. 1 \in 1..k /\ 1 - 1 = 0
        BY <1>1, <2>0
      <4>2. Q(1 - 1)[a].nonce \in Nat
        BY <1>4, <1>5, <4>1
      <4> QED BY <3>1, <4>1, <4>2
    <3>2. CASE n # 0
      <4>1. n \in 1..k
        BY <1>1, <3>2
      <4> QED BY <1>4, <1>5, <4>1
    <3> QED BY <3>1, <3>2
  <2>2. ASSUME NEW n \in 1..k
        PROVE  N[n - 1] <= N[n]
    <3>1. N[n] = Q(n)[a].nonce /\ N[n - 1] = Q(n - 1)[a].nonce
      BY <1>2
    <3> QED BY <1>4, <1>5, <3>1
  <2>3. N[i] = Q(i)[a].nonce /\ N[k] = Q(k)[a].nonce
    BY <1>1
  <2> HIDE DEF N
  <2>4. Climbs(N, k)
    BY <2>1, <2>2 DEF Climbs
  <2> QED BY <1>1, <2>1, <2>3, <2>4, ClimbsFrom
<1>7. t.nonce < Q(i)[a].nonce
  <2>1. i \in 1..k
    BY DEF k
  <2> QED BY <1>4, <1>5, <2>1
<1>8. t.nonce \in Nat
  <2> DEFINE x == ch[i].txs
  <2>1. i \in 1..k
    BY DEF k
  <2>2. x \in Seq(Txs) /\ t \in Range(x)
    BY <1>2, <2>1
  <2> HIDE DEF x
  <2>3. t \in Txs
    BY <2>2 DEF Range
  <2> QED BY <2>3, MempoolAssumption DEF Tx
<1> QED BY <1>3, <1>6, <1>7, <1>8

(* The transactions an extension mines are stale on the state it leaves. *)
LEMMA MinedIsStale ==
  ASSUME MemInv, NEW bs \in Seq(Body), Extend(bs), NEW t \in BodyTxs(bs)
  PROVE  Stale(state', t)
<1>1. MemInv'
  BY ExtendInv
<1> DEFINE l == Len(chain)
           new == chain \o bs
<1>2. chain' = new /\ chain \in Seq(Body) /\ l \in Nat
  BY DEF Extend, MemInv, LedgerInv
<1>3. PICK i \in 1..Len(bs) : t \in Range(bs[i].txs)
  BY DEF BodyTxs
<1>4. l + i \in 1..Len(new) /\ new[l + i] = bs[i]
  <2> DEFINE n == Len(bs)
  <2>1. /\ Len(new) = l + n /\ n \in Nat /\ i \in 1..n
        /\ \A j \in 1..l + n : new[j] = IF j <= l THEN chain[j] ELSE bs[j - l]
    BY <1>2, ConcatProperties
  <2> HIDE DEF l, n, new
  <2>2. l + i \in 1..l + n /\ ~(l + i <= l) /\ (l + i) - l = i
    BY <1>2, <2>1
  <2> QED BY <2>1, <2>2
<1> HIDE DEF l, new
<1>5. new \in Seq(Body) /\ ChainValid(new) /\ Len(new) <= MaxHeight /\ state' = Replay(new)
  <2>1. chain' \in Seq(Body) /\ Len(chain') \in 1..MaxHeight /\ ChainValid(chain') /\ state' = Replay(chain')
    BY <1>1 DEF MemInv, LedgerInv, LedgerIsReplay
  <2>2. Len(chain') <= MaxHeight
    BY <2>1
  <2> QED BY <1>2, <2>1, <2>2
<1>6. t \in Range(new[l + i].txs)
  BY <1>3, <1>4
<1>7. t.nonce < state'[t.from].nonce
  BY <1>4, <1>5, <1>6, MinedIsPast
<1> QED BY <1>7 DEF Stale

(* A replacement that is refused leaves the pool as it was. *)
LEMMA AddTxForCause ==
  ASSUME NEW c, NEW st, NEW p, PoolOK(p), NEW t \in Txs,
         NEW u \in p.txs, u \notin AfterAddTx(c, st, p, t).txs
  PROVE  \E v \in Rivals(AfterAddTx(c, st, p, t), u) : v.fee >= BumpedFee(u.fee)
<1> DEFINE m == CHOOSE m \in Rivals(p, t) : TRUE
           rest == mpDel(p, m)
           q == AfterAddTx(c, st, p, t)
<1>1. \A r, x : mpAdd(r, x).txs = r.txs \cup {x}
  BY DEF mpAdd
<1>2. rest.txs = p.txs \ {m}
  BY DEF mpDel, mpDelAll
<1>3. t \notin p.txs
  BY DEF AfterAddTx
<1>4. Rivals(p, t) # {}
  BY <1>1, <1>3 DEF AfterAddTx
<1>5. m \in p.txs /\ m.from = t.from /\ m.nonce = t.nonce
  BY <1>4 DEF Rivals
<1>6. q = IF t.fee < BumpedFee(m.fee) THEN p
          ELSE IF Admits(c, st, rest, t) THEN mpAdd(rest, t) ELSE mpAdd(rest, m)
  BY <1>3, <1>4 DEF AfterAddTx
<1>7. u \notin q.txs
  OBVIOUS
<1> HIDE DEF m, rest, q
<1>8. ~(t.fee < BumpedFee(m.fee)) /\ q.txs = rest.txs \cup {t} /\ u = m
  BY <1>1, <1>2, <1>5, <1>6, <1>7
<1>9. t \in Rivals(q, u)
  BY <1>5, <1>8 DEF Rivals
<1>10. t.fee >= BumpedFee(u.fee)
  <2>1. t.fee \in Int /\ m.fee \in Int
    <3>1. t \in Tx /\ m \in Tx
      BY <1>5, MempoolAssumption DEF PoolOK, Pools
    <3> QED BY <3>1, LedgerAssumption DEF Tx
  <2> DEFINE e == m.fee
             d == m.fee \div 10
             up == m.fee + m.fee \div 10
  <2>2. up \in Int
    BY <2>1
  <2>3. up % Word \in Int /\ (e + 1) % Word \in Int
    <3>1. e + 1 \in Int
      BY <2>1
    <3> HIDE DEF up, e
    <3> QED BY <2>2, <3>1, AmountMod DEF Amount
  <2>4. BumpedFee(m.fee) \in Int
    BY <2>3 DEF BumpedFee
  <2> HIDE DEF e, d, up
  <2> QED BY <1>8, <2>1, <2>4
<1> QED BY <1>9, <1>10 DEF q

(* A transaction leaves the pool only because the new state makes it stale *)
(* or because a better-paying one takes its slot: never in a refused       *)
(* replacement, and never with a block that does not settle it.            *)
THEOREM AlwaysLeavesPoolForCause == Spec => LeavesPoolForCause
<1> DEFINE Cause == \/ Restart
                    \/ \A t \in pool.txs \ pool'.txs :
                         \/ Stale(state', t)
                         \/ \E u \in Rivals(pool', t) : u.fee >= BumpedFee(t.fee)
<1>1. MemInv /\ [Next]_vars => [Cause]_vars
  <2> SUFFICES ASSUME MemInv, Next
               PROVE  Cause
    OBVIOUS
  <2>0. PoolOK(pool)
    BY DEF MemInv, PoolInv
  <2>1. ASSUME NEW t \in Txs, AddTx(t)
        PROVE  Cause
    <3>1. pool' = AfterAddTx(chain, state, pool, t)
      BY <2>1 DEF AddTx
    <3>2. ASSUME NEW u \in pool.txs \ pool'.txs
          PROVE  \E v \in Rivals(pool', u) : v.fee >= BumpedFee(u.fee)
      BY <2>0, <3>1, AddTxForCause
    <3> QED BY <3>2
  <2>2. ASSUME NEW bs \in Seq(Body), Extend(bs)
        PROVE  Cause
    <3>1. pool' = Prune(mpDelAll(pool, BodyTxs(bs)), state')
      BY <2>2 DEF Extend
    <3>2. ASSUME NEW u \in pool.txs \ pool'.txs
          PROVE  u \in BodyTxs(bs) \/ Stale(state', u)
      BY <3>1 DEF Prune, mpDelAll
    <3>3. ASSUME NEW u \in BodyTxs(bs)
          PROVE  Stale(state', u)
      BY <2>2, MinedIsStale
    <3> QED BY <3>2, <3>3
  <2>3. CASE MineTemplate
    <3> DEFINE bs == <<BuildTemplate>>
    <3>1. bs \in Seq(Body)
      <4>1. BuildTemplate \in Body
        BY TemplateIsBody DEF MemInv
      <4> QED BY <4>1
    <3>2. Extend(bs)
      BY <2>3 DEF MineTemplate
    <3> HIDE DEF bs, Cause
    <3> QED BY <2>2, <3>1, <3>2
  <2>4. ASSUME NEW keep \in 1..MaxHeight, NEW branch \in Branches, Reorg(keep, branch)
        PROVE  Cause
    <3>1. pool' = Prune(pool, state')
      BY <2>4 DEF Reorg
    <3> QED BY <3>1 DEF Prune, mpDelAll
  <2>5. CASE SaveMempool
    BY <2>5 DEF SaveMempool
  <2>6. CASE Restart
    BY <2>6
  <2>7. ASSUME NEW branch \in Branches, Extend(branch)
        PROVE  Cause
    <3>1. branch \in Seq(Body)
      BY MempoolAssumption DEF Body
    <3> HIDE DEF Cause
    <3> QED BY <2>2, <2>7, <3>1
  <2> HIDE DEF Cause
  <2> QED BY <2>1, <2>3, <2>4, <2>5, <2>6, <2>7 DEF Next
<1>2. Spec => [][Cause]_vars
  BY <1>1, MemInvHolds, PTL DEF Spec
<1> QED BY <1>2 DEF LeavesPoolForCause

-----------------------------------------------------------------------------
(* Young rewards stay where they were paid. *)

(* A block of a valid chain, on what precedes it. *)
LEMMA BlockAt ==
  ASSUME NEW ch \in Seq(Body), ChainValid(ch), Len(ch) <= MaxHeight, NEW n \in 0..Len(ch) - 1,
         NEW c, c = SubSeq(ch, 1, n), NEW st, st = Replay(c), NEW b, b = ch[n + 1]
  PROVE  /\ n \in 0..MaxHeight /\ n \in Nat /\ b \in Body
         /\ c \in Seq(Body) /\ Len(c) = n /\ Len(c) <= MaxHeight /\ st \in States
         /\ Steps(c, st, b.txs) /\ Replay(SubSeq(ch, 1, n + 1)) = ApplyBlock(st, b, n)
         /\ Held(st) = Minted(n) /\ Held(st) \in Nat /\ Held(st) < Word
         /\ Held(st) + SubsidyAt[n] < Word
<1> DEFINE k == Len(ch)
           m == n + 1
<1>1. k \in Nat /\ k <= MaxHeight /\ MaxHeight \in Nat
  BY LedgerAssumption
<1>2. /\ m \in 1..k /\ m - 1 = n /\ n \in 0..k /\ n \in 0..MaxHeight /\ n \in Nat /\ n <= MaxHeight
  <2> HIDE DEF k
  <2> QED BY <1>1 DEF k
<1>3. b \in Body
  BY <1>2
<1>4. c \in Seq(Body) /\ Len(c) = n
  BY <1>2, PrefixOf
<1>5. Steps(c, st, b.txs)
  <2>1. Steps(SubSeq(ch, 1, m - 1), Replay(SubSeq(ch, 1, m - 1)), ch[m].txs)
    <3> HIDE DEF m
    <3> QED BY <1>2, BodySteps
  <2> QED BY <1>2, <2>1
<1>6. st \in States /\ Replay(SubSeq(ch, 1, m)) = ApplyBlock(st, b, n)
  <2>1. /\ Replay(SubSeq(ch, 1, m - 1)) \in States
        /\ Replay(SubSeq(ch, 1, m)) = ApplyBlock(Replay(SubSeq(ch, 1, m - 1)), ch[m], m - 1)
    <3> HIDE DEF m
    <3> QED BY <1>2, ReplayNext
  <2> QED BY <1>2, <2>1
<1>7. Held(st) = Minted(n)
  BY <1>2, ChainHeld DEF ChainHolds
<1>8. Minted(n) + SubsidyAt[n] < Word /\ Minted(n) \in Nat /\ SubsidyAt[n] \in Nat
  BY <1>2, MintedRises
<1>9. Held(st) < Word
  BY <1>7, <1>8, LedgerAssumption
<1> HIDE DEF k
<1> QED BY <1>2, <1>3, <1>4, <1>5, <1>6, <1>7, <1>8, <1>9

(* What the block at each height pays its miner. *)
RewardOf(ch) ==
  [k \in 0..MaxHeight |-> IF k < Len(ch) THEN SubsidyAt[k] + TotalFees(ch[k + 1]) ELSE 0]

Bounded(g, B) == \A k \in 0..MaxHeight : g[k] \in Nat /\ g[k] <= B

(* No reward is larger than all coins. *)
LEMMA RewardBound ==
  ASSUME NEW ch \in Seq(Body), ChainValid(ch), Len(ch) <= MaxHeight
  PROVE  Bounded(RewardOf(ch), SumFunction(SubsidyAt))
<1> DEFINE all == SumFunction(SubsidyAt)
<1>1. all \in Nat
  BY MintedRises
<1>2. ASSUME NEW k \in 0..MaxHeight, k < Len(ch)
      PROVE  SubsidyAt[k] + TotalFees(ch[k + 1]) \in Nat /\ SubsidyAt[k] + TotalFees(ch[k + 1]) <= all
  <2> DEFINE c == SubSeq(ch, 1, k)
             st == Replay(c)
             b == ch[k + 1]
             s == SubsidyAt[k]
             e == TotalFees(b)
  <2>1. k \in 0..Len(ch) - 1
    <3> DEFINE l == Len(ch)
    <3>1. l \in Nat /\ MaxHeight \in Nat /\ k < l
      BY <1>2, LedgerAssumption
    <3> HIDE DEF l
    <3>2. k \in 0..l - 1
      BY <3>1
    <3> QED BY <3>2 DEF l
  <2>7. c = SubSeq(ch, 1, k) /\ st = Replay(c) /\ b = ch[k + 1]
    OBVIOUS
  <2> HIDE DEF all, c, st, b
  <2>2. /\ b \in Body /\ c \in Seq(Body) /\ Len(c) <= MaxHeight /\ st \in States
        /\ Steps(c, st, b.txs) /\ Held(st) + SubsidyAt[k] < Word /\ Held(st) = Minted(k)
    BY <2>1, <2>7, BlockAt, ZenonT(60)
  <2>3. e <= Held(st)
    BY <2>2, BlockHeld
  <2>4. e \in Nat
    <3>1. b \in Blocks
      BY <2>2, BodyBlocks
    <3> QED BY <3>1, TotalFeesType DEF Amount
  <2>5. Minted(k) + s <= all /\ Minted(k) \in Nat /\ s \in Nat
    BY MintedRises DEF all
  <2> HIDE DEF e, s
  <2>6. s + e \in Nat /\ s + e <= all
    BY <1>1, <2>2, <2>3, <2>4, <2>5
  <2> QED BY <2>6 DEF s, e, b
<1> HIDE DEF all
<1>3. Bounded(RewardOf(ch), all)
  BY <1>1, <1>2 DEF Bounded, RewardOf
<1> QED BY <1>3 DEF all

(* No more than CoinbaseMaturity blocks are young. *)
LEMMA YoungCount ==
  ASSUME NEW ch, NEW a, NEW h \in Nat
  PROVE  /\ IsFiniteSet(Young(ch, a, h)) /\ Cardinality(Young(ch, a, h)) \in Nat
         /\ Cardinality(Young(ch, a, h)) <= CoinbaseMaturity
<1> DEFINE lo == IF h > CoinbaseMaturity THEN h - CoinbaseMaturity + 1 ELSE 0
           hi == h - 1
           T == Young(ch, a, h)
<1>1. lo \in Int /\ hi \in Int /\ CoinbaseMaturity \in Nat
  BY LedgerAssumption
<1>2. T \in SUBSET (lo..hi)
  BY DEF Young
<1>3. IF lo > hi THEN TRUE ELSE hi - lo + 1 <= CoinbaseMaturity
  BY <1>1
<1> HIDE DEF lo, hi, T
<1>4. /\ IsFiniteSet(lo..hi)
      /\ Cardinality(lo..hi) = IF lo > hi THEN 0 ELSE hi - lo + 1
  BY <1>1, FS_Interval
<1>5. IsFiniteSet(T) /\ Cardinality(T) <= Cardinality(lo..hi)
  BY <1>2, <1>4, FS_Subset
<1>6. Cardinality(T) \in Nat
  BY <1>5, FS_CardinalityType
<1> DEFINE c == Cardinality(T)
           d == Cardinality(lo..hi)
<1>7. d = (IF lo > hi THEN 0 ELSE hi - lo + 1) /\ c <= d /\ c \in Nat
  BY <1>4, <1>5, <1>6
<1> HIDE DEF c, d
<1>8. c <= CoinbaseMaturity
  BY <1>1, <1>3, <1>7
<1> QED BY <1>5, <1>6, <1>8 DEF T, c

(* Their rewards, added up without a wrap. *)
Rewarded(g, ch, T, B) ==
  \A k \in T : g[k] = SubsidyAt[k] + TotalFees(ch[k + 1]) /\ g[k] \in Nat /\ g[k] <= B

(* Rewards this small add up without wrapping. *)
LEMMA ImmatureIs ==
  ASSUME NEW ch \in Seq(Body), Len(ch) <= MaxHeight, NEW a \in Addr, NEW h \in Nat,
         h >= MaturityHeight, NEW B \in Nat, CoinbaseMaturity * B < Word,
         NEW g, Rewarded(g, ch, Young(ch, a, h), B)
  PROVE  Immature(ch, a, h) = SumFunctionOnSet(g, Young(ch, a, h))
<1> DEFINE T == Young(ch, a, h)
           n == Cardinality(T)
           nB == n * B
           cB == CoinbaseMaturity * B
<1>1. PICK f : HoldsBack(f, ch, T) /\ Immature(ch, a, h) = f[T]
  BY ImmatureRuns
<1>2. IsFiniteSet(T) /\ n \in Nat /\ n <= CoinbaseMaturity /\ CoinbaseMaturity \in Nat
  BY YoungCount, LedgerAssumption
<1>3. Rewarded(g, ch, T, B)
  OBVIOUS
<1> HIDE DEF T
<1>4. Weights(g, T) /\ Summands(g, T) /\ \A k \in T : g[k] <= B
  BY <1>3 DEF Rewarded, Weights, Summands
<1>5. PICK e : IsSum(e, g, T) /\ SumFunctionOnSet(g, T) = e[T]
  BY <1>2, <1>4, SumRuns
<1>6. ASSUME NEW s \in SUBSET T
      PROVE  e[s] \in Amount
  <2> DEFINE x == SumFunctionOnSet(g, s)
             y == SumFunctionOnSet(g, T)
  <2>1. x <= y /\ x \in Nat /\ y \in Nat
    BY <1>2, <1>4, SumSubset
  <2>2. y <= nB
    BY <1>2, <1>4, SumAtMost
  <2>3. nB <= cB /\ nB \in Nat /\ cB \in Nat
    <3> HIDE DEF n
    <3>1. \A d \in Nat : d * B \in Nat
      OBVIOUS
    <3>2. CoinbaseMaturity - n \in Nat
      BY <1>2
    <3>3. cB = nB + (CoinbaseMaturity - n) * B
      BY <1>2
    <3> DEFINE r == (CoinbaseMaturity - n) * B
    <3>4. r \in Nat /\ nB \in Nat /\ cB \in Nat
      BY <1>2, <3>1, <3>2
    <3> HIDE DEF r, nB, cB
    <3>5. cB = nB + r
      BY <3>3 DEF r
    <3> QED BY <3>4, <3>5
  <2>4. cB < Word
    OBVIOUS
  <2>5. e[s] = x
    BY <1>2, <1>4, <1>5, SumOn
  <2> HIDE DEF x, y, nB, cB
  <2>6. x \in Amount
    BY <2>1, <2>2, <2>3, <2>4, LedgerAssumption DEF Amount
  <2> QED BY <2>5, <2>6
<1> DEFINE S == {s \in SUBSET T : f[s] = e[s]}
<1>7. {} \in S
  BY <1>1, <1>5 DEF HoldsBack, IsSum
<1>8. ASSUME NEW s \in SUBSET T, s # {}, \A x \in s : s \ {x} \in S
      PROVE  s \in S
  <2> DEFINE y == PickOf(s)
             v == s \ {y}
  <2>1. y \in s /\ y \in T
    BY <1>8 DEF PickOf
  <2>2. f[v] = e[v]
    BY <1>8, <2>1
  <2>3. f[s] = (SubsidyAt[y] + TotalFees(ch[y + 1]) + f[v]) % Word
    BY <1>1, <1>8 DEF HoldsBack
  <2>4. e[s] = g[y] + e[v]
    BY <1>5, <1>8 DEF IsSum
  <2>5. g[y] = SubsidyAt[y] + TotalFees(ch[y + 1])
    BY <1>3, <2>1 DEF Rewarded
  <2> HIDE DEF y, v
  <2>6. f[s] = e[s] % Word
    BY <2>2, <2>3, <2>4, <2>5
  <2>7. f[s] = e[s]
    BY <1>6, <2>6, ModSmall
  <2> QED BY <2>7
<1>9. SUBSET T \subseteq S
  <2> HIDE DEF S
  <2> QED BY <1>2, <1>7, <1>8, InductionSubsets
<1>10. f[T] = e[T]
  BY <1>9
<1> QED BY <1>1, <1>5, <1>10 DEF T

(* A transaction takes from its sender only, and no more than it costs. *)
LEMMA TxPays ==
  ASSUME NEW st \in States, NEW t \in Tx, Held(st) < Word,
         Cost(t) >= t.amount, st[t.from].balance >= Cost(t)
  PROVE  /\ ApplyTx(st, t) \in States /\ Held(ApplyTx(st, t)) <= Held(st)
         /\ \A a \in Addr : ApplyTx(st, t)[a].balance
              >= IF a = t.from THEN st[a].balance - Cost(t) ELSE st[a].balance
<1> DEFINE su == Debit(st, t)
           new == ApplyTx(st, t)
           v == t.amount
           c == Cost(t)
           z == Held(st)
<1>1. /\ t.from \in Addr /\ t.to \in Addr /\ v \in Amount /\ t.fee \in Nat /\ c \in Amount /\ c >= v
  BY CostType, LedgerAssumption DEF Tx, Amount
<1>2. /\ su \in States /\ new = Credit(su, t.to, v) /\ new \in States
      /\ \A a \in Addr \ {t.from} : su[a] = st[a]
  BY ApplyTxType, DebitType
<1>3. Held(su) = z - c /\ c <= z /\ su[t.from].balance = st[t.from].balance - c
  BY HeldDebit
<1>4. Held(new) = z - t.fee /\ z \in Nat /\ z < Word
  BY HeldTx, HeldIs
<1> HIDE DEF su, new, v, c, z
<1>5. ASSUME NEW a \in Addr
      PROVE  new[a].balance >= su[a].balance
  <2> DEFINE w == su[a].balance
             g == Gain(a, t.to, v)
  <2>1. v \in Int
    BY <1>1 DEF Amount
  <2>2. new[a].balance = (w + g) % Word
    BY <1>1, <1>2, <2>1, CreditGain
  <2>3. w <= Held(su) /\ w \in Amount
    BY <1>2, HeldIs
  <2>4. g \in Amount /\ g <= c
    BY <1>1, ZeroAmount DEF Gain, Amount
  <2> HIDE DEF w, g
  <2>5. w + g \in Amount /\ w + g >= w
    BY <1>1, <1>3, <1>4, <2>3, <2>4, LedgerAssumption DEF Amount
  <2>6. new[a].balance = w + g
    BY <2>2, <2>5, ModSmall
  <2> QED BY <2>5, <2>6 DEF w
<1>6. Held(new) <= z
  BY <1>1, <1>4
<1>7. ASSUME NEW a \in Addr
      PROVE  new[a].balance >= IF a = t.from THEN st[a].balance - c ELSE st[a].balance
  <2>1. CASE a = t.from
    BY <1>3, <1>5, <2>1
  <2>2. CASE a # t.from
    <3>1. su[a].balance = st[a].balance
      BY <1>2, <2>2
    <3> QED BY <1>5, <2>2, <3>1
  <2> QED BY <2>1, <2>2
<1> QED BY <1>2, <1>6, <1>7 DEF new, c, z

(* A valid body leaves each account what the maturity rule holds back. *)
LEMMA BodyLeaves ==
  ASSUME NEW c \in Seq(Body), Len(c) <= MaxHeight, NEW st \in States, NEW b \in Body,
         Steps(c, st, b.txs), Held(st) < Word, NEW a \in Addr, NEW w \in Nat,
         st[a].balance >= w, Immature(c, a, Len(c)) >= w
  PROVE  ApplyTxs(st, b.txs)[a].balance >= w
<1> DEFINE x == b.txs
           k == Len(x)
           P(n) == ApplyTxs(st, SubSeq(x, 1, n))
           total == Held(st)
           held == Immature(c, a, Len(c))
           S == {n \in 0..k : Held(P(n)) <= total /\ P(n)[a].balance >= w}
<1>1. x \in Seq(Tx)
  BY BodyBlocks DEF Blocks
<1>2. k \in Nat /\ k \in 0..k /\ 0 \in 0..k /\ \A n \in 1..k : x[n] \in Tx
  BY <1>1
<1>3. /\ \A n \in 0..k : P(n) \in States
      /\ \A n \in 1..k : P(n) = ApplyTx(P(n - 1), x[n])
  BY <1>1, PrefixState
<1>4. P(0) = st /\ P(k) = ApplyTxs(st, x)
  <2>1. SubSeq(x, 1, 0) = <<>> /\ SubSeq(x, 1, k) = x
    BY <1>1, SubSeqEmpty, SubSeqFull
  <2> QED BY <2>1, ApplyTxsEmpty
<1>5. \A n \in 1..k : ValidTx(c, P(n - 1), x[n])
  BY DEF Steps
<1>6. held \in Amount /\ held >= w /\ total \in Nat /\ total < Word /\ st[a].balance >= w
  <2>1. Len(c) \in Nat
    OBVIOUS
  <2> QED BY <2>1, ImmatureType, HeldIs
<1> HIDE DEF P, x, k
<1>7. 0 \in S
  BY <1>2, <1>4, <1>6
<1>8. ASSUME NEW n \in 0..k - 1, n \in S
      PROVE  n + 1 \in S
  <2> DEFINE m == n + 1
             old == P(n)
             t == x[m]
             new == P(m)
  <2>1. m \in 1..k /\ m \in 0..k /\ m - 1 = n /\ n \in 0..k
    BY <1>2
  <2>2. old \in States /\ t \in Tx /\ new = ApplyTx(old, t) /\ ValidTx(c, old, t)
    <3> HIDE DEF m
    <3> QED BY <1>2, <1>3, <1>5, <2>1
  <2>3. Held(old) <= total /\ old[a].balance >= w
    BY <1>8
  <2> HIDE DEF old, new, t, held, total
  <2>4. /\ Cost(t) >= t.amount /\ Available(c, old, t.from) >= Cost(t) /\ t.amount > 0
    BY <2>2 DEF ValidTx, SignedFor
  <2>5. t.from \in Addr /\ Cost(t) \in Amount /\ t.amount \in Amount
    BY <2>2, CostType DEF Tx, Amount
  <2>6. old[t.from].balance >= Cost(t)
    BY <2>2, <2>4, <2>5, SpendsHeld
  <2>7. Held(old) \in Nat /\ Held(old) < Word
    <3>1. Held(old) \in Nat
      BY <2>2, HeldIs
    <3> QED BY <1>6, <2>3, <3>1, LedgerAssumption
  <2>8. /\ new \in States /\ Held(new) <= Held(old)
        /\ new[a].balance >= IF a = t.from THEN old[a].balance - Cost(t) ELSE old[a].balance
    BY <2>2, <2>4, <2>6, <2>7, TxPays
  <2>9. Held(new) <= total
    <3>1. Held(new) \in Nat
      BY <2>8, HeldIs
    <3> QED BY <1>6, <2>3, <2>7, <2>8, <3>1
  <2>10. old[a].balance \in Amount /\ new[a].balance \in Amount
    BY <2>2, <2>8 DEF States
  <2>11. new[a].balance >= w
    <3>1. CASE a = t.from
      <4> DEFINE y == old[a].balance
                 d == Cost(t)
      <4>1. Available(c, old, a) = IF held >= y THEN 0 ELSE y - held
        BY DEF Available, Spendable, held
      <4>2. (IF held >= y THEN 0 ELSE y - held) >= d /\ d > 0
        <5>1. d > 0
          BY <2>4, <2>5 DEF Amount
        <5> QED BY <2>4, <3>1, <4>1, <5>1
      <4>3. new[a].balance >= y - d /\ y \in Amount /\ d \in Amount
        BY <2>5, <2>8, <2>10, <3>1
      <4> HIDE DEF y, d
      <4> DEFINE r == new[a].balance
      <4>4. r \in Amount /\ r >= y - d
        BY <2>10, <4>3
      <4> HIDE DEF r
      <4>5. r >= w
        BY <1>6, <4>2, <4>3, <4>4 DEF Amount
      <4> QED BY <4>5 DEF r
    <3>2. CASE a # t.from
      BY <2>3, <2>8, <2>10, <3>2 DEF Amount
    <3> QED BY <3>1, <3>2
  <2> QED BY <2>1, <2>9, <2>11 DEF new, m, total
<1>9. k \in S
  <2> HIDE DEF S
  <2>1. 0..k \subseteq S
    BY <1>2, <1>7, <1>8, InductionUpTo
  <2> QED BY <1>2, <2>1
<1> QED BY <1>4, <1>9 DEF x

(* The heights whose rewards are young at height n: only those from the    *)
(* maturity rule on.                                                       *)
Window(ch, n, a) ==
  {k \in MaturityHeight..n - 1 : k >= n - CoinbaseMaturity /\ ch[k + 1].miner = a}

Locked(ch, n) ==
  \A a \in Addr :
    Replay(SubSeq(ch, 1, n))[a].balance >= SumFunctionOnSet(RewardOf(ch), Window(ch, n, a))

(* The young rewards of an address are finitely many naturals. *)
LEMMA WindowOK ==
  ASSUME NEW ch \in Seq(Body), ChainValid(ch), Len(ch) <= MaxHeight, NEW a \in Addr,
         NEW n \in 0..Len(ch), NEW T, T \subseteq 0..n
  PROVE  /\ IsFiniteSet(T) /\ Weights(RewardOf(ch), T)
         /\ SumFunctionOnSet(RewardOf(ch), T) \in Nat
<1> DEFINE g == RewardOf(ch)
           l == Len(ch)
<1>1. l \in Nat /\ MaxHeight \in Nat /\ l <= MaxHeight /\ n \in 0..l
  BY LedgerAssumption
<1> HIDE DEF l
<1>2. T \subseteq 0..MaxHeight
  <2>1. 0..n \subseteq 0..MaxHeight
    BY <1>1
  <2> QED BY <2>1
<1>3. IsFiniteSet(0..MaxHeight)
  BY <1>1, FS_Interval
<1>4. IsFiniteSet(T)
  BY <1>2, <1>3, FS_Subset
<1>5. Bounded(g, SumFunction(SubsidyAt))
  BY RewardBound
<1> HIDE DEF g
<1>6. Weights(g, T)
  BY <1>2, <1>5 DEF Bounded, Weights
<1>7. SumFunctionOnSet(g, T) \in Nat
  BY <1>4, <1>6, SumNat
<1> QED BY <1>4, <1>6, <1>7 DEF g

(* One block more: what each account held back it still has, and the miner *)
(* has the new reward on top.                                              *)
LEMMA LockedNext ==
  ASSUME NEW ch \in Seq(Body), ChainValid(ch), Len(ch) <= MaxHeight, NEW n \in 0..Len(ch) - 1,
         n >= MaturityHeight, Locked(ch, n)
  PROVE  Locked(ch, n + 1)
<1> DEFINE c == SubSeq(ch, 1, n)
           st == Replay(c)
           b == ch[n + 1]
           g == RewardOf(ch)
           all == SumFunction(SubsidyAt)
           after == ApplyTxs(st, b.txs)
           next == Replay(SubSeq(ch, 1, n + 1))
<1>0. c = SubSeq(ch, 1, n) /\ st = Replay(c) /\ b = ch[n + 1] /\ Len(ch) \in Nat
  OBVIOUS
<1>17. next = Replay(SubSeq(ch, 1, n + 1))
  OBVIOUS
<1>1. n \in 0..Len(ch) /\ n \in Nat /\ n < Len(ch) /\ n + 1 \in 0..Len(ch)
  <2> DEFINE l == Len(ch)
  <2>1. l \in Nat /\ n \in 0..l - 1
    OBVIOUS
  <2> HIDE DEF l
  <2>2. n \in 0..l /\ n \in Nat /\ n < l /\ n + 1 \in 0..l
    BY <2>1
  <2> QED BY <2>2 DEF l
<1> HIDE DEF c, st, b, after
<1>2. /\ n \in 0..MaxHeight /\ b \in Body
      /\ c \in Seq(Body) /\ Len(c) = n /\ Len(c) <= MaxHeight /\ st \in States
      /\ Steps(c, st, b.txs) /\ next = ApplyBlock(st, b, n)
      /\ Held(st) < Word /\ Held(st) + SubsidyAt[n] < Word
  <2> HIDE DEF next, g, all
  <2>1. n \in 0..Len(ch) - 1
    OBVIOUS
  <2>2. /\ n \in 0..MaxHeight /\ b \in Body
        /\ c \in Seq(Body) /\ Len(c) = n /\ Len(c) <= MaxHeight /\ st \in States
        /\ Steps(c, st, b.txs)
        /\ Held(st) < Word /\ Held(st) + SubsidyAt[n] < Word
    BY <1>0, <2>1, BlockAt, ZenonT(60)
  <2>3. Replay(SubSeq(ch, 1, n + 1)) = ApplyBlock(st, b, n)
    <3> DEFINE l == n + 1
    <3>1. l \in 1..Len(ch) /\ l - 1 = n
      BY <1>1
    <3> HIDE DEF l
    <3>2. Replay(SubSeq(ch, 1, l)) = ApplyBlock(Replay(SubSeq(ch, 1, l - 1)), ch[l], l - 1)
      BY <3>1, ReplayNext
    <3>3. ch[l] = b
      BY <1>0 DEF l
    <3>4. Replay(SubSeq(ch, 1, l)) = ApplyBlock(st, b, n)
      BY <1>0, <3>1, <3>2, <3>3
    <3> QED BY <3>4 DEF l
  <2> QED BY <1>17, <2>2, <2>3
<1>3. /\ after \in States
      /\ \A a \in Addr : next[a].balance
           = after[a].balance + Gain(a, b.miner, SubsidyAt[n] + TotalFees(b))
  <2> HIDE DEF next
  <2> QED BY <1>2, BlockHeld DEF after
<1>4. g[n] = SubsidyAt[n] + TotalFees(b) /\ g[n] \in Nat
  <2>1. g[n] = SubsidyAt[n] + TotalFees(b)
    BY <1>0, <1>1, <1>2 DEF RewardOf
  <2>2. g[n] \in Nat
    BY <1>2, RewardBound DEF Bounded
  <2> QED BY <2>1, <2>2
<1> SUFFICES ASSUME NEW a \in Addr
             PROVE  next[a].balance >= SumFunctionOnSet(g, Window(ch, n + 1, a))
  BY DEF Locked
<1> DEFINE W == Window(ch, n, a)
           Y == Young(c, a, n)
           V == Window(ch, n + 1, a) \ {n}
           U == Window(ch, n + 1, a)
           m == n + 1
<1>5. W \subseteq 0..n /\ Y \subseteq 0..n /\ V \subseteq 0..n /\ U \subseteq 0..n
  <2>1. MaturityHeight \in Nat /\ CoinbaseMaturity \in Nat
    BY LedgerAssumption
  <2>2. \A k \in MaturityHeight..(n + 1) - 1 : k \in 0..n
    BY <1>1, <2>1
  <2>3. \A k \in MaturityHeight..n - 1 : k \in 0..n
    BY <1>1, <2>1
  <2>4. \A k \in (IF n > CoinbaseMaturity THEN n - CoinbaseMaturity + 1 ELSE 0)..n - 1 : k \in 0..n
    BY <1>1, <2>1
  <2>5. W \subseteq 0..n
    BY <2>3 DEF Window
  <2>6. U \subseteq 0..n /\ V \subseteq U
    BY <2>2 DEF Window
  <2>7. Y \subseteq 0..n
    BY <2>4 DEF Young
  <2> QED BY <2>5, <2>6, <2>7
<1>6. V \subseteq W /\ V \subseteq Y
  <2>1. MaturityHeight \in Nat /\ CoinbaseMaturity \in Nat
    BY LedgerAssumption
  <2>2. ASSUME NEW k \in V
        PROVE  /\ k \in MaturityHeight..n - 1 /\ k >= n - CoinbaseMaturity /\ k \in 0..n - 1
               /\ k \in (IF n > CoinbaseMaturity THEN n - CoinbaseMaturity + 1 ELSE 0)..n - 1
               /\ ch[k + 1].miner = a
    <3>1. k \in MaturityHeight..(n + 1) - 1 /\ k >= (n + 1) - CoinbaseMaturity /\ ch[k + 1].miner = a /\ k # n
      BY DEF Window
    <3> QED BY <1>1, <2>1, <3>1
  <2>3. V \subseteq W
    BY <2>2 DEF Window
  <2>4. ASSUME NEW k \in V
        PROVE  k \in Y
    <3>1. /\ k \in 0..n - 1 /\ ch[k + 1].miner = a
          /\ k \in (IF n > CoinbaseMaturity THEN n - CoinbaseMaturity + 1 ELSE 0)..n - 1
      BY <2>2
    <3>2. k < n /\ k + 1 \in 1..n
      BY <1>1, <3>1
    <3>3. c[k + 1] = ch[k + 1]
      BY <1>0, <1>1, <3>2, PrefixOf
    <3>4. k < Len(c)
      BY <1>2, <3>2
    <3> QED BY <3>1, <3>3, <3>4 DEF Young
  <2> HIDE DEF V, W, Y
  <2> QED BY <2>3, <2>4
<1>7. Rewarded(g, c, Y, all)
  <2>1. Bounded(g, all)
    BY RewardBound
  <2>2. ASSUME NEW k \in Y
        PROVE  g[k] = SubsidyAt[k] + TotalFees(c[k + 1]) /\ k \in 0..MaxHeight
    <3>1. k < n /\ k + 1 \in 1..n /\ k \in 0..MaxHeight
      <4>1. k \in 0..MaxHeight /\ k + 1 \in 1..Len(c)
        BY <1>1, <1>2, ImmatureRuns
      <4>2. k + 1 \in 1..n
        BY <1>2, <4>1
      <4> QED BY <4>1, <4>2
    <3>2. c[k + 1] = ch[k + 1]
      BY <1>0, <1>1, <3>1, PrefixOf
    <3>3. k < Len(ch)
      BY <1>0, <1>1, <3>1
    <3>4. g[k] = SubsidyAt[k] + TotalFees(ch[k + 1])
      BY <3>1, <3>3 DEF RewardOf
    <3> QED BY <3>1, <3>2, <3>4
  <2> HIDE DEF g, all, Y
  <2> QED BY <2>1, <2>2 DEF Rewarded, Bounded
<1>8. Immature(c, a, n) = SumFunctionOnSet(g, Y)
  <2>1. all \in Nat /\ CoinbaseMaturity * all < Word
    BY MintedRises, SupplyAssumption
  <2> HIDE DEF g, all
  <2> QED BY <1>1, <1>2, <1>7, <2>1, ImmatureIs
<1>9. /\ IsFiniteSet(W) /\ Weights(g, W) /\ IsFiniteSet(Y) /\ Weights(g, Y)
      /\ IsFiniteSet(V) /\ Weights(g, V) /\ IsFiniteSet(U) /\ Weights(g, U)
  <2> HIDE DEF W, Y, V, U
  <2> QED BY <1>1, <1>5, WindowOK
<1> DEFINE w == SumFunctionOnSet(g, V)
           u == SumFunctionOnSet(g, U)
<1>10. w <= SumFunctionOnSet(g, W) /\ w <= SumFunctionOnSet(g, Y) /\ w \in Nat
       /\ SumFunctionOnSet(g, W) \in Nat
  <2> HIDE DEF W, Y, V, g
  <2> QED BY <1>6, <1>9, SumSubset
<1>11. st[a].balance >= SumFunctionOnSet(g, W)
  BY <1>0 DEF Locked
<1>12. after[a].balance >= w
  <2>1. st[a].balance \in Int
    BY <1>2 DEF States, Amount
  <2> DEFINE y == st[a].balance
             z == SumFunctionOnSet(g, W)
  <2>2. y >= z /\ w <= z /\ y \in Int /\ z \in Nat /\ w \in Nat
    BY <1>10, <1>11, <2>1
  <2> HIDE DEF w, y, z
  <2>3. y >= w
    BY <2>2
  <2> HIDE DEF g, Y
  <2>4. Immature(c, a, Len(c)) >= w
    <3>1. SumFunctionOnSet(g, Y) >= w
      <4>1. SumFunctionOnSet(g, Y) \in Nat
        BY <1>9, SumNat
      <4> QED BY <1>10, <4>1
    <3> QED BY <1>2, <1>8, <3>1
  <2> QED BY <1>2, <1>10, <2>3, <2>4, BodyLeaves DEF y, after
<1>13. after[a].balance \in Nat
  BY <1>3 DEF States, Amount
<1>14. u \in Nat
  <2> HIDE DEF g, U
  <2> QED BY <1>9, SumNat
<1>15. CASE n \in U
  <2>1. b.miner = a
    BY <1>0, <1>15 DEF Window
  <2>2. u = g[n] + w
    <3>1. V = U \ {n}
      OBVIOUS
    <3>2. Summands(g, U)
      BY <1>9 DEF Weights, Summands
    <3> HIDE DEF U, V, g
    <3> QED BY <1>9, <1>15, <3>1, <3>2, SumWithout
  <2>3. next[a].balance = after[a].balance + g[n]
    <3> HIDE DEF next, g
    <3> QED BY <1>3, <1>4, <2>1 DEF Gain
  <2> HIDE DEF u, w, next, g
  <2>4. next[a].balance >= u
    BY <1>4, <1>10, <1>12, <1>13, <2>2, <2>3
  <2> QED BY <2>4 DEF u, next, g
<1>16. CASE n \notin U
  <2>1. u = w
    <3>1. V = U
      BY <1>16
    <3> HIDE DEF U, V, g
    <3> QED BY <3>1
  <2>2. next[a].balance = after[a].balance + Gain(a, b.miner, g[n])
    <3> HIDE DEF next, g
    <3> QED BY <1>3, <1>4
  <2>3. Gain(a, b.miner, g[n]) \in Nat
    <3> HIDE DEF g
    <3> QED BY <1>4 DEF Gain
  <2> DEFINE r == Gain(a, b.miner, g[n])
  <2> HIDE DEF u, w, next, g, r
  <2>4. next[a].balance >= u
    BY <1>10, <1>12, <1>13, <2>1, <2>2, <2>3 DEF r
  <2> QED BY <2>4 DEF u, next, g
<1> QED BY <1>15, <1>16

(* From the maturity rule on, on every valid chain. *)
LEMMA ChainLocked ==
  ASSUME NEW ch \in Seq(Body), ChainValid(ch), Len(ch) <= MaxHeight
  PROVE  \A n \in 0..Len(ch) : n >= MaturityHeight => Locked(ch, n)
<1> DEFINE k == Len(ch)
           S == {n \in 0..k : n >= MaturityHeight => Locked(ch, n)}
<1>1. k \in Nat /\ MaturityHeight \in Nat
  BY LedgerAssumption
<1>2. ASSUME NEW n \in 0..k, n = MaturityHeight
      PROVE  Locked(ch, n)
  <2> SUFFICES ASSUME NEW a \in Addr
               PROVE  Replay(SubSeq(ch, 1, n))[a].balance >= SumFunctionOnSet(RewardOf(ch), Window(ch, n, a))
    BY DEF Locked
  <2> DEFINE W == Window(ch, n, a)
             c == SubSeq(ch, 1, n)
             g == RewardOf(ch)
  <2>1. W = {}
    <3>1. MaturityHeight..n - 1 = {}
      BY <1>1, <1>2
    <3> QED BY <3>1 DEF Window
  <2> HIDE DEF W, g
  <2>2. SumFunctionOnSet(g, W) = 0
    BY <2>1, FS_EmptySet, SumZero
  <2>3. Replay(c)[a].balance \in Amount
    <3>1. c \in Seq(Body) /\ Len(c) = n /\ n <= MaxHeight
      <4>1. c \in Seq(Body) /\ Len(c) = n
        BY PrefixOf
      <4>2. k <= MaxHeight /\ MaxHeight \in Nat
        BY LedgerAssumption
      <4> HIDE DEF k, c
      <4>3. n <= MaxHeight
        BY <1>1, <4>2
      <4> QED BY <4>1, <4>3
    <3> HIDE DEF c
    <3>2. Fits(c, 0) /\ c \in Seq(Blocks)
      <4>1. Len(c) \in Nat
        BY <3>1
      <4>2. 0 + Len(c) <= MaxHeight + 1
        BY <3>1, <4>1, LedgerAssumption
      <4> QED BY <3>1, <4>2, BodyBlocks DEF Fits
    <3>3. Replay(c) \in States
      BY <3>2, EmptyStateType, AdvanceType DEF Replay
    <3> QED BY <3>3 DEF States
  <2> HIDE DEF c
  <2> QED BY <2>2, <2>3 DEF Amount, W, c, g
<1>3. 0 \in S
  <2>1. 0 \in 0..k
    BY <1>1
  <2>2. 0 >= MaturityHeight => 0 = MaturityHeight
    BY <1>1
  <2> HIDE DEF k
  <2> QED BY <1>2, <2>1, <2>2
<1>4. ASSUME NEW n \in 0..k - 1, n \in S
      PROVE  n + 1 \in S
  <2> DEFINE m == n + 1
  <2>1. m \in 0..k /\ n \in Int /\ n \in 0..Len(ch) - 1
    BY <1>1
  <2>2. CASE n >= MaturityHeight
    <3>1. Locked(ch, n + 1)
      BY <1>4, <2>1, <2>2, LockedNext
    <3> QED BY <2>1, <3>1
  <2>3. CASE ~(n >= MaturityHeight)
    <3>1. m >= MaturityHeight => m = MaturityHeight
      BY <1>1, <2>1, <2>3
    <3> HIDE DEF m, k
    <3>2. m >= MaturityHeight => Locked(ch, m)
      BY <1>2, <2>1, <3>1
    <3> QED BY <2>1, <3>2 DEF m
  <2> QED BY <2>2, <2>3
<1>5. 0..k \subseteq S
  <2> HIDE DEF S, k
  <2> QED BY <1>1, <1>3, <1>4, InductionUpTo
<1> QED BY <1>5

(* Once the maturity rule has applied to every reward still young, each    *)
(* account still holds all its young rewards: the check a block applies to *)
(* its body, on a state without its coinbase, never lets one be spent.     *)
THEOREM RewardsAlwaysStayLocked == Spec => []RewardsStayLocked
<1>1. MemInv => RewardsStayLocked
  <2> SUFFICES ASSUME MemInv, Len(chain) >= MaturityHeight + CoinbaseMaturity, NEW a \in Addr
               PROVE  state[a].balance >=
                        SumFunction([k \in {k \in Len(chain) - CoinbaseMaturity..Len(chain) - 1 :
                                              chain[k + 1].miner = a} |->
                                       SubsidyAt[k] + TotalFees(chain[k + 1])])
    BY DEF RewardsStayLocked
  <2> DEFINE l == Len(chain)
             T == {k \in l - CoinbaseMaturity..l - 1 : chain[k + 1].miner = a}
             h == [k \in T |-> SubsidyAt[k] + TotalFees(chain[k + 1])]
             g == RewardOf(chain)
  <2>1. /\ chain \in Seq(Body) /\ ChainValid(chain) /\ state = Replay(chain) /\ l <= MaxHeight /\ l \in 0..l
        /\ MaturityHeight \in Nat /\ CoinbaseMaturity \in Nat /\ l \in Nat /\ MaxHeight \in Nat
        /\ l >= MaturityHeight + CoinbaseMaturity
    BY LedgerAssumption DEF MemInv, LedgerInv, LedgerIsReplay
  <2>2. Locked(chain, l)
    <3>1. l >= MaturityHeight
      <4> HIDE DEF l
      <4> QED BY <2>1
    <3> QED BY <2>1, <3>1, ChainLocked
  <2>3. SubSeq(chain, 1, l) = chain
    BY <2>1, SubSeqFull
  <2>4. T = Window(chain, l, a)
    <3>1. \A k \in Int : k \in l - CoinbaseMaturity..l - 1
                           <=> k \in MaturityHeight..l - 1 /\ k >= l - CoinbaseMaturity
      <4> HIDE DEF l
      <4> QED BY <2>1
    <3> QED BY <3>1 DEF Window
  <2>5. state[a].balance >= SumFunctionOnSet(g, T)
    <3> HIDE DEF T
    <3> QED BY <2>1, <2>2, <2>3, <2>4 DEF Locked
  <2>6. ASSUME NEW k \in T
        PROVE  k < l /\ k \in 0..MaxHeight /\ k \in 0..l
    <3>1. k \in l - CoinbaseMaturity..l - 1
      OBVIOUS
    <3> HIDE DEF l, T
    <3> QED BY <2>1, <3>1
  <2>7. SameOn(g, h, T)
    <3>1. ASSUME NEW k \in T
          PROVE  g[k] = h[k]
      <4>1. g[k] = SubsidyAt[k] + TotalFees(chain[k + 1])
        BY <2>6 DEF RewardOf
      <4>2. h[k] = SubsidyAt[k] + TotalFees(chain[k + 1])
        OBVIOUS
      <4> QED BY <4>1, <4>2
    <3> HIDE DEF T, h, g
    <3> QED BY <3>1 DEF SameOn
  <2>8. SumFunction(h) = SumFunctionOnSet(h, T)
    <3>1. DOMAIN h = T
      OBVIOUS
    <3> HIDE DEF h
    <3> QED BY <3>1 DEF SumFunction
  <2> HIDE DEF T, h
  <2>9. IsFiniteSet(T) /\ Weights(g, T)
    <3>1. T \subseteq 0..l
      BY <2>6
    <3> QED BY <2>1, <3>1, WindowOK
  <2> HIDE DEF g
  <2>10. SumFunctionOnSet(g, T) = SumFunctionOnSet(h, T)
    <3>1. Summands(g, T)
      BY <2>9 DEF Weights, Summands
    <3> QED BY <2>7, <2>9, <3>1, SumSame
  <2>11. state[a].balance >= SumFunction(h)
    BY <2>5, <2>8, <2>10
  <2> QED BY <2>11 DEF h, T
<1> QED BY <1>1, MemInvHolds, PTL
-----------------------------------------------------------------------------
(* What the pool holds can be paid for. *)

(* The hypothesis of this part: the costs that MaxPerSender transactions   *)
(* can add up to fit a uint64, so that the running sum of                  *)
(* validateMempoolTxLocked does not wrap.  The code does not ensure it.    *)
CostsFit == \E k \in Nat : MaxPerSender * k < Word /\ \A t \in Txs : Cost(t) <= k

Walk == [nonce : Nat, spent : Amount]

(* The next of a walk over the pooled transactions of a sender. *)
NextAcc(acc, t) ==
  IF t.nonce # acc.nonce THEN acc
  ELSE [nonce |-> acc.nonce + 1, spent |-> (acc.spent + Cost(t)) % Word]

(* The walk of validateMempoolTxLocked. *)
LEMMA FrontierRuns ==
  ASSUME NEW p, NEW st \in States, NEW a \in Addr, p.bySender[a] \in Seq(Txs)
  PROVE  \E f \in [0..Len(p.bySender[a]) -> Walk] :
           /\ f[0] = [nonce |-> st[a].nonce, spent |-> 0]
           /\ \A n \in 1..Len(p.bySender[a]) : f[n] = NextAcc(f[n - 1], p.bySender[a][n])
           /\ Frontier(p, st, a) = f[Len(p.bySender[a])]
<1> DEFINE s == p.bySender[a]
           k == Len(s)
           base == [nonce |-> st[a].nonce, spent |-> 0]
           step == [n \in 1..k |-> [x \in Walk |-> NextAcc(x, s[n])]]
           IsRun(r) == r = [n \in 0..k |-> IF n = 0 THEN base ELSE NextAcc(r[n - 1], s[n])]
           Raw(r) == r = [i \in 0..Len(s) |->
                            IF i = 0 THEN [nonce |-> st[a].nonce, spent |-> 0]
                            ELSE LET acc == r[i - 1]
                                 IN  IF s[i].nonce # acc.nonce THEN acc
                                     ELSE [nonce |-> acc.nonce + 1,
                                           spent |-> (acc.spent + Cost(s[i])) % Word]]
           run == CHOOSE r : Raw(r)
<1>1. k \in Nat /\ \A n \in 1..k : s[n] \in Txs
  OBVIOUS
<1>2. step \in [1..k -> [Walk -> Walk]]
  <2>1. ASSUME NEW n \in 1..k, NEW x \in Walk
        PROVE  NextAcc(x, s[n]) \in Walk
    <3>1. s[n] \in Tx
      BY <1>1, MempoolAssumption
    <3>2. x.nonce + 1 \in Nat /\ x.spent + Cost(s[n]) \in Int
      <4>1. x.nonce \in Nat /\ x.spent \in Int
        BY LedgerAssumption DEF Walk, Amount
      <4>2. Cost(s[n]) \in Int
        BY <3>1, CostType, LedgerAssumption DEF Amount
      <4> QED BY <4>1, <4>2
    <3>3. (x.spent + Cost(s[n])) % Word \in Amount
      BY <3>2, AmountMod
    <3> QED BY <3>2, <3>3 DEF NextAcc, Walk
  <2> QED BY <2>1
<1>3. base \in Walk
  BY ZeroAmount DEF Walk, States
<1>4. PICK f : Loops(f, k, Walk, base, step)
  <2> HIDE DEF k, step, base
  <2> QED BY <1>1, <1>2, <1>3, LoopExists
<1>5. ASSUME NEW n \in 1..k
      PROVE  f[n] = NextAcc(f[n - 1], s[n])
  <2>1. f[n] = step[n][f[n - 1]] /\ f[n - 1] \in Walk
    <3> HIDE DEF step, k, base
    <3> QED BY <1>1, <1>4 DEF Loops
  <2> QED BY <2>1
<1>6. IsRun(f)
  <2> HIDE DEF k, step, s, base
  <2>1. f = [n \in 0..k |-> f[n]]
    BY <1>4 DEF Loops
  <2>2. ASSUME NEW n \in 0..k
        PROVE  f[n] = IF n = 0 THEN base ELSE NextAcc(f[n - 1], s[n])
    <3>1. CASE n = 0
      BY <1>4, <3>1 DEF Loops
    <3>2. CASE n # 0
      <4>1. n \in 1..k
        BY <1>1, <3>2
      <4> QED BY <1>5, <3>2, <4>1
    <3> QED BY <3>1, <3>2
  <2> QED BY <2>1, <2>2
<1>7. \A r : Raw(r) <=> IsRun(r)
  BY DEF NextAcc
<1>8. IsRun(run)
  <2>1. Raw(f)
    BY <1>6, <1>7
  <2>2. Raw(run)
    <3> HIDE DEF Raw
    <3> QED BY <2>1
  <2> HIDE DEF run, Raw, IsRun
  <2> QED BY <1>7, <2>2
<1>9. Frontier(p, st, a) = run[k]
  BY DEF Frontier
<1>10. run[0] = base /\ \A n \in 1..k : run[n] = NextAcc(run[n - 1], s[n])
  <2> HIDE DEF run, k, s, base
  <2>1. \A n \in 0..k : run[n] = IF n = 0 THEN base ELSE NextAcc(run[n - 1], s[n])
    BY <1>8
  <2>2. 0 \in 0..k /\ \A n \in 1..k : n \in 0..k /\ n # 0
    BY <1>1
  <2> QED BY <2>1, <2>2
<1>11. run[k] = f[k]
  <2> HIDE DEF run, k, base, s
  <2>1. Tracks(run, f, k)
    BY <1>4, <1>5, <1>10 DEF Tracks, Loops
  <2> QED BY <1>1, <2>1, LoopUnique
<1> HIDE DEF run
<1> QED BY <1>4, <1>5, <1>9, <1>11 DEF Loops

(* A remainder is no larger than what it is of. *)
LEMMA ModLower == \A i \in Nat : i % Word <= i /\ i % Word \in Nat
<1> SUFFICES ASSUME NEW i \in Nat
             PROVE  i % Word <= i /\ i % Word \in Nat
  OBVIOUS
<1>1. i % Word \in Amount
  BY AmountMod
<1>2. CASE i < Word
  <2>1. i \in Amount
    BY <1>2, LedgerAssumption DEF Amount
  <2>2. i % Word = i
    BY <2>1, ModSmall
  <2> QED BY <2>2
<1>3. CASE i >= Word
  <2> DEFINE r == i % Word
  <2>1. r \in 0..Word - 1
    BY <1>1 DEF Amount
  <2> HIDE DEF r
  <2>2. r <= i /\ r \in Nat
    BY <1>3, <2>1, LedgerAssumption
  <2> QED BY <2>2 DEF r
<1> QED BY <1>2, <1>3, LedgerAssumption

(* Each pooled transaction adds at most its own cost. *)
LEMMA FrontierBelow ==
  ASSUME NEW p, NEW st \in States, NEW a \in Addr, p.bySender[a] \in Seq(Txs),
         NEW k \in Nat, \A t \in Txs : Cost(t) <= k
  PROVE  /\ Frontier(p, st, a) \in Walk
         /\ Frontier(p, st, a).spent <= Len(p.bySender[a]) * k
         /\ Frontier(p, st, a).nonce >= st[a].nonce
<1> DEFINE s == p.bySender[a]
           l == Len(s)
<1>1. l \in Nat /\ \A n \in 1..l : s[n] \in Txs
  OBVIOUS
<1>2. PICK f \in [0..l -> Walk] :
        /\ f[0] = [nonce |-> st[a].nonce, spent |-> 0]
        /\ \A n \in 1..l : f[n] = NextAcc(f[n - 1], s[n])
        /\ Frontier(p, st, a) = f[l]
  BY FrontierRuns
<1> DEFINE S == {n \in 0..l : f[n].spent <= n * k /\ f[n].nonce >= st[a].nonce}
<1>3. st[a].nonce \in Nat
  BY DEF States
<1> HIDE DEF l, s
<1>4. 0 \in S
  BY <1>1, <1>2, <1>3
<1>5. ASSUME NEW n \in 0..l - 1, n \in S
      PROVE  n + 1 \in S
  <2>1. n + 1 \in 1..l /\ n \in 0..l /\ n + 1 \in 0..l /\ (n + 1) - 1 = n /\ n \in Nat
    BY <1>1
  <2>2. f[n + 1] = NextAcc(f[n], s[n + 1])
    BY <1>2, <2>1
  <2> DEFINE c == Cost(s[n + 1])
             x == f[n].spent
             y == n * k
             z == (n + 1) * k
  <2>3. c \in Amount /\ c <= k
    <3>1. s[n + 1] \in Txs
      BY <1>1, <2>1
    <3> QED BY <3>1, CostType, MempoolAssumption
  <2>4. x \in Amount /\ f[n].nonce \in Nat
    <3>1. f[n] \in Walk
      BY <1>2, <2>1
    <3> QED BY <3>1 DEF Walk
  <2>5. y \in Nat /\ z = y + k /\ x <= y /\ f[n].nonce >= st[a].nonce
    BY <1>5, <2>1
  <2> HIDE DEF y, z
  <2>6. x + c <= z /\ x <= z /\ x + c \in Nat
    BY <2>3, <2>4, <2>5 DEF Amount
  <2>7. (x + c) % Word <= x + c /\ (x + c) % Word \in Nat
    <3> DEFINE v == x + c
    <3>1. v \in Nat
      BY <2>6
    <3> HIDE DEF v
    <3>2. v % Word <= v /\ v % Word \in Nat
      BY <3>1, ModLower
    <3> QED BY <3>2 DEF v
  <2>8. CASE s[n + 1].nonce # f[n].nonce
    <3>1. f[n + 1] = f[n]
      BY <2>2, <2>8 DEF NextAcc
    <3> QED BY <2>1, <2>5, <2>6, <3>1 DEF z
  <2>9. CASE s[n + 1].nonce = f[n].nonce
    <3>1. f[n + 1].spent = (x + c) % Word /\ f[n + 1].nonce = f[n].nonce + 1
      BY <2>2, <2>9 DEF NextAcc
    <3>2. f[n + 1].spent <= z
      <4> HIDE DEF x, c
      <4>1. z \in Int
        BY <2>5
      <4> QED BY <2>6, <2>7, <3>1, <4>1
    <3>3. f[n + 1].nonce >= st[a].nonce
      BY <1>3, <2>4, <2>5, <3>1
    <3> QED BY <2>1, <3>2, <3>3 DEF z
  <2> QED BY <2>8, <2>9
<1>6. l \in S
  <2> HIDE DEF S
  <2>1. 0..l \subseteq S
    BY <1>1, <1>4, <1>5, InductionUpTo
  <2> QED BY <1>1, <2>1
<1> QED BY <1>1, <1>2, <1>6 DEF l, s

Funded(st, p) == \A t \in p.txs : ~Stale(st, t)

(* What AddTx admits its sender can pay for. *)
LEMMA AdmitsFunded ==
  ASSUME CostsFit, NEW c \in Seq(Body), Len(c) <= MaxHeight, NEW st \in States,
         NEW p, PoolOK(p), NEW t \in Txs, Admits(c, st, p, t)
  PROVE  ~Stale(st, t)
<1> DEFINE a == t.from
           s == p.bySender[a]
           next == Frontier(p, st, a)
           cost == Cost(t)
           avail == Available(c, st, a)
<1>1. t \in Tx /\ a \in Addr /\ cost \in Amount /\ t.nonce \in Nat
  <2>1. t \in Tx
    BY MempoolAssumption
  <2> QED BY <2>1, CostType DEF Tx
<1>2. s \in Seq(Txs)
  BY <1>1 DEF PoolOK, Pools
<1>3. PICK k \in Nat : MaxPerSender * k < Word /\ \A u \in Txs : Cost(u) <= k
  BY DEF CostsFit
<1>4. next \in Walk /\ next.spent <= Len(s) * k
  BY <1>1, <1>2, <1>3, FrontierBelow
<1>5. /\ t.nonce >= st[a].nonce /\ Len(s) < MaxPerSender
      /\ IF t.nonce = next.nonce THEN avail >= (next.spent + cost) % Word ELSE avail >= cost
  BY DEF Admits
<1>6. (next.spent + cost) % Word = next.spent + cost /\ next.spent + cost >= cost
  <2> DEFINE x == next.spent
             l == Len(s)
             y == l * k
             z == MaxPerSender * k
  <2>1. x \in Amount /\ x <= y /\ l \in Nat /\ l < MaxPerSender
    BY <1>2, <1>4, <1>5 DEF Walk
  <2>2. y + k <= z /\ y \in Nat /\ z \in Nat
    <3>1. PICK d \in Nat : MaxPerSender = l + 1 + d
      <4> HIDE DEF l
      <4>1. MaxPerSender - l - 1 \in Nat /\ MaxPerSender = l + 1 + (MaxPerSender - l - 1)
        BY <2>1, MempoolAssumption
      <4> QED BY <4>1
    <3>2. z = y + k + d * k /\ d * k \in Nat /\ y \in Nat
      <4> HIDE DEF l
      <4> QED BY <1>3, <2>1, <3>1
    <3> HIDE DEF y, z
    <3> QED BY <1>3, <3>2
  <2>3. cost <= k /\ z < Word
    BY <1>3
  <2> HIDE DEF x, y, z, cost
  <2>4. x + cost \in Amount /\ x + cost >= cost
    BY <1>1, <1>3, <2>1, <2>2, <2>3, LedgerAssumption DEF Amount
  <2>5. (x + cost) % Word = x + cost
    BY <2>4, ModSmall
  <2> QED BY <2>4, <2>5 DEF x
<1>7. st[a].balance >= cost
  <2>1. CASE t.nonce = next.nonce
    <3>1. avail >= next.spent + cost /\ next.spent + cost \in Amount
      <4>1. (next.spent + cost) % Word \in Amount
        <5>1. next.spent \in Int /\ cost \in Int
          BY <1>1, <1>4 DEF Walk, Amount
        <5> HIDE DEF next, cost
        <5> QED BY <5>1, AmountMod
      <4> HIDE DEF next, cost, avail
      <4> QED BY <1>5, <1>6, <2>1, <4>1
    <3>2. st[a].balance >= next.spent + cost
      <4> DEFINE sum == next.spent + cost
      <4>1. avail >= sum /\ sum \in Amount
        BY <3>1
      <4> HIDE DEF sum
      <4>2. st[a].balance >= sum
        BY <1>1, <4>1, SpendsHeld
      <4> QED BY <4>2 DEF sum
    <3>3. st[a].balance \in Int
      BY <1>1 DEF States, Amount
    <3>4. next.spent + cost \in Int /\ cost \in Int
      BY <1>1, <3>1 DEF Amount
    <3> HIDE DEF next, cost, avail, a
    <3> QED BY <1>6, <3>2, <3>3, <3>4
  <2>2. CASE t.nonce # next.nonce
    <3>1. avail >= cost
      BY <1>5, <2>2
    <3> HIDE DEF cost
    <3> QED BY <1>1, <3>1, SpendsHeld DEF avail
  <2> QED BY <2>1, <2>2
<1>8. st[a].balance \in Int /\ cost \in Int /\ st[a].nonce \in Int /\ t.nonce \in Int
  BY <1>1 DEF States, Amount
<1> QED BY <1>5, <1>7, <1>8 DEF Stale

(* AddTx keeps the pool funded: what a refused replacement puts back was. *)
LEMMA AfterAddTxFunded ==
  ASSUME CostsFit, NEW c \in Seq(Body), Len(c) <= MaxHeight, NEW st \in States,
         NEW p, PoolOK(p), Funded(st, p), NEW t \in Txs
  PROVE  Funded(st, AfterAddTx(c, st, p, t))
<1> DEFINE m == CHOOSE m \in Rivals(p, t) : TRUE
           rest == mpDel(p, m)
           q == AfterAddTx(c, st, p, t)
<1>1. \A r, x : mpAdd(r, x).txs = r.txs \cup {x}
  BY DEF mpAdd
<1>2. rest.txs = p.txs \ {m} /\ PoolOK(rest)
  BY mpDelAllKeeps DEF mpDel
<1>3. CASE q = p
  BY <1>3
<1>4. CASE Rivals(p, t) # {} /\ Admits(c, st, rest, t) /\ q = mpAdd(rest, t)
  <2>1. ~Stale(st, t)
    <3> HIDE DEF rest
    <3> QED BY <1>2, <1>4, AdmitsFunded
  <2> HIDE DEF rest, q
  <2> QED BY <1>1, <1>2, <1>4, <2>1 DEF Funded, q
<1>5. CASE Rivals(p, t) # {} /\ q = mpAdd(rest, m)
  <2>1. m \in p.txs
    BY <1>5 DEF Rivals
  <2> HIDE DEF rest, q, m
  <2> QED BY <1>1, <1>2, <1>5, <2>1 DEF Funded, q
<1>6. CASE Admits(c, st, p, t) /\ q = mpAdd(p, t)
  <2>1. ~Stale(st, t)
    BY <1>6, AdmitsFunded
  <2> HIDE DEF q
  <2> QED BY <1>1, <1>6, <2>1 DEF Funded, q
<1> QED BY <1>3, <1>4, <1>5, <1>6 DEF AfterAddTx

(* So does the reload of a restart. *)
LEMMA LoadMempoolFunded ==
  ASSUME CostsFit, NEW c \in Seq(Body), Len(c) <= MaxHeight, NEW st \in States,
         NEW T \in SUBSET Txs, IsFiniteSet(T)
  PROVE  Funded(st, LoadMempool(c, st, T))
<1> DEFINE V == {p \in Pools : PoolOK(p) /\ Funded(st, p)}
<1>1. \A q : q \in V <=> PoolOK(q) /\ Funded(st, q)
  BY DEF PoolOK
<1> HIDE DEF V
<1>2. EmptyPool \in V
  <2>1. Funded(st, EmptyPool)
    BY DEF Funded, EmptyPool
  <2> QED BY <1>1, <2>1, EmptyPoolOK
<1>3. \A p \in V, t \in T : AfterAddTx(c, st, p, t) \in V
  BY <1>1, AfterAddTxKeeps, AfterAddTxFunded
<1> QED BY <1>1, <1>2, <1>3, LoadMempoolIn

StateTyped ==
  /\ chain \in Seq(Body) /\ Len(chain) <= MaxHeight /\ state \in States
  /\ PoolOK(pool)

(* The state of a valid chain has its types. *)
LEMMA StateType == MemInv => StateTyped
<1> SUFFICES ASSUME MemInv
             PROVE  StateTyped
  OBVIOUS
<1>1. /\ chain \in Seq(Body) /\ Len(chain) \in 1..MaxHeight /\ state = Replay(chain)
      /\ PoolOK(pool)
  BY DEF MemInv, LedgerInv, PoolInv, LedgerIsReplay
<1>2. Len(chain) <= MaxHeight /\ Fits(chain, 0)
  BY <1>1, LedgerAssumption DEF Fits
<1>3. state \in States
  <2>1. chain \in Seq(Blocks)
    BY <1>1, BodyBlocks
  <2> QED BY <1>1, <1>2, <2>1, AdvanceType, EmptyStateType DEF Replay
<1> QED BY <1>1, <1>2, <1>3 DEF StateTyped

(* If running sums do not wrap, no pooled transaction is already spent or  *)
(* dearer than the whole balance of its sender, whatever blocks, reorgs,   *)
(* replacements and restarts the pool went through.                        *)
THEOREM PoolAlwaysFundable ==
  ASSUME CostsFit
  PROVE  Spec => []PoolFundable
<1>1. PoolFundable = Funded(state, pool)
  BY DEF PoolFundable, Funded
<1>2. Init => PoolFundable
  BY DEF Init, EmptyPool, PoolFundable
<1>3. MemInv' => StateTyped'
  BY StateType, PTL
<1>4. MemInv /\ MemInv' /\ PoolFundable /\ [Next]_vars => PoolFundable'
  <2> SUFFICES ASSUME MemInv, MemInv', PoolFundable, [Next]_vars
               PROVE  \A t \in pool'.txs : ~Stale(state', t)
    BY DEF PoolFundable
  <2>1. \A p : \A t \in Prune(p, state').txs : ~Stale(state', t)
    BY DEF Prune, mpDelAll
  <2>2. ASSUME NEW t \in Txs, AddTx(t)
        PROVE  Funded(state', pool')
    <3>1. pool' = AfterAddTx(chain, state, pool, t) /\ state' = state
      BY <2>2 DEF AddTx
    <3>2. Funded(state, AfterAddTx(chain, state, pool, t))
      BY <1>1, StateType, AfterAddTxFunded DEF StateTyped
    <3> QED BY <3>1, <3>2
  <2>3. ASSUME NEW bs, Extend(bs)
        PROVE  Funded(state', pool')
    BY <2>1, <2>3 DEF Extend, Funded
  <2>4. ASSUME NEW keep, NEW bs, Reorg(keep, bs)
        PROVE  Funded(state', pool')
    BY <2>1, <2>4 DEF Reorg, Funded
  <2>5. CASE SaveMempool
    BY <2>5 DEF SaveMempool, PoolFundable, Funded
  <2>6. CASE Restart
    <3>1. pool' = LoadMempool(chain', state', saved) /\ saved \in SUBSET Txs /\ IsFiniteSet(saved)
      BY <2>6 DEF Restart, MemInv, PoolInv
    <3>2. chain' \in Seq(Body) /\ Len(chain') <= MaxHeight /\ state' \in States
      BY <1>3 DEF StateTyped
    <3>3. Funded(state', LoadMempool(chain', state', saved))
      BY <3>1, <3>2, LoadMempoolFunded
    <3> QED BY <3>1, <3>3 DEF Funded
  <2>7. CASE UNCHANGED vars
    BY <2>7 DEF vars, PoolFundable, Funded
  <2> QED BY <2>2, <2>3, <2>4, <2>5, <2>6, <2>7 DEF Next, MineTemplate, Funded
<1> QED BY <1>2, <1>4, MemInvHolds, PTL DEF Spec
-----------------------------------------------------------------------------
(* What a restart right after a save keeps. *)

(* A funded run of sender a as a set: one transaction for each nonce from  *)
(* the confirmed one on; spent[n] is what those before nonce n cost.       *)
Runs(run, spent, c, st, a) ==
  /\ run \subseteq Txs
  /\ spent \in [Nat -> Nat] /\ spent[st[a].nonce] = 0
  /\ \A m \in run :
       /\ m.from = a /\ m.nonce >= st[a].nonce
       /\ SignedFor(m, Len(c)) /\ PaysFloor(c, m)
       /\ spent[m.nonce + 1] = spent[m.nonce] + Cost(m)
       /\ spent[m.nonce + 1] <= Available(c, st, a)
       /\ \A k \in st[a].nonce..m.nonce - 1 : \E u \in run : u.nonce = k

(* Such a run, with the next nonce and the sum of a walk that found it.    *)
Account == [nonce : Nat, spent : Nat, run : SUBSET Txs]

Certifies(spent, acc, a) ==
  /\ Runs(acc.run, spent, chain, state, a)
  /\ acc.run \subseteq pool.txs
  /\ acc.nonce >= state[a].nonce /\ acc.spent = spent[acc.nonce]
  /\ \A m \in acc.run : m.nonce < acc.nonce
  /\ \A k \in state[a].nonce..acc.nonce - 1 : \E u \in acc.run : u.nonce = k

(* What FundedRun computes. *)
LEMMA FundedRunRuns ==
  ASSUME NEW a \in Addr, state \in States, pool.bySender[a] \in Seq(Txs)
  PROVE  \E f \in [0..Len(pool.bySender[a]) -> Account] :
           /\ f[0] = [nonce |-> state[a].nonce, spent |-> 0, run |-> {}]
           /\ \A n \in 1..Len(pool.bySender[a]) : f[n] = FundedNext(f[n - 1], pool.bySender[a][n])
           /\ FundedRun(a) = f[Len(pool.bySender[a])].run
<1> DEFINE s == pool.bySender[a]
           k == Len(s)
           base == [nonce |-> state[a].nonce, spent |-> 0, run |-> {}]
           step == [n \in 1..k |-> [x \in Account |-> FundedNext(x, s[n])]]
           IsRun(r) == r = [i \in 0..k |-> IF i = 0 THEN base ELSE FundedNext(r[i - 1], s[i])]
           run == CHOOSE r : IsRun(r)
<1>1. k \in Nat /\ \A n \in 1..k : s[n] \in Txs
  OBVIOUS
<1>2. step \in [1..k -> [Account -> Account]]
  <2>1. ASSUME NEW n \in 1..k, NEW x \in Account
        PROVE  FundedNext(x, s[n]) \in Account
    <3>1. s[n] \in Txs /\ s[n] \in Tx
      BY <1>1, MempoolAssumption
    <3>2. Cost(s[n]) \in Nat
      BY <3>1, CostType, LedgerAssumption DEF Amount
    <3>3. x.nonce + 1 \in Nat /\ x.spent + Cost(s[n]) \in Nat /\ x.run \cup {s[n]} \in SUBSET Txs
      BY <3>1, <3>2 DEF Account
    <3> HIDE DEF s
    <3> QED BY <3>3 DEF FundedNext, Account
  <2> QED BY <2>1
<1>3. base \in Account
  BY DEF Account, States
<1>4. PICK f : Loops(f, k, Account, base, step)
  <2> HIDE DEF k, step, base
  <2> QED BY <1>1, <1>2, <1>3, LoopExists
<1>5. ASSUME NEW n \in 1..k
      PROVE  f[n] = FundedNext(f[n - 1], s[n])
  <2>1. f[n] = step[n][f[n - 1]] /\ f[n - 1] \in Account
    <3> HIDE DEF step, k, base
    <3> QED BY <1>1, <1>4 DEF Loops
  <2> QED BY <2>1
<1>6. IsRun(f)
  <2> HIDE DEF k, step, s, base
  <2>1. f = [n \in 0..k |-> f[n]]
    BY <1>4 DEF Loops
  <2>2. ASSUME NEW n \in 0..k
        PROVE  f[n] = IF n = 0 THEN base ELSE FundedNext(f[n - 1], s[n])
    <3>1. CASE n = 0
      BY <1>4, <3>1 DEF Loops
    <3>2. CASE n # 0
      <4>1. n \in 1..k
        BY <1>1, <3>2
      <4> QED BY <1>5, <3>2, <4>1
    <3> QED BY <3>1, <3>2
  <2> QED BY <2>1, <2>2
<1>7. IsRun(run)
  <2> HIDE DEF IsRun
  <2> QED BY <1>6
<1>8. FundedRun(a) = run[k].run
  BY DEF FundedRun
<1>9. run[0] = base /\ \A n \in 1..k : run[n] = FundedNext(run[n - 1], s[n])
  <2> HIDE DEF run, k, s, base
  <2>1. \A n \in 0..k : run[n] = IF n = 0 THEN base ELSE FundedNext(run[n - 1], s[n])
    BY <1>7
  <2>2. 0 \in 0..k /\ \A n \in 1..k : n \in 0..k /\ n # 0
    BY <1>1
  <2> QED BY <2>1, <2>2
<1>10. run[k] = f[k]
  <2> HIDE DEF run, k, base, s
  <2>1. Tracks(run, f, k)
    BY <1>4, <1>5, <1>9 DEF Tracks, Loops
  <2> QED BY <1>1, <2>1, LoopUnique
<1> HIDE DEF run
<1> QED BY <1>4, <1>5, <1>8, <1>10 DEF Loops

(* One more transaction leaves a certified walk certified. *)
LEMMA FundedStep ==
  ASSUME NEW a \in Addr, state \in States, NEW acc \in Account, NEW m \in Txs,
         m \in pool.txs, m.from = a, NEW g, Certifies(g, acc, a)
  PROVE  \E h : Certifies(h, FundedNext(acc, m), a)
<1> DEFINE n == acc.nonce
           c == Cost(m)
           first == state[a].nonce
           avail == Available(chain, state, a)
           Takes == /\ m.nonce = n
                    /\ SignedFor(m, Len(chain)) /\ PaysFloor(chain, m) /\ Cost(m) >= m.amount
                    /\ acc.spent + c <= avail
<1>1. CASE ~Takes
  <2>1. FundedNext(acc, m) = acc
    BY <1>1 DEF FundedNext
  <2> QED BY <2>1
<1>2. CASE Takes
  <2> DEFINE next == FundedNext(acc, m)
             h == [g EXCEPT ![n + 1] = acc.spent + c]
  <2>1. next = [nonce |-> n + 1, spent |-> acc.spent + c, run |-> acc.run \cup {m}]
    BY <1>2 DEF FundedNext
  <2>2. c \in Nat
    <3>1. m \in Tx
      BY MempoolAssumption
    <3> QED BY <3>1, CostType, LedgerAssumption DEF Amount
  <2>3. /\ n \in Nat /\ first \in Nat /\ n >= first /\ acc.spent \in Nat
        /\ acc.run \subseteq Txs /\ m.nonce = n
    BY <1>2 DEF Account, States, Certifies
  <2>4. /\ g \in [Nat -> Nat] /\ g[first] = 0 /\ g[n] = acc.spent
    BY DEF Certifies, Runs
  <2>5. /\ h \in [Nat -> Nat] /\ h[n + 1] = acc.spent + c
        /\ \A i \in Nat : i # n + 1 => h[i] = g[i]
    <3>1. acc.spent + c \in Nat /\ n + 1 \in Nat
      BY <2>2, <2>3
    <3> HIDE DEF n, c
    <3> QED BY <2>4, <3>1
  <2> HIDE DEF h, next, c, avail
  <2>6. h[first] = 0 /\ h[n] = acc.spent
    BY <2>3, <2>4, <2>5
  <2>7. \A u \in acc.run : u.nonce \in Nat /\ u.nonce < n /\ u \in Txs
    <3>1. \A u \in acc.run : u \in Tx /\ u \in Txs
      BY <2>3, MempoolAssumption
    <3> QED BY <3>1 DEF Certifies, Tx
  <2>8. ASSUME NEW k \in first..n
        PROVE  \E u \in acc.run \cup {m} : u.nonce = k
    <3>1. CASE k = n
      BY <2>3, <3>1
    <3>2. CASE k # n
      <4>1. k \in first..n - 1
        BY <2>3, <3>2
      <4> QED BY <4>1 DEF Certifies
    <3> QED BY <3>1, <3>2
  <2>9. Runs(acc.run \cup {m}, h, chain, state, a)
    <3>1. ASSUME NEW u \in acc.run \cup {m}
          PROVE  /\ u.from = a /\ u.nonce >= first
                 /\ SignedFor(u, Len(chain)) /\ PaysFloor(chain, u)
                 /\ h[u.nonce + 1] = h[u.nonce] + Cost(u)
                 /\ h[u.nonce + 1] <= avail
                 /\ \A k \in first..u.nonce - 1 : \E v \in acc.run \cup {m} : v.nonce = k
      <4>1. CASE u = m
        <5>1. h[n + 1] <= avail /\ h[n + 1] = h[n] + Cost(m)
          BY <1>2, <2>5, <2>6 DEF c
        <5>2. \A k \in first..n - 1 : k \in first..n
          BY <2>3
        <5> QED BY <1>2, <2>3, <2>8, <4>1, <5>1, <5>2
      <4>2. CASE u # m
        <5>1. u \in acc.run /\ u.nonce \in Nat /\ u.nonce < n
          BY <2>7, <4>2
        <5>2. h[u.nonce + 1] = g[u.nonce + 1] /\ h[u.nonce] = g[u.nonce]
          <6>1. u.nonce + 1 \in Nat /\ u.nonce + 1 # n + 1 /\ u.nonce # n + 1
            BY <2>3, <5>1
          <6> QED BY <2>5, <5>1, <6>1
        <5>3. /\ u.from = a /\ u.nonce >= first
              /\ SignedFor(u, Len(chain)) /\ PaysFloor(chain, u)
              /\ g[u.nonce + 1] = g[u.nonce] + Cost(u)
              /\ g[u.nonce + 1] <= avail
              /\ \A k \in first..u.nonce - 1 : \E v \in acc.run : v.nonce = k
          BY <5>1 DEF Certifies, Runs, avail
        <5> QED BY <5>2, <5>3
      <4> QED BY <4>1, <4>2
    <3>2. acc.run \cup {m} \subseteq Txs
      BY <2>3
    <3> QED BY <2>5, <2>6, <3>1, <3>2 DEF Runs, avail
  <2>10. Certifies(h, next, a)
    <3>1. /\ next.run = acc.run \cup {m} /\ next.nonce = n + 1 /\ next.spent = h[n + 1]
      BY <2>1, <2>5
    <3>2. acc.run \subseteq pool.txs
      BY DEF Certifies
    <3>3. \A u \in next.run : u.nonce < n + 1
      BY <2>3, <2>7, <3>1
    <3>4. \A k \in first..(n + 1) - 1 : \E u \in next.run : u.nonce = k
      <4>1. \A k \in first..(n + 1) - 1 : k \in first..n
        BY <2>3
      <4> QED BY <2>8, <3>1, <4>1
    <3>5. n + 1 >= first
      BY <2>3
    <3> QED BY <2>9, <3>1, <3>2, <3>3, <3>4, <3>5 DEF Certifies
  <2> QED BY <2>10 DEF next
<1> QED BY <1>1, <1>2

(* The funded run of a sender is one. *)
LEMMA FundedRunIs ==
  ASSUME NEW a \in Addr, state \in States, PoolOK(pool)
  PROVE  FundedRun(a) \subseteq pool.txs /\ \E g : Runs(FundedRun(a), g, chain, state, a)
<1> DEFINE s == pool.bySender[a]
           k == Len(s)
<1>1. s \in Seq(Txs) /\ Range(s) = {t \in pool.txs : t.from = a}
  BY DEF PoolOK, Listed
<1>2. PICK f \in [0..k -> Account] :
        /\ f[0] = [nonce |-> state[a].nonce, spent |-> 0, run |-> {}]
        /\ \A n \in 1..k : f[n] = FundedNext(f[n - 1], s[n])
        /\ FundedRun(a) = f[k].run
  BY <1>1, FundedRunRuns
<1>3. k \in Nat /\ \A n \in 1..k : s[n] \in Txs /\ s[n] \in pool.txs /\ s[n].from = a
  <2>1. \A n \in 1..k : s[n] \in Range(s)
    BY <1>1 DEF Range
  <2> QED BY <1>1, <2>1
<1> HIDE DEF k, s
<1> DEFINE S == {n \in 0..k : \E g : Certifies(g, f[n], a)}
<1>4. 0 \in S
  <2> DEFINE zero == [n \in Nat |-> 0]
             none == {}
             one == f[0]
  <2>1. state[a].nonce \in Nat /\ one.nonce = state[a].nonce /\ one.spent = 0 /\ one.run = none
    BY <1>2 DEF States
  <2>2. zero \in [Nat -> Nat] /\ zero[state[a].nonce] = 0
    BY <2>1
  <2>3. state[a].nonce..state[a].nonce - 1 = {}
    BY <2>1
  <2> HIDE DEF zero, one
  <2>4. Runs(none, zero, chain, state, a)
    BY <2>2 DEF Runs
  <2>5. Certifies(zero, one, a)
    BY <2>1, <2>2, <2>3, <2>4 DEF Certifies
  <2>6. 0 \in 0..k
    BY <1>3
  <2> QED BY <2>5, <2>6 DEF one
<1>5. ASSUME NEW n \in 0..k - 1, n \in S
      PROVE  n + 1 \in S
  <2>1. n + 1 \in 1..k /\ n + 1 \in 0..k /\ n \in 0..k /\ (n + 1) - 1 = n
    BY <1>3
  <2>2. f[n + 1] = FundedNext(f[n], s[n + 1]) /\ f[n] \in Account
    BY <1>2, <2>1
  <2>3. PICK g : Certifies(g, f[n], a)
    BY <1>5
  <2>4. \E h : Certifies(h, FundedNext(f[n], s[n + 1]), a)
    BY <1>3, <2>1, <2>2, <2>3, FundedStep
  <2> QED BY <2>1, <2>2, <2>4
<1>6. PICK g : Certifies(g, f[k], a)
  <2> HIDE DEF S
  <2>1. 0..k \subseteq S
    BY <1>3, <1>4, <1>5, InductionUpTo
  <2>2. k \in S
    BY <1>3, <2>1
  <2> QED BY <2>2 DEF S
<1> QED BY <1>2, <1>6 DEF Certifies

(* What a sender can spend is an amount. *)
LEMMA AvailableType ==
  ASSUME NEW c \in Seq(Body), Len(c) <= MaxHeight, NEW st \in States, NEW a \in Addr
  PROVE  Available(c, st, a) \in Amount
<1> DEFINE m == Immature(c, a, Len(c))
           x == st[a].balance
<1>1. m \in Amount /\ x \in Amount
  <2>1. Len(c) \in Nat
    OBVIOUS
  <2> QED BY <2>1, ImmatureType DEF States
<1>2. Available(c, st, a) = IF m >= x THEN 0 ELSE x - m
  BY DEF Available, Spendable
<1> HIDE DEF m, x
<1> QED BY <1>1, <1>2, LedgerAssumption DEF Amount

(* The walk of validateMempoolTxLocked over what a pool holds of a funded  *)
(* run below one of its transactions, and holds alone of the sender: it    *)
(* arrives at that transaction, having spent what the run spends.          *)
LEMMA FrontierOnRun ==
  ASSUME NEW c \in Seq(Body), Len(c) <= MaxHeight, NEW st \in States, NEW a \in Addr,
         NEW p, PoolOK(p), NEW run, NEW g, Runs(run, g, c, st, a), NEW t \in run,
         \A u \in run : u.nonce < t.nonce => u \in p.txs,
         \A u \in p.txs : u.from = a => u.nonce >= st[a].nonce /\ u.nonce < t.nonce
  PROVE  Frontier(p, st, a) = [nonce |-> t.nonce, spent |-> g[t.nonce]]
<1> DEFINE r == p.bySender[a]
           l == Len(r)
           first == st[a].nonce
           last == t.nonce
<1>1. r \in Seq(Txs) /\ Range(r) = {u \in p.txs : u.from = a} /\ InOrder(r)
  BY DEF PoolOK, Listed
<1>2. PICK f \in [0..l -> Walk] :
        /\ f[0] = [nonce |-> first, spent |-> 0]
        /\ \A n \in 1..l : f[n] = NextAcc(f[n - 1], r[n])
        /\ Frontier(p, st, a) = f[l]
  BY <1>1, FrontierRuns
<1>3. l \in Nat /\ \A n \in 1..l : r[n] \in Txs /\ r[n] \in p.txs /\ r[n].from = a
  <2>1. \A n \in 1..l : r[n] \in Range(r)
    BY <1>1 DEF Range
  <2> QED BY <1>1, <2>1
<1>4. \A u \in Txs : u.nonce \in Nat
  BY MempoolAssumption DEF Tx
<1>5. first \in Nat /\ last \in Nat /\ last >= first
  BY <1>4 DEF Runs, States
<1>6. ASSUME NEW n \in 1..l
      PROVE  r[n].nonce \in first..last - 1
  <2> DEFINE k == r[n].nonce
  <2>1. k >= first /\ k < last /\ k \in Nat
    BY <1>3, <1>4
  <2> HIDE DEF k, first, last
  <2>2. k \in first..last - 1
    BY <1>5, <2>1
  <2> QED BY <2>2 DEF k
<1>7. ASSUME NEW n \in first..last - 1
      PROVE  \E j \in 1..l : r[j] \in run /\ r[j].nonce = n
  <2>1. PICK u \in run : u.nonce = n
    BY DEF Runs
  <2>2. u \in Range(r)
    BY <1>1, <1>5, <2>1 DEF Runs
  <2>3. PICK j \in 1..l : r[j] = u
    BY <1>1, <2>2 DEF Range
  <2> QED BY <2>1, <2>3
<1>8. \A i, j \in 1..l : i < j => r[i].nonce < r[j].nonce
  BY <1>1 DEF InOrder
<1>9. /\ g[first] = 0 /\ g \in [Nat -> Nat]
      /\ \A u \in run : /\ g[u.nonce + 1] = g[u.nonce] + Cost(u)
                        /\ g[u.nonce + 1] <= Available(c, st, a)
  BY DEF Runs
<1>10. Available(c, st, a) < Word /\ Available(c, st, a) \in Int
  BY AvailableType, LedgerAssumption DEF Amount
<1> HIDE DEF l, r
<1> DEFINE Reached(n) ==
             /\ f[n].nonce \in first..last /\ f[n].spent = g[f[n].nonce]
             /\ \A j \in 1..n : r[j].nonce < f[n].nonce
             /\ \A k \in first..f[n].nonce - 1 : \E j \in 1..n : r[j].nonce = k
           S == {n \in 0..l : Reached(n)}
<1> HIDE DEF first, last
<1>11. 0 \in S
  <2>1. f[0].nonce = first /\ f[0].spent = 0 /\ 0 \in 0..l
    BY <1>2, <1>3
  <2>2. first..first - 1 = {} /\ 1..0 = {}
    BY <1>5
  <2>3. f[0].nonce \in first..last
    BY <1>5, <2>1
  <2>4. Reached(0)
    BY <1>9, <2>1, <2>2, <2>3
  <2> HIDE DEF Reached
  <2> QED BY <2>1, <2>4
<1>12. ASSUME NEW n \in 0..l - 1, n \in S
       PROVE  n + 1 \in S
  <2> DEFINE x == r[n + 1]
             k == f[n].nonce
  <2>1. n + 1 \in 1..l /\ n + 1 \in 0..l /\ n \in 0..l /\ n \in Nat /\ (n + 1) - 1 = n
    BY <1>3
  <2>2. Reached(n) /\ f[n + 1] = NextAcc(f[n], x)
    BY <1>2, <1>12, <2>1
  <2>3. x \in Txs /\ x.nonce \in first..last - 1 /\ x.nonce \in Nat
    BY <1>3, <1>4, <1>6, <2>1
  <2>4. k \in first..last /\ k \in Nat
    BY <1>5, <2>2
  <2>5. ASSUME NEW j \in 1..n
        PROVE  r[j].nonce < x.nonce /\ j \in 1..l /\ r[j].nonce \in Nat
    <3>1. j \in 1..l /\ j < n + 1
      BY <1>3, <2>1
    <3> QED BY <1>3, <1>4, <1>8, <2>1, <3>1
  <2> HIDE DEF x
  <2>6. x.nonce >= k
    <3>1. SUFFICES ASSUME x.nonce < k
                   PROVE  FALSE
      BY <2>3, <2>4
    <3>2. x.nonce \in first..k - 1
      BY <1>5, <2>3, <2>4, <3>1
    <3>3. PICK j \in 1..n : r[j].nonce = x.nonce
      BY <2>2, <3>2
    <3> QED BY <2>3, <2>5, <3>3
  <2>7. x \in run /\ x.nonce = k
    <3>1. k \in first..last - 1
      BY <1>5, <2>3, <2>4, <2>6
    <3>2. PICK j \in 1..l : r[j] \in run /\ r[j].nonce = k
      BY <1>7, <3>1
    <3>3. ~(j \in 1..n)
      BY <2>2, <2>4, <3>2
    <3>4. ~(n + 1 < j)
      <4>1. n + 1 < j => x.nonce < r[j].nonce
        BY <1>8, <2>1 DEF x
      <4> QED BY <2>3, <2>4, <2>6, <3>2, <4>1
    <3>5. j = n + 1
      BY <1>3, <2>1, <3>3, <3>4
    <3> QED BY <3>2, <3>5 DEF x
  <2>8. f[n + 1] = [nonce |-> k + 1, spent |-> (f[n].spent + Cost(x)) % Word]
    BY <2>2, <2>7 DEF NextAcc
  <2>9. (f[n].spent + Cost(x)) % Word = g[k + 1]
    <3>1. g[k + 1] = f[n].spent + Cost(x) /\ g[k + 1] <= Available(c, st, a) /\ g[k + 1] \in Nat
      <4>1. g[x.nonce + 1] = g[x.nonce] + Cost(x) /\ g[x.nonce + 1] <= Available(c, st, a)
        BY <1>9, <2>7
      <4>2. k + 1 \in Nat
        BY <2>4
      <4> QED BY <1>9, <2>2, <2>7, <4>1, <4>2
    <3>2. g[k + 1] \in Amount
      BY <1>10, <3>1, LedgerAssumption DEF Amount
    <3> QED BY <3>1, <3>2, ModSmall
  <2>10. f[n + 1].nonce = k + 1 /\ f[n + 1].spent = g[k + 1] /\ k + 1 \in first..last
    <3>1. k + 1 \in first..last
      BY <1>5, <2>3, <2>4, <2>7
    <3> QED BY <2>8, <2>9, <3>1
  <2>11. \A j \in 1..n + 1 : r[j].nonce < k + 1
    <3>1. ASSUME NEW j \in 1..n + 1
          PROVE  r[j].nonce < k + 1
      <4>1. CASE j = n + 1
        BY <2>4, <2>7, <4>1 DEF x
      <4>2. CASE j # n + 1
        <5>1. j \in 1..n
          BY <2>1, <4>2
        <5>2. r[j].nonce < k /\ r[j].nonce \in Nat
          BY <2>2, <2>5, <5>1
        <5> QED BY <2>4, <5>2
      <4> QED BY <4>1, <4>2
    <3> QED BY <3>1
  <2>12. \A i \in first..(k + 1) - 1 : \E j \in 1..n + 1 : r[j].nonce = i
    <3>1. ASSUME NEW i \in first..(k + 1) - 1
          PROVE  \E j \in 1..n + 1 : r[j].nonce = i
      <4>1. CASE i = k
        <5>1. n + 1 \in 1..n + 1
          BY <2>1
        <5> QED BY <2>7, <4>1, <5>1 DEF x
      <4>2. CASE i # k
        <5>1. i \in first..k - 1
          BY <1>5, <2>4, <4>2
        <5>2. PICK j \in 1..n : r[j].nonce = i
          BY <2>2, <5>1
        <5>3. j \in 1..n + 1
          BY <2>1
        <5> QED BY <5>2, <5>3
      <4> QED BY <4>1, <4>2
    <3> QED BY <3>1
  <2>13. Reached(n + 1)
    BY <2>10, <2>11, <2>12
  <2> HIDE DEF Reached
  <2> QED BY <2>1, <2>13
<1>13. Reached(l)
  <2> HIDE DEF S
  <2>1. 0..l \subseteq S
    BY <1>3, <1>11, <1>12, InductionUpTo
  <2>2. l \in S
    BY <1>3, <2>1
  <2> HIDE DEF Reached
  <2> QED BY <2>2 DEF S
<1>14. f[l].nonce = last
  <2>1. SUFFICES ASSUME f[l].nonce # last
                 PROVE  FALSE
    OBVIOUS
  <2>2. f[l].nonce \in first..last - 1
    BY <1>5, <1>13, <2>1
  <2>3. PICK j \in 1..l : r[j].nonce = f[l].nonce
    BY <1>7, <2>2
  <2> QED BY <1>5, <1>13, <2>2, <2>3
<1>15. f[l] \in Walk
  BY <1>2, <1>3
<1>16. f[l] = [nonce |-> last, spent |-> g[last]]
  BY <1>13, <1>14, <1>15 DEF Walk
<1> QED BY <1>2, <1>16 DEF first, last

(* A list without repetitions is as long as its set. *)
LEMMA ListLength ==
  ASSUME NEW p, PoolOK(p), NEW a \in Addr
  PROVE  Len(p.bySender[a]) = Cardinality({t \in p.txs : t.from = a})
<1> DEFINE s == p.bySender[a]
           l == Len(s)
           T == {t \in p.txs : t.from = a}
           f == [i \in 1..l |-> s[i]]
<1>1. s \in Seq(Txs) /\ Range(s) = T /\ InOrder(s)
  BY DEF PoolOK, Listed
<1>2. l \in Nat /\ \A i \in 1..l : s[i] \in T /\ s[i].nonce \in Nat
  <2>1. \A i \in 1..l : s[i] \in Range(s) /\ s[i] \in Tx
    BY <1>1, MempoolAssumption DEF Range
  <2> HIDE DEF T
  <2> QED BY <1>1, <2>1 DEF Tx
<1>3. \A t \in T : \E i \in 1..l : s[i] = t
  BY <1>1 DEF Range
<1>4. \A i, j \in 1..l : i < j => s[i].nonce < s[j].nonce
  BY <1>1 DEF InOrder
<1> HIDE DEF s, l, T
<1>5. \A i, j \in 1..l : s[i] = s[j] => i = j
  <2>1. ASSUME NEW i \in 1..l, NEW j \in 1..l, s[i] = s[j], i # j
        PROVE  FALSE
    <3>1. i < j \/ j < i
      BY <1>2, <2>1
    <3> QED BY <1>2, <1>4, <2>1, <3>1
  <2> QED BY <2>1
<1>6. f \in Bijection(1..l, T)
  <2>1. f \in [1..l -> T] /\ \A i, j \in 1..l : f[i] = f[j] => i = j
    BY <1>2, <1>5
  <2>2. \A t \in T : \E i \in 1..l : f[i] = t
    BY <1>3
  <2> QED BY <2>1, <2>2 DEF Bijection, Injection, Surjection, IsInjective
<1>7. ExistsBijection(1..l, T)
  BY <1>6 DEF ExistsBijection
<1>8. IsFiniteSet(1..l) /\ Cardinality(1..l) = l
  BY <1>2, FS_Interval
<1>9. Cardinality(T) = l
  BY <1>7, <1>8, FS_Bijection
<1> QED BY <1>9 DEF s, l, T

(* A pool that lacks a transaction of another one lists fewer of its       *)
(* sender, and holds fewer.                                                *)
LEMMA RoomFor ==
  ASSUME NEW p, PoolOK(p), NEW q, PoolOK(q), NEW t \in p.txs, q.txs \subseteq p.txs \ {t}
  PROVE  /\ Len(q.bySender[t.from]) < MaxPerSender
         /\ ~(Cardinality(q.txs) > PoolLimit)
<1> DEFINE a == t.from
           P == {u \in p.txs : u.from = a}
           Q == {u \in q.txs : u.from = a}
<1>1. a \in Addr
  BY MempoolAssumption DEF PoolOK, Pools, Tx
<1>2. IsFiniteSet(p.txs) /\ IsFiniteSet(q.txs) /\ Cardinality(p.txs) <= PoolLimit + 1
  BY DEF PoolOK
<1>3. Cardinality(q.txs) <= PoolLimit
  <2>1. Cardinality(p.txs \ {t}) = Cardinality(p.txs) - 1 /\ IsFiniteSet(p.txs \ {t})
    BY <1>2, FS_RemoveElement
  <2>2. Cardinality(q.txs) <= Cardinality(p.txs \ {t})
    BY <2>1, FS_Subset
  <2>3. Cardinality(p.txs) \in Nat /\ Cardinality(q.txs) \in Nat
    BY <1>2, FS_CardinalityType
  <2> QED BY <1>2, <2>1, <2>2, <2>3, MempoolAssumption
<1>4. Cardinality(Q) < Cardinality(P) /\ Cardinality(P) \in Nat /\ Cardinality(Q) \in Nat
  <2>1. P \in SUBSET p.txs /\ Q \in SUBSET q.txs /\ Q \in SUBSET P /\ t \in P /\ t \notin Q
    OBVIOUS
  <2> HIDE DEF P, Q
  <2>2. IsFiniteSet(P) /\ IsFiniteSet(Q)
    BY <1>2, <2>1, FS_Subset
  <2>3. Cardinality(Q) <= Cardinality(P) /\ Cardinality(P) # Cardinality(Q)
    BY <2>1, <2>2, FS_Subset
  <2>4. Cardinality(P) \in Nat /\ Cardinality(Q) \in Nat
    BY <2>2, FS_CardinalityType
  <2> QED BY <2>3, <2>4
<1>5. Len(p.bySender[a]) = Cardinality(P) /\ Len(q.bySender[a]) = Cardinality(Q)
  <2>1. Len(p.bySender[a]) = Cardinality(P)
    BY <1>1, ListLength
  <2>2. Len(q.bySender[a]) = Cardinality(Q)
    BY <1>1, ListLength
  <2> QED BY <2>1, <2>2
<1>6. Len(p.bySender[a]) <= MaxPerSender
  BY <1>1 DEF PoolOK, Listed
<1>7. Cardinality(q.txs) \in Nat
  BY <1>2, FS_CardinalityType
<1> HIDE DEF P, Q, a
<1>8. Len(q.bySender[a]) < MaxPerSender
  BY <1>4, <1>5, <1>6, MempoolAssumption
<1> QED BY <1>3, <1>7, <1>8, MempoolAssumption DEF a

(* Every sender's run is funded. *)
AllRun(run, g, c, st, p) ==
  \A a \in Addr : run[a] \subseteq p.txs /\ Runs(run[a], g[a], c, st, a)

(* What a reload of p has made of `some`. *)
Reloaded(q, some, run, st, p) ==
  /\ PoolOK(q) /\ q.txs \subseteq some
  /\ \A u \in q.txs : u.nonce >= st[u.from].nonce
  /\ \A a \in Addr : run[a] \cap some \subseteq q.txs

(* Everything in p with a nonce below one of `some` is there too. *)
Below(some, p) == \A t \in some, u \in p.txs : u.nonce < t.nonce => u \in some

(* The next transaction, if of a run, is admitted. *)
LEMMA ReloadStep ==
  ASSUME NEW c \in Seq(Body), Len(c) <= MaxHeight, NEW st \in States, NEW p, PoolOK(p),
         NEW run, NEW g, AllRun(run, g, c, st, p),
         NEW some \in SUBSET p.txs, Below(some, p), NEW t \in some,
         \A u \in some : t.nonce >= u.nonce,
         NEW q, Reloaded(q, some \ {t}, run, st, p)
  PROVE  Reloaded(AfterAddTx(c, st, q, t), some, run, st, p)
<1> DEFINE a == t.from
           new == AfterAddTx(c, st, q, t)
<1>1. t \in p.txs /\ t \in Txs /\ a \in Addr /\ t.nonce \in Nat
  BY MempoolAssumption DEF PoolOK, Pools, Tx
<1>2. PoolOK(q) /\ q.txs \subseteq some \ {t} /\ q.txs \subseteq p.txs \ {t}
  BY DEF Reloaded
<1>3. t \notin q.txs /\ Rivals(q, t) = {}
  <2>1. ASSUME NEW u \in q.txs, u.from = t.from, u.nonce = t.nonce
        PROVE  FALSE
    <3>1. u \in p.txs /\ u # t
      BY <1>2
    <3> QED BY <1>1, <2>1, <3>1, OnePerSlot
  <2> QED BY <1>2, <2>1 DEF Rivals
<1>4. Len(q.bySender[a]) < MaxPerSender /\ ~(Cardinality(q.txs) > PoolLimit)
  BY <1>1, <1>2, RoomFor
<1>5. new = IF Admits(c, st, q, t) THEN mpAdd(q, t) ELSE q
  BY <1>3, <1>4 DEF AfterAddTx
<1>6. PoolOK(new)
  BY <1>1, <1>2, AfterAddTxKeeps
<1>7. mpAdd(q, t).txs = q.txs \cup {t}
  BY DEF mpAdd
<1>8. ASSUME t \in run[a]
      PROVE  Admits(c, st, q, t)
  <2>1. Runs(run[a], g[a], c, st, a)
    BY <1>1 DEF AllRun
  <2>2. ASSUME NEW u \in run[a], u.nonce < t.nonce
        PROVE  u \in q.txs
    <3>1. u \in p.txs
      BY <1>1 DEF AllRun
    <3>2. u \in some /\ u # t
      BY <1>1, <2>2, <3>1 DEF Below
    <3> QED BY <1>1, <3>2 DEF Reloaded
  <2>3. ASSUME NEW u \in q.txs, u.from = a
        PROVE  u.nonce >= st[a].nonce /\ u.nonce < t.nonce
    <3>1. u \in p.txs /\ u # t /\ u \in some /\ u \in Tx
      BY <1>2, MempoolAssumption DEF PoolOK, Pools
    <3>2. u.nonce # t.nonce
      BY <1>1, <2>3, <3>1, OnePerSlot
    <3>3. u.nonce <= t.nonce /\ u.nonce \in Nat
      BY <3>1 DEF Tx
    <3>4. u.nonce >= st[a].nonce
      BY <2>3 DEF Reloaded
    <3> QED BY <1>1, <3>2, <3>3, <3>4
  <2>4. Frontier(q, st, a) = [nonce |-> t.nonce, spent |-> g[a][t.nonce]]
    <3> HIDE DEF a
    <3> QED BY <1>1, <1>2, <1>8, <2>1, <2>2, <2>3, FrontierOnRun
  <2>5. /\ SignedFor(t, Len(c)) /\ PaysFloor(c, t) /\ t.nonce >= st[a].nonce
        /\ g[a][t.nonce + 1] = g[a][t.nonce] + Cost(t)
        /\ g[a][t.nonce + 1] <= Available(c, st, a)
    BY <1>8, <2>1 DEF Runs
  <2>6. g[a][t.nonce] \in Nat /\ g[a][t.nonce + 1] \in Nat
    <3> DEFINE h == g[a]
    <3>1. h \in [Nat -> Nat]
      BY <2>1 DEF Runs
    <3>2. t.nonce + 1 \in Nat
      BY <1>1
    <3> HIDE DEF h
    <3>3. h[t.nonce] \in Nat /\ h[t.nonce + 1] \in Nat
      BY <1>1, <3>1, <3>2
    <3> QED BY <3>3 DEF h
  <2>7. Available(c, st, a) \in Amount
    BY <1>1, AvailableType
  <2> DEFINE sum == g[a][t.nonce] + Cost(t)
  <2>8. sum \in Nat /\ sum <= Available(c, st, a)
    BY <2>5, <2>6
  <2> HIDE DEF sum
  <2>9. sum \in Amount /\ sum % Word = sum
    <3>1. sum \in Amount
      BY <2>7, <2>8, LedgerAssumption DEF Amount
    <3> QED BY <3>1, ModSmall
  <2>10. Available(c, st, a) >= sum % Word
    BY <2>7, <2>8, <2>9, LedgerAssumption DEF Amount
  <2>11. t.nonce <= t.nonce + MaxNonceGap
    BY <1>1, MempoolAssumption
  <2>12. Frontier(q, st, a).nonce = t.nonce /\ Frontier(q, st, a).spent = g[a][t.nonce]
    BY <2>4
  <2> QED BY <1>4, <2>5, <2>10, <2>11, <2>12 DEF Admits, sum
<1>9. new.txs \subseteq some /\ \A u \in new.txs : u = t \/ u \in q.txs
  BY <1>2, <1>5, <1>7
<1>10. ASSUME NEW u \in new.txs
       PROVE  u.nonce >= st[u.from].nonce
  <2>1. CASE u \in q.txs
    BY <2>1 DEF Reloaded
  <2>2. CASE u \notin q.txs
    <3>1. u = t /\ Admits(c, st, q, t)
      <4> HIDE DEF new
      <4> QED BY <1>5, <1>9, <1>10, <2>2
    <3> QED BY <3>1 DEF Admits
  <2> QED BY <2>1, <2>2
<1>11. ASSUME NEW b \in Addr, NEW u \in run[b] \cap some
       PROVE  u \in new.txs
  <2>1. CASE u = t
    <3>1. u.from = b
      BY DEF AllRun, Runs
    <3>2. Admits(c, st, q, t)
      BY <1>8, <1>11, <2>1, <3>1
    <3> HIDE DEF new
    <3> QED BY <1>5, <1>7, <2>1, <3>2
  <2>2. CASE u # t
    <3>1. u \in q.txs
      BY <1>11, <2>2 DEF Reloaded
    <3> HIDE DEF new
    <3> QED BY <1>5, <1>7, <3>1
  <2> QED BY <2>1, <2>2
<1> HIDE DEF new
<1>12. Reloaded(new, some, run, st, p)
  BY <1>6, <1>9, <1>10, <1>11 DEF Reloaded
<1> QED BY <1>12 DEF new

(* A reload of the pool keeps every funded run. *)
LEMMA ReloadKeeps ==
  ASSUME NEW c \in Seq(Body), Len(c) <= MaxHeight, NEW st \in States, NEW p, PoolOK(p),
         NEW run, NEW g, AllRun(run, g, c, st, p), NEW a \in Addr
  PROVE  run[a] \subseteq LoadMempool(c, st, p.txs).txs
<1> DEFINE T == p.txs
           V == {q \in Pools : PoolOK(q)}
<1>1. T \in SUBSET Txs /\ IsFiniteSet(T)
  BY DEF PoolOK, Pools
<1>2. Closed(V, c, st, T)
  <2>1. \A q : q \in V <=> PoolOK(q)
    BY DEF PoolOK
  <2> HIDE DEF V
  <2>2. EmptyPool \in V
    BY <2>1, EmptyPoolOK
  <2>3. \A q \in V, t \in T : AfterAddTx(c, st, q, t) \in V
    BY <1>1, <2>1, AfterAddTxKeeps
  <2> QED BY <2>2, <2>3 DEF Closed
<1>3. PICK f : f \in [SUBSET T -> V] /\ Reloads(f, c, st, T)
  <2> HIDE DEF V, T
  <2> QED BY <1>1, <1>2, LoadMempoolRuns
<1> DEFINE S == {some \in SUBSET T : Below(some, p) => Reloaded(f[some], some, run, st, p)}
<1>4. {} \in S
  <2>1. f[{}] = EmptyPool
    BY <1>3 DEF Reloads
  <2>2. Reloaded(EmptyPool, {}, run, st, p)
    <3>1. EmptyPool.txs = {}
      BY DEF EmptyPool
    <3> QED BY <3>1, EmptyPoolOK DEF Reloaded
  <2> QED BY <2>1, <2>2
<1>5. ASSUME NEW some \in SUBSET T, some # {}, \A x \in some : some \ {x} \in S
      PROVE  some \in S
  <2> DEFINE t == HighestNonce(some)
  <2>1. t \in some /\ \A u \in some : t.nonce >= u.nonce
    <3>1. some \in SUBSET Txs /\ IsFiniteSet(some)
      BY <1>1, FS_Subset
    <3> QED BY <1>5, <3>1, HighestNonceIn
  <2>2. f[some] = AfterAddTx(c, st, f[some \ {t}], t)
    BY <1>3, <1>5 DEF Reloads
  <2> HIDE DEF t
  <2>3. SUFFICES ASSUME Below(some, p)
                 PROVE  Reloaded(f[some], some, run, st, p)
    OBVIOUS
  <2>4. Below(some \ {t}, p)
    <3>1. ASSUME NEW x \in some \ {t}, NEW u \in p.txs, u.nonce < x.nonce
          PROVE  u \in some \ {t}
      <4>1. u \in some /\ t.nonce >= x.nonce
        BY <2>1, <2>3, <3>1 DEF Below
      <4>2. u.nonce \in Nat /\ t.nonce \in Nat /\ x.nonce \in Nat
        BY <1>1, <2>1, MempoolAssumption DEF Tx
      <4>3. u # t
        BY <3>1, <4>1, <4>2
      <4> QED BY <4>1, <4>3
    <3> QED BY <3>1 DEF Below
  <2>5. Reloaded(f[some \ {t}], some \ {t}, run, st, p)
    BY <1>5, <2>1, <2>4
  <2>6. Reloaded(AfterAddTx(c, st, f[some \ {t}], t), some, run, st, p)
    BY <2>1, <2>3, <2>5, ReloadStep
  <2> QED BY <2>2, <2>6
<1>6. T \in S
  <2> HIDE DEF S, T
  <2>1. SUBSET T \subseteq S
    BY <1>1, <1>4, <1>5, InductionSubsets
  <2> QED BY <2>1
<1>7. Below(T, p) /\ LoadMempool(c, st, T) = f[T]
  BY <1>3 DEF Below, Reloads
<1>8. Reloaded(f[T], T, run, st, p)
  BY <1>6, <1>7
<1>9. run[a] \subseteq T
  BY DEF AllRun
<1>10. run[a] \cap T \subseteq f[T].txs
  BY <1>8 DEF Reloaded
<1> HIDE DEF T
<1> QED BY <1>7, <1>9, <1>10 DEF T

(* A restart right after a save keeps what every sender can pay for from   *)
(* its confirmed balance, in nonce order: whatever else the pool holds,    *)
(* LoadMempool's order of insertion meets the nonce gap, the slots and the *)
(* running balance of AddTx.                                               *)
THEOREM RestartAlwaysKeepsFundedRun == Spec => RestartKeepsFundedRun
<1>1. MemInv' => LedgerIsReplay'
  BY DEF MemInv, LedgerInv
<1>2. MemInv /\ MemInv' /\ [Next]_vars
        => [Restart /\ chain' = chain /\ saved = pool.txs =>
             \A a \in Addr : FundedRun(a) \subseteq pool'.txs]_vars
  <2> SUFFICES ASSUME MemInv, LedgerIsReplay', Restart, chain' = chain, saved = pool.txs,
                      NEW a \in Addr
               PROVE  FundedRun(a) \subseteq pool'.txs
    BY <1>1
  <2>1. chain \in Seq(Body) /\ Len(chain) <= MaxHeight /\ state \in States /\ PoolOK(pool)
    BY StateType DEF StateTyped
  <2>2. state' = state
    BY DEF MemInv, LedgerInv, LedgerIsReplay
  <2>3. pool' = LoadMempool(chain, state, pool.txs)
    BY <2>2 DEF Restart
  <2> DEFINE run == [b \in Addr |-> FundedRun(b)]
             g == [b \in Addr |-> CHOOSE h : Runs(FundedRun(b), h, chain, state, b)]
  <2>4. ASSUME NEW b \in Addr
        PROVE  run[b] \subseteq pool.txs /\ Runs(run[b], g[b], chain, state, b)
    <3>1. FundedRun(b) \subseteq pool.txs /\ \E h : Runs(FundedRun(b), h, chain, state, b)
      BY <2>1, FundedRunIs
    <3> QED BY <3>1
  <2>5. run[a] = FundedRun(a)
    OBVIOUS
  <2> HIDE DEF run, g
  <2>6. AllRun(run, g, chain, state, pool)
    BY <2>4 DEF AllRun
  <2>7. run[a] \subseteq LoadMempool(chain, state, pool.txs).txs
    BY <2>1, <2>6, ReloadKeeps
  <2> QED BY <2>3, <2>5, <2>7
<1> QED BY <1>2, MemInvHolds, PTL DEF Spec, RestartKeepsFundedRun
=============================================================================
