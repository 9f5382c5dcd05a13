----------------------------- MODULE StoreProofs -----------------------------
(***************************************************************************)
(* What the two block stores guarantee, for every block tree, policy,      *)
(* number of crashes and number of failed writes, and for bbolt every      *)
(* batch size and old database.                                            *)
(*                                                                         *)
(* bbolt (ChainStore).  The properties speak of moments when diskMu is     *)
(* free.  The invariant says what the transactions still to run will make  *)
(* of the rows, height by height: a commit clears rows, top-down, and puts *)
(* rows of the chain in memory, and never clears one that it put.          *)
(*                                                                         *)
(* jsonl (JsonlStore, the second part).  Lines that survive failed writes  *)
(* and restarts need not link, but each is a validated block or torn, and  *)
(* the first is genesis: that is all the next start needs (FileOK).  While *)
(* no write fails the file is a chain, and what the running commit has     *)
(* still to append is exactly what it lacks (FileFollows).                 *)
(***************************************************************************)
EXTENDS ChainStore, JsonlStore, ChainCoreProofs

(* A transaction removes the row of height h, or writes it. *)
Clears(t, h) == t.wipe \/ h \in t.del
Sets(t, h) == \E b \in Range(t.put) : Height[b] = h

(* Transactions; genesis is deleted by a wipe only. *)
Txn == [wipe : BOOLEAN, del : SUBSET (Nat \ {0}), put : Seq(Block), rows : Seq(Block),
        stamp : Nat, schema : {0, SchemaVersion}]

(* Those of the background backfill. *)
HistoryTxn == {t \in Txn : ~t.wipe /\ t.del = {} /\ t.put = <<>> /\ t.stamp = 0}

(* What a commit puts is a part of the chain in memory. *)
PutsFrom(ts, chain) ==
  \A i \in 1..Len(ts) : Range(ts[i].put) \subseteq BlocksOf(chain)

(* The rows of the file are validated blocks under their heights, and not  *)
(* without genesis.                                                        *)
RowsOK(rows) ==
  /\ rows = [h \in DOMAIN rows |-> rows[h]]
  /\ \E n \in Nat : DOMAIN rows \subseteq 0..n
  /\ \A h \in DOMAIN rows : rows[h] \in Sound /\ Height[rows[h]] = h
  /\ DOMAIN rows # {} => 0 \in DOMAIN rows /\ rows[0] = Genesis

RowIs(rows, chain, h) == h \in DOMAIN rows /\ rows[h] = chain[h + 1]

(* Row h is never removed again. *)
Stays(ts, h) == \A j \in 1..Len(ts) : ~Clears(ts[j], h)

(* Row h is written, and not removed after that. *)
WillBeSet(ts, h) ==
  \E i \in 1..Len(ts) : Sets(ts[i], h) /\ \A j \in i + 1..Len(ts) : ~Clears(ts[j], h)

(* Run to the end, the transactions leave exactly the rows of the chain. *)
Leads(rows, ts, chain) ==
  /\ \A h \in 0..Len(chain) - 1 :
       WillBeSet(ts, h) \/ (RowIs(rows, chain, h) /\ Stays(ts, h))
  /\ \A h \in DOMAIN rows :
       h \in 0..Len(chain) - 1 \/ \E j \in 1..Len(ts) : Clears(ts[j], h)

(* They write no row before that of genesis. *)
GenesisFirst(rows, ts) ==
  \/ 0 \in DOMAIN rows /\ Stays(ts, 0)
  \/ \E i \in 1..Len(ts) :
       /\ Sets(ts[i], 0)
       /\ \A j \in i + 1..Len(ts) : ~Clears(ts[j], 0)
       /\ \A j \in 1..i - 1 : ts[j].put = <<>>

(* They write over no row but with the same block: indexes of a row that   *)
(* is overwritten would stay.                                              *)
OverwritesNothing(rows, ts, chain) ==
  \A i \in 1..Len(ts) : \A h \in DOMAIN rows :
    Sets(ts[i], h) => \/ RowIs(rows, chain, h)
                      \/ \E j \in 1..i : Clears(ts[j], h)

(* The files, whoever uses them. *)
FilesOK ==
  /\ RowsOK(disk.blocks)
  /\ disk.indexed \subseteq Block /\ disk.history \subseteq Block
  /\ disk.schema \in {1, SchemaVersion}
  /\ DOMAIN savedCheckpoints \subseteq Nat \ {0}
  /\ savedCheckpoints \in [DOMAIN savedCheckpoints -> Block]
  /\ savedAnchor \in SignedCheckpoints \cup {NoAnchor}

(* The process and what its two disk threads have still to do. *)
ThreadsOK ==
  /\ phase \in {"down", "loading", "up"}
  /\ commit = [fork |-> commit.fork, txns |-> commit.txns]
  /\ commit.txns \in Seq(Txn) /\ PutsFrom(commit.txns, blocks)
  /\ commit.txns = <<>> => commit = NoCommit
  /\ backfill \in Seq(HistoryTxn)
  /\ phase = "down" => commit.txns = <<>> /\ backfill = <<>>
  /\ phase = "loading" =>
       /\ commit.txns # <<>> /\ backfill = <<>>
       /\ GenesisFirst(disk.blocks, commit.txns)
  /\ phase = "up" =>
       /\ 0 \in DOMAIN disk.blocks
       /\ \A i \in 1..Len(commit.txns) : ~commit.txns[i].wipe

(* While no commit of this process failed. *)
CommitLeads ==
  phase # "down" /\ ~dirty =>
    /\ Leads(disk.blocks, commit.txns, blocks)
    /\ phase = "up" /\ commit.txns # <<>> =>
         /\ commit.fork \in 1..Len(blocks)
         /\ \A h \in 0..commit.fork - 1 :
              RowIs(disk.blocks, blocks, h) /\ Stays(commit.txns, h)

(* While no disk write ever failed. *)
IndexesFollow ==
  /\ dirty \in BOOLEAN /\ failures \in Nat
  /\ dirty => failures > 0
  /\ failures = 0 =>
       /\ disk.indexed = Range(disk.blocks)
       /\ OverwritesNothing(disk.blocks, commit.txns, blocks)

(* While the process never died, the stamp of the last transaction is that *)
(* of the chain.                                                           *)
StampFollows ==
  /\ crashes \in Nat
  /\ crashes = 0 /\ phase = "down" =>
       disk \in {EmptyStore} \cup {StoreOf(c, 1) : c \in OldChains}
  /\ crashes = 0 /\ phase # "down" /\ ~dirty =>
       IF commit.txns = <<>> THEN disk.tip = TipHeight /\ disk.work = cumWork
       ELSE commit.txns[Len(commit.txns)].stamp = cumWork

StoreInv ==
  /\ CoreInv
  /\ FilesOK
  /\ ThreadsOK
  /\ CommitLeads
  /\ IndexesFollow
  /\ StampFollows

-----------------------------------------------------------------------------
(* Numbers and chunks. *)

(* Numbers. *)
LEMMA MaxOfTwo ==
  ASSUME NEW a \in Int, NEW b \in Int
  PROVE  Max({a, b}) = IF a >= b THEN a ELSE b
BY DEF Max

(* The lesser of two numbers, likewise. *)
LEMMA MinOfTwo ==
  ASSUME NEW a \in Int, NEW b \in Int
  PROVE  Min({a, b}) = IF a <= b THEN a ELSE b
BY DEF Min

(* A set of naturals with a bound has a greatest element. *)
LEMMA MaxOfBounded ==
  ASSUME NEW S, NEW n \in Nat, S \subseteq 0..n, S # {}
  PROVE  Max(S) \in S /\ \A x \in S : x <= Max(S)
<1> DEFINE T == {n - x : x \in S}
<1>0. \A x \in S : x \in Nat /\ x <= n /\ n - x \in Nat
  <2> SUFFICES ASSUME NEW x \in S
               PROVE  x \in 0..n
    OBVIOUS
  <2> QED OBVIOUS
<1>1. T \subseteq Nat /\ T # {}
  BY <1>0
<1>2. PICK m \in T : \A k \in T : m <= k
  <2> HIDE DEF T
  <2> QED BY <1>1, NatSetLeast
<1>3. PICK x \in S : m = n - x
  BY <1>2
<1>4. \A y \in S : x >= y
  <2>1. ASSUME NEW y \in S
        PROVE  x >= y
    <3>1. m <= n - y
      BY <1>2
    <3> QED BY <1>0, <1>3, <3>1
  <2> QED BY <2>1
<1>5. Max(S) \in S /\ \A y \in S : Max(S) >= y
  BY <1>4 DEF Max
<1> QED BY <1>5

(* The heights of a chain end at its tip. *)
LEMMA MaxOfInterval ==
  ASSUME NEW n \in Nat
  PROVE  Max(0..n) = n
<1> DEFINE S == 0..n
<1>1. S \subseteq 0..n /\ S # {} /\ n \in S
  OBVIOUS
<1> HIDE DEF S
<1>2. Max(S) \in S /\ n <= Max(S)
  BY <1>1, MaxOfBounded
<1> QED BY <1>2 DEF S

(* The quotient by Batch. *)
LEMMA Quotient ==
  ASSUME NEW a \in Int
  PROVE  /\ a \div Batch \in Int
         /\ (a \div Batch) * Batch <= a
         /\ a < (a \div Batch) * Batch + Batch
         /\ a \in Nat => a \div Batch \in Nat
         /\ (a + Batch) \div Batch = a \div Batch + 1
BY ChainStoreAssumption

(* More blocks make no fewer chunks. *)
LEMMA QuotientMonotone ==
  ASSUME NEW a \in Int, NEW b \in Int, a <= b
  PROVE  a \div Batch <= b \div Batch
<1> DEFINE p == a \div Batch
           q == b \div Batch
<1>1. p \in Int /\ q \in Int /\ p * Batch <= a /\ b < q * Batch + Batch
  BY Quotient
<1>2. Batch \in Nat /\ Batch > 0
  BY ChainStoreAssumption
<1> HIDE DEF p, q
<1>3. ASSUME p > q
      PROVE  FALSE
  <2>1. p >= q + 1
    BY <1>1, <1>3
  <2>2. p * Batch >= (q + 1) * Batch
    BY <1>1, <1>2, <2>1
  <2>3. (q + 1) * Batch = q * Batch + Batch
    BY <1>1, <1>2
  <2>4. p * Batch \in Int /\ q * Batch \in Int
    BY <1>1, <1>2
  <2> QED BY <1>1, <1>2, <2>2, <2>3, <2>4
<1>4. p <= q
  BY <1>1, <1>3
<1> QED BY <1>4 DEF p, q

(* The elements of a chunk are those at its positions. *)
LEMMA RangeOfSubSeq ==
  ASSUME NEW S, NEW s \in Seq(S), NEW lo \in Nat, NEW hi \in Nat, lo > 0, hi <= Len(s)
  PROVE  /\ SubSeq(s, lo, hi) \in Seq(S)
         /\ \A x \in Range(SubSeq(s, lo, hi)) : \E k \in lo..hi : x = s[k]
         /\ \A k \in lo..hi : s[k] \in Range(SubSeq(s, lo, hi))
<1> DEFINE t == SubSeq(s, lo, hi)
<1>1. \A k \in lo..hi : k \in 1..Len(s)
  OBVIOUS
<1>2. /\ t \in Seq(S) /\ Len(t) = IF lo <= hi THEN hi - lo + 1 ELSE 0
      /\ \A i \in 1..hi - lo + 1 : t[i] = s[lo + i - 1]
  BY <1>1, SubSeqProperties, ElementOfSeq
<1>3. DOMAIN t = 1..Len(t)
  BY <1>2
<1> HIDE DEF t
<1>4. ASSUME NEW i \in 1..Len(t)
      PROVE  \E k \in lo..hi : t[i] = s[k]
  <2>1. i \in 1..hi - lo + 1 /\ lo + i - 1 \in lo..hi
    BY <1>2
  <2> QED BY <1>2, <2>1
<1>5. ASSUME NEW k \in lo..hi
      PROVE  \E i \in 1..Len(t) : s[k] = t[i]
  <2>1. /\ k - lo + 1 \in 1..Len(t) /\ k - lo + 1 \in 1..hi - lo + 1
        /\ lo + (k - lo + 1) - 1 = k
    BY <1>2
  <2> QED BY <1>2, <2>1
<1>6. \A x \in Range(t) : \E k \in lo..hi : x = s[k]
  BY <1>3, <1>4 DEF Range
<1>7. \A k \in lo..hi : s[k] \in Range(t)
  BY <1>3, <1>5 DEF Range
<1> QED BY <1>2, <1>6, <1>7 DEF t

(* The chunks of a sequence hold its elements, and nothing else. *)
LEMMA ChunksCover ==
  ASSUME NEW S, NEW s \in Seq(S)
  PROVE  /\ Chunks(s) \in Seq(Seq(S))
         /\ \A i \in DOMAIN Chunks(s) : Range(Chunks(s)[i]) \subseteq Range(s)
         /\ \A k \in 1..Len(s) : \E i \in DOMAIN Chunks(s) : s[k] \in Range(Chunks(s)[i])
         /\ Len(s) > 0 => Len(Chunks(s)) > 0 /\ s[1] \in Range(Chunks(s)[1])
<1> DEFINE n == Len(s)
           m == (n + Batch - 1) \div Batch
<1>1. n \in Nat /\ Batch \in Nat /\ Batch > 0
  BY ChainStoreAssumption
<1>2. m \in Nat
  BY <1>1, Quotient
<1> DEFINE lo(i) == (i - 1) * Batch + 1
           hi(i) == Min({i * Batch, n})
<1>3. Chunks(s) = [i \in 1..m |-> SubSeq(s, lo(i), hi(i))]
  BY DEF Chunks
<1>4. ASSUME NEW i \in 1..m
      PROVE  /\ lo(i) \in Nat /\ lo(i) > 0 /\ hi(i) \in Nat /\ hi(i) <= n
             /\ hi(i) = IF i * Batch <= n THEN i * Batch ELSE n
  <2>1. i \in Nat /\ i - 1 \in Nat /\ i * Batch \in Nat /\ (i - 1) * Batch \in Nat
    <3>1. \A a, b \in Nat : a * b \in Nat
      OBVIOUS
    <3> QED BY <1>1, <1>2, <3>1
  <2>2. hi(i) = IF i * Batch <= n THEN i * Batch ELSE n
    BY <1>1, <2>1, MinOfTwo
  <2> QED BY <1>1, <2>1, <2>2
<1> HIDE DEF n, m, lo, hi
<1>5. ASSUME NEW i \in 1..m
      PROVE  /\ Chunks(s)[i] \in Seq(S)
             /\ \A x \in Range(Chunks(s)[i]) : \E k \in lo(i)..hi(i) : x = s[k]
             /\ \A k \in lo(i)..hi(i) : s[k] \in Range(Chunks(s)[i])
  <2> DEFINE c == Chunks(s)[i]
             l == lo(i)
             r == hi(i)
  <2>1. c = SubSeq(s, l, r)
    BY <1>3
  <2>2. l \in Nat /\ l > 0 /\ r \in Nat /\ r <= Len(s)
    BY <1>1, <1>4 DEF n
  <2> HIDE DEF c, l, r
  <2>3. c \in Seq(S) /\ (\A x \in Range(c) : \E k \in l..r : x = s[k])
        /\ \A k \in l..r : s[k] \in Range(c)
    BY <2>1, <2>2, RangeOfSubSeq
  <2> QED BY <2>3 DEF c, l, r
<1>6. ASSUME NEW i \in 1..m
      PROVE  Range(Chunks(s)[i]) \subseteq Range(s)
  <2>1. \A k \in lo(i)..hi(i) : k \in 1..n
    BY <1>1, <1>4
  <2>2. \A k \in 1..n : s[k] \in Range(s)
    BY DEF Range, n
  <2> QED BY <1>5, <2>1, <2>2
<1>7. ASSUME NEW k \in 1..n
      PROVE  \E i \in 1..m : k \in lo(i)..hi(i)
  <2> DEFINE q == (k - 1) \div Batch
  <2>1. k - 1 \in Nat /\ k - 1 <= n - 1 /\ n - 1 \in Int
    BY <1>1
  <2>2. q \in Nat /\ q * Batch <= k - 1 /\ k - 1 < q * Batch + Batch
    BY <2>1, Quotient
  <2>3. q <= (n - 1) \div Batch
    BY <2>1, QuotientMonotone
  <2>4. m = (n - 1) \div Batch + 1
    <3>1. n + Batch - 1 = (n - 1) + Batch
      BY <1>1
    <3> QED BY <2>1, <3>1, Quotient DEF m
  <2> HIDE DEF q
  <2>5. q + 1 \in 1..m
    <3>1. (n - 1) \div Batch \in Int
      BY <2>1, Quotient
    <3> QED BY <2>2, <2>3, <2>4, <3>1
  <2>6. lo(q + 1) = q * Batch + 1
    <3>1. (q + 1) - 1 = q
      BY <2>2
    <3> QED BY <3>1 DEF lo
  <2>7. (q + 1) * Batch = q * Batch + Batch /\ q * Batch \in Nat
    BY <1>1, <2>2
  <2>8. lo(q + 1) <= k
    BY <2>2, <2>6, <2>7
  <2>9. k <= hi(q + 1)
    BY <1>1, <1>4, <2>2, <2>5, <2>7
  <2> QED BY <1>4, <2>5, <2>8, <2>9
<1>8. Chunks(s) \in Seq(Seq(S))
  <2>1. Chunks(s) \in [1..m -> Seq(S)]
    BY <1>3, <1>5
  <2> QED BY <1>2, <2>1, SeqDef
<1>9. DOMAIN Chunks(s) = 1..m /\ Len(Chunks(s)) = m
  BY <1>2, <1>3, <1>8
<1>10. ASSUME NEW k \in 1..n
       PROVE  \E i \in DOMAIN Chunks(s) : s[k] \in Range(Chunks(s)[i])
  BY <1>5, <1>7, <1>9
<1>11. n > 0 => m > 0 /\ s[1] \in Range(Chunks(s)[1])
  <2> SUFFICES ASSUME n > 0
               PROVE  m > 0 /\ s[1] \in Range(Chunks(s)[1])
    OBVIOUS
  <2>1. PICK i \in 1..m : 1 \in lo(i)..hi(i)
    BY <1>1, <1>7
  <2>2. m > 0 /\ 1 \in 1..m
    BY <1>2, <2>1
  <2>3. lo(1) = 1 /\ hi(1) >= 1
    BY <1>1, <1>4, <2>2 DEF lo
  <2>4. 1 \in lo(1)..hi(1)
    BY <1>4, <2>2, <2>3
  <2> QED BY <1>5, <2>2, <2>4
<1> QED BY <1>6, <1>8, <1>9, <1>10, <1>11 DEF n

-----------------------------------------------------------------------------
(* The shape of a commit.  A plan first clears the rows of the heights     *)
(* `gone`, then puts the blocks `new`, and stamps last.                    *)

NoClears(t) == ~t.wipe /\ t.del = {}

ClearsOnly(ts, gone) ==
  /\ ts \in Seq(Txn)
  /\ \A i \in 1..Len(ts) : ts[i].put = <<>> /\ \A h \in Nat : Clears(ts[i], h) => h \in gone
  /\ \A h \in gone : \E i \in 1..Len(ts) : Clears(ts[i], h)

PutsOnly(ts, new) ==
  /\ ts \in Seq(Txn)
  /\ \A i \in 1..Len(ts) : NoClears(ts[i]) /\ Range(ts[i].put) \subseteq Range(new)
  /\ \A k \in 1..Len(new) : \E i \in 1..Len(ts) : new[k] \in Range(ts[i].put)
  /\ Len(ts) > 0 /\ new[1] \in Range(ts[1].put)

Plan(ts, gone, new, work) ==
  /\ ts \in Seq(Txn) /\ Len(ts) > 0
  /\ \A i \in 1..Len(ts) : /\ Range(ts[i].put) \subseteq Range(new)
                           /\ \A h \in Nat : Clears(ts[i], h) => h \in gone
  /\ \A h \in gone : \E i \in 1..Len(ts) :
       Clears(ts[i], h) /\ \A k \in 1..i - 1 : ts[k].put = <<>>
  /\ \A k \in 1..Len(new) : \E i \in 1..Len(ts) :
       /\ new[k] \in Range(ts[i].put)
       /\ \A j \in i + 1..Len(ts) : NoClears(ts[j])
       /\ k = 1 => \A j \in 1..i - 1 : ts[j].put = <<>>
  /\ ts[Len(ts)].stamp = work

(* How the models write down a sequence. *)
LEMMA FunctionIsSeq ==
  ASSUME NEW S, NEW n \in Nat, NEW f \in [1..n -> S]
  PROVE  f \in Seq(S) /\ Len(f) = n
<1>1. f \in Seq(S)
  BY SeqDef
<1>2. DOMAIN f = 1..n /\ DOMAIN f = 1..Len(f) /\ Len(f) \in Nat
  BY <1>1
<1> QED BY <1>1, <1>2

(* The records the operations build. *)
LEMMA PutRecord ==
  ASSUME NEW put \in Seq(Block)
  PROVE  /\ [NoTxn EXCEPT !.put = put] \in Txn
         /\ [NoTxn EXCEPT !.put = put].put = put
         /\ NoClears([NoTxn EXCEPT !.put = put])
BY EmptySeq DEF NoTxn, Txn, NoClears

(* One transaction of DeleteTxns. *)
LEMMA DelRecord ==
  ASSUME NEW del \in SUBSET (Nat \ {0})
  PROVE  /\ [NoTxn EXCEPT !.del = del] \in Txn
         /\ [NoTxn EXCEPT !.del = del].put = <<>>
         /\ [NoTxn EXCEPT !.del = del].del = del
         /\ ~[NoTxn EXCEPT !.del = del].wipe
BY EmptySeq DEF NoTxn, Txn

(* One transaction of the backfill. *)
LEMMA RowsRecord ==
  ASSUME NEW rows \in Seq(Block)
  PROVE  [NoTxn EXCEPT !.rows = rows] \in HistoryTxn
BY EmptySeq DEF NoTxn, Txn, HistoryTxn

(* The transaction that stamps the schema. *)
LEMMA SchemaRecord ==
  LET t == [NoTxn EXCEPT !.schema = SchemaVersion]
  IN  t \in Txn /\ t \in HistoryTxn /\ t.put = <<>> /\ NoClears(t)
BY EmptySeq DEF NoTxn, Txn, HistoryTxn, NoClears

(* The first transaction of a rebuild. *)
LEMMA WipeRecord ==
  LET t == [NoTxn EXCEPT !.wipe = TRUE]
  IN  t \in Txn /\ t.put = <<>> /\ t.wipe
BY EmptySeq DEF NoTxn, Txn

(* The last transaction of a batched commit. *)
LEMMA StampRecord ==
  ASSUME NEW w \in Nat
  PROVE  /\ [NoTxn EXCEPT !.stamp = w] \in Txn
         /\ [NoTxn EXCEPT !.stamp = w].put = <<>>
         /\ [NoTxn EXCEPT !.stamp = w].stamp = w
         /\ NoClears([NoTxn EXCEPT !.stamp = w])
BY EmptySeq DEF NoTxn, Txn, NoClears

(* appendBlocks *)
LEMMA ExtendRecord ==
  ASSUME NEW put \in Seq(Block), NEW w \in Nat
  PROVE  LET t == [NoTxn EXCEPT !.put = put, !.stamp = w]
         IN  t \in Txn /\ t.put = put /\ NoClears(t) /\ t.stamp = w
BY EmptySeq DEF NoTxn, Txn, NoClears

(* PutTxns puts the whole sequence and nothing else. *)
LEMMA PutTxnsShape ==
  ASSUME NEW s \in Seq(Block), Len(s) > 0
  PROVE  PutsOnly(PutTxns(s), s)
<1> DEFINE c == Chunks(s)
           ts == PutTxns(s)
<1>1. /\ c \in Seq(Seq(Block)) /\ Len(c) \in Nat /\ DOMAIN c = 1..Len(c)
      /\ \A i \in DOMAIN c : Range(c[i]) \subseteq Range(s)
      /\ \A k \in 1..Len(s) : \E i \in DOMAIN c : s[k] \in Range(c[i])
      /\ Len(c) > 0 /\ s[1] \in Range(c[1])
  BY ChunksCover
<1>2. ts = [i \in 1..Len(c) |-> [NoTxn EXCEPT !.put = c[i]]]
  BY <1>1 DEF PutTxns
<1> HIDE DEF c, ts
<1>3. \A i \in 1..Len(c) : ts[i] \in Txn /\ ts[i].put = c[i] /\ NoClears(ts[i])
  <2> SUFFICES ASSUME NEW i \in 1..Len(c)
               PROVE  ts[i] \in Txn /\ ts[i].put = c[i] /\ NoClears(ts[i])
    OBVIOUS
  <2>1. c[i] \in Seq(Block)
    BY <1>1
  <2>2. ts[i] = [NoTxn EXCEPT !.put = c[i]]
    BY <1>2
  <2> QED BY <2>1, <2>2, PutRecord
<1>4. ts \in Seq(Txn) /\ Len(ts) = Len(c)
  <2>1. ts \in [1..Len(c) -> Txn]
    BY <1>2, <1>3
  <2> QED BY <1>1, <2>1, FunctionIsSeq
<1>5. PutsOnly(ts, s)
  <2>1. \A i \in 1..Len(ts) : NoClears(ts[i]) /\ Range(ts[i].put) \subseteq Range(s)
    BY <1>1, <1>3, <1>4
  <2>2. \A k \in 1..Len(s) : \E i \in 1..Len(ts) : s[k] \in Range(ts[i].put)
    BY <1>1, <1>3, <1>4
  <2>3. Len(ts) > 0 /\ 1 \in 1..Len(c) /\ s[1] \in Range(ts[1].put)
    BY <1>1, <1>3, <1>4
  <2> QED BY <1>4, <2>1, <2>2, <2>3 DEF PutsOnly
<1> QED BY <1>5 DEF ts

(* DeleteTxns clears the heights from the fork to the tip, and no other. *)
LEMMA DeleteTxnsShape ==
  ASSUME NEW from \in Nat, from > 0, NEW tip \in Nat
  PROVE  ClearsOnly(DeleteTxns(from, tip), from..tip)
<1> DEFINE m == (tip - from + Batch) \div Batch
           hi(i) == tip - (i - 1) * Batch
           del(i) == Max({from, hi(i) - Batch + 1})..hi(i)
           ts == DeleteTxns(from, tip)
<1>1. Batch \in Nat /\ Batch > 0 /\ tip - from \in Int /\ m \in Int
      /\ m = (tip - from) \div Batch + 1
  <2> DEFINE d == tip - from
  <2>1. d \in Int
    OBVIOUS
  <2> HIDE DEF d
  <2>2. d \div Batch \in Int /\ (d + Batch) \div Batch = d \div Batch + 1
    BY <2>1, Quotient
  <2> QED BY <2>1, <2>2, ChainStoreAssumption DEF d
<1>2. ts = [i \in 1..m |-> [NoTxn EXCEPT !.del = del(i)]]
  BY DEF DeleteTxns
<1>3. ASSUME NEW i \in 1..m
      PROVE  /\ hi(i) \in Int /\ hi(i) <= tip /\ (i - 1) * Batch \in Nat
             /\ Max({from, hi(i) - Batch + 1})
                  = IF from >= hi(i) - Batch + 1 THEN from ELSE hi(i) - Batch + 1
  <2>1. i - 1 \in Nat
    BY <1>1
  <2>2. (i - 1) * Batch \in Nat
    <3>1. \A a, b \in Nat : a * b \in Nat
      OBVIOUS
    <3> QED BY <1>1, <2>1, <3>1
  <2>3. hi(i) \in Int /\ hi(i) <= tip /\ hi(i) - Batch + 1 \in Int
    BY <1>1, <2>2
  <2> QED BY <2>2, <2>3, MaxOfTwo
<1>4. ASSUME NEW i \in 1..m
      PROVE  del(i) \in SUBSET (Nat \ {0}) /\ del(i) \subseteq from..tip
  BY <1>1, <1>3
<1>5. ASSUME NEW h \in from..tip
      PROVE  \E i \in 1..m : h \in del(i)
  <2> DEFINE q == (tip - h) \div Batch
  <2>1. tip - h \in Nat /\ tip - h <= tip - from
    OBVIOUS
  <2>2. q \in Nat /\ q * Batch <= tip - h /\ tip - h < q * Batch + Batch
        /\ q <= (tip - from) \div Batch
    BY <1>1, <2>1, Quotient, QuotientMonotone
  <2>3. (tip - from) \div Batch \in Int
    BY <1>1, Quotient
  <2> HIDE DEF q, m, del, hi
  <2>4. q + 1 \in 1..m
    BY <1>1, <2>2, <2>3
  <2>5. hi(q + 1) = tip - q * Batch /\ q * Batch \in Nat
    <3>1. (q + 1) - 1 = q
      BY <2>2
    <3>2. q * Batch \in Nat
      BY <1>1, <2>2
    <3> QED BY <3>1, <3>2 DEF hi
  <2>6. h \in del(q + 1)
    <3>1. h <= hi(q + 1) /\ h >= hi(q + 1) - Batch + 1 /\ h >= from /\ h \in Int
      BY <1>1, <2>2, <2>5
    <3> QED BY <1>1, <1>3, <2>4, <3>1 DEF del
  <2> QED BY <2>4, <2>6
<1> HIDE DEF m, del, hi, ts
<1>6. ASSUME NEW i \in 1..m
      PROVE  ts[i] \in Txn /\ ts[i].put = <<>> /\ ts[i].del = del(i) /\ ~ts[i].wipe
  <2>1. ts[i] = [NoTxn EXCEPT !.del = del(i)]
    BY <1>2
  <2> QED BY <1>4, <2>1, DelRecord
<1>7. /\ ts \in Seq(Txn)
      /\ \A i \in 1..Len(ts) : i \in 1..m
      /\ \A i \in 1..m : i \in 1..Len(ts)
  <2>1. CASE m \in Nat
    <3>1. ts \in [1..m -> Txn]
      BY <1>2, <1>6
    <3>2. Len(ts) = m /\ ts \in Seq(Txn)
      BY <2>1, <3>1, FunctionIsSeq
    <3> QED BY <3>2
  <2>2. CASE m \notin Nat
    <3>1. 1..m = 1..0 /\ \A i \in 1..m : FALSE
      BY <1>1, <2>2
    <3>2. ts \in [1..0 -> Txn]
      BY <1>2, <3>1
    <3>3. Len(ts) = 0 /\ ts \in Seq(Txn)
      BY <3>2, FunctionIsSeq
    <3> QED BY <3>1, <3>3
  <2> QED BY <2>1, <2>2
<1>8. ClearsOnly(ts, from..tip)
  <2>1. \A i \in 1..Len(ts) : ts[i].put = <<>> /\ \A h \in Nat : Clears(ts[i], h) => h \in from..tip
    BY <1>4, <1>6, <1>7 DEF Clears
  <2>2. \A h \in from..tip : \E i \in 1..Len(ts) : Clears(ts[i], h)
    <3> SUFFICES ASSUME NEW h \in from..tip
                 PROVE  \E i \in 1..Len(ts) : Clears(ts[i], h)
      OBVIOUS
    <3>1. PICK i \in 1..m : h \in del(i)
      BY <1>5
    <3>2. h \in ts[i].del
      BY <1>6, <3>1
    <3>3. i \in 1..Len(ts)
      BY <1>7, <3>1
    <3> QED BY <3>2, <3>3 DEF Clears
  <2> QED BY <1>7, <2>1, <2>2 DEF ClearsOnly
<1> QED BY <1>8 DEF ts

(* Where a position of a concatenation lies. *)
LEMMA ThreeParts ==
  ASSUME NEW S, NEW a \in Seq(S), NEW b \in Seq(S), NEW s \in S
  PROVE  LET ts == a \o b \o <<s>>
         IN  /\ ts \in Seq(S) /\ Len(ts) = Len(a) + Len(b) + 1
             /\ \A i \in 1..Len(a) : ts[i] = a[i]
             /\ \A i \in 1..Len(b) : ts[Len(a) + i] = b[i]
             /\ ts[Len(a) + Len(b) + 1] = s
<1> DEFINE ab == a \o b
           one == <<s>>
<1>1. /\ ab \in Seq(S) /\ Len(ab) = Len(a) + Len(b)
      /\ \A i \in 1..Len(a) + Len(b) : ab[i] = IF i <= Len(a) THEN a[i] ELSE b[i - Len(a)]
  BY ConcatProperties
<1>2. one \in Seq(S) /\ Len(one) = 1 /\ one[1] = s
  OBVIOUS
<1>3. Len(a) \in Nat /\ Len(b) \in Nat
  OBVIOUS
<1> HIDE DEF ab, one
<1> DEFINE ts == ab \o one
<1>4. /\ ts \in Seq(S) /\ Len(ts) = Len(ab) + Len(one)
      /\ \A i \in 1..Len(ab) + Len(one) :
           ts[i] = IF i <= Len(ab) THEN ab[i] ELSE one[i - Len(ab)]
  <2>1. ab \in Seq(S) /\ one \in Seq(S)
    BY <1>1, <1>2
  <2> QED BY <2>1, ConcatProperties
<1> HIDE DEF ts
<1>5. Len(ts) = Len(a) + Len(b) + 1
  BY <1>1, <1>2, <1>3, <1>4
<1>6. \A i \in 1..Len(a) : ts[i] = a[i]
  BY <1>1, <1>2, <1>3, <1>4
<1>7. ASSUME NEW i \in 1..Len(b)
      PROVE  ts[Len(a) + i] = b[i]
  <2>1. Len(a) + i \in 1..Len(a) + Len(b) /\ ~(Len(a) + i <= Len(a))
        /\ (Len(a) + i) - Len(a) = i
    BY <1>3
  <2>2. ts[Len(a) + i] = ab[Len(a) + i]
    BY <1>1, <1>2, <1>3, <1>4, <2>1
  <2>3. ab[Len(a) + i] = b[i]
    BY <1>1, <2>1
  <2> QED BY <2>2, <2>3
<1>8. ts[Len(a) + Len(b) + 1] = s
  <2>1. Len(ab) + 1 \in 1..Len(ab) + Len(one) /\ ~(Len(ab) + 1 <= Len(ab))
        /\ (Len(ab) + 1) - Len(ab) = 1
    BY <1>1, <1>2, <1>3
  <2> QED BY <1>1, <1>2, <1>4, <2>1
<1> QED BY <1>4, <1>5, <1>6, <1>7, <1>8 DEF ts, ab, one

(* Clear, put, stamp. *)
LEMMA ComposePlan ==
  ASSUME NEW gone \in SUBSET Nat, NEW new, NEW w,
         NEW a, ClearsOnly(a, gone),
         NEW b, PutsOnly(b, new),
         NEW s \in Txn, s.put = <<>>, NoClears(s), s.stamp = w
  PROVE  Plan(a \o b \o <<s>>, gone, new, w)
<1> DEFINE ts == a \o b \o <<s>>
           n == Len(a)
           m == Len(b)
<1>1. /\ ts \in Seq(Txn) /\ Len(ts) = n + m + 1
      /\ \A i \in 1..n : ts[i] = a[i]
      /\ \A i \in 1..m : ts[n + i] = b[i]
      /\ ts[n + m + 1] = s
  BY ThreeParts DEF ClearsOnly, PutsOnly
<1>2. n \in Nat /\ m \in Nat
  BY DEF ClearsOnly, PutsOnly
<1> HIDE DEF ts
<1>3. ASSUME NEW i \in 1..Len(ts)
      PROVE  \/ i \in 1..n /\ ts[i] = a[i]
             \/ i - n \in 1..m /\ ts[i] = b[i - n]
             \/ i = n + m + 1 /\ ts[i] = s
  <2>1. i \in 1..n \/ i - n \in 1..m \/ i = n + m + 1
    BY <1>1, <1>2
  <2>2. i = n + (i - n)
    BY <1>2
  <2> QED BY <1>1, <2>1, <2>2
<1>4. Range(<<>>) = {}
  BY DEF Range
<1>5. ASSUME NEW i \in 1..Len(ts)
      PROVE  /\ Range(ts[i].put) \subseteq Range(new)
             /\ \A h \in Nat : Clears(ts[i], h) => h \in gone
  <2>1. CASE i \in 1..n /\ ts[i] = a[i]
    BY <1>4, <2>1 DEF ClearsOnly
  <2>2. CASE i - n \in 1..m /\ ts[i] = b[i - n]
    BY <2>2 DEF PutsOnly, NoClears, Clears
  <2>3. CASE ts[i] = s
    BY <1>4, <2>3 DEF NoClears, Clears
  <2> QED BY <1>3, <2>1, <2>2, <2>3
<1>6. ASSUME NEW h \in gone
      PROVE  \E i \in 1..Len(ts) : Clears(ts[i], h) /\ \A k \in 1..i - 1 : ts[k].put = <<>>
  <2>1. PICK i \in 1..n : Clears(a[i], h)
    BY DEF ClearsOnly
  <2>2. \A k \in 1..i - 1 : k \in 1..n /\ ts[k].put = <<>>
    <3> SUFFICES ASSUME NEW k \in 1..i - 1
                 PROVE  k \in 1..n /\ ts[k].put = <<>>
      OBVIOUS
    <3>1. k \in 1..n
      BY <1>2
    <3> QED BY <1>1, <3>1 DEF ClearsOnly
  <2>3. i \in 1..Len(ts) /\ ts[i] = a[i]
    BY <1>1, <1>2
  <2> QED BY <2>1, <2>2, <2>3
<1>7. ASSUME NEW j \in 1..Len(ts), j > n
      PROVE  NoClears(ts[j])
  <2>1. CASE j - n \in 1..m /\ ts[j] = b[j - n]
    BY <2>1 DEF PutsOnly
  <2> QED BY <1>2, <1>3, <1>7, <2>1
<1>8. ASSUME NEW k \in 1..Len(new)
      PROVE  \E i \in 1..Len(ts) :
               /\ new[k] \in Range(ts[i].put)
               /\ \A j \in i + 1..Len(ts) : NoClears(ts[j])
               /\ k = 1 => \A j \in 1..i - 1 : ts[j].put = <<>>
  <2>1. PICK p \in 1..m : new[k] \in Range(b[p].put) /\ (k = 1 => p = 1)
    <3>1. CASE k = 1
      <4>1. 1 \in 1..m /\ new[k] \in Range(b[1].put)
        BY <1>2, <3>1 DEF PutsOnly
      <4> QED BY <4>1
    <3>2. CASE k # 1
      BY <3>2 DEF PutsOnly
    <3> QED BY <3>1, <3>2
  <2>2. n + p \in 1..Len(ts) /\ ts[n + p] = b[p]
    BY <1>1, <1>2
  <2>3. \A j \in n + p + 1..Len(ts) : NoClears(ts[j])
    <3> SUFFICES ASSUME NEW j \in n + p + 1..Len(ts)
                 PROVE  NoClears(ts[j])
      OBVIOUS
    <3>1. j \in 1..Len(ts) /\ j > n
      BY <1>1, <1>2
    <3> QED BY <1>7, <3>1
  <2>4. p = 1 => \A j \in 1..n + p - 1 : ts[j].put = <<>>
    <3> SUFFICES ASSUME p = 1, NEW j \in 1..n + p - 1
                 PROVE  ts[j].put = <<>>
      OBVIOUS
    <3>1. j \in 1..n
      BY <1>2
    <3> QED BY <1>1, <3>1 DEF ClearsOnly
  <2> DEFINE i == n + p
  <2> HIDE DEF i
  <2> SUFFICES /\ i \in 1..Len(ts) /\ new[k] \in Range(ts[i].put)
               /\ \A j \in i + 1..Len(ts) : NoClears(ts[j])
               /\ k = 1 => \A j \in 1..i - 1 : ts[j].put = <<>>
    OBVIOUS
  <2> QED BY <2>1, <2>2, <2>3, <2>4 DEF i
<1>9. ts[Len(ts)].stamp = w /\ Len(ts) > 0
  BY <1>1, <1>2
<1>10. Plan(ts, gone, new, w)
  BY <1>1, <1>5, <1>6, <1>8, <1>9 DEF Plan
<1> QED BY <1>10 DEF ts

(* A single transaction that clears, puts and stamps. *)
LEMMA OneTxnPlan ==
  ASSUME NEW t \in Txn, NEW gone \in SUBSET Nat, NEW w,
         \A h \in Nat : Clears(t, h) <=> h \in gone, t.stamp = w
  PROVE  Plan(<<t>>, gone, t.put, w)
<1> DEFINE ts == <<t>>
<1>1. ts \in Seq(Txn) /\ Len(ts) = 1 /\ ts[1] = t
  OBVIOUS
<1>2. t.put \in Seq(Block)
  BY DEF Txn
<1> DEFINE p == t.put
<1>3. \A k \in 1..Len(p) : p[k] \in Range(p)
  BY <1>2 DEF Range
<1> HIDE DEF ts, p
<1>4. \A i \in 1..Len(ts) : i = 1 /\ ts[i] = t
  BY <1>1
<1>5. \A i \in 1..Len(ts) : Range(ts[i].put) \subseteq Range(p)
                             /\ \A h \in Nat : Clears(ts[i], h) => h \in gone
  BY <1>4 DEF p
<1>6. ASSUME NEW h \in gone
      PROVE  \E i \in 1..Len(ts) : Clears(ts[i], h) /\ \A k \in 1..i - 1 : ts[k].put = <<>>
  <2>1. 1 \in 1..Len(ts) /\ Clears(ts[1], h) /\ \A k \in 1..1 - 1 : FALSE
    BY <1>1
  <2> QED BY <2>1
<1>7. ASSUME NEW k \in 1..Len(p)
      PROVE  \E i \in 1..Len(ts) :
               /\ p[k] \in Range(ts[i].put)
               /\ \A j \in i + 1..Len(ts) : NoClears(ts[j])
               /\ k = 1 => \A j \in 1..i - 1 : ts[j].put = <<>>
  <2>1. 1 \in 1..Len(ts) /\ (\A j \in 1 + 1..Len(ts) : FALSE) /\ \A j \in 1..1 - 1 : FALSE
    BY <1>1
  <2>2. p[k] \in Range(ts[1].put)
    BY <1>1, <1>3 DEF p
  <2> QED BY <2>1, <2>2
<1>8. ts[Len(ts)].stamp = w /\ Len(ts) > 0
  BY <1>1
<1>9. Plan(ts, gone, p, w)
  BY <1>1, <1>5, <1>6, <1>7, <1>8 DEF Plan
<1> QED BY <1>9 DEF ts, p

(* appendBlocks as a plan. *)
LEMMA ExtendPlan ==
  ASSUME NEW new \in Seq(Block), NEW w \in Nat
  PROVE  Plan(ExtendTxns(new, w), {}, new, w)
<1> DEFINE t == [NoTxn EXCEPT !.put = new, !.stamp = w]
<1>1. t \in Txn /\ t.put = new /\ NoClears(t) /\ t.stamp = w
  BY ExtendRecord
<1>2. ExtendTxns(new, w) = <<t>>
  BY DEF ExtendTxns
<1> HIDE DEF t
<1>3. \A h \in Nat : Clears(t, h) <=> h \in {}
  BY <1>1 DEF NoClears, Clears
<1>4. Plan(<<t>>, {}, t.put, w)
  BY <1>1, <1>3, OneTxnPlan
<1> QED BY <1>1, <1>2, <1>4

(* truncateAndAppend as a plan, in one transaction or batched. *)
LEMMA ReorgPlan ==
  ASSUME NEW from \in Nat, from > 0, NEW new \in Seq(Block), Len(new) > 0, NEW w \in Nat,
         Max(DOMAIN disk.blocks) \in Nat
  PROVE  Plan(ReorgTxns(from, new, w), from..Max(DOMAIN disk.blocks), new, w)
<1> DEFINE tip == Max(DOMAIN disk.blocks)
           t == [NoTxn EXCEPT !.del = from..tip, !.put = new, !.stamp = w]
           s == [NoTxn EXCEPT !.stamp = w]
           gone == from..tip
<1>1. tip \in Nat /\ gone \in SUBSET (Nat \ {0}) /\ gone \in SUBSET Nat
  OBVIOUS
<1>2. t \in Txn /\ t.put = new /\ t.del = gone /\ ~t.wipe /\ t.stamp = w
  <2> HIDE DEF tip
  <2> DEFINE del == gone
  <2>1. del \in SUBSET (Nat \ {0})
    BY <1>1
  <2> HIDE DEF gone
  <2>2. t = [NoTxn EXCEPT !.del = del, !.put = new, !.stamp = w]
    BY DEF gone
  <2> HIDE DEF t, del
  <2>3. t \in Txn /\ t.put = new /\ t.del = del /\ ~t.wipe /\ t.stamp = w
    BY <2>1, <2>2, EmptySeq DEF NoTxn, Txn
  <2> QED BY <2>3 DEF del
<1>3. s \in Txn /\ s.put = <<>> /\ s.stamp = w /\ NoClears(s)
  BY StampRecord
<1>4. \/ ReorgTxns(from, new, w) = <<t>>
      \/ ReorgTxns(from, new, w) = DeleteTxns(from, tip) \o PutTxns(new) \o <<s>>
  BY DEF ReorgTxns
<1> HIDE DEF t, s
<1>5. ClearsOnly(DeleteTxns(from, tip), gone)
  <2> HIDE DEF tip
  <2> QED BY <1>1, DeleteTxnsShape
<1>6. PutsOnly(PutTxns(new), new)
  BY PutTxnsShape
<1> HIDE DEF tip, gone
<1>7. Plan(<<t>>, gone, new, w)
  <2>1. \A h \in Nat : Clears(t, h) <=> h \in gone
    BY <1>2 DEF Clears
  <2>2. Plan(<<t>>, gone, t.put, w)
    BY <1>1, <1>2, <2>1, OneTxnPlan
  <2> QED BY <1>2, <2>2
<1>8. Plan(DeleteTxns(from, tip) \o PutTxns(new) \o <<s>>, gone, new, w)
  BY <1>1, <1>3, <1>5, <1>6, ComposePlan
<1>9. Plan(ReorgTxns(from, new, w), gone, new, w)
  BY <1>4, <1>7, <1>8
<1> QED BY <1>9 DEF gone, tip

(* The startup prefix and the rebuild, regrouped. *)
LEMMA ConcatFour ==
  \A S : \A a, b, c, d \in Seq(S) : a \o (b \o c \o d) = (a \o b) \o c \o d
<1> SUFFICES ASSUME NEW S, NEW a \in Seq(S), NEW b \in Seq(S), NEW c \in Seq(S),
                    NEW d \in Seq(S)
             PROVE  a \o (b \o c \o d) = (a \o b) \o c \o d
  OBVIOUS
<1>1. b \o c \in Seq(S)
  BY ConcatProperties
<1>2. \A x \in Seq(S) : (a \o x) \o d = a \o (x \o d)
  BY ConcatAssociative
<1> QED BY <1>1, <1>2, ConcatAssociative, SMTT(30)

(* With or without the schema bump of a healing startup. *)
IsBump(ts) == ts = <<>> \/ ts = <<[NoTxn EXCEPT !.schema = SchemaVersion]>>

(* rebuild as a plan that clears every height. *)
LEMMA RebuildPlan ==
  ASSUME NEW chain \in Seq(Block), Len(chain) > 0, SumWork(chain) \in Nat,
         NEW bump, IsBump(bump)
  PROVE  Plan(bump \o RebuildTxns(chain), Nat, chain, SumWork(chain))
<1> DEFINE w == SumWork(chain)
           wipe == [NoTxn EXCEPT !.wipe = TRUE]
           b == [NoTxn EXCEPT !.schema = SchemaVersion]
           s == [NoTxn EXCEPT !.stamp = w]
           puts == PutTxns(chain)
<1>1. wipe \in Txn /\ wipe.put = <<>> /\ wipe.wipe
  BY WipeRecord
<1>2. b \in Txn /\ b.put = <<>> /\ NoClears(b)
  BY SchemaRecord
<1>3. w \in Nat
  OBVIOUS
<1>4. RebuildTxns(chain) = <<wipe>> \o puts \o <<s>>
  BY DEF RebuildTxns
<1>5. PutsOnly(puts, chain)
  BY PutTxnsShape
<1> HIDE DEF w, wipe, puts
<1>6. s \in Txn /\ s.put = <<>> /\ NoClears(s) /\ s.stamp = w
  BY <1>3, StampRecord
<1>7. bump = <<>> \/ bump = <<b>>
  BY DEF IsBump
<1> HIDE DEF b, s
<1> DEFINE a == bump \o <<wipe>>
<1>8. bump \in Seq(Txn) /\ <<wipe>> \in Seq(Txn) /\ <<s>> \in Seq(Txn) /\ puts \in Seq(Txn)
  <2>1. bump \in Seq(Txn)
    <3>1. CASE bump = <<>>
      BY <3>1, EmptySeq
    <3>2. CASE bump = <<b>>
      BY <1>2, <3>2
    <3> QED BY <1>7, <3>1, <3>2
  <2>2. <<wipe>> \in Seq(Txn) /\ <<s>> \in Seq(Txn)
    BY <1>1, <1>6
  <2> QED BY <1>5, <2>1, <2>2 DEF PutsOnly
<1>9. bump \o RebuildTxns(chain) = a \o puts \o <<s>>
  <2> DEFINE ws == <<wipe>>
             ss == <<s>>
  <2>1. ws \in Seq(Txn) /\ ss \in Seq(Txn) /\ puts \in Seq(Txn) /\ bump \in Seq(Txn)
    BY <1>8
  <2>2. RebuildTxns(chain) = ws \o puts \o ss
    BY <1>4
  <2> HIDE DEF ws, ss
  <2>3. bump \o (ws \o puts \o ss) = (bump \o ws) \o puts \o ss
    BY <2>1, ConcatFour, SMTT(60)
  <2> QED BY <2>2, <2>3 DEF ws, ss
<1>10. ClearsOnly(a, Nat)
  <2> DEFINE ws == <<wipe>>
  <2>1. ws \in Seq(Txn) /\ Len(ws) = 1 /\ ws[1] = wipe
    BY <1>8
  <2>2. \/ bump = <<>> /\ Len(bump) = 0
        \/ Len(bump) = 1 /\ bump[1] = b
    BY <1>7
  <2> HIDE DEF ws
  <2> DEFINE c == bump \o ws
  <2>3. /\ c \in Seq(Txn) /\ Len(c) = Len(bump) + Len(ws)
        /\ \A i \in 1..Len(bump) + Len(ws) :
             c[i] = IF i <= Len(bump) THEN bump[i] ELSE ws[i - Len(bump)]
    BY <1>8, <2>1, ConcatProperties
  <2> HIDE DEF c
  <2>4. \A i \in 1..Len(c) : c[i] = wipe \/ c[i] = b
    BY <2>1, <2>2, <2>3
  <2>5. Len(c) \in 1..Len(c) /\ c[Len(c)] = wipe
    BY <2>1, <2>2, <2>3
  <2>6. ClearsOnly(c, Nat)
    BY <1>1, <1>2, <2>3, <2>4, <2>5 DEF ClearsOnly, Clears
  <2> QED BY <2>6 DEF c, ws
<1> HIDE DEF a
<1>11. Nat \in SUBSET Nat
  OBVIOUS
<1>12. Plan(a \o puts \o <<s>>, Nat, chain, w)
  BY <1>5, <1>6, <1>10, <1>11, ComposePlan
<1> QED BY <1>9, <1>12 DEF w

-----------------------------------------------------------------------------
(* Chains and rows. *)

(* A chain has work: its stamp differs from "no stamp". *)
LEMMA SumWorkPositive ==
  ASSUME NEW c, IsChain(c)
  PROVE  SumWork(c) \in Nat /\ SumWork(c) > 0
<1> DEFINE S == {s \in Seq(Block) : s = <<>> \/ SumWork(s) > 0}
<1>1. <<>> \in S
  BY EmptySeq
<1>2. ASSUME NEW s \in Seq(Block), NEW b \in Block, s \in S
      PROVE  Append(s, b) \in S
  <2>1. SumWork(Append(s, b)) = SumWork(s) + Work[b] /\ Append(s, b) \in Seq(Block)
    BY SumWorkAppend
  <2>2. SumWork(s) \in Nat /\ Work[b] \in Nat /\ Work[b] > 0
    BY SumWorkType, BlockTreeAssumption
  <2> QED BY <2>1, <2>2
<1>3. Seq(Block) \subseteq S
  <2> HIDE DEF S
  <2> QED BY <1>1, <1>2, SeqSetInduction
<1>4. c \in Seq(Block) /\ c # <<>>
  BY DEF IsChain
<1> QED BY <1>3, <1>4, SumWorkType

(* In a chain the height of a block is its place. *)
LEMMA ChainPlaces ==
  ASSUME NEW c, IsChain(c)
  PROVE  /\ Len(c) \in Nat /\ Len(c) > 0
         /\ \A h \in 0..Len(c) - 1 : c[h + 1] \in Block /\ Height[c[h + 1]] = h
                                     /\ c[h + 1] \in BlocksOf(c)
         /\ \A b \in BlocksOf(c) : Height[b] \in 0..Len(c) - 1 /\ b = c[Height[b] + 1]
<1>1. c \in Seq(Block) /\ Len(c) \in Nat /\ Len(c) > 0 /\ c[1] = Genesis
  BY DEF IsChain
<1>2. ASSUME NEW i \in 1..Len(c)
      PROVE  c[i] \in Block /\ Height[c[i]] = i - 1
  <2>1. c[i] \in Block
    BY <1>1
  <2>2. CASE i = 1
    BY <1>1, <2>1, <2>2, BlockTreeAssumption
  <2>3. CASE i # 1
    <3>1. i \in 2..Len(c)
      BY <1>1, <2>3
    <3> QED BY <2>1, <3>1 DEF IsChain, LinkedAt
  <2> QED BY <2>2, <2>3
<1>3. ASSUME NEW h \in 0..Len(c) - 1
      PROVE  c[h + 1] \in Block /\ Height[c[h + 1]] = h /\ c[h + 1] \in BlocksOf(c)
  <2>1. h + 1 \in 1..Len(c) /\ h \in Nat /\ (h + 1) - 1 = h
    BY <1>1
  <2> QED BY <1>2, <2>1 DEF BlocksOf
<1>4. ASSUME NEW b \in BlocksOf(c)
      PROVE  Height[b] \in 0..Len(c) - 1 /\ b = c[Height[b] + 1]
  <2>1. PICK i \in 1..Len(c) : b = c[i]
    BY DEF BlocksOf
  <2>2. Height[b] = i - 1
    BY <1>2, <2>1
  <2> QED BY <1>1, <2>1, <2>2
<1> QED BY <1>1, <1>3, <1>4

(* Elements and positions of a sequence. *)
LEMMA RangeElements ==
  ASSUME NEW S, NEW s \in Seq(S)
  PROVE  /\ \A x \in Range(s) : x \in S
         /\ \A i \in 1..Len(s) : s[i] \in Range(s)
<1>1. DOMAIN s = 1..Len(s)
  OBVIOUS
<1>2. \A i \in 1..Len(s) : s[i] \in S
  BY ElementOfSeq
<1>3. \A x \in Range(s) : x \in S
  BY <1>1, <1>2 DEF Range
<1>4. \A i \in 1..Len(s) : s[i] \in Range(s)
  BY <1>1 DEF Range
<1> QED BY <1>3, <1>4

(* What one transaction makes of the rows. *)
LEMMA RowsAfterShape ==
  ASSUME NEW d, NEW t \in Txn
  PROVE  LET rows == RowsAfter(d, t)
         IN  /\ rows = [h \in DOMAIN rows |-> rows[h]]
             /\ \A h \in Nat : h \in DOMAIN rows <=>
                  Sets(t, h) \/ (h \in DOMAIN d.blocks /\ ~Clears(t, h))
             /\ \A h \in DOMAIN rows : h \in Nat \/ h \in DOMAIN d.blocks
             /\ \A h \in DOMAIN rows :
                  IF Sets(t, h) THEN rows[h] \in Range(t.put) /\ Height[rows[h]] = h
                  ELSE rows[h] = d.blocks[h]
<1> DEFINE put == Range(t.put)
           kept == IF t.wipe THEN {} ELSE DOMAIN d.blocks \ t.del
           dom == kept \cup {Height[b] : b \in put}
           val(h) == IF \E b \in put : Height[b] = h THEN CHOOSE b \in put : Height[b] = h
                     ELSE d.blocks[h]
           rows == RowsAfter(d, t)
<1>1. rows = [h \in dom |-> val(h)]
  BY DEF RowsAfter
<1>2. t.wipe \in BOOLEAN /\ t.put \in Seq(Block)
  BY DEF Txn
<1>3. \A b \in put : b \in Block /\ Height[b] \in Nat
  <2>1. \A b \in put : b \in Block
    BY <1>2, RangeElements
  <2> QED BY <2>1, BlockTreeAssumption
<1> HIDE DEF rows, put
<1>4. \A h : h \in dom <=> h \in kept \/ \E b \in put : Height[b] = h
  OBVIOUS
<1>5. \A h : h \in kept <=> h \in DOMAIN d.blocks /\ ~Clears(t, h)
  BY <1>2 DEF Clears
<1>6. \A h : Sets(t, h) <=> \E b \in put : Height[b] = h
  BY DEF Sets, put
<1>7. ASSUME NEW h \in dom
      PROVE  IF Sets(t, h) THEN val(h) \in put /\ Height[val(h)] = h ELSE val(h) = d.blocks[h]
  BY <1>6
<1> HIDE DEF dom, val, kept
<1>8. DOMAIN rows = dom /\ \A h \in dom : rows[h] = val(h)
  BY <1>1
<1>9. rows = [h \in DOMAIN rows |-> rows[h]]
  BY <1>1
<1>10. \A h \in Nat : h \in DOMAIN rows <=>
         Sets(t, h) \/ (h \in DOMAIN d.blocks /\ ~Clears(t, h))
  BY <1>4, <1>5, <1>6, <1>8
<1>11. \A h \in DOMAIN rows : h \in Nat \/ h \in DOMAIN d.blocks
  BY <1>3, <1>4, <1>5, <1>8
<1>12. \A h \in DOMAIN rows :
         IF Sets(t, h) THEN rows[h] \in Range(t.put) /\ Height[rows[h]] = h
         ELSE rows[h] = d.blocks[h]
  BY <1>7, <1>8 DEF put
<1> QED BY <1>9, <1>10, <1>11, <1>12 DEF rows

(* What a transaction of a commit makes of the rows: those it puts are     *)
(* rows of the chain.                                                      *)
LEMMA RowsAfterPut ==
  ASSUME NEW d, RowsOK(d.blocks), NEW t \in Txn, NEW c, IsChain(c),
         Range(t.put) \subseteq BlocksOf(c)
  PROVE  LET rows == RowsAfter(d, t)
         IN  /\ rows = [h \in DOMAIN rows |-> rows[h]]
             /\ \A h \in DOMAIN rows : h \in Nat
             /\ \A h : Sets(t, h) => h \in 0..Len(c) - 1 /\ h \in DOMAIN rows
                                     /\ rows[h] = c[h + 1] /\ c[h + 1] \in Range(t.put)
             /\ \A h \in DOMAIN rows : ~Sets(t, h) =>
                  h \in DOMAIN d.blocks /\ ~Clears(t, h) /\ rows[h] = d.blocks[h]
             /\ \A h \in DOMAIN d.blocks : ~Clears(t, h) => h \in DOMAIN rows
<1> DEFINE rows == RowsAfter(d, t)
<1>1. /\ rows = [h \in DOMAIN rows |-> rows[h]]
      /\ \A h \in Nat : h \in DOMAIN rows <=>
           Sets(t, h) \/ (h \in DOMAIN d.blocks /\ ~Clears(t, h))
      /\ \A h \in DOMAIN rows : h \in Nat \/ h \in DOMAIN d.blocks
      /\ \A h \in DOMAIN rows :
           IF Sets(t, h) THEN rows[h] \in Range(t.put) /\ Height[rows[h]] = h
           ELSE rows[h] = d.blocks[h]
  BY RowsAfterShape
<1> HIDE DEF rows
<1>2. \A h \in DOMAIN d.blocks : h \in Nat
  <2>1. PICK n \in Nat : DOMAIN d.blocks \subseteq 0..n
    BY DEF RowsOK
  <2> SUFFICES ASSUME NEW h \in DOMAIN d.blocks
               PROVE  h \in Nat
    OBVIOUS
  <2>2. h \in 0..n
    BY <2>1
  <2> QED BY <2>2
<1>3. ASSUME NEW h, Sets(t, h)
      PROVE  /\ h \in 0..Len(c) - 1 /\ h \in DOMAIN rows
             /\ rows[h] = c[h + 1] /\ c[h + 1] \in Range(t.put)
  <2>1. PICK b \in Range(t.put) : Height[b] = h
    BY <1>3 DEF Sets
  <2>2. h \in 0..Len(c) - 1 /\ h \in Nat
    BY <2>1, ChainPlaces
  <2>3. h \in DOMAIN rows
    BY <1>1, <1>3, <2>2
  <2>4. rows[h] \in Range(t.put) /\ Height[rows[h]] = h
    BY <1>1, <1>3, <2>3
  <2>5. rows[h] = c[h + 1]
    BY <2>4, ChainPlaces
  <2> QED BY <2>2, <2>3, <2>4, <2>5
<1>4. \A h \in DOMAIN rows : h \in Nat
  BY <1>1, <1>2
<1>5. ASSUME NEW h \in DOMAIN rows, ~Sets(t, h)
      PROVE  h \in DOMAIN d.blocks /\ ~Clears(t, h) /\ rows[h] = d.blocks[h]
  BY <1>1, <1>4, <1>5
<1>6. \A h \in DOMAIN d.blocks : ~Clears(t, h) => h \in DOMAIN rows
  BY <1>1, <1>2
<1> QED BY <1>1, <1>3, <1>4, <1>5, <1>6 DEF rows

(* The transactions left when the first has run. *)
LEMMA RestOf ==
  ASSUME NEW ts \in Seq(Txn), ts # <<>>
  PROVE  /\ Head(ts) \in Txn /\ Head(ts) = ts[1] /\ Tail(ts) \in Seq(Txn)
         /\ Len(ts) \in Nat /\ Len(ts) > 0 /\ Len(Tail(ts)) = Len(ts) - 1
         /\ \A i \in 1..Len(Tail(ts)) : Tail(ts)[i] = ts[i + 1] /\ i + 1 \in 2..Len(ts)
         /\ \A i \in 2..Len(ts) : i - 1 \in 1..Len(Tail(ts)) /\ ts[i] = Tail(ts)[i - 1]
<1>1. /\ Head(ts) \in Txn /\ Tail(ts) \in Seq(Txn) /\ Len(Tail(ts)) = Len(ts) - 1
      /\ \A i \in 1..Len(Tail(ts)) : Tail(ts)[i] = ts[i + 1]
  BY HeadTailProperties
<1>2. Head(ts) = ts[1] /\ Len(ts) \in Nat /\ Len(ts) > 0
  BY EmptySeq
<1> DEFINE r == Tail(ts)
           n == Len(ts)
<1> HIDE DEF r
<1>3. ASSUME NEW i \in 2..n
      PROVE  i - 1 \in 1..Len(r) /\ ts[i] = r[i - 1]
  <2>1. i - 1 \in 1..Len(r) /\ (i - 1) + 1 = i
    BY <1>1, <1>2 DEF r
  <2> QED BY <1>1, <2>1 DEF r
<1>4. \A i \in 1..Len(r) : i + 1 \in 2..n
  BY <1>1, <1>2 DEF r
<1> QED BY <1>1, <1>2, <1>3, <1>4 DEF r

(* Executing the first transaction of a commit. *)
LEMMA HeadRuns ==
  ASSUME NEW d, RowsOK(d.blocks), NEW ts \in Seq(Txn), ts # <<>>,
         NEW c, IsChain(c), BlocksOf(c) \subseteq Sound, PutsFrom(ts, c)
  PROVE  LET rows == RowsAfter(d, Head(ts))
         IN  /\ PutsFrom(Tail(ts), c)
             /\ \A h \in DOMAIN d.blocks : ~Clears(Head(ts), h) => h \in DOMAIN rows
             /\ \A h \in Nat : RowIs(d.blocks, c, h) /\ Stays(ts, h) =>
                                 RowIs(rows, c, h) /\ Stays(Tail(ts), h)
             /\ Leads(d.blocks, ts, c) => Leads(rows, Tail(ts), c)
             /\ OverwritesNothing(d.blocks, ts, c) => OverwritesNothing(rows, Tail(ts), c)
             /\ GenesisFirst(d.blocks, ts) => RowsOK(rows) /\ GenesisFirst(rows, Tail(ts))
<1> DEFINE old == d.blocks
           t == Head(ts)
           r == Tail(ts)
           n == Len(ts)
           rows == RowsAfter(d, t)
<1>1. /\ t \in Txn /\ t = ts[1] /\ r \in Seq(Txn)
      /\ n \in Nat /\ n > 0 /\ Len(r) = n - 1
      /\ \A i \in 1..Len(r) : r[i] = ts[i + 1] /\ i + 1 \in 2..n
      /\ \A i \in 2..n : i - 1 \in 1..Len(r) /\ ts[i] = r[i - 1]
  BY RestOf
<1>2. Range(t.put) \subseteq BlocksOf(c)
  <2>1. 1 \in 1..n
    BY <1>1
  <2> QED BY <1>1, <2>1 DEF PutsFrom
<1>3. /\ rows = [h \in DOMAIN rows |-> rows[h]]
      /\ \A h \in DOMAIN rows : h \in Nat
      /\ \A h : Sets(t, h) => h \in 0..Len(c) - 1 /\ h \in DOMAIN rows
                              /\ rows[h] = c[h + 1] /\ c[h + 1] \in Range(t.put)
      /\ \A h \in DOMAIN rows : ~Sets(t, h) =>
           h \in DOMAIN old /\ ~Clears(t, h) /\ rows[h] = old[h]
      /\ \A h \in DOMAIN old : ~Clears(t, h) => h \in DOMAIN rows
  <2> HIDE DEF t
  <2> QED BY <1>1, <1>2, RowsAfterPut
<1>4. /\ Len(c) \in Nat /\ Len(c) > 0
      /\ \A h \in 0..Len(c) - 1 : c[h + 1] \in Block /\ Height[c[h + 1]] = h
                                  /\ c[h + 1] \in BlocksOf(c)
  BY ChainPlaces
<1> HIDE DEF old, t, r, n, rows
<1>5. PutsFrom(r, c)
  <2> SUFFICES ASSUME NEW i \in 1..Len(r)
               PROVE  Range(r[i].put) \subseteq BlocksOf(c)
    BY DEF PutsFrom
  <2>1. r[i] = ts[i + 1] /\ i + 1 \in 1..n
    BY <1>1
  <2> QED BY <2>1 DEF PutsFrom, n
<1>6. \A h : Sets(t, h) => RowIs(rows, c, h)
  BY <1>3 DEF RowIs
<1>7. \A h : h \in DOMAIN old /\ ~Clears(t, h) /\ ~Sets(t, h) =>
               h \in DOMAIN rows /\ rows[h] = old[h]
  BY <1>3
<1>8. ASSUME NEW h, ~Clears(t, h), RowIs(old, c, h)
      PROVE  RowIs(rows, c, h)
  <2>1. CASE Sets(t, h)
    BY <1>6, <2>1
  <2>2. CASE ~Sets(t, h)
    BY <1>7, <1>8, <2>2 DEF RowIs
  <2> QED BY <2>1, <2>2
<1>9. ASSUME NEW h, Stays(ts, h)
      PROVE  ~Clears(t, h) /\ Stays(r, h)
  <2>1. 1 \in 1..n
    BY <1>1
  <2>2. ~Clears(t, h)
    BY <1>1, <1>9, <2>1 DEF Stays, n
  <2>3. \A j \in 1..Len(r) : j + 1 \in 1..n /\ r[j] = ts[j + 1]
    BY <1>1
  <2>4. Stays(r, h)
    BY <1>9, <2>3 DEF Stays, n
  <2> QED BY <2>2, <2>4
<1>10. ASSUME NEW h \in Nat, RowIs(old, c, h), Stays(ts, h)
       PROVE  RowIs(rows, c, h) /\ Stays(r, h)
  BY <1>8, <1>9, <1>10
(* A height that a later transaction sets is set by the rest, one that the *)
(* first sets for good is set now.                                         *)
<1>11. ASSUME NEW h, NEW i \in 1..n, Sets(ts[i], h), \A j \in i + 1..n : ~Clears(ts[j], h)
       PROVE  IF i = 1 THEN RowIs(rows, c, h) /\ Stays(r, h)
              ELSE Sets(r[i - 1], h) /\ \A j \in (i - 1) + 1..Len(r) : ~Clears(r[j], h)
  <2>1. CASE i = 1
    <3>1. RowIs(rows, c, h)
      BY <1>1, <1>6, <1>11, <2>1
    <3>2. \A j \in 1..Len(r) : j + 1 \in 2..n /\ r[j] = ts[j + 1]
      BY <1>1
    <3>3. Stays(r, h)
      BY <1>11, <2>1, <3>2 DEF Stays
    <3> QED BY <2>1, <3>1, <3>3
  <2>2. CASE i # 1
    <3>1. i \in 2..n
      BY <1>1, <2>2
    <3>2. \A j \in (i - 1) + 1..Len(r) : j + 1 \in i + 1..n /\ r[j] = ts[j + 1]
      <4> SUFFICES ASSUME NEW j \in (i - 1) + 1..Len(r)
                   PROVE  j + 1 \in i + 1..n /\ r[j] = ts[j + 1]
        OBVIOUS
      <4>1. j \in 1..Len(r) /\ j + 1 \in i + 1..n
        BY <1>1, <3>1
      <4> QED BY <1>1, <4>1
    <3>3. Sets(r[i - 1], h)
      BY <1>1, <1>11, <3>1
    <3>4. \A j \in (i - 1) + 1..Len(r) : ~Clears(r[j], h)
      BY <1>11, <3>2
    <3> QED BY <2>2, <3>3, <3>4
  <2> QED BY <2>1, <2>2
<1>12. ASSUME Leads(old, ts, c)
       PROVE  Leads(rows, r, c)
  <2>1. ASSUME NEW h \in 0..Len(c) - 1
        PROVE  WillBeSet(r, h) \/ (RowIs(rows, c, h) /\ Stays(r, h))
    <3>1. CASE RowIs(old, c, h) /\ Stays(ts, h)
      <4>1. h \in Nat
        BY <1>4
      <4> QED BY <1>10, <3>1, <4>1
    <3>2. CASE WillBeSet(ts, h)
      <4>1. PICK i \in 1..n : Sets(ts[i], h) /\ \A j \in i + 1..n : ~Clears(ts[j], h)
        BY <3>2 DEF WillBeSet, n
      <4>2. CASE i = 1
        BY <1>11, <4>1, <4>2
      <4>3. CASE i # 1
        <5>1. i - 1 \in 1..Len(r)
          BY <1>1, <4>3
        <5>2. Sets(r[i - 1], h) /\ \A j \in (i - 1) + 1..Len(r) : ~Clears(r[j], h)
          BY <1>11, <4>1, <4>3
        <5> DEFINE k == i - 1
        <5> HIDE DEF k
        <5>3. k \in 1..Len(r) /\ Sets(r[k], h) /\ \A j \in k + 1..Len(r) : ~Clears(r[j], h)
          BY <5>1, <5>2 DEF k
        <5> QED BY <5>3 DEF WillBeSet
      <4> QED BY <4>2, <4>3
    <3> QED BY <1>12, <3>1, <3>2 DEF Leads
  <2>2. ASSUME NEW h \in DOMAIN rows, h \notin 0..Len(c) - 1
        PROVE  \E j \in 1..Len(r) : Clears(r[j], h)
    <3>1. h \in DOMAIN old /\ ~Clears(t, h)
      BY <1>3, <2>2
    <3>2. PICK j \in 1..n : Clears(ts[j], h)
      BY <1>12, <2>2, <3>1 DEF Leads, n
    <3>3. j # 1
      BY <1>1, <3>1, <3>2
    <3>4. j \in 2..n
      BY <1>1, <3>3
    <3>5. j - 1 \in 1..Len(r) /\ Clears(r[j - 1], h)
      BY <1>1, <3>2, <3>4
    <3> QED BY <3>5
  <2> QED BY <2>1, <2>2 DEF Leads
<1>13. ASSUME OverwritesNothing(old, ts, c)
       PROVE  OverwritesNothing(rows, r, c)
  <2> SUFFICES ASSUME NEW i \in 1..Len(r), NEW h \in DOMAIN rows, Sets(r[i], h),
                      ~RowIs(rows, c, h)
               PROVE  \E j \in 1..i : Clears(r[j], h)
    BY DEF OverwritesNothing
  <2>1. ~Sets(t, h) /\ h \in DOMAIN old /\ ~Clears(t, h) /\ rows[h] = old[h]
    BY <1>3, <1>6
  <2>2. i + 1 \in 1..n /\ Sets(ts[i + 1], h) /\ ~RowIs(old, c, h)
    BY <1>1, <2>1 DEF RowIs
  <2>3. PICK j \in 1..i + 1 : Clears(ts[j], h)
    BY <1>13, <2>1, <2>2 DEF OverwritesNothing, n
  <2>4. j \in 2..n /\ j - 1 \in 1..i
    <3>1. j # 1
      BY <1>1, <2>1, <2>3
    <3> QED BY <1>1, <3>1
  <2>5. Clears(r[j - 1], h)
    BY <1>1, <2>3, <2>4
  <2> QED BY <2>4, <2>5
<1>14. ASSUME GenesisFirst(old, ts)
       PROVE  RowsOK(rows) /\ GenesisFirst(rows, r)
  <2>1. \A h \in DOMAIN rows : rows[h] \in Sound /\ Height[rows[h]] = h
    <3> SUFFICES ASSUME NEW h \in DOMAIN rows
                 PROVE  rows[h] \in Sound /\ Height[rows[h]] = h
      OBVIOUS
    <3>1. CASE Sets(t, h)
      <4>1. h \in 0..Len(c) - 1 /\ rows[h] = c[h + 1]
        BY <1>3, <3>1
      <4> QED BY <1>4, <4>1
    <3>2. CASE ~Sets(t, h)
      <4>1. h \in DOMAIN old /\ rows[h] = old[h]
        BY <1>3, <3>2
      <4> QED BY <4>1 DEF RowsOK, old
    <3> QED BY <3>1, <3>2
  <2>2. \E m \in Nat : DOMAIN rows \subseteq 0..m
    <3>1. PICK m \in Nat : DOMAIN old \subseteq 0..m
      BY DEF RowsOK, old
    <3> DEFINE k == m + Len(c)
    <3>2. k \in Nat
      BY <1>4
    <3>3. ASSUME NEW h \in DOMAIN rows
          PROVE  h \in 0..k
      <4>1. h \in 0..Len(c) - 1 \/ h \in 0..m
        BY <1>3, <3>1
      <4> QED BY <1>4, <4>1
    <3> HIDE DEF k
    <3> QED BY <3>2, <3>3
  <2>3. (0 \in DOMAIN rows => rows[0] = Genesis)
    <3>1. CASE Sets(t, 0)
      <4>1. rows[0] = c[0 + 1]
        BY <1>3, <3>1
      <4> QED BY <4>1 DEF IsChain
    <3>2. CASE ~Sets(t, 0)
      BY <1>3, <3>2 DEF RowsOK, old
    <3> QED BY <3>1, <3>2
  <2>4. /\ DOMAIN rows # {} => 0 \in DOMAIN rows
        /\ GenesisFirst(rows, r)
    <3>1. CASE 0 \in DOMAIN old /\ Stays(ts, 0)
      <4>1. ~Clears(t, 0) /\ Stays(r, 0)
        BY <1>9, <3>1
      <4>2. 0 \in DOMAIN rows
        BY <1>3, <3>1, <4>1
      <4> QED BY <4>1, <4>2 DEF GenesisFirst
    <3>2. ASSUME NEW i \in 1..n, Sets(ts[i], 0), \A j \in i + 1..n : ~Clears(ts[j], 0),
                 \A j \in 1..i - 1 : ts[j].put = <<>>
          PROVE  (DOMAIN rows # {} => 0 \in DOMAIN rows) /\ GenesisFirst(rows, r)
      <4>1. CASE i = 1
        <5>1. RowIs(rows, c, 0) /\ Stays(r, 0)
          BY <1>11, <3>2, <4>1
        <5> QED BY <5>1 DEF RowIs, GenesisFirst
      <4>2. CASE i # 1
        <5> DEFINE k == i - 1
        <5>1. k \in 1..Len(r) /\ k \in Nat /\ 1 \in 1..i - 1
          BY <1>1, <4>2
        <5>2. Sets(r[k], 0) /\ \A j \in k + 1..Len(r) : ~Clears(r[j], 0)
          BY <1>11, <3>2, <4>2
        <5>3. \A j \in 1..k - 1 : r[j].put = <<>>
          <6> SUFFICES ASSUME NEW j \in 1..k - 1
                       PROVE  r[j].put = <<>>
            OBVIOUS
          <6>1. j \in 1..Len(r) /\ j + 1 \in 1..i - 1
            BY <5>1
          <6> QED BY <1>1, <3>2, <6>1
        <5> HIDE DEF k
        <5>4. GenesisFirst(rows, r)
          BY <5>1, <5>2, <5>3 DEF GenesisFirst
        <5>5. \A h : ~Sets(t, h)
          <6>1. t.put = <<>>
            BY <1>1, <3>2, <5>1
          <6>2. Range(<<>>) = {}
            BY DEF Range
          <6> QED BY <6>1, <6>2 DEF Sets
        <5>6. ASSUME NEW h \in DOMAIN rows
              PROVE  0 \in DOMAIN rows
          <6>1. h \in DOMAIN old /\ ~Clears(t, h)
            BY <1>3, <5>5
          <6>2. 0 \in DOMAIN old
            BY <6>1 DEF RowsOK, old
          <6>3. ~Clears(t, 0)
            BY <1>1, <6>1 DEF Clears, Txn
          <6> QED BY <1>3, <6>2, <6>3
        <5> QED BY <5>4, <5>6
      <4> QED BY <4>1, <4>2
    <3> QED BY <1>14, <3>1, <3>2 DEF GenesisFirst, n
  <2> QED BY <1>3, <2>1, <2>2, <2>3, <2>4 DEF RowsOK
<1> QED BY <1>3, <1>5, <1>10, <1>12, <1>13, <1>14 DEF old, t, r, n, rows

(* The indexes follow the rows when nothing else is overwritten. *)
LEMMA IndexesRun ==
  ASSUME NEW d, RowsOK(d.blocks), d.indexed = Range(d.blocks), NEW t \in Txn,
         NEW c, IsChain(c), Range(t.put) \subseteq BlocksOf(c),
         \A h \in DOMAIN d.blocks :
           Sets(t, h) => RowIs(d.blocks, c, h) \/ Clears(t, h)
  PROVE  (d.indexed \ Unindexed(d, t)) \cup Range(t.put) = Range(RowsAfter(d, t))
<1> DEFINE old == d.blocks
           put == Range(t.put)
           gone == Unindexed(d, t)
           rows == RowsAfter(d, t)
<1>1. /\ rows = [h \in DOMAIN rows |-> rows[h]]
      /\ \A h : Sets(t, h) => h \in 0..Len(c) - 1 /\ h \in DOMAIN rows
                              /\ rows[h] = c[h + 1] /\ c[h + 1] \in put
      /\ \A h \in DOMAIN rows : ~Sets(t, h) =>
           h \in DOMAIN old /\ ~Clears(t, h) /\ rows[h] = old[h]
      /\ \A h \in DOMAIN old : ~Clears(t, h) => h \in DOMAIN rows
  BY RowsAfterPut
<1>2. \A h \in DOMAIN old : old[h] \in Block /\ Height[old[h]] = h
  BY BlockTreeAssumption DEF RowsOK
<1>3. t.wipe \in BOOLEAN
  BY DEF Txn
<1>4. \A h \in DOMAIN old : old[h] \in gone <=> Clears(t, h)
  <2>1. CASE t.wipe
    BY <1>2, <2>1 DEF Unindexed, Clears
  <2>2. CASE ~t.wipe
    <3>1. gone = {old[h] : h \in t.del \cap DOMAIN old}
      BY <2>2 DEF Unindexed
    <3>2. \A h \in DOMAIN old : Clears(t, h) <=> h \in t.del
      BY <1>3, <2>2 DEF Clears
    <3> HIDE DEF gone, old
    <3> QED BY <1>2, <3>1, <3>2
  <2> QED BY <2>1, <2>2
<1>5. d.indexed = Range(old)
  OBVIOUS
<1>6. \A b \in put : b \in BlocksOf(c) /\ Sets(t, Height[b])
  BY DEF Sets
<1> HIDE DEF old, put, gone, rows
<1>7. ASSUME NEW b \in Range(rows)
      PROVE  b \in put \/ (b \in Range(old) /\ b \notin gone)
  <2>1. PICK h \in DOMAIN rows : b = rows[h]
    BY DEF Range
  <2>2. CASE Sets(t, h)
    BY <1>1, <2>1, <2>2
  <2>3. CASE ~Sets(t, h)
    BY <1>1, <1>4, <2>1, <2>3 DEF Range
  <2> QED BY <2>2, <2>3
<1>8. ASSUME NEW b \in put
      PROVE  b \in Range(rows)
  <2>1. b = c[Height[b] + 1] /\ Sets(t, Height[b])
    BY <1>6, ChainPlaces
  <2>2. Height[b] \in DOMAIN rows /\ rows[Height[b]] = b
    BY <1>1, <2>1
  <2> QED BY <2>2 DEF Range
<1>9. ASSUME NEW b \in Range(old), b \notin gone
      PROVE  b \in Range(rows)
  <2>1. PICK h \in DOMAIN old : b = old[h]
    BY DEF Range
  <2>2. ~Clears(t, h) /\ h \in DOMAIN rows
    BY <1>1, <1>4, <1>9, <2>1
  <2>3. rows[h] = b
    <3>1. CASE Sets(t, h)
      <4>1. old[h] = c[h + 1]
        BY <2>2, <3>1 DEF RowIs, old
      <4> QED BY <1>1, <2>1, <3>1, <4>1
    <3>2. CASE ~Sets(t, h)
      BY <1>1, <2>1, <2>2, <3>2
    <3> QED BY <3>1, <3>2
  <2> QED BY <2>2, <2>3 DEF Range
<1>10. (Range(old) \ gone) \cup put = Range(rows)
  BY <1>7, <1>8, <1>9
<1> QED BY <1>5, <1>10 DEF old, put, gone, rows

(* The backfill leaves rows and hash index alone. *)
LEMMA HistoryRuns ==
  ASSUME NEW d, d.blocks = [h \in DOMAIN d.blocks |-> d.blocks[h]], NEW t \in HistoryTxn
  PROVE  /\ RunTxn(d, t).blocks = d.blocks
         /\ RunTxn(d, t).indexed = d.indexed
         /\ RunTxn(d, t).tip = d.tip
         /\ RunTxn(d, t).work = d.work
         /\ d.history \subseteq Block => RunTxn(d, t).history \subseteq Block
         /\ RunTxn(d, t).schema \in {d.schema, SchemaVersion}
<1>1. t \in Txn /\ ~t.wipe /\ t.del = {} /\ t.put = <<>> /\ t.stamp = 0
  BY DEF HistoryTxn
<1>2. Range(t.put) = {}
  BY <1>1 DEF Range
<1>3. RowsAfter(d, t) = [h \in DOMAIN d.blocks |-> d.blocks[h]]
  <2>1. (IF t.wipe THEN {} ELSE DOMAIN d.blocks \ t.del) \cup {Height[b] : b \in Range(t.put)}
          = DOMAIN d.blocks
    BY <1>1, <1>2
  <2> QED BY <1>2, <2>1 DEF RowsAfter
<1>4. Unindexed(d, t) = {}
  BY <1>1 DEF Unindexed
<1>5. Range(t.rows) \subseteq Block
  <2>1. t.rows \in Seq(Block)
    BY <1>1 DEF Txn
  <2> QED BY <2>1, RangeElements
<1>6. t.schema = 0 \/ t.schema = SchemaVersion
  BY <1>1 DEF Txn
<1> QED BY <1>1, <1>2, <1>3, <1>4, <1>5, <1>6 DEF RunTxn

(* The chain c is some chain cut to s blocks and continued with new. *)
Grafts(c, s, new) ==
  /\ IsChain(c) /\ s \in Nat /\ new \in Seq(Block)
  /\ Len(c) = s + Len(new)
  /\ \A k \in 1..Len(new) : s + k \in 1..Len(c) /\ c[s + k] = new[k]

Above(gone, s) == gone \subseteq Nat /\ \A h \in 0..s - 1 : h \notin gone

(* A plan for a chain whose first s blocks stay: what it puts. *)
LEMMA PlanPuts ==
  ASSUME NEW ts, NEW gone, NEW new, NEW w, Plan(ts, gone, new, w),
         NEW c, NEW s, Grafts(c, s, new), Above(gone, s)
  PROVE  /\ ts \in Seq(Txn) /\ ts # <<>> /\ PutsFrom(ts, c)
         /\ \A h \in 0..s - 1 : Stays(ts, h)
         /\ s > 0 => \A i \in 1..Len(ts) : ~ts[i].wipe
<1>0. /\ gone \in SUBSET Nat /\ new \in Seq(Block) /\ IsChain(c) /\ s \in Nat
      /\ \A h \in 0..s - 1 : h \notin gone
      /\ \A k \in 1..Len(new) : s + k \in 1..Len(c) /\ c[s + k] = new[k]
  BY DEF Grafts, Above
<1>1. /\ ts \in Seq(Txn) /\ Len(ts) > 0 /\ Len(new) \in Nat
      /\ \A i \in 1..Len(ts) : /\ Range(ts[i].put) \subseteq Range(new)
                               /\ \A h \in Nat : Clears(ts[i], h) => h \in gone
  BY <1>0 DEF Plan
<1>2. \A b \in Range(new) : b \in BlocksOf(c)
  <2>1. DOMAIN new = 1..Len(new)
    BY <1>0
  <2>2. \A k \in 1..Len(new) : new[k] \in BlocksOf(c)
    BY <1>0 DEF BlocksOf
  <2> QED BY <2>1, <2>2 DEF Range
<1>3. PutsFrom(ts, c)
  BY <1>1, <1>2 DEF PutsFrom
<1>4. ASSUME NEW h \in 0..s - 1, NEW i \in 1..Len(ts)
      PROVE  ~Clears(ts[i], h)
  <2>1. h \in Nat /\ h \notin gone
    BY <1>0
  <2> QED BY <1>1, <2>1
<1>5. ASSUME s > 0, NEW i \in 1..Len(ts)
      PROVE  ~ts[i].wipe
  <2>1. 0 \in 0..s - 1
    BY <1>0, <1>5
  <2>2. ~Clears(ts[i], 0)
    BY <1>4, <2>1
  <2> QED BY <2>2 DEF Clears
<1>6. ts # <<>>
  BY <1>1, EmptySeq
<1> QED BY <1>1, <1>3, <1>4, <1>5, <1>6 DEF Stays

(* Where it leads, from rows that hold the first s blocks and nothing else *)
(* that is not cleared.                                                    *)
LEMMA PlanLeads ==
  ASSUME NEW ts, NEW gone, NEW new, NEW w, Plan(ts, gone, new, w),
         NEW c, NEW s, Grafts(c, s, new), Above(gone, s), NEW rows,
         \A h \in 0..s - 1 : RowIs(rows, c, h),
         \A h \in DOMAIN rows : h \in 0..s - 1 \/ h \in gone
  PROVE  /\ Leads(rows, ts, c)
         /\ OverwritesNothing(rows, ts, c)
         /\ s = 0 => GenesisFirst(rows, ts)
<1>0. /\ gone \in SUBSET Nat /\ new \in Seq(Block) /\ IsChain(c) /\ s \in Nat
      /\ Len(c) = s + Len(new)
      /\ \A h \in 0..s - 1 : h \notin gone
      /\ \A k \in 1..Len(new) : s + k \in 1..Len(c) /\ c[s + k] = new[k]
  BY DEF Grafts, Above
<1>1. /\ ts \in Seq(Txn) /\ Len(ts) > 0 /\ Len(new) \in Nat
      /\ \A i \in 1..Len(ts) : /\ Range(ts[i].put) \subseteq Range(new)
                               /\ \A h \in Nat : Clears(ts[i], h) => h \in gone
      /\ \A h \in gone : \E i \in 1..Len(ts) :
           Clears(ts[i], h) /\ \A k \in 1..i - 1 : ts[k].put = <<>>
      /\ \A k \in 1..Len(new) : \E i \in 1..Len(ts) :
           /\ new[k] \in Range(ts[i].put)
           /\ \A j \in i + 1..Len(ts) : NoClears(ts[j])
           /\ k = 1 => \A j \in 1..i - 1 : ts[j].put = <<>>
  BY <1>0 DEF Plan
<1>2. /\ Len(c) \in Nat /\ Len(c) > 0
      /\ \A h \in 0..Len(c) - 1 : c[h + 1] \in Block /\ Height[c[h + 1]] = h
  BY <1>0, ChainPlaces
<1>3. \A k \in 1..Len(new) : Height[new[k]] = s + k - 1
  <2> SUFFICES ASSUME NEW k \in 1..Len(new)
               PROVE  Height[new[k]] = s + k - 1
    OBVIOUS
  <2> DEFINE h == s + k - 1
  <2>1. h \in 0..Len(c) - 1 /\ h + 1 = s + k
    BY <1>0, <1>1, <1>2
  <2>2. Height[c[h + 1]] = h
    BY <1>2, <2>1
  <2>3. c[h + 1] = new[k]
    BY <1>0, <2>1
  <2> QED BY <2>2, <2>3
<1>4. ASSUME NEW h \in 0..s - 1
      PROVE  Stays(ts, h)
  BY PlanPuts
<1>5. ASSUME NEW k \in 1..Len(new)
      PROVE  \E i \in 1..Len(ts) :
               /\ Sets(ts[i], s + k - 1)
               /\ \A j \in i + 1..Len(ts) : NoClears(ts[j])
               /\ k = 1 => \A j \in 1..i - 1 : ts[j].put = <<>>
  <2>1. PICK i \in 1..Len(ts) :
           /\ new[k] \in Range(ts[i].put)
           /\ \A j \in i + 1..Len(ts) : NoClears(ts[j])
           /\ k = 1 => \A j \in 1..i - 1 : ts[j].put = <<>>
    BY <1>1
  <2>2. Sets(ts[i], s + k - 1)
    BY <1>3, <2>1 DEF Sets
  <2> QED BY <2>1, <2>2
<1>6. \A t, h : NoClears(t) => ~Clears(t, h)
  BY DEF NoClears, Clears
<1>7. Leads(rows, ts, c)
  <2>1. ASSUME NEW h \in 0..Len(c) - 1
        PROVE  WillBeSet(ts, h) \/ (RowIs(rows, c, h) /\ Stays(ts, h))
    <3>1. CASE h \in 0..s - 1
      BY <1>4, <3>1
    <3>2. CASE h \notin 0..s - 1
      <4> DEFINE k == h - s + 1
      <4>1. k \in 1..Len(new) /\ s + k - 1 = h
        BY <1>0, <1>1, <1>2, <3>2
      <4> HIDE DEF k
      <4>2. PICK i \in 1..Len(ts) :
              Sets(ts[i], s + k - 1) /\ \A j \in i + 1..Len(ts) : NoClears(ts[j])
        BY <1>5, <4>1
      <4> QED BY <1>6, <4>1, <4>2 DEF WillBeSet
    <3> QED BY <3>1, <3>2
  <2>2. ASSUME NEW h \in DOMAIN rows, h \notin 0..Len(c) - 1
        PROVE  \E j \in 1..Len(ts) : Clears(ts[j], h)
    <3>1. h \notin 0..s - 1
      BY <1>0, <1>1, <1>2, <2>2
    <3>2. h \in gone
      BY <3>1
    <3> QED BY <1>1, <3>2
  <2> QED BY <2>1, <2>2 DEF Leads
<1>8. OverwritesNothing(rows, ts, c)
  <2> SUFFICES ASSUME NEW i \in 1..Len(ts), NEW h \in DOMAIN rows, Sets(ts[i], h)
               PROVE  RowIs(rows, c, h) \/ \E j \in 1..i : Clears(ts[j], h)
    BY DEF OverwritesNothing
  <2>1. CASE h \in 0..s - 1
    BY <2>1
  <2>2. CASE h \in gone
    <3>1. PICK p \in 1..Len(ts) : Clears(ts[p], h) /\ \A k \in 1..p - 1 : ts[k].put = <<>>
      BY <1>1, <2>2
    <3>2. ts[i].put # <<>>
      <4>1. Range(<<>>) = {}
        BY DEF Range
      <4> QED BY <4>1 DEF Sets
    <3>3. p \in 1..i
      <4>1. i \notin 1..p - 1
        BY <3>1, <3>2
      <4> QED BY <1>1, <4>1
    <3> QED BY <3>1, <3>3
  <2> QED BY <2>1, <2>2
<1>9. ASSUME s = 0
      PROVE  GenesisFirst(rows, ts)
  <2>1. 1 \in 1..Len(new) /\ s + 1 - 1 = 0
    BY <1>0, <1>1, <1>2, <1>9
  <2>2. PICK i \in 1..Len(ts) :
           /\ Sets(ts[i], s + 1 - 1)
           /\ \A j \in i + 1..Len(ts) : NoClears(ts[j])
           /\ 1 = 1 => \A j \in 1..i - 1 : ts[j].put = <<>>
    BY <1>5, <2>1
  <2> QED BY <1>6, <2>1, <2>2 DEF GenesisFirst
<1> QED BY <1>7, <1>8, <1>9

(* What a start loads: as many linked rows as there are. *)
LEMMA LoadableShape ==
  ASSUME NEW d, RowsOK(d.blocks)
  PROVE  LET c == Loadable(d)
         IN  /\ c \in Seq(Block)
             /\ \A i \in 1..Len(c) : i - 1 \in DOMAIN d.blocks /\ c[i] = d.blocks[i - 1]
             /\ Cardinality(DOMAIN d.blocks) \in Nat
             /\ Len(c) >= Cardinality(DOMAIN d.blocks) =>
                  \A h \in DOMAIN d.blocks : h \in 0..Len(c) - 1
             /\ DOMAIN d.blocks # {} => IsChain(c) /\ BlocksOf(c) \subseteq Sound
             /\ \A k \in Nat \ {0} :
                  /\ \A h \in 0..k - 1 : h \in DOMAIN d.blocks
                  /\ \A h \in 1..k - 1 : Parent[d.blocks[h]] = d.blocks[h - 1]
                  => k <= Len(c)
<1> DEFINE rows == d.blocks
           dom == DOMAIN rows
           card == Cardinality(dom)
           links(n) == /\ \A h \in 0..n - 1 : h \in dom
                       /\ rows[0] = Genesis
                       /\ \A h \in 1..n - 1 : Parent[rows[h]] = rows[h - 1]
           K == {0} \cup {k \in 1..card : links(k)}
           n == Max(K)
           c == Loadable(d)
<1>1. c = [i \in 1..n |-> rows[i - 1]]
  BY DEF Loadable
<1>2. /\ \A h \in dom : rows[h] \in Sound /\ rows[h] \in Block /\ Height[rows[h]] = h
      /\ dom # {} => 0 \in dom /\ rows[0] = Genesis
  BY BlockTreeAssumption DEF RowsOK
<1>3. IsFiniteSet(dom) /\ card \in Nat
  <2>1. PICK m \in Nat : dom \subseteq 0..m
    BY DEF RowsOK
  <2>2. IsFiniteSet(0..m)
    BY <2>1, FS_Interval
  <2> HIDE DEF dom
  <2> QED BY <2>1, <2>2, FS_Subset, FS_CardinalityType
<1> HIDE DEF rows, dom, card, links, c
<1>4. K \subseteq 0..card /\ K # {}
  BY <1>3
<1> HIDE DEF K
<1>5. n \in K /\ \A k \in K : k <= n
  <2>1. card \in Nat
    BY <1>3
  <2>2. Max(K) \in K /\ \A x \in K : x <= Max(K)
    BY <2>1, <1>4, MaxOfBounded
  <2> QED BY <2>2
<1>6. n \in Nat
  <2>1. n \in 0..card
    BY <1>4, <1>5
  <2> QED BY <1>3, <2>1
<1> HIDE DEF n
<1>7. n = 0 \/ links(n)
  BY <1>5 DEF K
<1>8. \A i \in 1..n : i - 1 \in dom
  <2> SUFFICES ASSUME NEW i \in 1..n
               PROVE  i - 1 \in dom
    OBVIOUS
  <2>1. n # 0 /\ i - 1 \in 0..n - 1
    BY <1>6
  <2> QED BY <1>7, <2>1 DEF links
<1>9. c \in Seq(Block) /\ Len(c) = n /\ \A i \in 1..n : c[i] = rows[i - 1]
  <2>1. c \in [1..n -> Block]
    BY <1>1, <1>2, <1>8
  <2> QED BY <1>1, <1>6, <2>1, FunctionIsSeq
<1>10. ASSUME n >= card, NEW h \in dom
       PROVE  h \in 0..n - 1
  <2> DEFINE I == 0..n - 1
  <2>1. \A x \in I : x \in dom
    <3> SUFFICES ASSUME NEW x \in I
                 PROVE  x \in dom
      OBVIOUS
    <3>1. n # 0
      BY <1>6
    <3> QED BY <1>7, <3>1 DEF links
  <2>2. IsFiniteSet(I) /\ Cardinality(I) = n
    BY <1>6, FS_Interval
  <2> HIDE DEF I
  <2>3. I \subseteq dom
    BY <2>1
  <2>4. Cardinality(I) <= card /\ (Cardinality(I) = card => I = dom)
    BY <1>3, <2>3, FS_Subset DEF card
  <2>5. I = dom
    BY <1>3, <1>6, <1>10, <2>2, <2>4
  <2> QED BY <2>5 DEF I
<1>11. ASSUME NEW k \in Nat \ {0}, \A h \in 0..k - 1 : h \in dom,
              \A h \in 1..k - 1 : Parent[rows[h]] = rows[h - 1]
       PROVE  k <= n
  <2> DEFINE I == 0..k - 1
  <2>1. IsFiniteSet(I) /\ Cardinality(I) = k
    BY FS_Interval
  <2>2. 0 \in I
    OBVIOUS
  <2>3. I \subseteq dom
    BY <1>11
  <2> HIDE DEF I
  <2>4. k <= card
    BY <1>3, <2>1, <2>3, FS_Subset DEF card
  <2>5. links(k)
    BY <1>2, <1>11, <2>2, <2>3 DEF links
  <2>6. k \in K
    BY <1>3, <2>4, <2>5 DEF K
  <2> QED BY <1>5, <2>6
<1>12. ASSUME dom # {}
       PROVE  IsChain(c) /\ BlocksOf(c) \subseteq Sound
  <2>1. n > 0
    <3>1. \A h \in 0..1 - 1 : h \in dom
      BY <1>2, <1>12
    <3>2. \A h \in 1..1 - 1 : FALSE
      OBVIOUS
    <3>3. 1 <= n
      BY <1>11, <3>1, <3>2
    <3> QED BY <1>6, <3>3
  <2>2. c[1] = Genesis
    BY <1>2, <1>9, <1>12, <2>1
  <2>3. ASSUME NEW i \in 2..Len(c)
        PROVE  LinkedAt(c, i)
    <3>1. i \in 1..n /\ i - 1 \in 1..n /\ i - 1 \in 1..n - 1 /\ (i - 1) - 1 = i - 2
      BY <1>6, <1>9
    <3>2. c[i] = rows[i - 1] /\ c[i - 1] = rows[(i - 1) - 1]
      BY <1>9, <3>1
    <3>3. i - 1 \in dom
      BY <1>8, <3>1
    <3>4. Height[c[i]] = i - 1
      BY <1>2, <3>2, <3>3
    <3>5. Parent[c[i]] = c[i - 1]
      <4> DEFINE h == i - 1
      <4>1. Parent[rows[h]] = rows[h - 1]
        BY <1>7, <2>1, <3>1 DEF links
      <4> QED BY <3>2, <4>1
    <3> QED BY <3>4, <3>5 DEF LinkedAt
  <2>4. \A i \in 1..Len(c) : c[i] \in Sound
    BY <1>2, <1>8, <1>9
  <2> QED BY <1>6, <1>9, <2>1, <2>2, <2>3, <2>4 DEF IsChain, BlocksOf
<1>13. /\ \A i \in 1..Len(c) : i - 1 \in dom /\ c[i] = rows[i - 1]
       /\ Len(c) >= card => \A h \in dom : h \in 0..Len(c) - 1
       /\ \A k \in Nat \ {0} :
            /\ \A h \in 0..k - 1 : h \in dom
            /\ \A h \in 1..k - 1 : Parent[rows[h]] = rows[h - 1]
            => k <= Len(c)
  BY <1>8, <1>9, <1>10, <1>11
<1> QED BY <1>3, <1>9, <1>12, <1>13 DEF rows, dom, card, c

(* Rows that hold a prefix of a chain are loaded. *)
LEMMA PrefixLoads ==
  ASSUME NEW d, RowsOK(d.blocks), NEW c, IsChain(c), NEW k \in 1..Len(c),
         \A h \in 0..k - 1 : RowIs(d.blocks, c, h)
  PROVE  /\ k <= Len(Loadable(d)) /\ Len(Loadable(d)) \in Nat
         /\ \A i \in 1..k : Loadable(d)[i] = c[i]
<1> DEFINE rows == d.blocks
           l == Loadable(d)
<1>1. /\ l \in Seq(Block) /\ Len(l) \in Nat
      /\ \A i \in 1..Len(l) : l[i] = rows[i - 1]
      /\ \A j \in Nat \ {0} :
           /\ \A h \in 0..j - 1 : h \in DOMAIN rows
           /\ \A h \in 1..j - 1 : Parent[rows[h]] = rows[h - 1]
           => j <= Len(l)
  BY LoadableShape, SMTT(30)
<1>2. k \in Nat \ {0} /\ Len(c) \in Nat /\ c \in Seq(Block)
  BY DEF IsChain
<1> HIDE DEF rows, l
<1>3. \A h \in 0..k - 1 : h \in DOMAIN rows /\ rows[h] = c[h + 1]
  BY DEF RowIs, rows
<1>4. ASSUME NEW h \in 1..k - 1
      PROVE  Parent[rows[h]] = rows[h - 1]
  <2>1. h \in 0..k - 1 /\ h - 1 \in 0..k - 1 /\ h + 1 \in 2..Len(c) /\ (h - 1) + 1 = h
        /\ (h + 1) - 1 = h
    BY <1>2
  <2>2. rows[h] = c[h + 1] /\ rows[h - 1] = c[h]
    BY <1>3, <2>1
  <2>3. Parent[c[h + 1]] = c[h]
    BY <2>1 DEF IsChain, LinkedAt
  <2> QED BY <2>2, <2>3
<1>5. k <= Len(l)
  BY <1>1, <1>2, <1>3, <1>4
<1>6. ASSUME NEW i \in 1..k
      PROVE  l[i] = c[i]
  <2>1. i \in 1..Len(l) /\ i - 1 \in 0..k - 1 /\ (i - 1) + 1 = i
    BY <1>1, <1>2, <1>5
  <2>2. rows[i - 1] = c[i]
    BY <1>3, <2>1
  <2> QED BY <1>1, <2>1, <2>2
<1> QED BY <1>1, <1>5, <1>6 DEF l

-----------------------------------------------------------------------------
(* The steps of the store, one by one. *)

(* With nothing left to run the rows are the chain. *)
LEMMA LeadsDone ==
  ASSUME NEW rows, NEW c, Leads(rows, <<>>, c)
  PROVE  /\ \A h \in 0..Len(c) - 1 : RowIs(rows, c, h)
         /\ \A h \in DOMAIN rows : h \in 0..Len(c) - 1
<1>1. \A i \in 1..Len(<<>>) : FALSE
  BY EmptySeq
<1> QED BY <1>1 DEF Leads, WillBeSet

(* The highest row. *)
LEMMA RowsBounded ==
  ASSUME NEW rows, RowsOK(rows), 0 \in DOMAIN rows
  PROVE  Max(DOMAIN rows) \in Nat /\ \A h \in DOMAIN rows : h \in 0..Max(DOMAIN rows)
<1> DEFINE S == DOMAIN rows
<1>1. PICK n \in Nat : S \subseteq 0..n
  BY DEF RowsOK
<1>2. S # {}
  OBVIOUS
<1> HIDE DEF S
<1>3. Max(S) \in S /\ \A x \in S : x <= Max(S)
  BY <1>1, <1>2, MaxOfBounded
<1>4. \A x \in S : x \in Nat
  <2> SUFFICES ASSUME NEW x \in S
               PROVE  x \in Nat
    OBVIOUS
  <2>1. x \in 0..n
    BY <1>1
  <2> QED BY <2>1
<1>5. Max(S) \in Nat /\ \A h \in S : h \in 0..Max(S)
  BY <1>3, <1>4
<1> QED BY <1>5 DEF S

(* A new chain is in memory and its plan becomes the running commit.       *)
LEMMA BeginCommit ==
  ASSUME StoreInv, Idle, CoreInv',
         NEW s \in 1..Len(blocks), NEW new \in Seq(Block), Len(new) > 0,
         Len(blocks') = s + Len(new),
         \A i \in 1..s : blocks'[i] = blocks[i],
         \A k \in 1..Len(new) : blocks'[s + k] = new[k],
         NEW gone \in SUBSET Nat,
         \/ gone = {} /\ s = Len(blocks)
         \/ gone = s..Max(DOMAIN disk.blocks),
         NEW ts, Plan(ts, gone, new, cumWork'),
         commit' = [fork |-> s, txns |-> ts],
         UNCHANGED <<disk, savedCheckpoints, savedAnchor, phase, backfill, dirty,
                     crashes, failures>>
  PROVE  StoreInv'
<1> DEFINE rows == disk.blocks
           c == blocks'
<1>1. /\ phase = "up" /\ commit.txns = <<>> /\ RowsOK(rows) /\ 0 \in DOMAIN rows
      /\ IsChain(c) /\ IsChain(blocks)
  BY DEF Idle, StoreInv, ThreadsOK, FilesOK, CoreInv, SoundChain
<1>2. /\ s \in Nat /\ s > 0 /\ Len(blocks) \in Nat /\ s <= Len(blocks) /\ Len(new) \in Nat
      /\ Len(c) \in Nat
  BY <1>1 DEF IsChain
<1>3. Max(DOMAIN rows) \in Nat /\ \A h \in DOMAIN rows : h \in 0..Max(DOMAIN rows)
  BY <1>1, RowsBounded
<1>4. Above(gone, s)
  <2>1. CASE gone = {}
    BY <2>1 DEF Above
  <2>2. CASE gone = s..Max(DOMAIN rows)
    <3> DEFINE tip == Max(DOMAIN rows)
    <3>1. tip \in Nat /\ gone = s..tip
      BY <1>3, <2>2
    <3> HIDE DEF tip
    <3> QED BY <1>2, <3>1 DEF Above
  <2> QED BY <2>1, <2>2
<1>5. Grafts(c, s, new)
  BY <1>1, <1>2 DEF Grafts
<1> HIDE DEF c, rows
<1>6. /\ ts \in Seq(Txn) /\ ts # <<>> /\ PutsFrom(ts, c)
      /\ \A h \in 0..s - 1 : Stays(ts, h)
      /\ \A i \in 1..Len(ts) : ~ts[i].wipe
  BY <1>2, <1>4, <1>5, PlanPuts
<1>7. ASSUME ~dirty
      PROVE  /\ Leads(rows, ts, c)
             /\ OverwritesNothing(rows, ts, c)
             /\ \A h \in 0..s - 1 : RowIs(rows, c, h)
  <2>1. Leads(rows, <<>>, blocks)
    BY <1>1, <1>7 DEF StoreInv, CommitLeads, rows
  <2>2. /\ \A h \in 0..Len(blocks) - 1 : RowIs(rows, blocks, h)
        /\ \A h \in DOMAIN rows : h \in 0..Len(blocks) - 1
    BY <2>1, LeadsDone
  <2>3. \A h \in 0..s - 1 : RowIs(rows, c, h)
    <3> SUFFICES ASSUME NEW h \in 0..s - 1
                 PROVE  RowIs(rows, c, h)
      OBVIOUS
    <3>1. h \in 0..Len(blocks) - 1 /\ h + 1 \in 1..s
      BY <1>2
    <3>2. c[h + 1] = blocks[h + 1]
      BY <3>1 DEF c
    <3> QED BY <2>2, <3>1, <3>2 DEF RowIs
  <2>4. \A h \in DOMAIN rows : h \in 0..s - 1 \/ h \in gone
    <3> SUFFICES ASSUME NEW h \in DOMAIN rows
                 PROVE  h \in 0..s - 1 \/ h \in gone
      OBVIOUS
    <3>1. CASE gone = {} /\ s = Len(blocks)
      BY <2>2, <3>1
    <3>2. CASE gone = s..Max(DOMAIN rows)
      BY <1>2, <1>3, <3>2
    <3> QED BY <3>1, <3>2 DEF rows
  <2> QED BY <1>4, <1>5, <2>3, <2>4, PlanLeads
<1>8. /\ commit'.fork = s /\ commit'.txns = ts
      /\ commit' = [fork |-> commit'.fork, txns |-> commit'.txns]
  OBVIOUS
<1>9. FilesOK'
  BY DEF StoreInv, FilesOK
<1>10. ThreadsOK'
  BY <1>1, <1>6, <1>8 DEF StoreInv, ThreadsOK, rows, c
<1>11. CommitLeads'
  <2>1. commit'.fork \in 1..Len(blocks')
    BY <1>2, <1>8 DEF c
  <2> QED BY <1>1, <1>6, <1>7, <1>8, <2>1 DEF CommitLeads, rows, c
<1>12. IndexesFollow'
  BY <1>7, <1>8 DEF StoreInv, IndexesFollow, rows, c
<1>13. StampFollows'
  <2>1. ts[Len(ts)].stamp = cumWork'
    BY DEF Plan
  <2> QED BY <1>1, <1>6, <1>8, <2>1 DEF StoreInv, StampFollows
<1> QED BY <1>9, <1>10, <1>11, <1>12, <1>13 DEF StoreInv

(* AddBlock starts an extension. *)
LEMMA StoreAddBlockStep ==
  ASSUME StoreInv, NEW b \in Block, StoreAddBlock(b)
  PROVE  StoreInv'
<1>1. /\ Idle /\ AddBlock(b) /\ CoreInv
      /\ commit' = [fork |-> Len(blocks), txns |-> ExtendTxns(<<b>>, cumWork')]
      /\ UNCHANGED <<disk, savedCheckpoints, savedAnchor, phase, backfill, dirty,
                     crashes, failures>>
  BY DEF StoreAddBlock, StoreInv
<1>2. CoreInv'
  BY <1>1, AddBlockStep
<1> DEFINE n == Len(blocks)
           new == <<b>>
<1>3. /\ blocks \in Seq(Block) /\ n \in Nat /\ n > 0 /\ blocks' = Append(blocks, b)
      /\ cumWork' \in Nat
  BY <1>1, <1>2 DEF CoreInv, TypeOK, SoundChain, IsChain, AddBlock
<1>4. /\ Len(blocks') = n + 1 /\ blocks'[n + 1] = b
      /\ \A i \in 1..n : blocks'[i] = blocks[i]
  BY <1>3, AppendProperties
<1>5. new \in Seq(Block) /\ Len(new) = 1 /\ new[1] = b
  OBVIOUS
<1> HIDE DEF new
<1> DEFINE ts == ExtendTxns(new, cumWork')
<1>6. Plan(ts, {}, new, cumWork')
  BY <1>3, <1>5, ExtendPlan
<1>7. commit' = [fork |-> n, txns |-> ts]
  BY <1>1 DEF new
<1> HIDE DEF ts
<1>8. /\ n \in 1..Len(blocks) /\ Len(blocks') = n + Len(new)
      /\ \A k \in 1..Len(new) : blocks'[n + k] = new[k]
  BY <1>3, <1>4, <1>5
<1>9. {} \in SUBSET Nat /\ Len(new) > 0
  BY <1>5
<1> HIDE DEF n
<1>10. /\ n \in 1..Len(blocks) /\ n = Len(blocks)
       /\ \A i \in 1..n : blocks'[i] = blocks[i]
  BY <1>4, <1>8 DEF n
<1> QED BY <1>1, <1>2, <1>5, <1>6, <1>7, <1>8, <1>9, <1>10, BeginCommit

(* TryAdoptChain starts an extension, a reorg or nothing. *)
LEMMA StoreTryAdoptChainStep ==
  ASSUME StoreInv, NEW start \in 1..Len(blocks), NEW new \in Candidates,
         StoreTryAdoptChain(start, new)
  PROVE  StoreInv'
<1>1. /\ Idle /\ TryAdoptChain(start, new) /\ CoreInv /\ Len(new) > 0
      /\ commit' = IF ~Adoptable(start, new) THEN commit
                   ELSE [fork |-> start,
                         txns |-> IF Depth(start) = 0 THEN ExtendTxns(new, cumWork')
                                  ELSE ReorgTxns(start, new, cumWork')]
      /\ UNCHANGED <<disk, savedCheckpoints, savedAnchor, phase, backfill, dirty,
                     crashes, failures>>
  BY DEF StoreTryAdoptChain, StoreInv, TryAdoptChain
<1>2. new \in Seq(Block)
  BY ChainCoreAssumption
<1>3. CoreInv'
  BY <1>1, <1>2, TryAdoptChainStep
<1>4. CASE ~Adoptable(start, new)
  <2>1. UNCHANGED <<blocks, cumWork, commit>>
    BY <1>1, <1>4 DEF TryAdoptChain, Adopt, Refuse
  <2> QED BY <1>1, <1>3, <2>1 DEF StoreInv, FilesOK, ThreadsOK, CommitLeads, IndexesFollow,
          StampFollows, TipHeight
<1>5. CASE Adoptable(start, new)
  <2>1. blocks' = Candidate(start, new)
    BY <1>1, <1>5 DEF TryAdoptChain, Adopt, Refuse
  <2>2. /\ Len(blocks') = start + Len(new)
        /\ \A i \in 1..start : blocks'[i] = blocks[i]
        /\ \A k \in 1..Len(new) : blocks'[start + k] = new[k]
    BY <1>1, <1>2, <2>1, CandidateShape DEF CoreInv
  <2>3. /\ start \in Nat /\ start > 0 /\ cumWork' \in Nat /\ Len(blocks) \in Nat
    BY <1>1, <1>3 DEF CoreInv, TypeOK
  <2> DEFINE tip == Max(DOMAIN disk.blocks)
  <2>4. tip \in Nat
    BY <1>1, RowsBounded DEF StoreInv, FilesOK, ThreadsOK, Idle
  <2>5. CASE Depth(start) = 0
    <3> DEFINE ts == ExtendTxns(new, cumWork')
    <3>1. Plan(ts, {}, new, cumWork')
      BY <1>2, <2>3, ExtendPlan
    <3>2. start = Len(blocks)
      BY <2>3, <2>5 DEF Depth
    <3>3. commit' = [fork |-> start, txns |-> ts]
      BY <1>1, <1>5, <2>5
    <3> HIDE DEF ts
    <3> QED BY <1>1, <1>2, <1>3, <2>2, <3>1, <3>2, <3>3, BeginCommit
  <2>6. CASE Depth(start) # 0
    <3> DEFINE ts == ReorgTxns(start, new, cumWork')
               gone == start..tip
    <3>1. Plan(ts, gone, new, cumWork')
      BY <1>1, <1>2, <2>3, <2>4, ReorgPlan
    <3>2. commit' = [fork |-> start, txns |-> ts]
      BY <1>1, <1>5, <2>6
    <3>3. gone \in SUBSET Nat /\ gone = start..Max(DOMAIN disk.blocks)
      BY <2>3, <2>4
    <3> HIDE DEF ts, gone, tip
    <3> QED BY <1>1, <1>2, <1>3, <2>2, <3>1, <3>2, <3>3, BeginCommit
  <2> QED BY <2>5, <2>6
<1> QED BY <1>4, <1>5

(* One transaction of the running commit. *)
LEMMA CommitStepStep ==
  ASSUME StoreInv, CommitStep
  PROVE  StoreInv'
<1> DEFINE rows == disk.blocks
           ts == commit.txns
           t == Head(ts)
           r == Tail(ts)
           new == RowsAfter(disk, t)
           n == Len(ts)
<1>1. /\ ts # <<>> /\ ts \in Seq(Txn) /\ PutsFrom(ts, blocks) /\ RowsOK(rows)
      /\ commit = [fork |-> commit.fork, txns |-> ts]
      /\ phase \in {"loading", "up"} /\ backfill \in Seq(HistoryTxn)
      /\ IsChain(blocks) /\ BlocksOf(blocks) \subseteq Sound /\ WorkIsSum /\ TypeOK
  BY DEF CommitStep, StoreInv, ThreadsOK, FilesOK, CoreInv, SoundChain
<1>2. /\ disk' = RunTxn(disk, t)
      /\ commit' = IF n = 1 THEN NoCommit ELSE [commit EXCEPT !.txns = r]
      /\ phase' = IF commit' = NoCommit THEN "up" ELSE phase
      /\ UNCHANGED <<vars, savedCheckpoints, savedAnchor, backfill, dirty, crashes, failures>>
  BY DEF CommitStep
<1>3. /\ t \in Txn /\ t = ts[1] /\ r \in Seq(Txn)
      /\ n \in Nat /\ n > 0 /\ Len(r) = n - 1
      /\ \A i \in 1..Len(r) : r[i] = ts[i + 1] /\ i + 1 \in 2..n
  BY <1>1, RestOf
<1>4. /\ PutsFrom(r, blocks)
      /\ \A h \in DOMAIN rows : ~Clears(t, h) => h \in DOMAIN new
      /\ \A h \in Nat : RowIs(rows, blocks, h) /\ Stays(ts, h) =>
                          RowIs(new, blocks, h) /\ Stays(r, h)
      /\ Leads(rows, ts, blocks) => Leads(new, r, blocks)
      /\ OverwritesNothing(rows, ts, blocks) => OverwritesNothing(new, r, blocks)
      /\ GenesisFirst(rows, ts) => RowsOK(new) /\ GenesisFirst(new, r)
  BY <1>1, HeadRuns
<1>5. /\ disk'.blocks = new
      /\ disk'.indexed = (disk.indexed \ Unindexed(disk, t)) \cup Range(t.put)
      /\ disk'.history \subseteq disk.history \cup Range(t.put) \cup Range(t.rows)
      /\ disk'.tip = IF t.stamp # 0 /\ new # <<>> THEN Max(DOMAIN new) ELSE disk.tip
      /\ disk'.work = IF t.stamp # 0 THEN t.stamp ELSE disk.work
      /\ disk'.schema = IF t.schema # 0 THEN t.schema ELSE disk.schema
  BY <1>2 DEF RunTxn
<1> HIDE DEF rows, ts, t, r, new, n
<1>6. /\ commit'.txns = r
      /\ commit' = [fork |-> commit'.fork, txns |-> commit'.txns]
      /\ r = <<>> => n = 1 /\ commit' = NoCommit /\ phase' = "up"
      /\ r # <<>> => n # 1 /\ commit'.fork = commit.fork /\ phase' = phase
  <2>1. CASE n = 1
    <3>1. r = <<>>
      BY <1>3, <2>1, EmptySeq
    <3>2. commit' = NoCommit
      BY <1>2, <2>1
    <3> QED BY <1>2, <2>1, <3>1, <3>2 DEF NoCommit
  <2>2. CASE n # 1
    <3>1. r # <<>>
      BY <1>3, <2>2, EmptySeq
    <3>2. commit' = [commit EXCEPT !.txns = r]
      BY <1>2, <2>2
    <3>3. commit'.txns = r /\ commit'.fork = commit.fork
          /\ commit' = [fork |-> commit'.fork, txns |-> commit'.txns]
      BY <1>1, <3>2
    <3>4. commit' # NoCommit
      BY <3>1, <3>3 DEF NoCommit
    <3> QED BY <1>2, <2>2, <3>1, <3>3, <3>4
  <2> QED BY <2>1, <2>2
(* A commit at run time never loses genesis. *)
<1>7. ASSUME phase = "up"
      PROVE  /\ 0 \in DOMAIN rows /\ Stays(ts, 0)
             /\ 0 \in DOMAIN new /\ \A i \in 1..Len(r) : ~r[i].wipe
  <2>1. 0 \in DOMAIN rows /\ \A i \in 1..n : ~ts[i].wipe
    BY <1>7 DEF StoreInv, ThreadsOK, rows, ts, n
  <2>2. \A i \in 1..n : ts[i] \in Txn
    BY <1>1, ElementOfSeq DEF n
  <2>3. \A i \in 1..n : ~Clears(ts[i], 0)
    BY <2>1, <2>2 DEF Clears, Txn
  <2>4. 1 \in 1..n
    BY <1>3
  <2>5. ~Clears(t, 0)
    BY <1>3, <2>3, <2>4
  <2>6. \A i \in 1..Len(r) : i + 1 \in 1..n
    BY <1>3
  <2>7. \A i \in 1..Len(r) : ~r[i].wipe
    BY <1>3, <2>1, <2>6
  <2> QED BY <1>4, <2>1, <2>3, <2>5, <2>7 DEF Stays, n
<1>8. GenesisFirst(rows, ts)
  <2>1. CASE phase = "up"
    BY <1>7, <2>1 DEF GenesisFirst
  <2>2. CASE phase = "loading"
    BY <2>2 DEF StoreInv, ThreadsOK, rows, ts
  <2> QED BY <1>1, <2>1, <2>2
<1>9. CoreInv'
  BY <1>2 DEF StoreInv, CoreInv, TypeOK, SoundChain, WorkIsSum, vars
<1>10. FilesOK'
  <2>1. RowsOK(new)
    BY <1>4, <1>8
  <2>2. t.put \in Seq(Block) /\ t.rows \in Seq(Block) /\ t.schema \in {0, SchemaVersion}
    BY <1>3 DEF Txn
  <2>3. Range(t.put) \subseteq Block /\ Range(t.rows) \subseteq Block
    BY <2>2, RangeElements
  <2>4. disk.indexed \subseteq Block /\ disk.history \subseteq Block
        /\ disk.schema \in {1, SchemaVersion}
    BY DEF StoreInv, FilesOK
  <2>5. disk'.indexed \subseteq Block /\ disk'.history \subseteq Block
    BY <1>5, <2>3, <2>4
  <2>6. disk'.schema \in {1, SchemaVersion}
    BY <1>5, <2>2, <2>4
  <2> QED BY <1>2, <1>5, <2>1, <2>5, <2>6 DEF StoreInv, FilesOK
<1>11. ThreadsOK'
  <2>1. CASE r = <<>>
    <3>1. 0 \in DOMAIN new
      <4>1. GenesisFirst(new, <<>>)
        BY <1>4, <1>8, <2>1
      <4>2. \A i \in 1..Len(<<>>) : FALSE
        BY EmptySeq
      <4> QED BY <4>1, <4>2 DEF GenesisFirst
    <3>2. \A i \in 1..Len(r) : FALSE
      BY <2>1, EmptySeq
    <3> QED BY <1>1, <1>2, <1>3, <1>4, <1>5, <1>6, <2>1, <3>1, <3>2
            DEF ThreadsOK, vars
  <2>2. CASE r # <<>>
    <3>1. phase' = "up" => 0 \in DOMAIN new /\ \A i \in 1..Len(r) : ~r[i].wipe
      BY <1>6, <1>7, <2>2
    <3>2. phase' = "loading" => backfill = <<>> /\ GenesisFirst(new, r)
      BY <1>4, <1>6, <1>8, <2>2 DEF StoreInv, ThreadsOK
    <3> QED BY <1>1, <1>2, <1>3, <1>4, <1>5, <1>6, <2>2, <3>1, <3>2
            DEF ThreadsOK, vars
  <2> QED BY <2>1, <2>2
<1>12. ASSUME ~dirty
       PROVE  Leads(new, r, blocks)
  <2>1. Leads(rows, ts, blocks)
    BY <1>1, <1>12 DEF StoreInv, CommitLeads, rows, ts
  <2> QED BY <1>4, <2>1
<1>13. CommitLeads'
  <2>1. ASSUME ~dirty, phase' = "up", r # <<>>
        PROVE  /\ commit'.fork \in 1..Len(blocks)
               /\ \A h \in 0..commit'.fork - 1 : RowIs(new, blocks, h) /\ Stays(r, h)
    <3>1. phase = "up" /\ commit'.fork = commit.fork
      BY <1>6, <2>1
    <3>2. /\ commit.fork \in 1..Len(blocks)
          /\ \A h \in 0..commit.fork - 1 : RowIs(rows, blocks, h) /\ Stays(ts, h)
      BY <1>1, <2>1, <3>1 DEF StoreInv, CommitLeads, rows, ts
    <3>3. \A h \in 0..commit.fork - 1 : h \in Nat
      OBVIOUS
    <3> QED BY <1>4, <3>1, <3>2, <3>3
  <2> QED BY <1>2, <1>5, <1>6, <1>12, <2>1 DEF CommitLeads, vars
<1>14. IndexesFollow'
  <2>1. ASSUME failures = 0
        PROVE  disk'.indexed = Range(new) /\ OverwritesNothing(new, r, blocks)
    <3>1. disk.indexed = Range(rows) /\ OverwritesNothing(rows, ts, blocks)
      BY <2>1 DEF StoreInv, IndexesFollow, rows, ts
    <3>2. 1 \in 1..n /\ \A j \in 1..1 : j = 1
      BY <1>3
    <3>3. Range(t.put) \subseteq BlocksOf(blocks)
      BY <1>1, <1>3, <3>2 DEF PutsFrom, n
    <3>4. \A h \in DOMAIN rows : Sets(t, h) => RowIs(rows, blocks, h) \/ Clears(t, h)
      BY <1>3, <3>1, <3>2 DEF OverwritesNothing, n
    <3>5. (disk.indexed \ Unindexed(disk, t)) \cup Range(t.put) = Range(new)
      BY <1>1, <1>3, <3>1, <3>3, <3>4, IndexesRun DEF rows, new
    <3> QED BY <1>4, <1>5, <3>1, <3>5
  <2> QED BY <1>2, <1>5, <1>6, <2>1 DEF StoreInv, IndexesFollow, vars
<1>15. StampFollows'
  <2>1. ASSUME crashes = 0, ~dirty
        PROVE  IF r = <<>> THEN disk'.tip = TipHeight /\ disk'.work = cumWork
               ELSE r[Len(r)].stamp = cumWork
    <3>1. ts[n].stamp = cumWork
      BY <1>1, <2>1 DEF StoreInv, StampFollows, ts, n
    <3>2. CASE r # <<>>
      <4>1. Len(r) \in 1..Len(r) /\ Len(r) + 1 = n
        BY <1>3, <1>6, <3>2
      <4>2. r[Len(r)] = ts[n]
        BY <1>3, <4>1
      <4> QED BY <3>1, <3>2, <4>2
    <3>3. CASE r = <<>>
      <4>1. t.stamp = cumWork
        BY <1>3, <1>6, <3>1, <3>3
      <4>2. cumWork # 0
        BY <1>1, SumWorkPositive DEF WorkIsSum
      <4>3. Leads(new, <<>>, blocks)
        BY <1>12, <2>1, <3>3
      <4>4. /\ \A h \in 0..Len(blocks) - 1 : h \in DOMAIN new
            /\ \A h \in DOMAIN new : h \in 0..Len(blocks) - 1
        BY <4>3, LeadsDone DEF RowIs
      <4>5. DOMAIN new = 0..Len(blocks) - 1
        BY <4>4
      <4>6. Len(blocks) - 1 \in Nat
        BY <1>1 DEF IsChain
      <4>7. Max(DOMAIN new) = Len(blocks) - 1
        <5> DEFINE m == Len(blocks) - 1
        <5>1. DOMAIN new = 0..m /\ m \in Nat
          BY <4>5, <4>6
        <5> HIDE DEF m
        <5>2. Max(DOMAIN new) = m
          BY <5>1, MaxOfInterval
        <5> QED BY <5>2 DEF m
      <4>8. new # <<>>
        <5>1. 0 \in DOMAIN new
          BY <4>5, <4>6
        <5>2. DOMAIN <<>> = {}
          OBVIOUS
        <5> QED BY <5>1, <5>2
      <4> QED BY <1>5, <3>3, <4>1, <4>2, <4>7, <4>8 DEF TipHeight
    <3> QED BY <3>2, <3>3
  <2>2. phase' # "down"
    BY <1>1, <1>6
  <2> QED BY <1>2, <1>6, <2>1, <2>2 DEF StoreInv, StampFollows, vars, TipHeight
<1> QED BY <1>9, <1>10, <1>11, <1>13, <1>14, <1>15 DEF StoreInv

(* A failed commit gives up its transactions. *)
LEMMA CommitFailsStep ==
  ASSUME StoreInv, CommitFails
  PROVE  StoreInv'
<1>1. /\ phase = "up" /\ commit' = NoCommit /\ dirty' = TRUE /\ failures' = failures + 1
      /\ UNCHANGED <<vars, disk, savedCheckpoints, savedAnchor, phase, backfill, crashes>>
  BY DEF CommitFails, Fail
<1>2. /\ commit'.txns = <<>> /\ commit' = [fork |-> commit'.fork, txns |-> commit'.txns]
      /\ <<>> \in Seq(Txn) /\ \A i \in 1..Len(<<>>) : FALSE
  BY <1>1, EmptySeq DEF NoCommit
<1>3. CoreInv'
  BY <1>1 DEF StoreInv, CoreInv, TypeOK, SoundChain, WorkIsSum, vars
<1>4. FilesOK'
  BY <1>1 DEF StoreInv, FilesOK
<1>5. ThreadsOK'
  BY <1>1, <1>2 DEF StoreInv, ThreadsOK, PutsFrom, vars
<1>6. CommitLeads' /\ StampFollows'
  BY <1>1 DEF StoreInv, CommitLeads, StampFollows
<1>7. IndexesFollow'
  BY <1>1 DEF StoreInv, IndexesFollow
<1> QED BY <1>3, <1>4, <1>5, <1>6, <1>7 DEF StoreInv

(* The backfill touches neither rows, indexes nor meta. *)
LEMMA BackfillStepStep ==
  ASSUME StoreInv, BackfillStep
  PROVE  StoreInv'
<1> DEFINE t == Head(backfill)
<1>1. /\ backfill # <<>> /\ disk' = RunTxn(disk, t) /\ backfill' = Tail(backfill)
      /\ UNCHANGED <<vars, savedCheckpoints, savedAnchor, phase, commit, dirty, crashes,
                     failures>>
      /\ backfill \in Seq(HistoryTxn) /\ phase = "up"
      /\ disk.blocks = [h \in DOMAIN disk.blocks |-> disk.blocks[h]]
  BY DEF BackfillStep, StoreInv, ThreadsOK, FilesOK, RowsOK
<1>2. t \in HistoryTxn /\ backfill' \in Seq(HistoryTxn)
  BY <1>1, HeadTailProperties
<1> HIDE DEF t
<1>3. /\ disk'.blocks = disk.blocks /\ disk'.indexed = disk.indexed
      /\ disk'.tip = disk.tip /\ disk'.work = disk.work
      /\ disk.history \subseteq Block => disk'.history \subseteq Block
      /\ disk'.schema \in {disk.schema, SchemaVersion}
  BY <1>1, <1>2, HistoryRuns
<1>4. CoreInv'
  BY <1>1 DEF StoreInv, CoreInv, TypeOK, SoundChain, WorkIsSum, vars
<1>5. FilesOK'
  BY <1>1, <1>3 DEF StoreInv, FilesOK
<1>6. ThreadsOK'
  BY <1>1, <1>2, <1>3 DEF StoreInv, ThreadsOK, vars
<1>7. CommitLeads' /\ IndexesFollow'
  BY <1>1, <1>3 DEF StoreInv, CommitLeads, IndexesFollow, vars
<1>8. StampFollows'
  BY <1>1, <1>3 DEF StoreInv, StampFollows, vars, TipHeight
<1> QED BY <1>4, <1>5, <1>6, <1>7, <1>8 DEF StoreInv

(* A failed backfill is not resumed by this process. *)
LEMMA BackfillFailsStep ==
  ASSUME StoreInv, BackfillFails
  PROVE  StoreInv'
<1>1. /\ backfill # <<>> /\ backfill' = <<>> /\ failures' = failures + 1
      /\ UNCHANGED <<vars, disk, savedCheckpoints, savedAnchor, phase, commit, dirty, crashes>>
      /\ phase = "up" /\ <<>> \in Seq(HistoryTxn)
  BY EmptySeq DEF BackfillFails, Fail, StoreInv, ThreadsOK
<1>2. CoreInv'
  BY <1>1 DEF StoreInv, CoreInv, TypeOK, SoundChain, WorkIsSum, vars
<1>3. FilesOK' /\ ThreadsOK'
  BY <1>1 DEF StoreInv, FilesOK, ThreadsOK, vars
<1>4. CommitLeads' /\ IndexesFollow'
  BY <1>1 DEF StoreInv, CommitLeads, IndexesFollow, vars
<1>5. StampFollows'
  BY <1>1 DEF StoreInv, StampFollows, vars, TipHeight
<1> QED BY <1>2, <1>3, <1>4, <1>5 DEF StoreInv

(* The checkpoint handlers run beside a commit: they touch neither chain   *)
(* nor rows.                                                               *)
LEMMA CheckpointSteps ==
  ASSUME StoreInv, NEW cp \in SignedCheckpoints,
         StoreApplyCheckpoint(cp) \/ StoreSetAuthorityAnchor(cp)
  PROVE  StoreInv'
<1>1. /\ UNCHANGED <<blocks, cumWork, disk, phase, commit, backfill, dirty, crashes>>
      /\ CoreInv'
      /\ savedCheckpoints' = savedCheckpoints \/ savedCheckpoints' = checkpoints'
      /\ savedAnchor' = savedAnchor \/ savedAnchor' = authAnchor'
      /\ failures' = failures \/ failures' = failures + 1
      /\ phase = "up"
  <2>1. CASE StoreApplyCheckpoint(cp)
    <3>1. CoreInv'
      BY <2>1, ApplyCheckpointStep DEF StoreApplyCheckpoint, StoreInv
    <3> QED BY <2>1, <3>1 DEF StoreApplyCheckpoint, ApplyCheckpoint, Fail
  <2>2. CASE StoreSetAuthorityAnchor(cp)
    <3>1. CoreInv'
      BY <2>2, SetAuthorityAnchorStep DEF StoreSetAuthorityAnchor, StoreInv
    <3> QED BY <2>2, <3>1 DEF StoreSetAuthorityAnchor, SetAuthorityAnchor, Fail
  <2> QED BY <2>1, <2>2
<1>2. /\ DOMAIN checkpoints' \subseteq Nat \ {0}
      /\ checkpoints' \in [DOMAIN checkpoints' -> Block]
      /\ authAnchor' \in SignedCheckpoints \cup {NoAnchor}
  BY <1>1 DEF CoreInv, TypeOK
<1>3. /\ DOMAIN savedCheckpoints' \subseteq Nat \ {0}
      /\ savedCheckpoints' \in [DOMAIN savedCheckpoints' -> Block]
  <2>1. CASE savedCheckpoints' = savedCheckpoints
    BY <2>1 DEF StoreInv, FilesOK
  <2>2. CASE savedCheckpoints' = checkpoints'
    BY <1>2, <2>2
  <2> QED BY <1>1, <2>1, <2>2
<1>4. savedAnchor' \in SignedCheckpoints \cup {NoAnchor}
  BY <1>1, <1>2 DEF StoreInv, FilesOK
<1>5. FilesOK'
  BY <1>1, <1>3, <1>4 DEF StoreInv, FilesOK
<1>6. ThreadsOK' /\ CommitLeads'
  BY <1>1 DEF StoreInv, ThreadsOK, CommitLeads
<1>7. IndexesFollow'
  <2>1. failures \in Nat
    BY DEF StoreInv, IndexesFollow
  <2> QED BY <1>1, <2>1 DEF StoreInv, IndexesFollow
<1>8. StampFollows'
  BY <1>1 DEF StoreInv, StampFollows, TipHeight
<1> QED BY <1>1, <1>5, <1>6, <1>7, <1>8 DEF StoreInv

(* The process dies; the files stay. *)
LEMMA CrashStep ==
  ASSUME StoreInv, Crash
  PROVE  StoreInv'
<1>1. /\ phase' = "down" /\ blocks' = <<Genesis>> /\ cumWork' = Work[Genesis]
      /\ checkpoints' = [h \in {} |-> Genesis] /\ authAnchor' = NoAnchor /\ drAct' = 0
      /\ commit' = NoCommit /\ backfill' = <<>> /\ dirty' = FALSE
      /\ UNCHANGED <<now, disk, savedCheckpoints, savedAnchor, failures>>
      /\ crashes' = crashes + 1
  BY DEF Crash, Die
<1>2. /\ commit'.txns = <<>> /\ commit' = [fork |-> commit'.fork, txns |-> commit'.txns]
      /\ <<>> \in Seq(Txn) /\ <<>> \in Seq(HistoryTxn) /\ \A i \in 1..Len(<<>>) : FALSE
  BY <1>1, EmptySeq DEF NoCommit
<1>3. CoreInv'
  <2>1. TypeOK'
    BY <1>1, GenesisChain, BlockTreeAssumption DEF StoreInv, CoreInv, TypeOK
  <2> QED BY <1>1, <2>1, GenesisChain DEF CoreInv, SoundChain, WorkIsSum
<1>4. FilesOK'
  BY <1>1 DEF StoreInv, FilesOK
<1>5. ThreadsOK'
  BY <1>1, <1>2 DEF ThreadsOK, PutsFrom
<1>6. CommitLeads'
  BY <1>1 DEF CommitLeads
<1>7. IndexesFollow'
  BY <1>1, <1>2 DEF StoreInv, IndexesFollow, OverwritesNothing
<1>8. StampFollows'
  <2>1. crashes' \in Nat /\ crashes' # 0
    BY <1>1 DEF StoreInv, StampFollows
  <2> QED BY <2>1 DEF StampFollows
<1> QED BY <1>3, <1>4, <1>5, <1>6, <1>7, <1>8 DEF StoreInv

-----------------------------------------------------------------------------
(* Starting up. *)

(* No row is an empty bucket. *)
LEMMA EmptyRows ==
  ASSUME NEW rows, rows = [h \in DOMAIN rows |-> rows[h]], DOMAIN rows = {}
  PROVE  rows = <<>>
<1>1. rows = [h \in {} |-> rows[h]]
  OBVIOUS
<1>2. <<>> = [h \in {} |-> rows[h]]
  OBVIOUS
<1> QED BY <1>1, <1>2

(* The transactions of backfillRows. *)
LEMMA BackfillIsHistory ==
  ASSUME NEW c \in Seq(Block)
  PROVE  BackfillTxns(c) \in Seq(HistoryTxn)
<1> DEFINE ch == Chunks(c)
           a == [i \in DOMAIN ch |-> [NoTxn EXCEPT !.rows = ch[i]]]
           s == [NoTxn EXCEPT !.schema = SchemaVersion]
           b == <<s>>
<1>1. ch \in Seq(Seq(Block))
  BY ChunksCover
<1>2. s \in HistoryTxn
  BY SchemaRecord
<1>3. BackfillTxns(c) = a \o b
  BY DEF BackfillTxns
<1> HIDE DEF ch, s
<1>4. b \in Seq(HistoryTxn)
  BY <1>2
<1>5. a \in Seq(HistoryTxn)
  <2>1. DOMAIN ch = 1..Len(ch) /\ Len(ch) \in Nat
    BY <1>1
  <2>2. \A i \in 1..Len(ch) : ch[i] \in Seq(Block)
    BY <1>1, ElementOfSeq
  <2>3. \A i \in 1..Len(ch) : [NoTxn EXCEPT !.rows = ch[i]] \in HistoryTxn
    BY <2>2, RowsRecord
  <2>4. a \in [1..Len(ch) -> HistoryTxn]
    BY <2>1, <2>3
  <2> HIDE DEF a
  <2> QED BY <2>1, <2>4, FunctionIsSeq
<1> HIDE DEF a, b
<1>6. a \o b \in Seq(HistoryTxn)
  BY <1>4, <1>5, ConcatProperties
<1> QED BY <1>3, <1>6

(* A startup that rebuilds. *)
LEMMA Rebuilds ==
  ASSUME NEW c, IsChain(c), NEW bump, IsBump(bump), NEW rows, RowsOK(rows)
  PROVE  LET ts == bump \o RebuildTxns(c)
         IN  /\ ts \in Seq(Txn) /\ ts # <<>> /\ PutsFrom(ts, c)
             /\ Leads(rows, ts, c) /\ OverwritesNothing(rows, ts, c)
             /\ GenesisFirst(rows, ts)
             /\ ts[Len(ts)].stamp = SumWork(c)
<1> DEFINE ts == bump \o RebuildTxns(c)
           w == SumWork(c)
<1>1. c \in Seq(Block) /\ Len(c) \in Nat /\ Len(c) > 0 /\ w \in Nat
  BY SumWorkPositive DEF IsChain
<1>2. Plan(ts, Nat, c, w)
  BY <1>1, RebuildPlan
<1> HIDE DEF ts, w
<1>3. Grafts(c, 0, c)
  BY <1>1 DEF Grafts
<1>4. Above(Nat, 0)
  BY DEF Above
<1>5. ts \in Seq(Txn) /\ ts # <<>> /\ PutsFrom(ts, c)
  BY <1>2, <1>3, <1>4, PlanPuts
<1>6. \A h \in DOMAIN rows : h \in Nat
  <2>1. PICK n \in Nat : DOMAIN rows \subseteq 0..n
    BY DEF RowsOK
  <2> SUFFICES ASSUME NEW h \in DOMAIN rows
               PROVE  h \in Nat
    OBVIOUS
  <2>2. h \in 0..n
    BY <2>1
  <2> QED BY <2>2
<1>7. \A h \in 0..0 - 1 : FALSE
  OBVIOUS
<1>8. Leads(rows, ts, c) /\ OverwritesNothing(rows, ts, c) /\ GenesisFirst(rows, ts)
  BY <1>2, <1>3, <1>4, <1>6, <1>7, PlanLeads
<1>9. ts[Len(ts)].stamp = w
  BY <1>2 DEF Plan
<1> QED BY <1>5, <1>8, <1>9 DEF ts, w

(* A file that holds a chain loads that chain. *)
LEMMA StoredLoads ==
  ASSUME NEW c, IsChain(c), BlocksOf(c) \subseteq Sound, NEW n
  PROVE  LET d == StoreOf(c, n)
         IN  /\ RowsOK(d.blocks) /\ d.indexed = Range(d.blocks)
             /\ d.indexed \subseteq Block /\ d.history \subseteq Block
             /\ d.schema = n /\ d.tip = Len(c) - 1 /\ d.work = SumWork(c)
             /\ d.blocks # <<>>
             /\ Loadable(d) = c
<1> DEFINE d == StoreOf(c, n)
           rows == [h \in 0..Len(c) - 1 |-> c[h + 1]]
           l == Loadable(d)
<1>1. /\ d.blocks = rows /\ d.indexed = BlocksOf(c) /\ d.history = BlocksOf(c)
      /\ d.schema = n /\ d.tip = Len(c) - 1 /\ d.work = SumWork(c)
  BY DEF StoreOf
<1>2. /\ c \in Seq(Block) /\ Len(c) \in Nat /\ Len(c) > 0 /\ c[1] = Genesis
  BY DEF IsChain
<1>3. /\ \A h \in 0..Len(c) - 1 : c[h + 1] \in Block /\ Height[c[h + 1]] = h
                                  /\ c[h + 1] \in BlocksOf(c)
      /\ \A b \in BlocksOf(c) : Height[b] \in 0..Len(c) - 1 /\ b = c[Height[b] + 1]
  BY ChainPlaces
<1>4. DOMAIN rows = 0..Len(c) - 1 /\ \A h \in 0..Len(c) - 1 : rows[h] = c[h + 1]
  OBVIOUS
<1>5. 0 \in DOMAIN rows /\ rows[0] = Genesis
  BY <1>2, <1>4
<1>6. rows = [h \in DOMAIN rows |-> rows[h]]
  OBVIOUS
<1> HIDE DEF rows, d, l
<1>7. \A h \in DOMAIN rows : rows[h] \in Sound /\ Height[rows[h]] = h
  BY <1>3, <1>4
<1>8. RowsOK(rows)
  <2>1. Len(c) - 1 \in Nat
    BY <1>2
  <2>2. \E m \in Nat : DOMAIN rows \subseteq 0..m
    BY <1>4, <2>1
  <2> QED BY <1>5, <1>6, <1>7, <2>2 DEF RowsOK
<1>9. Range(rows) = BlocksOf(c)
  <2>1. \A b \in Range(rows) : b \in BlocksOf(c)
    BY <1>3, <1>4 DEF Range
  <2>2. ASSUME NEW b \in BlocksOf(c)
        PROVE  b \in Range(rows)
    <3>1. Height[b] \in DOMAIN rows /\ rows[Height[b]] = b
      BY <1>3, <1>4
    <3> QED BY <3>1 DEF Range
  <2> QED BY <2>1, <2>2
<1>10. BlocksOf(c) \subseteq Block
  BY BlockTreeAssumption
<1>11. rows # <<>>
  <2>1. DOMAIN <<>> = {}
    OBVIOUS
  <2> QED BY <1>5, <2>1
<1>12. l = c
  <2>1. \A h \in 0..Len(c) - 1 : RowIs(rows, c, h)
    BY <1>4 DEF RowIs
  <2>2. Len(c) \in 1..Len(c)
    BY <1>2
  <2>3. Len(c) <= Len(l) /\ Len(l) \in Nat /\ \A i \in 1..Len(c) : l[i] = c[i]
    BY <1>1, <1>8, <2>1, <2>2, PrefixLoads DEF l
  <2>4. l \in Seq(Block) /\ \A i \in 1..Len(l) : i - 1 \in DOMAIN rows
    BY <1>1, <1>8, LoadableShape DEF l
  <2>5. Len(l) <= Len(c)
    <3>1. Len(l) \in 1..Len(l)
      BY <1>2, <2>3
    <3>2. Len(l) - 1 \in 0..Len(c) - 1
      BY <1>4, <2>4, <3>1
    <3> QED BY <1>2, <2>3, <3>2
  <2>6. Len(l) = Len(c)
    BY <1>2, <2>3, <2>5
  <2>7. \A i \in 1..Len(l) : l[i] = c[i]
    BY <2>3, <2>6
  <2> QED BY <1>2, <2>4, <2>6, <2>7, SeqEqual
<1> QED BY <1>1, <1>8, <1>9, <1>10, <1>11, <1>12 DEF d, l

(* OpenChain. *)
LEMMA StartStep ==
  ASSUME StoreInv, Start
  PROVE  StoreInv'
<1> DEFINE rows == disk.blocks
           empty == rows = <<>>
           chain == IF empty THEN <<Genesis>> ELSE Loadable(disk)
           truncated == Len(chain) < Cardinality(DOMAIN rows)
           bump == IF truncated THEN <<[NoTxn EXCEPT !.schema = SchemaVersion]>> ELSE <<>>
           ts == bump \o RebuildTxns(chain)
<1>1. /\ phase = "down"
      /\ blocks' = chain
      /\ cumWork' = SumWork(chain)
      /\ checkpoints' = savedCheckpoints
      /\ authAnchor' = savedAnchor
      /\ drAct' = 0
      /\ phase' = IF empty \/ truncated THEN "loading" ELSE "up"
      /\ commit' = IF empty \/ truncated THEN [fork |-> 0, txns |-> ts] ELSE NoCommit
      /\ backfill' = IF phase' = "up" /\ disk.schema < SchemaVersion
                     THEN BackfillTxns(chain) ELSE <<>>
      /\ dirty' = FALSE
      /\ UNCHANGED <<now, disk, savedCheckpoints, savedAnchor, crashes, failures>>
  BY DEF Start
<1>2. FilesOK /\ RowsOK(rows) /\ disk.schema \in {1, SchemaVersion}
  BY DEF StoreInv, FilesOK
<1>3. ~empty => DOMAIN rows # {}
  BY <1>2, EmptyRows DEF RowsOK
<1>4. IsBump(bump)
  BY DEF IsBump
<1>5. /\ IsChain(chain) /\ BlocksOf(chain) \subseteq Sound /\ chain \in Seq(Block)
      /\ Cardinality(DOMAIN rows) \in Nat
      /\ ~empty /\ ~truncated => /\ \A i \in 1..Len(chain) : i - 1 \in DOMAIN rows
                                                             /\ chain[i] = rows[i - 1]
                                 /\ \A h \in DOMAIN rows : h \in 0..Len(chain) - 1
  <2>1. CASE empty
    <3>1. Cardinality(DOMAIN rows) \in Nat
      BY <1>2, LoadableShape
    <3> QED BY <2>1, <3>1, GenesisChain
  <2>2. CASE ~empty
    <3> DEFINE l == Loadable(disk)
    <3>1. /\ l \in Seq(Block) /\ IsChain(l) /\ BlocksOf(l) \subseteq Sound
          /\ Cardinality(DOMAIN rows) \in Nat
          /\ \A i \in 1..Len(l) : i - 1 \in DOMAIN rows /\ l[i] = rows[i - 1]
          /\ Len(l) >= Cardinality(DOMAIN rows) => \A h \in DOMAIN rows : h \in 0..Len(l) - 1
      BY <1>2, <1>3, <2>2, LoadableShape
    <3> HIDE DEF l, rows
    <3>2. Len(l) \in Nat
      BY <3>1
    <3>3. chain = l
      BY <2>2 DEF l
    <3> QED BY <2>2, <3>1, <3>2, <3>3
  <2> QED BY <2>1, <2>2
<1> HIDE DEF chain
<1>6. SumWork(chain) \in Nat /\ Len(chain) \in Nat /\ Len(chain) > 0
  BY <1>5, SumWorkPositive DEF IsChain
<1> HIDE DEF rows, bump
<1>7. /\ ts \in Seq(Txn) /\ ts # <<>> /\ PutsFrom(ts, chain)
      /\ Leads(rows, ts, chain) /\ OverwritesNothing(rows, ts, chain)
      /\ GenesisFirst(rows, ts)
      /\ ts[Len(ts)].stamp = SumWork(chain)
  BY <1>2, <1>4, <1>5, Rebuilds
<1>8. BackfillTxns(chain) \in Seq(HistoryTxn) /\ <<>> \in Seq(HistoryTxn)
      /\ <<>> \in Seq(Txn) /\ \A i \in 1..Len(<<>>) : FALSE
  BY <1>5, BackfillIsHistory, EmptySeq
<1> HIDE DEF ts
<1> DEFINE rebuild == empty \/ truncated
<1>9. /\ rebuild => phase' = "loading" /\ commit'.txns = ts /\ backfill' = <<>>
      /\ ~rebuild => phase' = "up" /\ commit'.txns = <<>> /\ commit' = NoCommit
                     /\ backfill' \in Seq(HistoryTxn)
      /\ commit' = [fork |-> commit'.fork, txns |-> commit'.txns]
  <2>1. CASE rebuild
    BY <1>1, <2>1
  <2>2. CASE ~rebuild
    BY <1>1, <1>8, <2>2 DEF NoCommit
  <2> QED BY <2>1, <2>2
<1>10. ASSUME ~rebuild
       PROVE  /\ 0 \in DOMAIN rows
              /\ \A h \in 0..Len(chain) - 1 : RowIs(rows, chain, h)
              /\ \A h \in DOMAIN rows : h \in 0..Len(chain) - 1
              /\ Leads(rows, <<>>, chain)
  <2>1. ASSUME NEW h \in 0..Len(chain) - 1
        PROVE  RowIs(rows, chain, h)
    <3>1. h + 1 \in 1..Len(chain) /\ (h + 1) - 1 = h
      BY <1>6
    <3> QED BY <1>5, <1>10, <3>1 DEF RowIs
  <2>2. 0 \in 0..Len(chain) - 1
    BY <1>6
  <2>3. 0 \in DOMAIN rows
    BY <2>1, <2>2 DEF RowIs
  <2>4. \A h \in DOMAIN rows : h \in 0..Len(chain) - 1
    BY <1>5, <1>10
  <2>5. Leads(rows, <<>>, chain)
    BY <1>8, <2>1, <2>4 DEF Leads, Stays
  <2> QED BY <2>1, <2>3, <2>4, <2>5
<1>11. CoreInv'
  <2>1. /\ DOMAIN savedCheckpoints \subseteq Nat \ {0}
        /\ savedCheckpoints \in [DOMAIN savedCheckpoints -> Block]
        /\ savedAnchor \in SignedCheckpoints \cup {NoAnchor}
    BY <1>2 DEF FilesOK
  <2>2. now' \in 0..MaxTime
    BY <1>1 DEF StoreInv, CoreInv, TypeOK
  <2>3. TypeOK'
    BY <1>1, <1>5, <1>6, <2>1, <2>2 DEF TypeOK
  <2> QED BY <1>1, <1>5, <2>3 DEF CoreInv, SoundChain, WorkIsSum
<1>12. FilesOK'
  BY <1>1, <1>2 DEF FilesOK
<1>13. ThreadsOK'
  <2>1. CASE rebuild
    BY <1>1, <1>7, <1>8, <1>9, <2>1 DEF ThreadsOK, rows
  <2>2. CASE ~rebuild
    BY <1>1, <1>8, <1>9, <1>10, <2>2 DEF ThreadsOK, PutsFrom, rows
  <2> QED BY <2>1, <2>2
<1>14. CommitLeads'
  <2>1. CASE rebuild
    BY <1>1, <1>7, <1>9, <2>1 DEF CommitLeads, rows
  <2>2. CASE ~rebuild
    BY <1>1, <1>9, <1>10, <2>2 DEF CommitLeads, rows
  <2> QED BY <2>1, <2>2
<1>15. IndexesFollow'
  <2>1. failures' \in Nat /\ dirty' = FALSE
    BY <1>1 DEF StoreInv, IndexesFollow
  <2>2. ASSUME failures' = 0
        PROVE  /\ disk'.indexed = Range(disk'.blocks)
               /\ OverwritesNothing(disk'.blocks, commit'.txns, blocks')
    <3>1. disk.indexed = Range(disk.blocks)
      BY <1>1, <2>2 DEF StoreInv, IndexesFollow
    <3>2. OverwritesNothing(rows, commit'.txns, chain)
      <4>1. CASE rebuild
        BY <1>7, <1>9, <4>1
      <4>2. CASE ~rebuild
        BY <1>8, <1>9, <4>2 DEF OverwritesNothing
      <4> QED BY <4>1, <4>2
    <3> QED BY <1>1, <3>1, <3>2 DEF rows
  <2> QED BY <2>1, <2>2 DEF IndexesFollow
<1>16. StampFollows'
  <2>1. crashes' \in Nat /\ phase' # "down"
    BY <1>1 DEF StoreInv, StampFollows
  <2>2. ASSUME crashes' = 0
        PROVE  IF commit'.txns = <<>> THEN disk'.tip = Len(blocks') - 1 /\ disk'.work = cumWork'
               ELSE commit'.txns[Len(commit'.txns)].stamp = cumWork'
    <3>1. CASE rebuild
      BY <1>1, <1>7, <1>9, <3>1
    <3>2. CASE ~rebuild
      <4>1. disk \in {EmptyStore} \cup {StoreOf(c, 1) : c \in OldChains}
        BY <1>1, <2>2 DEF StoreInv, StampFollows
      <4>2. disk # EmptyStore
        BY <3>2 DEF EmptyStore, rows
      <4>3. PICK c \in OldChains : disk = StoreOf(c, 1)
        BY <4>1, <4>2
      <4>4. IsChain(c) /\ BlocksOf(c) \subseteq Sound
        BY ChainStoreAssumption
      <4>5. Loadable(disk) = c /\ disk.tip = Len(c) - 1 /\ disk.work = SumWork(c)
        BY <4>3, <4>4, StoredLoads
      <4>6. chain = c
        BY <3>2, <4>5 DEF chain
      <4> QED BY <1>1, <1>9, <3>2, <4>5, <4>6
    <3> QED BY <3>1, <3>2
  <2> QED BY <2>1, <2>2 DEF StampFollows, TipHeight
<1> QED BY <1>11, <1>12, <1>13, <1>14, <1>15, <1>16 DEF StoreInv

(* A process that is down, on a fresh directory or an older database. *)
LEMMA StoreInitInvariant ==
  ASSUME StoreInit
  PROVE  StoreInv
<1>1. /\ Init
      /\ disk \in {EmptyStore} \cup {StoreOf(c, 1) : c \in OldChains}
      /\ savedCheckpoints = checkpoints /\ savedAnchor = NoAnchor /\ phase = "down"
      /\ commit = NoCommit /\ backfill = <<>> /\ dirty = FALSE /\ crashes = 0 /\ failures = 0
  BY DEF StoreInit
<1>2. CoreInv
  BY <1>1, InitInvariant DEF IInv
<1>3. /\ RowsOK(disk.blocks) /\ disk.indexed = Range(disk.blocks)
      /\ disk.indexed \subseteq Block /\ disk.history \subseteq Block
      /\ disk.schema \in {1, SchemaVersion}
  <2>1. CASE disk = EmptyStore
    <3>1. /\ disk.blocks = <<>> /\ disk.indexed = {} /\ disk.history = {}
          /\ disk.schema = SchemaVersion
      BY <2>1 DEF EmptyStore
    <3>2. DOMAIN <<>> = {} /\ <<>> = [h \in DOMAIN <<>> |-> <<>>[h]] /\ Range(<<>>) = {}
      BY DEF Range
    <3>3. DOMAIN <<>> \subseteq 0..0
      BY <3>2
    <3>4. RowsOK(<<>>)
      BY <3>2, <3>3 DEF RowsOK
    <3> QED BY <3>1, <3>2, <3>4
  <2>2. CASE disk # EmptyStore
    <3>1. PICK c \in OldChains : disk = StoreOf(c, 1)
      BY <1>1, <2>2
    <3>2. IsChain(c) /\ BlocksOf(c) \subseteq Sound
      BY ChainStoreAssumption
    <3> QED BY <3>1, <3>2, StoredLoads
  <2> QED BY <2>1, <2>2
<1>4. /\ commit.txns = <<>> /\ commit = [fork |-> commit.fork, txns |-> commit.txns]
      /\ <<>> \in Seq(Txn) /\ <<>> \in Seq(HistoryTxn) /\ \A i \in 1..Len(<<>>) : FALSE
  BY <1>1, EmptySeq DEF NoCommit
<1>5. FilesOK
  <2>1. /\ DOMAIN checkpoints \subseteq Nat \ {0}
        /\ checkpoints \in [DOMAIN checkpoints -> Block]
    BY <1>2 DEF CoreInv, TypeOK
  <2> QED BY <1>1, <1>3, <2>1 DEF FilesOK
<1>6. ThreadsOK
  BY <1>1, <1>4 DEF ThreadsOK, PutsFrom
<1>7. CommitLeads /\ StampFollows
  BY <1>1 DEF CommitLeads, StampFollows
<1>8. IndexesFollow
  BY <1>1, <1>3, <1>4 DEF IndexesFollow, OverwritesNothing
<1> QED BY <1>2, <1>5, <1>6, <1>7, <1>8 DEF StoreInv

(* The invariant is inductive. *)
LEMMA StoreInvariantHolds == StoreSpec => []StoreInv
<1>1. StoreInv /\ [StoreNext]_allVars => StoreInv'
  <2> SUFFICES ASSUME StoreInv, [StoreNext]_allVars
               PROVE  StoreInv'
    OBVIOUS
  <2>1. CASE Start
    BY <2>1, StartStep
  <2>2. ASSUME NEW b \in Block, StoreAddBlock(b)
        PROVE  StoreInv'
    BY <2>2, StoreAddBlockStep
  <2>3. ASSUME NEW start \in 1..Len(blocks), NEW new \in Candidates,
               StoreTryAdoptChain(start, new)
        PROVE  StoreInv'
    BY <2>3, StoreTryAdoptChainStep
  <2>4. CASE CommitStep
    BY <2>4, CommitStepStep
  <2>5. CASE CommitFails
    BY <2>5, CommitFailsStep
  <2>6. CASE BackfillStep
    BY <2>6, BackfillStepStep
  <2>7. CASE BackfillFails
    BY <2>7, BackfillFailsStep
  <2>8. ASSUME NEW cp \in SignedCheckpoints,
               StoreApplyCheckpoint(cp) \/ StoreSetAuthorityAnchor(cp)
        PROVE  StoreInv'
    BY <2>8, CheckpointSteps
  <2>9. CASE Crash
    BY <2>9, CrashStep
  <2>10. CASE UNCHANGED allVars
    BY <2>10 DEF allVars, vars, storeVars, StoreInv, CoreInv, TypeOK, SoundChain, WorkIsSum,
       FilesOK, ThreadsOK, CommitLeads, IndexesFollow, StampFollows, TipHeight
  <2> QED BY <2>1, <2>2, <2>3, <2>4, <2>5, <2>6, <2>7, <2>8, <2>9, <2>10
          DEF StoreNext, Running
<1> QED BY <1>1, StoreInitInvariant, PTL DEF StoreSpec

-----------------------------------------------------------------------------
(* What the database promises. *)

(* Whatever commits failed and wherever the process died, the files are    *)
(* well formed and the next start loads a chain of validated blocks.       *)
THEOREM StoreAlwaysSound == StoreSpec => []StoreSound
<1>1. StoreInv => StoreSound
  <2> SUFFICES ASSUME StoreInv
               PROVE  StoreTypeOK /\ LoadsValidChain
    BY DEF StoreSound
  <2>1. \A h \in DOMAIN disk.blocks : h \in Nat
    <3>1. PICK n \in Nat : DOMAIN disk.blocks \subseteq 0..n
      BY DEF StoreInv, FilesOK, RowsOK
    <3> SUFFICES ASSUME NEW h \in DOMAIN disk.blocks
                 PROVE  h \in Nat
      OBVIOUS
    <3>2. h \in 0..n
      BY <3>1
    <3> QED BY <3>2
  <2>2. phase = "loading" => commit # NoCommit
    BY DEF StoreInv, ThreadsOK, NoCommit
  <2>3. StoreTypeOK
    BY <2>1, <2>2 DEF StoreInv, CoreInv, FilesOK, ThreadsOK, RowsOK, StoreTypeOK
  <2>4. LoadsValidChain
    <3>1. RowsOK(disk.blocks)
      BY DEF StoreInv, FilesOK
    <3> SUFFICES ASSUME disk.blocks # <<>>
                 PROVE  IsChain(Loadable(disk)) /\ BlocksOf(Loadable(disk)) \subseteq Sound
      BY DEF LoadsValidChain
    <3>2. DOMAIN disk.blocks # {}
      BY <3>1, EmptyRows DEF RowsOK
    <3> QED BY <3>1, <3>2, LoadableShape
  <2> QED BY <2>3, <2>4
<1> QED BY <1>1, StoreInvariantHolds, PTL

(* With diskMu free and no failed commit in this process, the file holds   *)
(* the chain in memory, row by row, and the stamp while it never died.     *)
THEOREM DiskAlwaysHoldsChain == StoreSpec => []DiskHoldsChain
<1>1. StoreInv => DiskHoldsChain
  <2> SUFFICES ASSUME StoreInv, Idle, ~dirty
               PROVE  /\ disk.blocks = [h \in 0..TipHeight |-> blocks[h + 1]]
                      /\ crashes = 0 => disk.tip = TipHeight /\ disk.work = cumWork
    BY DEF DiskHoldsChain
  <2>1. phase = "up" /\ commit.txns = <<>>
    BY DEF Idle
  <2>2. crashes = 0 => disk.tip = TipHeight /\ disk.work = cumWork
    BY <2>1 DEF StoreInv, StampFollows
  <2>3. Leads(disk.blocks, <<>>, blocks)
    BY <2>1 DEF StoreInv, CommitLeads
  <2> DEFINE rows == disk.blocks
             want == [h \in 0..TipHeight |-> blocks[h + 1]]
  <2>4. /\ \A h \in 0..TipHeight : h \in DOMAIN rows /\ rows[h] = blocks[h + 1]
        /\ \A h \in DOMAIN rows : h \in 0..TipHeight
    BY <2>3, LeadsDone DEF RowIs, TipHeight
  <2>5. rows = [h \in DOMAIN rows |-> rows[h]]
    BY DEF StoreInv, FilesOK, RowsOK
  <2> HIDE DEF rows
  <2>6. DOMAIN rows = 0..TipHeight
    BY <2>4
  <2>7. rows = want
    BY <2>4, <2>5, <2>6
  <2> QED BY <2>2, <2>7 DEF rows
<1> QED BY <1>1, StoreInvariantHolds, PTL

(* While no write ever failed, the hash and transaction indexes name       *)
(* exactly the blocks of the main chain whenever diskMu is free.           *)
THEOREM IndexesAlwaysExact == StoreSpec => []IndexesExact
<1>1. StoreInv => IndexesExact
  <2> SUFFICES ASSUME StoreInv, Idle, failures = 0
               PROVE  disk.indexed = BlocksOf(blocks)
    BY DEF IndexesExact
  <2>1. disk.indexed = Range(disk.blocks) /\ ~dirty
    BY DEF StoreInv, IndexesFollow
  <2>2. phase = "up" /\ commit.txns = <<>>
    BY DEF Idle
  <2> DEFINE rows == disk.blocks
  <2>3. Leads(rows, <<>>, blocks)
    BY <2>1, <2>2 DEF StoreInv, CommitLeads
  <2>4. /\ \A h \in 0..Len(blocks) - 1 : h \in DOMAIN rows /\ rows[h] = blocks[h + 1]
        /\ \A h \in DOMAIN rows : h \in 0..Len(blocks) - 1
    BY <2>3, LeadsDone DEF RowIs
  <2>5. IsChain(blocks)
    BY DEF StoreInv, CoreInv, SoundChain
  <2>6. /\ \A h \in 0..Len(blocks) - 1 : blocks[h + 1] \in BlocksOf(blocks)
        /\ \A b \in BlocksOf(blocks) : Height[b] \in 0..Len(blocks) - 1
                                       /\ b = blocks[Height[b] + 1]
    BY <2>5, ChainPlaces
  <2> HIDE DEF rows
  <2>7. \A b \in Range(rows) : b \in BlocksOf(blocks)
    BY <2>4, <2>6 DEF Range
  <2>8. ASSUME NEW b \in BlocksOf(blocks)
        PROVE  b \in Range(rows)
    <3>1. Height[b] \in DOMAIN rows /\ rows[Height[b]] = b
      BY <2>4, <2>6
    <3> QED BY <3>1 DEF Range
  <2>9. Range(rows) = BlocksOf(blocks)
    BY <2>7, <2>8
  <2> QED BY <2>1, <2>9 DEF rows
<1> QED BY <1>1, StoreInvariantHolds, PTL

(* A crash inside a commit costs no block below its fork point.            *)
THEOREM CrashAlwaysKeepsForkPoint == StoreSpec => []CrashKeepsForkPoint
<1>1. StoreInv => CrashKeepsForkPoint
  <2> DEFINE k == IF commit.txns = <<>> THEN Len(blocks) ELSE commit.fork
             l == Loadable(disk)
  <2> SUFFICES ASSUME StoreInv, phase = "up", ~dirty
               PROVE  CommonLen(l, blocks) >= k
    BY DEF CrashKeepsForkPoint
  <2>1. /\ IsChain(blocks) /\ blocks \in Seq(Block) /\ Len(blocks) \in Nat /\ Len(blocks) > 0
        /\ RowsOK(disk.blocks)
    BY DEF StoreInv, CoreInv, SoundChain, IsChain, FilesOK
  <2>2. k \in 1..Len(blocks) /\ \A h \in 0..k - 1 : RowIs(disk.blocks, blocks, h)
    <3>1. CASE commit.txns = <<>>
      <4>1. Leads(disk.blocks, <<>>, blocks)
        BY <3>1 DEF StoreInv, CommitLeads
      <4> QED BY <2>1, <3>1, <4>1, LeadsDone
    <3>2. CASE commit.txns # <<>>
      BY <3>2 DEF StoreInv, CommitLeads
    <3> QED BY <3>1, <3>2
  <2> HIDE DEF k
  <2>3. k <= Len(l) /\ Len(l) \in Nat /\ \A i \in 1..k : l[i] = blocks[i]
    BY <2>1, <2>2, PrefixLoads
  <2>4. l \in Seq(Block)
    BY <2>1, LoadableShape
  <2> HIDE DEF l
  <2>5. k \in Nat /\ k <= Len(blocks)
    BY <2>1, <2>2
  <2> QED BY <2>1, <2>3, <2>4, <2>5, CommonLenCovers
<1> QED BY <1>1, StoreInvariantHolds, PTL

-----------------------------------------------------------------------------
(* blocks.jsonl. *)

(* The file, after any history. *)
FileOK ==
  /\ lines \in Seq(Sound \cup {Torn})
  /\ lines # <<>> => lines[1] = Genesis
  /\ unterminated \in BOOLEAN
  /\ unterminated => lines # <<>> /\ lines[Len(lines)] = Torn

(* The process and its commit. *)
CommitOK ==
  /\ up \in BOOLEAN /\ unsaved \in BOOLEAN
  /\ toWrite \in [append : Seq(Sound), rewrite : BOOLEAN, fork : Nat]
  /\ toWrite.rewrite => toWrite.append = <<>>
  /\ up => lines # <<>>
  /\ ~up => toWrite = NothingToWrite

(* Lines, then the blocks still to append, are the chain. *)
Lacks(ls, rest, chain) ==
  /\ Len(ls) + Len(rest) = Len(chain)
  /\ \A i \in 1..Len(ls) : ls[i] = chain[i]
  /\ \A k \in 1..Len(rest) : rest[k] = chain[Len(ls) + k]

(* Lines that agree with a chain up to height n - 1. *)
Shares(ls, chain, n) ==
  n <= Len(ls) /\ n <= Len(chain) /\ \A i \in 1..n : ls[i] = chain[i]

Recovered == writeErrors = 0 \/ (deaths = 0 /\ ~unsaved)

FileFollows ==
  /\ deaths \in Nat /\ writeErrors \in Nat
  /\ writeErrors = 0 => lines = <<>> \/ IsChain(lines)
  /\ ~up /\ deaths = 0 => lines = <<>> /\ writeErrors = 0
  /\ writeErrors = 0 => ~unterminated
  /\ up /\ Recovered /\ ~toWrite.rewrite =>
       ~unterminated /\ Lacks(lines, toWrite.append, blocks)
  /\ up /\ writeErrors = 0 /\ toWrite.rewrite => Shares(lines, blocks, toWrite.fork)

JsonlInv == CoreInv /\ FileOK /\ CommitOK /\ FileFollows

-----------------------------------------------------------------------------
(* The file as load reads it. *)

(* The choice in Loadable always succeeds. *)
LEMMA LoadableExists ==
  ASSUME NEW f, NEW S, f \in Seq(S), Len(f) > 0
  PROVE  \E n \in 1..Len(f) :
           /\ LoadableLines(f) = SubSeq(f, 1, n)
           /\ \A i \in 2..n : LinkedAt(f, i)
           /\ n < Len(f) => ~LinkedAt(f, n + 1)
<1> DEFINE Stop == {n \in Nat \ {0} : n >= Len(f) \/ ~LinkedAt(f, n + 1)}
           Good(n) == /\ \A i \in 2..n : LinkedAt(f, i)
                      /\ n < Len(f) => ~LinkedAt(f, n + 1)
<1>1. Len(f) \in Nat /\ Len(f) \in Stop
  OBVIOUS
<1>2. PICK n \in Stop : \A k \in Stop : n <= k
  <2>1. Stop \subseteq Nat /\ Stop # {}
    BY <1>1
  <2> HIDE DEF Stop
  <2> QED BY <2>1, NatSetLeast
<1>3. n \in 1..Len(f)
  BY <1>1, <1>2
<1>4. ASSUME NEW i \in 2..n
      PROVE  LinkedAt(f, i)
  <2>1. i - 1 \in Nat \ {0} /\ i - 1 < n /\ i - 1 < Len(f) /\ (i - 1) + 1 = i
    BY <1>3
  <2>2. i - 1 \notin Stop
    BY <1>2, <2>1
  <2> QED BY <2>1, <2>2
<1>5. Good(n)
  BY <1>2, <1>3, <1>4
<1>6. LoadableLines(f) = SubSeq(f, 1, CHOOSE k \in 1..Len(f) : Good(k))
  BY DEF LoadableLines
<1> HIDE DEF Good, Stop
<1>7. /\ (CHOOSE k \in 1..Len(f) : Good(k)) \in 1..Len(f)
      /\ Good(CHOOSE k \in 1..Len(f) : Good(k))
  BY <1>3, <1>5
<1> QED BY <1>6, <1>7 DEF Good

(* A file without torn lines loads a chain of validated blocks. *)
LEMMA LoadsChain ==
  ASSUME NEW f, f \in Seq(Sound \cup {Torn}), f # <<>>, f[1] = Genesis, Torn \notin Range(f)
  PROVE  /\ LoadableLines(f) \in Seq(Block)
         /\ IsChain(LoadableLines(f)) /\ BlocksOf(LoadableLines(f)) \subseteq Sound
<1> DEFINE c == LoadableLines(f)
<1>1. Len(f) \in Nat /\ Len(f) > 0 /\ DOMAIN f = 1..Len(f)
  OBVIOUS
<1>2. \A i \in 1..Len(f) : f[i] \in Sound /\ f[i] \in Block
  <2> SUFFICES ASSUME NEW i \in 1..Len(f)
               PROVE  f[i] \in Sound
    BY BlockTreeAssumption
  <2>1. f[i] \in Sound \cup {Torn}
    BY ElementOfSeq
  <2>2. f[i] \in Range(f)
    BY <1>1 DEF Range
  <2> QED BY <2>1, <2>2
<1>3. PICK n \in 1..Len(f) : c = SubSeq(f, 1, n) /\ \A i \in 2..n : LinkedAt(f, i)
  BY <1>1, LoadableExists
<1> HIDE DEF c
<1>4. f \in Seq(Block)
  <2>1. f \in [1..Len(f) -> Block]
    BY <1>1, <1>2
  <2> QED BY <1>1, <2>1, SeqDef
<1>5. c \in Seq(Block) /\ Len(c) = n /\ \A i \in 1..n : c[i] = f[i]
  BY <1>3, <1>4, SubSeqProperties
<1>6. ASSUME NEW i \in 2..Len(c)
      PROVE  LinkedAt(c, i)
  <2>1. i \in 2..n /\ i \in 1..n /\ i - 1 \in 1..n
    BY <1>3, <1>5
  <2> QED BY <1>3, <1>5, <2>1 DEF LinkedAt
<1>7. c[1] = Genesis /\ Len(c) > 0 /\ n \in Nat
  BY <1>3, <1>5
<1>8. \A i \in 1..Len(c) : c[i] \in Sound
  BY <1>1, <1>2, <1>5, <1>7
<1> QED BY <1>5, <1>6, <1>7, <1>8 DEF IsChain, BlocksOf, c

(* A file that is a chain loads whole. *)
LEMMA ChainLoads ==
  ASSUME NEW f, IsChain(f)
  PROVE  LoadableLines(f) = f
<1>1. f \in Seq(Block) /\ Len(f) \in Nat /\ Len(f) > 0
  BY DEF IsChain
<1>2. PICK n \in 1..Len(f) : /\ LoadableLines(f) = SubSeq(f, 1, n)
                             /\ n < Len(f) => ~LinkedAt(f, n + 1)
  BY <1>1, LoadableExists
<1>3. n < Len(f) => LinkedAt(f, n + 1)
  BY <1>1, <1>2 DEF IsChain
<1>4. n = Len(f)
  BY <1>1, <1>2, <1>3
<1> QED BY <1>1, <1>2, <1>4, SubSeqFull

(* The first blocks of a chain are a chain. *)
LEMMA PrefixIsChain ==
  ASSUME NEW c, IsChain(c), NEW f \in Seq(Block), Len(f) > 0, Len(f) <= Len(c),
         \A i \in 1..Len(f) : f[i] = c[i]
  PROVE  IsChain(f)
<1>1. Len(f) \in Nat /\ Len(c) \in Nat /\ c[1] = Genesis
  BY DEF IsChain
<1>2. ASSUME NEW i \in 2..Len(f)
      PROVE  LinkedAt(f, i)
  <2>1. i \in 2..Len(c) /\ i \in 1..Len(f) /\ i - 1 \in 1..Len(f)
    BY <1>1
  <2>2. LinkedAt(c, i)
    BY <2>1 DEF IsChain
  <2> QED BY <2>1, <2>2 DEF LinkedAt
<1> QED BY <1>1, <1>2 DEF IsChain

(* Nothing lacks: the file is the chain. *)
LEMMA NothingLacks ==
  ASSUME NEW S, NEW T, NEW ls \in Seq(S), NEW chain \in Seq(T), Lacks(ls, <<>>, chain)
  PROVE  ls = chain
<1>1. Len(<<>>) = 0 /\ Len(ls) \in Nat /\ Len(chain) \in Nat
  OBVIOUS
<1>2. Len(ls) = Len(chain) /\ \A i \in 1..Len(ls) : ls[i] = chain[i]
  BY <1>1 DEF Lacks
<1>3. /\ DOMAIN ls = 1..Len(ls) /\ DOMAIN chain = 1..Len(chain)
      /\ ls = [i \in DOMAIN ls |-> ls[i]] /\ chain = [i \in DOMAIN chain |-> chain[i]]
  OBVIOUS
<1> QED BY <1>2, <1>3

-----------------------------------------------------------------------------
(* The steps of the store, one by one. *)

(* What is known of a file while nothing lacks. *)
LEMMA FileIsChain ==
  ASSUME JsonlInv, up, Recovered, ~toWrite.rewrite, toWrite.append = <<>>
  PROVE  lines = blocks /\ ~unterminated
<1>1. /\ lines \in Seq(Sound \cup {Torn}) /\ blocks \in Seq(Block)
      /\ Lacks(lines, <<>>, blocks) /\ ~unterminated
  BY DEF JsonlInv, FileOK, FileFollows, CoreInv, TypeOK
<1> QED BY <1>1, NothingLacks

(* load. *)
LEMMA JStartStep ==
  ASSUME JsonlInv, JStart
  PROVE  JsonlInv'
<1> DEFINE chain == IF lines = <<>> THEN <<Genesis>> ELSE LoadableLines(lines)
           found == IF lines = <<>> THEN chain ELSE lines
<1>1. /\ ~up /\ Torn \notin Range(lines)
      /\ up' = TRUE /\ lines' = found /\ blocks' = chain /\ cumWork' = SumWork(chain)
      /\ unsaved' = FALSE
      /\ UNCHANGED <<checkpoints, authAnchor, drAct, now, unterminated, toWrite,
                     deaths, writeErrors>>
  BY DEF JStart
<1>2. /\ lines \in Seq(Sound \cup {Torn})
      /\ lines # <<>> => lines[1] = Genesis
      /\ unterminated => lines # <<>> /\ lines[Len(lines)] = Torn
      /\ toWrite = NothingToWrite
  BY <1>1 DEF JsonlInv, FileOK, CommitOK
<1>3. chain \in Seq(Block) /\ IsChain(chain) /\ BlocksOf(chain) \subseteq Sound
  <2>1. CASE lines = <<>>
    BY <2>1, GenesisChain
  <2>2. CASE lines # <<>>
    BY <1>1, <1>2, <2>2, LoadsChain
  <2> QED BY <2>1, <2>2
<1>4. /\ found \in Seq(Sound \cup {Torn}) /\ found # <<>> /\ found[1] = Genesis
      /\ lines = <<>> => found = chain
      /\ lines # <<>> => found = lines
  <2>1. CASE lines = <<>>
    <3>1. found = <<Genesis>>
      BY <2>1
    <3> HIDE DEF found
    <3> QED BY <2>1, <3>1, BlockTreeAssumption
  <2>2. CASE lines # <<>>
    BY <1>2, <2>2
  <2> QED BY <2>1, <2>2
<1>5. IsChain(lines) => chain = lines
  <2>1. ASSUME IsChain(lines)
        PROVE  chain = lines
    <3>1. lines # <<>> /\ LoadableLines(lines) = lines
      BY <2>1, ChainLoads DEF IsChain
    <3> QED BY <3>1
  <2> QED BY <2>1
<1> HIDE DEF chain, found
<1>6. SumWork(chain) \in Nat
  BY <1>3, SumWorkType
<1>7. CoreInv'
  <2>1. TypeOK'
    BY <1>1, <1>3, <1>6 DEF JsonlInv, CoreInv, TypeOK
  <2> QED BY <1>1, <1>3, <2>1 DEF CoreInv, SoundChain, WorkIsSum
<1>8. ~unterminated
  <2>1. ASSUME unterminated
        PROVE  FALSE
    <3>1. Len(lines) \in 1..Len(lines) /\ DOMAIN lines = 1..Len(lines)
      BY <1>2, <2>1
    <3>2. lines[Len(lines)] \in Range(lines)
      BY <3>1 DEF Range
    <3> QED BY <1>1, <1>2, <2>1, <3>2
  <2> QED BY <2>1
<1>9. FileOK'
  BY <1>1, <1>4, <1>8 DEF JsonlInv, FileOK
<1>10. CommitOK'
  BY <1>1, <1>2, <1>4 DEF JsonlInv, CommitOK
<1>11. FileFollows'
  <2>1. /\ deaths' \in Nat /\ writeErrors' \in Nat /\ up' /\ ~unterminated'
        /\ toWrite'.append = <<>> /\ ~toWrite'.rewrite
    BY <1>1, <1>2, <1>8 DEF JsonlInv, FileFollows, NothingToWrite
  <2>2. Recovered' => writeErrors = 0
    BY <1>1 DEF Recovered, JsonlInv, FileFollows
  <2>3. ASSUME writeErrors = 0
        PROVE  found = chain
    <3>1. lines = <<>> \/ IsChain(lines)
      BY <2>3 DEF JsonlInv, FileFollows
    <3>2. CASE lines = <<>>
      BY <1>4, <3>2
    <3>3. CASE IsChain(lines)
      BY <1>4, <1>5, <3>3
    <3> QED BY <3>1, <3>2, <3>3
  <2>4. Lacks(chain, <<>>, chain)
    <3>1. Len(chain) \in Nat /\ \A k \in 1..Len(<<>>) : FALSE
      BY <1>3
    <3> QED BY <1>3, <3>1 DEF Lacks
  <2> QED BY <1>1, <1>3, <2>1, <2>2, <2>3, <2>4 DEF FileFollows
<1> QED BY <1>7, <1>9, <1>10, <1>11 DEF JsonlInv

(* A new chain is in memory, and what it adds is to be appended.           *)
LEMMA BeginAppend ==
  ASSUME JsonlInv, DiskIdle, CoreInv', NEW new \in Seq(Block),
         Len(blocks') = Len(blocks) + Len(new),
         \A i \in 1..Len(blocks) : blocks'[i] = blocks[i],
         \A k \in 1..Len(new) : blocks'[Len(blocks) + k] = new[k],
         toWrite' = [NothingToWrite EXCEPT !.append = new],
         UNCHANGED <<fileVars, up, unsaved, deaths, writeErrors>>
  PROVE  JsonlInv'
<1> DEFINE n == Len(blocks)
<1>1. /\ up /\ toWrite = NothingToWrite /\ ~toWrite.rewrite /\ toWrite.append = <<>>
      /\ n \in Nat /\ Len(new) \in Nat /\ blocks \in Seq(Block) /\ IsChain(blocks)
  BY DEF DiskIdle, NothingToWrite, JsonlInv, CoreInv, TypeOK, SoundChain
<1>2. toWrite' = [append |-> new, rewrite |-> FALSE, fork |-> 0]
  BY DEF NothingToWrite
<1>3. new \in Seq(Sound)
  <2>1. ASSUME NEW k \in 1..Len(new)
        PROVE  new[k] \in Sound
    <3>1. n + k \in 1..Len(blocks')
      BY <1>1
    <3>2. blocks'[n + k] \in Sound
      BY <3>1 DEF CoreInv, SoundChain, BlocksOf
    <3> QED BY <3>2
  <2>2. new \in [1..Len(new) -> Sound]
    BY <2>1
  <2> QED BY <1>1, <2>2, SeqDef
<1>4. FileOK'
  BY DEF JsonlInv, FileOK, fileVars
<1>5. CommitOK'
  BY <1>1, <1>2, <1>3 DEF JsonlInv, CommitOK, fileVars
<1>6. FileFollows'
  <2>1. ASSUME Recovered
        PROVE  ~unterminated /\ Lacks(lines, new, blocks')
    <3>1. lines = blocks /\ ~unterminated
      BY <1>1, <2>1, FileIsChain
    <3> QED BY <3>1 DEF Lacks
  <2> QED BY <1>1, <1>2, <2>1 DEF JsonlInv, FileFollows, Recovered, fileVars
<1> QED BY <1>4, <1>5, <1>6 DEF JsonlInv

(* AddBlock. *)
LEMMA JAddBlockStep ==
  ASSUME JsonlInv, NEW b \in Block, JAddBlock(b)
  PROVE  JsonlInv'
<1> DEFINE new == <<b>>
<1>1. /\ DiskIdle /\ AddBlock(b) /\ CoreInv /\ toWrite' = [NothingToWrite EXCEPT !.append = new]
      /\ UNCHANGED <<fileVars, up, unsaved, deaths, writeErrors>>
  BY DEF JAddBlock, JsonlInv
<1>2. CoreInv'
  BY <1>1, AddBlockStep
<1>3. blocks \in Seq(Block) /\ blocks' = Append(blocks, b) /\ Len(blocks) \in Nat
  BY <1>1 DEF CoreInv, TypeOK, AddBlock
<1>4. /\ Len(blocks') = Len(blocks) + 1 /\ blocks'[Len(blocks) + 1] = b
      /\ \A i \in 1..Len(blocks) : blocks'[i] = blocks[i]
  BY <1>3, AppendProperties
<1>5. new \in Seq(Block) /\ Len(new) = 1 /\ new[1] = b
  OBVIOUS
<1> HIDE DEF new
<1>6. /\ Len(blocks') = Len(blocks) + Len(new)
      /\ \A k \in 1..Len(new) : blocks'[Len(blocks) + k] = new[k]
  BY <1>4, <1>5
<1> QED BY <1>1, <1>2, <1>4, <1>5, <1>6, BeginAppend

(* TryAdoptChain: an extension is appended, a reorg rewrites. *)
LEMMA JTryAdoptChainStep ==
  ASSUME JsonlInv, NEW start \in 1..Len(blocks), NEW new \in Candidates,
         JTryAdoptChain(start, new)
  PROVE  JsonlInv'
<1>1. /\ DiskIdle /\ TryAdoptChain(start, new) /\ CoreInv /\ Len(new) > 0
      /\ toWrite' = IF ~Adoptable(start, new) THEN toWrite
                   ELSE IF Depth(start) = 0 THEN [NothingToWrite EXCEPT !.append = new]
                   ELSE [NothingToWrite EXCEPT !.rewrite = TRUE, !.fork = start]
      /\ UNCHANGED <<fileVars, up, unsaved, deaths, writeErrors>>
  BY DEF JTryAdoptChain, JsonlInv, TryAdoptChain
<1>2. new \in Seq(Block)
  BY ChainCoreAssumption
<1>3. CoreInv'
  BY <1>1, <1>2, TryAdoptChainStep
<1>4. CASE ~Adoptable(start, new)
  <2>1. UNCHANGED <<blocks, toWrite>>
    BY <1>1, <1>4 DEF TryAdoptChain, Adopt, Refuse
  <2> QED BY <1>1, <1>3, <2>1 DEF JsonlInv, FileOK, CommitOK, FileFollows, Recovered, fileVars
<1>5. CASE Adoptable(start, new)
  <2>1. blocks' = Candidate(start, new)
    BY <1>1, <1>5 DEF TryAdoptChain, Adopt, Refuse
  <2>2. /\ Len(blocks') = start + Len(new)
        /\ \A i \in 1..start : blocks'[i] = blocks[i]
        /\ \A k \in 1..Len(new) : blocks'[start + k] = new[k]
    BY <1>1, <1>2, <2>1, CandidateShape DEF CoreInv
  <2>3. start \in Nat /\ start <= Len(blocks) /\ Len(blocks) \in Nat /\ Len(new) \in Nat
    BY <1>1, <1>2 DEF CoreInv, TypeOK
  <2>4. CASE Depth(start) = 0
    <3>1. start = Len(blocks)
      BY <2>3, <2>4 DEF Depth
    <3>2. toWrite' = [NothingToWrite EXCEPT !.append = new]
      BY <1>1, <1>5, <2>4
    <3> QED BY <1>1, <1>2, <1>3, <2>2, <3>1, <3>2, BeginAppend
  <2>5. CASE Depth(start) # 0
    <3>1. toWrite' = [append |-> <<>>, rewrite |-> TRUE, fork |-> start]
      BY <1>1, <1>5, <2>5 DEF NothingToWrite
    <3>2. up /\ ~toWrite.rewrite /\ toWrite.append = <<>>
      BY <1>1 DEF DiskIdle, NothingToWrite
    <3>3. FileOK'
      BY <1>1 DEF JsonlInv, FileOK, fileVars
    <3>4. CommitOK'
      <4>1. toWrite' \in [append : Seq(Sound), rewrite : BOOLEAN, fork : Nat]
        BY <2>3, <3>1, EmptySeq
      <4>2. toWrite'.append = <<>>
        BY <3>1
      <4>3. lines' = lines
        BY <1>1 DEF fileVars
      <4> QED BY <1>1, <3>2, <4>1, <4>2, <4>3 DEF JsonlInv, CommitOK
    <3>5. ASSUME writeErrors = 0
          PROVE  Shares(lines, blocks', start)
      <4>1. lines = blocks
        BY <3>2, <3>5, FileIsChain DEF Recovered
      <4> QED BY <2>2, <2>3, <4>1 DEF Shares
    <3>6. FileFollows'
      BY <1>1, <3>1, <3>2, <3>5 DEF JsonlInv, FileFollows, Recovered, fileVars
    <3> QED BY <1>3, <3>3, <3>4, <3>6 DEF JsonlInv
  <2> QED BY <2>4, <2>5
<1> QED BY <1>4, <1>5

(* appendToDisk, one block. *)
LEMMA AppendLineStep ==
  ASSUME JsonlInv, AppendLine
  PROVE  JsonlInv'
<1> DEFINE b == Head(toWrite.append)
           rest == Tail(toWrite.append)
<1>1. /\ toWrite.append # <<>>
      /\ lines' = IF unterminated THEN lines ELSE Append(lines, b)
      /\ unterminated' = FALSE
      /\ toWrite' = IF Len(toWrite.append) = 1 THEN NothingToWrite
                   ELSE [toWrite EXCEPT !.append = Tail(@)]
      /\ UNCHANGED <<vars, up, unsaved, deaths, writeErrors>>
  BY DEF AppendLine
<1>2. /\ CoreInv /\ IsChain(blocks) /\ lines \in Seq(Sound \cup {Torn})
      /\ lines # <<>> => lines[1] = Genesis
      /\ toWrite \in [append : Seq(Sound), rewrite : BOOLEAN, fork : Nat]
      /\ ~toWrite.rewrite
      /\ up /\ lines # <<>>
  BY <1>1 DEF JsonlInv, CoreInv, SoundChain, FileOK, CommitOK, NothingToWrite
<1>3. toWrite.append \in Seq(Sound)
  BY <1>2
<1>4. /\ b \in Sound /\ rest \in Seq(Sound) /\ Len(rest) = Len(toWrite.append) - 1
      /\ b = toWrite.append[1] /\ \A k \in 1..Len(rest) : rest[k] = toWrite.append[k + 1]
      /\ Len(toWrite.append) \in Nat /\ Len(toWrite.append) >= 1
  BY <1>1, <1>3, HeadTailProperties
<1> HIDE DEF b
<1>5. /\ toWrite'.append = rest /\ toWrite'.rewrite = FALSE
      /\ toWrite' \in [append : Seq(Sound), rewrite : BOOLEAN, fork : Nat]
  <2>1. CASE Len(toWrite.append) = 1
    <3>1. rest = <<>>
      <4>1. Len(rest) = 0
        BY <1>4, <2>1
      <4> QED BY <1>4, <4>1, EmptySeq
    <3> QED BY <1>1, <2>1, <3>1, EmptySeq DEF NothingToWrite
  <2>2. CASE Len(toWrite.append) # 1
    <3>1. toWrite' = [toWrite EXCEPT !.append = rest]
      BY <1>1, <2>2
    <3> HIDE DEF rest
    <3> QED BY <1>2, <1>4, <3>1
  <2> QED BY <2>1, <2>2
<1> HIDE DEF rest
<1>6. /\ Append(lines, b) \in Seq(Sound \cup {Torn}) /\ Len(Append(lines, b)) = Len(lines) + 1
      /\ \A i \in 1..Len(lines) : Append(lines, b)[i] = lines[i]
      /\ Append(lines, b)[Len(lines) + 1] = b
      /\ Len(lines) \in Nat /\ Len(lines) > 0
  BY <1>2, <1>4, AppendProperties
<1>7. CoreInv'
  BY <1>1, <1>2 DEF CoreInv, TypeOK, SoundChain, WorkIsSum, vars
<1>8. FileOK' /\ lines' # <<>>
  <2>1. CASE unterminated
    BY <1>1, <1>2, <2>1 DEF FileOK
  <2>2. CASE ~unterminated
    <3>1. /\ lines' \in Seq(Sound \cup {Torn}) /\ Len(lines') = Len(lines) + 1
          /\ lines'[1] = Genesis
      BY <1>1, <1>2, <1>6, <2>2
    <3>2. lines' # <<>>
      BY <1>6, <3>1
    <3> QED BY <1>1, <3>1, <3>2 DEF FileOK
  <2> QED BY <2>1, <2>2
<1>9. CommitOK'
  BY <1>1, <1>2, <1>5, <1>8 DEF JsonlInv, CommitOK
<1>10. ASSUME Recovered
       PROVE  Lacks(lines', rest, blocks) /\ lines' = Append(lines, b)
  <2>1. ~unterminated /\ Lacks(lines, toWrite.append, blocks)
    BY <1>2, <1>10 DEF JsonlInv, FileFollows
  <2>2. /\ Len(lines) + Len(toWrite.append) = Len(blocks)
        /\ \A i \in 1..Len(lines) : lines[i] = blocks[i]
        /\ \A k \in 1..Len(toWrite.append) : toWrite.append[k] = blocks[Len(lines) + k]
    BY <2>1 DEF Lacks
  <2>3. lines' = Append(lines, b)
    BY <1>1, <2>1
  <2>4. Len(lines') = Len(lines) + 1 /\ Len(lines') + Len(rest) = Len(blocks)
    <3>1. Len(lines') = Len(lines) + 1
      BY <1>6, <2>3
    <3>2. Len(rest) = Len(toWrite.append) - 1 /\ Len(toWrite.append) \in Nat
      BY <1>4
    <3>3. Len(lines) \in Nat /\ Len(lines) + Len(toWrite.append) = Len(blocks)
      BY <1>6, <2>2
    <3> DEFINE x == Len(lines)
               y == Len(toWrite.append)
               u == Len(lines')
               v == Len(rest)
               w == Len(blocks)
    <3>4. x \in Nat /\ y \in Nat /\ u = x + 1 /\ v = y - 1 /\ x + y = w
      BY <3>1, <3>2, <3>3
    <3> HIDE DEF x, y, u, v, w
    <3>5. u + v = w
      BY <3>4
    <3> QED BY <3>1, <3>5 DEF u, v, w
  <2>5. ASSUME NEW i \in 1..Len(lines')
        PROVE  lines'[i] = blocks[i]
    <3>1. CASE i = Len(lines) + 1
      <4>1. 1 \in 1..Len(toWrite.append)
        BY <1>4
      <4> QED BY <1>4, <1>6, <2>2, <2>3, <3>1, <4>1
    <3>2. CASE i # Len(lines) + 1
      <4>1. i \in 1..Len(lines)
        BY <1>6, <2>4, <3>2
      <4> QED BY <1>6, <2>2, <2>3, <4>1
    <3> QED BY <3>1, <3>2
  <2>6. ASSUME NEW k \in 1..Len(rest)
        PROVE  rest[k] = blocks[Len(lines') + k]
    <3>1. k + 1 \in 1..Len(toWrite.append) /\ Len(lines) + (k + 1) = Len(lines') + k
      BY <1>4, <1>6, <2>4
    <3> QED BY <1>4, <2>2, <3>1
  <2> QED BY <2>3, <2>4, <2>5, <2>6 DEF Lacks
<1>11. ASSUME writeErrors = 0
       PROVE  IsChain(lines')
  <2>1. Lacks(lines', rest, blocks) /\ Len(lines') = Len(lines) + 1
    BY <1>6, <1>10, <1>11 DEF Recovered
  <2>2. /\ Len(lines') + Len(rest) = Len(blocks) /\ Len(rest) \in Nat
        /\ \A i \in 1..Len(lines') : lines'[i] = blocks[i]
    <3>1. Len(rest) \in Nat
      BY <1>4
    <3> QED BY <2>1, <3>1 DEF Lacks
  <2>3. Len(lines') \in Nat /\ Len(lines') > 0 /\ Len(lines') <= Len(blocks)
    BY <1>6, <2>1, <2>2
  <2>4. lines' \in Seq(Block)
    <3>1. blocks \in Seq(Block) /\ Len(blocks) \in Nat
      BY <1>2 DEF IsChain
    <3>2. lines' \in Seq(Sound \cup {Torn})
      BY <1>8 DEF FileOK
    <3>3. \A i \in 1..Len(lines') : lines'[i] \in Block
      BY <2>2, <2>3, <3>1
    <3>4. lines' \in [1..Len(lines') -> Block]
      BY <3>2, <3>3
    <3> QED BY <2>3, <3>4, SeqDef
  <2> QED BY <1>2, <2>2, <2>3, <2>4, PrefixIsChain
<1>12. FileFollows'
  BY <1>1, <1>2, <1>5, <1>10, <1>11 DEF JsonlInv, FileFollows, Recovered, vars
<1> QED BY <1>7, <1>8, <1>9, <1>12 DEF JsonlInv

(* An append fails, whole or after part of a line. *)
LEMMA AppendFailsStep ==
  ASSUME JsonlInv, AppendFails
  PROVE  JsonlInv'
<1>1. /\ toWrite.append # <<>> /\ writeErrors' = writeErrors + 1
      /\ \/ lines' = lines /\ unterminated' = unterminated
         \/ /\ lines' = IF unterminated THEN lines ELSE Append(lines, Torn)
            /\ unterminated' = TRUE
      /\ toWrite' = [toWrite EXCEPT !.append = <<>>, !.rewrite = TRUE]
      /\ UNCHANGED <<vars, up, unsaved, deaths>>
  BY DEF AppendFails, WriteError, AfterFailedAppend, fileVars
<1>2. /\ CoreInv /\ lines \in Seq(Sound \cup {Torn})
      /\ lines # <<>> => lines[1] = Genesis
      /\ unterminated \in BOOLEAN
      /\ unterminated => lines # <<>> /\ lines[Len(lines)] = Torn
      /\ toWrite \in [append : Seq(Sound), rewrite : BOOLEAN, fork : Nat]
      /\ up /\ lines # <<>>
      /\ writeErrors \in Nat /\ deaths \in Nat
  BY <1>1 DEF JsonlInv, FileOK, CommitOK, FileFollows, NothingToWrite
<1>3. /\ toWrite'.append = <<>> /\ toWrite'.rewrite = TRUE
      /\ toWrite' \in [append : Seq(Sound), rewrite : BOOLEAN, fork : Nat]
  BY <1>1, <1>2, EmptySeq
<1>4. /\ Append(lines, Torn) \in Seq(Sound \cup {Torn})
      /\ Len(Append(lines, Torn)) = Len(lines) + 1
      /\ \A i \in 1..Len(lines) : Append(lines, Torn)[i] = lines[i]
      /\ Append(lines, Torn)[Len(lines) + 1] = Torn
      /\ Len(lines) \in Nat /\ Len(lines) > 0
  BY <1>2, AppendProperties
<1>5. CoreInv'
  BY <1>1, <1>2 DEF CoreInv, TypeOK, SoundChain, WorkIsSum, vars
<1>6. FileOK' /\ lines' # <<>>
  <2>1. CASE lines' = lines /\ unterminated' = unterminated
    BY <1>2, <2>1 DEF FileOK
  <2>3. CASE lines' = lines /\ unterminated /\ unterminated' = TRUE
    BY <1>2, <2>3 DEF FileOK
  <2>2. CASE lines' = Append(lines, Torn) /\ unterminated' = TRUE
    <3>1. lines' # <<>> /\ lines'[1] = Genesis
      BY <1>2, <1>4, <2>2
    <3>2. lines' \in Seq(Sound \cup {Torn}) /\ lines'[Len(lines')] = Torn
      <4>1. Len(lines') = Len(lines) + 1
        BY <1>4, <2>2
      <4> QED BY <1>4, <2>2, <4>1
    <3>3. unterminated' \in BOOLEAN
      BY <2>2
    <3> QED BY <3>1, <3>2, <3>3 DEF FileOK
  <2> QED BY <1>1, <2>1, <2>2, <2>3
<1>7. CommitOK'
  BY <1>1, <1>2, <1>3, <1>6 DEF JsonlInv, CommitOK
<1>8. FileFollows'
  <2>1. writeErrors' # 0 /\ writeErrors' \in Nat
    BY <1>1, <1>2
  <2> QED BY <1>1, <1>2, <1>3, <2>1 DEF FileFollows
<1> QED BY <1>5, <1>6, <1>7, <1>8 DEF JsonlInv

(* saveAll, whole or not at all. *)
LEMMA SaveAllStep ==
  ASSUME JsonlInv, SaveAll
  PROVE  JsonlInv'
<1>1. /\ toWrite.rewrite /\ lines' = blocks /\ unterminated' = FALSE /\ toWrite' = NothingToWrite
      /\ UNCHANGED <<vars, up, unsaved, deaths, writeErrors>>
  BY DEF SaveAll
<1>2. CoreInv /\ IsChain(blocks) /\ BlocksOf(blocks) \subseteq Sound
  BY DEF JsonlInv, CoreInv, SoundChain
<1>3. blocks \in Seq(Sound \cup {Torn}) /\ blocks # <<>> /\ blocks[1] = Genesis
  <2>1. blocks \in Seq(Block) /\ Len(blocks) \in Nat /\ Len(blocks) > 0 /\ blocks[1] = Genesis
    BY <1>2 DEF IsChain
  <2>2. blocks \in [1..Len(blocks) -> Sound \cup {Torn}]
    BY <1>2, <2>1 DEF BlocksOf
  <2>3. blocks # <<>>
    BY <2>1
  <2> QED BY <2>1, <2>2, <2>3, SeqDef
<1>4. CoreInv'
  BY <1>1, <1>2 DEF CoreInv, TypeOK, SoundChain, WorkIsSum, vars
<1>5. toWrite' \in [append : Seq(Sound), rewrite : BOOLEAN, fork : Nat]
      /\ toWrite'.append = <<>> /\ ~toWrite'.rewrite
  BY <1>1, EmptySeq DEF NothingToWrite
<1>6. FileOK' /\ CommitOK'
  BY <1>1, <1>3, <1>5 DEF JsonlInv, FileOK, CommitOK
<1>7. FileFollows'
  <2>1. Lacks(blocks, <<>>, blocks)
    <3>1. Len(blocks) \in Nat /\ \A k \in 1..Len(<<>>) : FALSE
      BY <1>2 DEF IsChain
    <3> QED BY <3>1 DEF Lacks
  <2>2. up
    BY <1>1 DEF JsonlInv, CommitOK, NothingToWrite
  <2> QED BY <1>1, <1>2, <1>5, <2>1, <2>2 DEF JsonlInv, FileFollows, vars
<1> QED BY <1>4, <1>6, <1>7 DEF JsonlInv

(* saveAll fails before its rename, or the process dies. *)
LEMMA SaveAllFailsStep ==
  ASSUME JsonlInv, SaveAllFails
  PROVE  JsonlInv'
<1>1. /\ toWrite.rewrite /\ toWrite' = NothingToWrite /\ unsaved' = TRUE /\ writeErrors' = writeErrors + 1
      /\ UNCHANGED <<vars, fileVars, up, deaths>>
  BY DEF SaveAllFails, WriteError
<1>2. /\ toWrite' \in [append : Seq(Sound), rewrite : BOOLEAN, fork : Nat]
      /\ toWrite'.append = <<>> /\ ~toWrite'.rewrite
  BY <1>1, EmptySeq DEF NothingToWrite
<1>3. CoreInv'
  BY <1>1 DEF JsonlInv, CoreInv, TypeOK, SoundChain, WorkIsSum, vars
<1>4. FileOK' /\ CommitOK'
  BY <1>1, <1>2 DEF JsonlInv, FileOK, CommitOK, fileVars
<1>5. FileFollows'
  <2>1. writeErrors' # 0 /\ writeErrors' \in Nat /\ deaths' \in Nat /\ up
    BY <1>1 DEF JsonlInv, FileFollows, CommitOK, NothingToWrite
  <2> QED BY <1>1, <1>2, <2>1 DEF FileFollows, Recovered
<1> QED BY <1>3, <1>4, <1>5 DEF JsonlInv

(* A death leaves the file as it is. *)
LEMMA JCrashStep ==
  ASSUME JsonlInv, JCrash
  PROVE  JsonlInv'
<1>1. /\ deaths' = deaths + 1 /\ up' = FALSE
      /\ blocks' = <<Genesis>> /\ cumWork' = Work[Genesis] /\ drAct' = 0
      /\ toWrite' = NothingToWrite /\ unsaved' = FALSE
      /\ UNCHANGED <<checkpoints, authAnchor, now, fileVars, writeErrors>>
  BY DEF JCrash
<1>2. toWrite' \in [append : Seq(Sound), rewrite : BOOLEAN, fork : Nat]
      /\ toWrite'.append = <<>> /\ ~toWrite'.rewrite
  BY <1>1, EmptySeq DEF NothingToWrite
<1>3. CoreInv'
  <2>1. TypeOK'
    BY <1>1, GenesisChain, BlockTreeAssumption DEF JsonlInv, CoreInv, TypeOK
  <2> QED BY <1>1, <2>1, GenesisChain DEF CoreInv, SoundChain, WorkIsSum
<1>4. FileOK' /\ CommitOK'
  BY <1>1, <1>2 DEF JsonlInv, FileOK, CommitOK, fileVars
<1>5. FileFollows'
  <2>1. deaths' # 0 /\ deaths' \in Nat
    BY <1>1 DEF JsonlInv, FileFollows
  <2> QED BY <1>1, <2>1 DEF JsonlInv, FileFollows, fileVars
<1> QED BY <1>3, <1>4, <1>5 DEF JsonlInv

(* The invariant is inductive. *)
LEMMA JsonlInvariantHolds == JSpec => []JsonlInv
<1>1. JInit => JsonlInv
  <2> SUFFICES ASSUME JInit
               PROVE  JsonlInv
    OBVIOUS
  <2>1. CoreInv
    BY InitInvariant DEF JInit, IInv
  <2>2. NothingToWrite \in [append : Seq(Sound), rewrite : BOOLEAN, fork : Nat]
    BY EmptySeq DEF NothingToWrite
  <2>3. <<>> \in Seq(Sound \cup {Torn})
    BY EmptySeq
  <2> QED BY <2>1, <2>2, <2>3 DEF JInit, JsonlInv, FileOK, CommitOK, FileFollows, NothingToWrite
<1>2. JsonlInv /\ [JNext]_jVars => JsonlInv'
  <2> SUFFICES ASSUME JsonlInv, [JNext]_jVars
               PROVE  JsonlInv'
    OBVIOUS
  <2>1. CASE JStart
    BY <2>1, JStartStep
  <2>2. ASSUME NEW b \in Block, JAddBlock(b)
        PROVE  JsonlInv'
    BY <2>2, JAddBlockStep
  <2>3. ASSUME NEW start \in 1..Len(blocks), NEW new \in Candidates,
               JTryAdoptChain(start, new)
        PROVE  JsonlInv'
    BY <2>3, JTryAdoptChainStep
  <2>4. CASE AppendLine
    BY <2>4, AppendLineStep
  <2>5. CASE AppendFails
    BY <2>5, AppendFailsStep
  <2>6. CASE SaveAll
    BY <2>6, SaveAllStep
  <2>7. CASE SaveAllFails
    BY <2>7, SaveAllFailsStep
  <2>8. CASE JCrash
    BY <2>8, JCrashStep
  <2>9. CASE UNCHANGED jVars
    BY <2>9 DEF jVars, jsonlVars, vars, fileVars, JsonlInv, CoreInv, TypeOK, SoundChain,
       WorkIsSum, FileOK, CommitOK, FileFollows, Recovered
  <2> QED BY <2>1, <2>2, <2>3, <2>4, <2>5, <2>6, <2>7, <2>8, <2>9 DEF JNext
<1> QED BY <1>1, <1>2, PTL DEF JSpec

-----------------------------------------------------------------------------
(* What the file promises. *)

(* Whatever a process that parses the file finds after crashes and failed  *)
(* writes, it starts on a linked chain of validated blocks (load).         *)
THEOREM JsonlAlwaysSound == JSpec => []JsonlSound
<1>1. JsonlInv => JsonlSound
  <2> SUFFICES ASSUME JsonlInv
               PROVE  JsonlTypeOK /\ JsonlLoadsValidChain
    BY DEF JsonlSound
  <2>1. /\ lines \in Seq(Sound \cup {Torn})
        /\ lines # <<>> => lines[1] = Genesis
    BY DEF JsonlInv, FileOK
  <2>2. lines \in Seq(Block \cup {Torn})
    BY <2>1, BlockTreeAssumption
  <2>3. JsonlTypeOK
    BY <2>2 DEF JsonlInv, CoreInv, FileOK, CommitOK, JsonlTypeOK
  <2>4. JsonlLoadsValidChain
    BY <2>1, LoadsChain DEF JsonlLoadsValidChain
  <2> QED BY <2>3, <2>4
<1> QED BY <1>1, JsonlInvariantHolds, PTL

(* With diskMu free the file is the chain in memory, line for line, while  *)
(* no write fails or the rewrite made the failure good.                    *)
THEOREM FileAlwaysHoldsChain == JSpec => []FileHoldsChain
<1>1. JsonlInv => FileHoldsChain
  BY FileIsChain DEF FileHoldsChain, DiskIdle, NothingToWrite, Recovered
<1> QED BY <1>1, JsonlInvariantHolds, PTL

(* A crash inside a commit loses nothing the two chains share. *)
THEOREM CrashAlwaysKeepsSharedBlocks == JSpec => []CrashKeepsSharedBlocks
<1>1. JsonlInv => CrashKeepsSharedBlocks
  <2> DEFINE k == IF toWrite.rewrite THEN toWrite.fork ELSE Len(blocks) - Len(toWrite.append)
  <2> SUFFICES ASSUME JsonlInv, up, writeErrors = 0
               PROVE  CommonLen(LoadableLines(lines), blocks) >= k
    BY DEF CrashKeepsSharedBlocks
  <2>1. /\ lines # <<>> /\ blocks \in Seq(Block) /\ Len(blocks) \in Nat
        /\ toWrite.append \in Seq(Sound) /\ Len(toWrite.append) \in Nat /\ toWrite.fork \in Nat
    BY DEF JsonlInv, CommitOK, CoreInv, TypeOK
  <2>2. IsChain(lines)
    BY <2>1 DEF JsonlInv, FileFollows
  <2>3. LoadableLines(lines) = lines /\ lines \in Seq(Block) /\ Len(lines) \in Nat
    BY <2>2, ChainLoads DEF IsChain
  <2>4. k \in Nat /\ Shares(lines, blocks, k)
    <3>1. CASE toWrite.rewrite
      BY <2>1, <3>1 DEF JsonlInv, FileFollows
    <3>2. CASE ~toWrite.rewrite
      <4>1. Lacks(lines, toWrite.append, blocks)
        BY <3>2 DEF JsonlInv, FileFollows, Recovered
      <4> QED BY <2>1, <2>3, <3>2, <4>1 DEF Lacks, Shares
    <3> QED BY <3>1, <3>2
  <2> HIDE DEF k
  <2>5. k <= Len(lines) /\ k <= Len(blocks) /\ \A i \in 1..k : lines[i] = blocks[i]
    BY <2>4 DEF Shares
  <2> QED BY <2>1, <2>3, <2>4, <2>5, CommonLenCovers
<1> QED BY <1>1, JsonlInvariantHolds, PTL
=============================================================================
