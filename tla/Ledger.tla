------------------------------- MODULE Ledger -------------------------------
(***************************************************************************)
(* Account rules of core/chain.go, as operators: what a block does to the  *)
(* account state and to the lifetime totals, which transactions a state    *)
(* admits, which bodies a block may have.  Amounts are uint64 in the code  *)
(* and integers modulo Word here.                                          *)
(*                                                                         *)
(* A block is [miner, txs]: its coinbase is implied, because validateBlock *)
(* admits exactly one amount, the subsidy plus the fees.  A transaction is *)
(* [from, to, amount, fee, nonce, chainID]: the record stands for its ID,  *)
(* chainID says whether its signature commits to the chain.                *)
(***************************************************************************)
EXTENDS Integers, Sequences, FiniteSets, Functions, SequencesExt, FiniteSetsExt

CONSTANTS
  Addr,              \* addresses
  Word,              \* 2^64 in the code
  MaxHeight,         \* bound: heights explored are 0..MaxHeight
  SubsidyAt,         \* BlockSubsidy by height; nothing at genesis
  CoinbaseMaturity,
  MaturityHeight,
  MinFeeHeight,      \* no fee floor below it
  FeeMarketHeight,   \* flat fee floor from it on (the activation height)
  FeeFloor,          \* 1000 in minFeeForActive
  FullMult,          \* 1000 in minFeeForActive
  FeeWindow,         \* 20 in minFeeForActive
  ChainIDHeight,
  MaxBlockTxs        \* coinbase included

ASSUME LedgerAssumption ==
  /\ Word \in Nat \ {0}
  /\ IsFiniteSet(Addr)
  /\ MaxHeight \in Nat \ {0}
  /\ SubsidyAt \in [0..MaxHeight -> 0..Word - 1]
  /\ MinFeeHeight \in Nat /\ FeeMarketHeight \in Nat
  /\ FeeFloor \in Nat /\ FullMult \in Nat /\ FeeWindow \in Nat \ {0}
  /\ CoinbaseMaturity \in Nat /\ MaturityHeight \in Nat
  /\ ChainIDHeight \in Nat
  /\ MaxBlockTxs \in Nat \ {0, 1}

(* All coins ever minted fit a uint64, even counted once per young block:  *)
(* the schedule of BlockSubsidy stays below 2^54, CoinbaseMaturity is 100. *)
ASSUME SupplyAssumption ==
  /\ SumFunction(SubsidyAt) < Word
  /\ CoinbaseMaturity * SumFunction(SubsidyAt) < Word

Tx == [from : Addr, to : Addr, amount : 0..Word - 1, fee : 0..Word - 1,
       nonce : Nat, chainID : BOOLEAN]

Cost(t) == (t.amount + t.fee) % Word       \* wraps, as uint64 does

EmptyState == [a \in Addr |-> [balance |-> 0, nonce |-> 0]]
EmptyTotals == [a \in Addr |-> [received |-> 0, mined |-> 0, sent |-> 0, txn |-> 0]]

(* Loops are recursive functions over the position, which the proofs can   *)
(* unfold.                                                                 *)
TotalFees(b) ==
  LET sum[n \in 0..Len(b.txs)] ==
        IF n = 0 THEN 0 ELSE (sum[n - 1] + b.txs[n].fee) % Word
  IN  sum[Len(b.txs)]

Credit(st, a, v) == [st EXCEPT ![a].balance = (@ + v) % Word]

(* One body transaction of applyBlockToState. *)
ApplyTx(st, t) ==
  Credit([st EXCEPT ![t.from].balance = (@ + Word - Cost(t)) % Word,
                    ![t.from].nonce = @ + 1],
         t.to, t.amount)

ApplyTxs(st, txs) ==
  LET run[n \in 0..Len(txs)] ==
        IF n = 0 THEN st ELSE ApplyTx(run[n - 1], txs[n])
  IN  run[Len(txs)]

(* applyBlockToState of the block at height h: the coinbase comes first. *)
ApplyBlock(st, b, h) ==
  ApplyTxs(Credit(st, b.miner, (SubsidyAt[h] + TotalFees(b)) % Word), b.txs)

(* Blocks applied one after the other, the first at height h. *)
Advance(st, blocks, h) ==
  LET run[n \in 0..Len(blocks)] ==
        IF n = 0 THEN st ELSE ApplyBlock(run[n - 1], blocks[n], h + n - 1)
  IN  run[Len(blocks)]

(* applyBlockToTotals *)
CountTx(tot, t) ==
  LET sent == [tot EXCEPT ![t.from].sent = (@ + Cost(t)) % Word, ![t.from].txn = @ + 1]
  IN  IF t.to = t.from THEN sent
      ELSE [sent EXCEPT ![t.to].received = (@ + t.amount) % Word, ![t.to].txn = @ + 1]

CountReward(tot, a, v) ==
  [tot EXCEPT ![a] = [received |-> (@.received + v) % Word,
                      mined |-> (@.mined + v) % Word,
                      sent |-> @.sent, txn |-> @.txn + 1]]

CountTxs(tot, txs) ==
  LET run[n \in 0..Len(txs)] ==
        IF n = 0 THEN tot ELSE CountTx(run[n - 1], txs[n])
  IN  run[Len(txs)]

CountBlock(tot, b, h) ==
  CountTxs(CountReward(tot, b.miner, (SubsidyAt[h] + TotalFees(b)) % Word), b.txs)

CountBlocks(tot, blocks, h) ==
  LET run[n \in 0..Len(blocks)] ==
        IF n = 0 THEN tot ELSE CountBlock(run[n - 1], blocks[n], h + n - 1)
  IN  run[Len(blocks)]

(* State and totals of a whole chain, whose block i is at height i - 1. *)
Replay(chain) == Advance(EmptyState, chain, 0)
ReplayTotals(chain) == CountBlocks(EmptyTotals, chain, 0)

ImmatureOffByOne(chain, a, h) ==                        \* faulty variant
  LET lo == IF h > CoinbaseMaturity THEN h - CoinbaseMaturity + 2 ELSE 0
      young == {k \in lo..h - 1 : k < Len(chain) /\ chain[k + 1].miner = a}
  IN  IF h < MaturityHeight THEN 0
      ELSE FoldSet(LAMBDA k, s : (SubsidyAt[k] + TotalFees(chain[k + 1]) + s) % Word,
                   0, young)

(* immatureCoinbase: rewards of a not yet spendable at height h. *)
Immature(chain, a, h) ==
  LET lo == IF h > CoinbaseMaturity THEN h - CoinbaseMaturity + 1 ELSE 0
      young == {k \in lo..h - 1 : k < Len(chain) /\ chain[k + 1].miner = a}
  IN  IF h < MaturityHeight THEN 0
      ELSE FoldSet(LAMBDA k, s : (SubsidyAt[k] + TotalFees(chain[k + 1]) + s) % Word,
                   0, young)

Spendable(balance, immature) == IF immature >= balance THEN 0 ELSE balance - immature

Available(chain, st, a) ==
  Spendable(st[a].balance, Immature(chain, a, Len(chain)))

(* minFeeForActive, for the block that extends `chain`: the floor grows    *)
(* with the square of how full the last blocks are, until the fee market.  *)
(* The code computes it in float64; here it is the exact quotient.         *)
MinFeeFor(chain) ==
  LET n        == IF Len(chain) < FeeWindow THEN Len(chain) ELSE FeeWindow
      capacity == n * (MaxBlockTxs - 1)
      filled   == FoldSet(LAMBDA i, s : Len(chain[i].txs) + s, 0,
                          Len(chain) - n + 1..Len(chain))
  IN  IF Len(chain) >= FeeMarketHeight THEN FeeFloor
      ELSE (FeeFloor * (capacity * capacity + FullMult * filled * filled))
             \div (capacity * capacity)

PaysFloor(chain, t) == Len(chain) >= MinFeeHeight => t.fee >= MinFeeFor(chain)

(* CheckSigAt: a well-formed, correctly signed transaction at height h. *)
SignedFor(t, h) == t.amount > 0 /\ (t.chainID <=> h >= ChainIDHeight)

ValidTxUnchecked(chain, st, t) ==                       \* faulty variant
  /\ SignedFor(t, Len(chain))
  /\ t.nonce = st[t.from].nonce
  /\ Available(chain, st, t.from) >= Cost(t)

ValidTxAnyNonce(chain, st, t) ==                        \* faulty variant
  /\ SignedFor(t, Len(chain))
  /\ t.nonce >= st[t.from].nonce
  /\ Cost(t) >= t.amount
  /\ Available(chain, st, t.from) >= Cost(t)

(* validateTxAgainstState for the block that extends `chain`, on the state *)
(* st the body has reached.                                                *)
ValidTx(chain, st, t) ==
  /\ SignedFor(t, Len(chain))
  /\ t.nonce = st[t.from].nonce
  /\ Cost(t) >= t.amount                 \* no overflow
  /\ Available(chain, st, t.from) >= Cost(t)

(* The body rules of validateBlock, on a state copy without the coinbase. *)
ValidBody(chain, st, txs) ==
  /\ Len(txs) + 1 <= MaxBlockTxs
  /\ \A i, j \in 1..Len(txs) : txs[i] = txs[j] => i = j
  /\ \A i \in 1..Len(txs) :
       /\ PaysFloor(chain, txs[i])
       /\ ValidTx(chain, ApplyTxs(st, SubSeq(txs, 1, i - 1)), txs[i])
=============================================================================
