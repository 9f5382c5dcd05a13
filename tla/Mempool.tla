------------------------------ MODULE Mempool ------------------------------
(***************************************************************************)
(* The mempool of core/chain.go and its file (core/mempool_persist.go),    *)
(* over an account state that blocks and reorgs change.  Every action is   *)
(* one critical section of c.mu.  The chain is any chain the ledger rules  *)
(* admit; which of two chains wins is ChainCore's business.                *)
(***************************************************************************)
EXTENDS Ledger

CONSTANTS
  Txs,             \* transactions that may be submitted or mined
  Branches,        \* branches peers may offer: sequences of blocks
  Genesis,         \* the genesis block
  Miner,           \* address our own templates pay
  MaxNonceGap,     \* MaxMempoolNonceGap
  MaxPerSender,    \* MaxMempoolTxnsPerSender
  PoolLimit        \* 10000 in AddTx

ASSUME MempoolAssumption ==
  /\ Txs \subseteq Tx
  /\ Branches \subseteq Seq([miner : Addr, txs : Seq(Txs)])
  /\ Genesis \in [miner : Addr, txs : {<<>>}]
  /\ Miner \in Addr
  /\ MaxNonceGap \in Nat /\ MaxPerSender \in Nat /\ PoolLimit \in Nat

VARIABLES
  chain,     \* c.blocks
  state,     \* c.state
  totals,    \* c.totals
  pool,      \* c.mempool and c.bySender: [txs, bySender]
  saved      \* mempool.json

vars == <<chain, state, totals, pool, saved>>

EmptyPool == [txs |-> {}, bySender |-> [a \in Addr |-> <<>>]]

Init ==
  /\ chain = <<Genesis>>
  /\ state = Replay(chain)
  /\ totals = ReplayTotals(chain)
  /\ pool = EmptyPool
  /\ saved = {}

-----------------------------------------------------------------------------
(* The pool's two views change together, through mpAdd and mpDel. *)

mpAdd(p, t) ==
  LET s == p.bySender[t.from]
      i == Cardinality({k \in 1..Len(s) : s[k].nonce < t.nonce})
  IN  [txs |-> p.txs \cup {t},
       bySender |-> [p.bySender EXCEPT ![t.from] =
                       SubSeq(s, 1, i) \o <<t>> \o SubSeq(s, i + 1, Len(s))]]

mpDelUnindexed(p, t) == [p EXCEPT !.txs = @ \ {t}]      \* faulty variant

Without(s, gone) ==
  LET kept[i \in 0..Len(s)] ==
        IF i = 0 THEN <<>>
        ELSE IF s[i] \in gone THEN kept[i - 1] ELSE Append(kept[i - 1], s[i])
  IN  kept[Len(s)]

mpDelAll(p, gone) ==
  [txs |-> p.txs \ gone,
   bySender |-> [a \in Addr |-> Without(p.bySender[a], gone)]]

mpDel(p, t) == mpDelAll(p, {t})

(* pruneMempoolLocked on the state st. *)
Stale(st, t) == t.nonce < st[t.from].nonce \/ st[t.from].balance < Cost(t)
Prune(p, st) == mpDelAll(p, {t \in p.txs : Stale(st, t)})

(* The walk of validateMempoolTxLocked: the next executable nonce and the  *)
(* balance the executable run commits (it wraps, as uint64 does).          *)
Frontier(p, st, a) ==
  LET s == p.bySender[a]
      walk[i \in 0..Len(s)] ==
        IF i = 0 THEN [nonce |-> st[a].nonce, spent |-> 0]
        ELSE LET acc == walk[i - 1]
             IN  IF s[i].nonce # acc.nonce THEN acc
                 ELSE [nonce |-> acc.nonce + 1, spent |-> (acc.spent + Cost(s[i])) % Word]
  IN  walk[Len(s)]

Admits(c, st, p, t) ==
  LET next  == Frontier(p, st, t.from)
      avail == Available(c, st, t.from)
  IN  /\ SignedFor(t, Len(c))
      /\ PaysFloor(c, t)
      /\ t.nonce >= st[t.from].nonce
      /\ t.nonce <= next.nonce + MaxNonceGap
      /\ Len(p.bySender[t.from]) < MaxPerSender
      /\ IF t.nonce = next.nonce THEN avail >= (next.spent + Cost(t)) % Word
         ELSE avail >= Cost(t)

Rivals(p, t) == {m \in p.txs : m.from = t.from /\ m.nonce = t.nonce}

(* The fee a replacement must pay: 10% more, and at least one more. *)
BumpedFee(fee) ==
  LET bumped == (fee + fee \div 10) % Word
  IN  IF bumped <= fee THEN (fee + 1) % Word ELSE bumped

AfterAddTxForgets(c, st, p, t) ==                       \* faulty variant
  IF t \in p.txs THEN p
  ELSE IF Rivals(p, t) # {}
  THEN LET m    == CHOOSE m \in Rivals(p, t) : TRUE
           rest == mpDel(p, m)
       IN  IF t.fee < BumpedFee(m.fee) THEN p
           ELSE IF Admits(c, st, rest, t) THEN mpAdd(rest, t) ELSE rest
  ELSE IF Cardinality(p.txs) > PoolLimit \/ ~Admits(c, st, p, t) THEN p
  ELSE mpAdd(p, t)

(* AddTx: the pool afterwards; the same pool when the call fails (a failed *)
(* replacement puts the old transaction back).                             *)
AfterAddTx(c, st, p, t) ==
  IF t \in p.txs THEN p
  ELSE IF Rivals(p, t) # {}
  THEN LET m    == CHOOSE m \in Rivals(p, t) : TRUE
           rest == mpDel(p, m)
       IN  IF t.fee < BumpedFee(m.fee) THEN p
           ELSE IF Admits(c, st, rest, t) THEN mpAdd(rest, t) ELSE mpAdd(rest, m)
  ELSE IF Cardinality(p.txs) > PoolLimit \/ ~Admits(c, st, p, t) THEN p
  ELSE mpAdd(p, t)

AddTx(t) ==
  /\ pool' = AfterAddTx(chain, state, pool, t)
  /\ UNCHANGED <<chain, state, totals, saved>>

-----------------------------------------------------------------------------
(* BuildTemplate: again and again the highest-fee pooled transaction that  *)
(* is the next of its sender and valid after the ones already picked.      *)

ExecutableLoose(picked) ==                              \* faulty variant
  LET st == ApplyTxs(state, picked)
  IN  {t \in pool.txs : ValidTx(chain, st, t)}

Executable(picked) ==
  LET st == ApplyTxs(state, picked)
  IN  {t \in pool.txs : PaysFloor(chain, t) /\ ValidTx(chain, st, t)}

HighestFee(txs) == CHOOSE t \in txs : \A u \in txs : t.fee >= u.fee

BuildTemplate ==
  LET picked[n \in 0..MaxBlockTxs - 1] ==
        IF n = 0 THEN <<>>
        ELSE LET more == Executable(picked[n - 1])
             IN  IF more = {} THEN picked[n - 1]
                 ELSE Append(picked[n - 1], HighestFee(more))
  IN  [miner |-> Miner, txs |-> picked[MaxBlockTxs - 1]]

-----------------------------------------------------------------------------
(* Blocks. *)

(* Every block of a branch is valid on the chain and state before it. *)
ValidBranch(keep, branch) ==
  \A i \in 1..Len(branch) :
    LET before == SubSeq(chain, 1, keep) \o SubSeq(branch, 1, i - 1)
    IN  ValidBody(before, Replay(before), branch[i].txs)

BodyTxs(branch) == UNION {Range(branch[i].txs) : i \in 1..Len(branch)}

(* AddBlock, and TryAdoptChain when it discards nothing: state and totals  *)
(* advance block by block, the mined transactions leave the pool.          *)
Extend(branch) ==
  /\ Len(chain) + Len(branch) <= MaxHeight
  /\ ValidBranch(Len(chain), branch)
  /\ chain' = chain \o branch
  /\ state' = Advance(state, branch, Len(chain))
  /\ totals' = CountBlocks(totals, branch, Len(chain))
  /\ pool' = Prune(mpDelAll(pool, BodyTxs(branch)), state')
  /\ UNCHANGED saved

MineTemplate == Extend(<<BuildTemplate>>)

(* TryAdoptChain when it discards blocks: state and totals are replayed    *)
(* from genesis; the pool is only pruned, and the transactions of the      *)
(* discarded blocks do not come back.                                      *)
ReorgUnpruned(keep, branch) ==                          \* faulty variant
  /\ keep \in 1..Len(chain) - 1
  /\ keep + Len(branch) <= MaxHeight
  /\ ValidBranch(keep, branch)
  /\ chain' = SubSeq(chain, 1, keep) \o branch
  /\ state' = Replay(chain')
  /\ totals' = ReplayTotals(chain')
  /\ UNCHANGED <<pool, saved>>

ReorgStaleTotals(keep, branch) ==                       \* faulty variant
  /\ keep \in 1..Len(chain) - 1
  /\ keep + Len(branch) <= MaxHeight
  /\ ValidBranch(keep, branch)
  /\ chain' = SubSeq(chain, 1, keep) \o branch
  /\ state' = Replay(chain')
  /\ pool' = Prune(pool, state')
  /\ UNCHANGED <<totals, saved>>

Reorg(keep, branch) ==
  /\ keep \in 1..Len(chain) - 1
  /\ keep + Len(branch) <= MaxHeight
  /\ ValidBranch(keep, branch)
  /\ chain' = SubSeq(chain, 1, keep) \o branch
  /\ state' = Replay(chain')
  /\ totals' = ReplayTotals(chain')
  /\ pool' = Prune(pool, state')
  /\ UNCHANGED saved

-----------------------------------------------------------------------------
(* The file: written every 10 s and on SIGTERM, read at startup.  The code *)
(* writes it after c.mu is released; a late write only leaves an older     *)
(* snapshot in it, which saving less often does too.                       *)

SaveMempool == saved' = pool.txs /\ UNCHANGED <<chain, state, totals, pool>>

LowestNonce(txs) == CHOOSE t \in txs : \A u \in txs : t.nonce <= u.nonce   \* faulty variant
HighestNonce(txs) == CHOOSE t \in txs : \A u \in txs : t.nonce >= u.nonce

(* Sorted by nonce, each goes through AddTx: the highest comes last. *)
LoadMempool(c, st, txs) ==
  LET load[some \in SUBSET txs] ==
        IF some = {} THEN EmptyPool
        ELSE LET t == HighestNonce(some)
             IN  AfterAddTx(c, st, load[some \ {t}], t)
  IN  load[txs]

(* The process restarts, cleanly or not: memory is what the files hold.    *)
(* The last block may be lost with its disk commit (ChainStore).           *)
Restart ==
  /\ \E keep \in {Len(chain), Len(chain) - 1} \ {0} :
       chain' = SubSeq(chain, 1, keep)
  /\ state' = Replay(chain')
  /\ totals' = ReplayTotals(chain')
  /\ pool' = LoadMempool(chain', state', saved)
  /\ UNCHANGED saved

Next ==
  \/ \E t \in Txs : AddTx(t)
  \/ MineTemplate
  \/ \E branch \in Branches : Extend(branch)
  \/ \E keep \in 1..MaxHeight, branch \in Branches : Reorg(keep, branch)
  \/ SaveMempool
  \/ Restart

Spec == Init /\ [][Next]_vars

-----------------------------------------------------------------------------
(* Properties. *)

(* Types, and the mutual exclusion of the pool's slots: one transaction    *)
(* per sender and nonce.                                                   *)
PoolTypeOK ==
  /\ chain \in Seq([miner : Addr, txs : Seq(Txs)]) /\ Len(chain) \in 1..MaxHeight
  /\ state \in [Addr -> [balance : 0..Word - 1, nonce : Nat]]
  /\ pool.txs \subseteq Txs /\ saved \subseteq Txs
  /\ \A t, u \in pool.txs : t.from = u.from /\ t.nonce = u.nonce => t = u

(* The incremental state and totals of AddBlock and of the extension path  *)
(* of TryAdoptChain are those a replay of the chain from genesis gives,    *)
(* whatever extensions, reorgs and restarts led to the chain.              *)
LedgerIsReplay == state = Replay(chain) /\ totals = ReplayTotals(chain)

(* No coin is made or lost: the balances add up to the subsidies of the    *)
(* blocks, so fees are only moved and no uint64 subtraction wraps.         *)
SupplyIsSubsidies ==
  SumFunction([a \in Addr |-> state[a].balance])
    = SumFunctionOnSet(SubsidyAt, 0..Len(chain) - 1)

(* The chain holds, for each sender, exactly the nonces 0, 1, 2, ... in    *)
(* this order: nothing is mined twice and nothing is skipped.              *)
SentTxs(a) ==
  LET sent[n \in 0..Len(chain)] ==
        IF n = 0 THEN <<>>
        ELSE sent[n - 1] \o Without(chain[n].txs, {t \in Txs : t.from # a})
  IN  sent[Len(chain)]
NoncesInOrder ==
  \A a \in Addr :
    LET sent == SentTxs(a)
    IN  /\ Len(sent) = state[a].nonce
        /\ \A i \in 1..Len(sent) : sent[i].nonce = i - 1

(* Once the maturity rule has applied to every reward still young, no      *)
(* account has spent any reward of the last CoinbaseMaturity blocks, the   *)
(* block that spends included: validateBlock checks a body on a state      *)
(* without its coinbase, then applies both.                                *)
RewardsStayLocked ==
  Len(chain) >= MaturityHeight + CoinbaseMaturity =>
    \A a \in Addr :
      LET young == {k \in Len(chain) - CoinbaseMaturity..Len(chain) - 1 :
                      chain[k + 1].miner = a}
      IN  state[a].balance >=
            SumFunction([k \in young |-> SubsidyAt[k] + TotalFees(chain[k + 1])])

(* bySender, which mpAdd and mpDel maintain beside the pool, lists exactly *)
(* the pooled transactions of each sender, by increasing nonce.            *)
IndexLockstep ==
  \A a \in Addr :
    LET s == pool.bySender[a]
    IN  /\ Range(s) = {t \in pool.txs : t.from = a}
        /\ \A i, j \in 1..Len(s) : i < j => s[i].nonce < s[j].nonce

(* No pooled transaction is already spent, or dearer than the whole        *)
(* balance of its sender: blocks, reorgs and restarts prune the pool on    *)
(* the state they leave.                                                   *)
PoolFundable == \A t \in pool.txs : ~Stale(state, t)

(* The caps of the pool hold whatever replacements and restarts do; the    *)
(* global one is passed by one, as AddTx compares with >.                  *)
PoolBounded ==
  /\ Cardinality(pool.txs) <= PoolLimit + 1
  /\ \A a \in Addr : Len(pool.bySender[a]) <= MaxPerSender

(* All three: the pool as a data structure.                                *)
PoolSound == PoolTypeOK /\ IndexLockstep /\ PoolBounded

(* Whatever the pool holds, the body BuildTemplate picks is one            *)
(* validateBlock accepts: the two apply the rules apart, on their own      *)
(* copies of the state.                                                    *)
TemplateValid == ValidBody(chain, state, BuildTemplate.txs)

(* A transaction leaves the pool only because the new state makes it stale *)
(* (mined, overtaken or unfunded), or because another took its slot for at *)
(* least 10% more fee: a refused replacement costs the old one nothing.    *)
LeavesPoolForCause ==
  [][\/ Restart
     \/ \A t \in pool.txs \ pool'.txs :
          \/ Stale(state', t)
          \/ \E u \in Rivals(pool', t) : u.fee >= BumpedFee(t.fee)]_vars

(* What a sender can pay for from its confirmed balance, in nonce order,   *)
(* at the fee floor and signatures of the next block.                      *)
FundedNext(acc, m) ==
  IF /\ m.nonce = acc.nonce
     /\ SignedFor(m, Len(chain)) /\ PaysFloor(chain, m) /\ Cost(m) >= m.amount
     /\ acc.spent + Cost(m) <= Available(chain, state, m.from)
  THEN [nonce |-> acc.nonce + 1, spent |-> acc.spent + Cost(m), run |-> acc.run \cup {m}]
  ELSE acc

FundedRun(a) ==
  LET s == pool.bySender[a]
      walk[i \in 0..Len(s)] ==
        IF i = 0 THEN [nonce |-> state[a].nonce, spent |-> 0, run |-> {}]
        ELSE FundedNext(walk[i - 1], s[i])
  IN  walk[Len(s)].run

(* A restart right after SaveMempool, on the chain it saved for, keeps     *)
(* every sender's funded run: LoadMempool's order of insertion meets the   *)
(* nonce gap and running-balance checks of AddTx.                          *)
RestartKeepsFundedRun ==
  [][Restart /\ chain' = chain /\ saved = pool.txs =>
       \A a \in Addr : FundedRun(a) \subseteq pool'.txs]_vars

(* From the comment of validateMempoolTxLocked: a transaction that is next *)
(* of its sender passed a full running-balance check.                      *)
RunningBalanceChecked ==
  [][\A t \in pool'.txs \ pool.txs :
       chain' = chain /\ t.nonce = Frontier(mpDelAll(pool, Rivals(pool, t)), state, t.from).nonce
         => state[t.from].balance >= t.amount + t.fee]_vars
=============================================================================
