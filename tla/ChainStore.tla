----------------------------- MODULE ChainStore -----------------------------
(***************************************************************************)
(* The bbolt store under ChainCore (core/bbolt_store.go and the commit and *)
(* load paths of core/chain.go).  A block is adopted in memory under c.mu; *)
(* its disk commit then runs under diskMu alone, as one or more bbolt      *)
(* transactions, while readers and the checkpoint handlers go on.  Each    *)
(* transaction is atomic; the process may die between any two.             *)
(*                                                                         *)
(* A row's key is the block's height; the blockHash and txIndex entries of *)
(* a block are written and deleted together (`indexed`), its addrTx rows   *)
(* also by the background backfill of schema 2 (`history`).  Blocks are    *)
(* taken to have no addrTx key or transaction in common.  The clock stands *)
(* still here: no property of the store depends on it.                     *)
(***************************************************************************)
EXTENDS ChainCore, FiniteSetsExt, Functions

CONSTANTS
  Batch,        \* `batch` of truncateAndAppend, rebuild and backfillRows
  OldChains,    \* chains a schema-1 store may hold when this version starts
  MaxCrashes,   \* bound: process deaths
  MaxFailures   \* bound: disk writes that return an error

ASSUME ChainStoreAssumption ==
  /\ Batch \in Nat \ {0}
  /\ \A c \in OldChains : IsChain(c) /\ BlocksOf(c) \subseteq Sound
  /\ MaxCrashes \in Nat
  /\ MaxFailures \in Nat

VARIABLES
  disk,             \* chain.db
  savedCheckpoints, \* checkpoints.json
  savedAnchor,      \* authanchor.json
  phase,            \* "down", "loading" (OpenChain) or "up"
  commit,           \* the commit holding diskMu: fork height, transactions left
  backfill,         \* transactions left of the background backfill
  dirty,            \* history: a commit of this process failed
  crashes, failures \* counters of the two bounds

storeVars == <<disk, savedCheckpoints, savedAnchor, phase, commit, backfill,
               dirty, crashes, failures>>
allVars == <<vars, storeVars>>

SchemaVersion == 2
NoCommit == [fork |-> 0, txns |-> <<>>]
IdleUnlocked == phase = "up"                    \* faulty variant: no diskMu
Idle == phase = "up" /\ commit.txns = <<>>     \* diskMu is free

-----------------------------------------------------------------------------
(* Transactions. *)

(* wipe: drop the four buckets; del: heights to delete; put: blocks with   *)
(* their indexes; rows: history rows only; stamp: cumwork for meta, 0 when *)
(* meta is left alone; schema: version to stamp, 0 for none.               *)
NoTxn == [wipe |-> FALSE, del |-> {}, put |-> <<>>, rows |-> <<>>,
          stamp |-> 0, schema |-> 0]

UnindexedForgotten(d, t) == IF t.wipe THEN Block ELSE {}    \* faulty variant

(* Blocks whose index entries go: deleteBlockTx reads the stored block. *)
Unindexed(d, t) ==
  IF t.wipe THEN Block ELSE {d.blocks[h] : h \in t.del \cap DOMAIN d.blocks}

RowsAfter(d, t) ==
  LET put  == Range(t.put)
      kept == IF t.wipe THEN {} ELSE DOMAIN d.blocks \ t.del
  IN  [h \in kept \cup {Height[b] : b \in put} |->
         IF \E b \in put : Height[b] = h THEN CHOOSE b \in put : Height[b] = h
         ELSE d.blocks[h]]

(* putBlockTx, deleteRangeTx, putMeta, setSchema inside one db.Update. *)
RunTxn(d, t) ==
  LET rows == RowsAfter(d, t)
      put  == Range(t.put)
  IN  [blocks  |-> rows,
       indexed |-> (d.indexed \ Unindexed(d, t)) \cup put,
       history |-> (d.history \ Unindexed(d, t)) \cup put \cup Range(t.rows),
       tip     |-> IF t.stamp # 0 /\ rows # <<>> THEN Max(DOMAIN rows) ELSE d.tip,
       work    |-> IF t.stamp # 0 THEN t.stamp ELSE d.work,
       schema  |-> IF t.schema # 0 THEN t.schema ELSE d.schema]

Chunks(s) ==
  [i \in 1..(Len(s) + Batch - 1) \div Batch |->
     SubSeq(s, (i - 1) * Batch + 1, Min({i * Batch, Len(s)}))]

PutTxns(s) ==
  [i \in DOMAIN Chunks(s) |-> [NoTxn EXCEPT !.put = Chunks(s)[i]]]

(* Deletes run top-down: hi = tip, tip - Batch, ... *)
DeleteTxnsBelowFork(from, tip) ==             \* faulty variant
  [i \in 1..(tip - from + Batch) \div Batch |->
     LET hi == tip - (i - 1) * Batch
     IN  [NoTxn EXCEPT !.del = (hi - Batch)..hi]]

DeleteTxns(from, tip) ==
  [i \in 1..(tip - from + Batch) \div Batch |->
     LET hi == tip - (i - 1) * Batch
     IN  [NoTxn EXCEPT !.del = Max({from, hi - Batch + 1})..hi]]

(* appendBlocks *)
ExtendTxns(new, work) == <<[NoTxn EXCEPT !.put = new, !.stamp = work]>>

(* Faulty variant of truncateAndAppend: one huge transaction. *)
ReorgTxnsUnbatched(from, branch, work) ==
  <<[NoTxn EXCEPT !.del = from..Max(DOMAIN disk.blocks), !.put = branch, !.stamp = work]>>

(* truncateAndAppend *)
ReorgTxns(from, branch, work) ==
  LET tip == Max(DOMAIN disk.blocks)
      toDelete == Max({0, tip - from + 1})
  IN  IF toDelete + Len(branch) <= Batch
      THEN <<[NoTxn EXCEPT !.del = from..tip, !.put = branch, !.stamp = work]>>
      ELSE DeleteTxns(from, tip) \o PutTxns(branch)
             \o <<[NoTxn EXCEPT !.stamp = work]>>

(* rebuild *)
RebuildTxns(chain) ==
  <<[NoTxn EXCEPT !.wipe = TRUE]>> \o PutTxns(chain)
     \o <<[NoTxn EXCEPT !.stamp = SumWork(chain)]>>

(* backfillRows, then setSchema *)
BackfillTxns(chain) ==
  [i \in DOMAIN Chunks(chain) |-> [NoTxn EXCEPT !.rows = Chunks(chain)[i]]]
     \o <<[NoTxn EXCEPT !.schema = SchemaVersion]>>

LoadableUnlinked(d) ==                        \* faulty variant: linkage not checked
  [i \in 1..Cardinality(DOMAIN d.blocks) |->
     d.blocks[CHOOSE h \in DOMAIN d.blocks :
                Cardinality({k \in DOMAIN d.blocks : k < h}) = i - 1]]

(* What loadBolt keeps: the rows up to the first break in the linkage. *)
Loadable(d) ==
  LET links(n) == /\ \A h \in 0..n - 1 : h \in DOMAIN d.blocks
                  /\ d.blocks[0] = Genesis
                  /\ \A h \in 1..n - 1 : Parent[d.blocks[h]] = d.blocks[h - 1]
      n == Max({0} \cup {k \in 1..Cardinality(DOMAIN d.blocks) : links(k)})
  IN  [i \in 1..n |-> d.blocks[i - 1]]

-----------------------------------------------------------------------------
StoreOf(chain, schema) ==
  [blocks |-> [h \in 0..Len(chain) - 1 |-> chain[h + 1]],
   indexed |-> BlocksOf(chain), history |-> BlocksOf(chain),
   tip |-> Len(chain) - 1, work |-> SumWork(chain), schema |-> schema]

(* What openBlockStore creates on a fresh data directory. *)
EmptyStore == [blocks |-> <<>>, indexed |-> {}, history |-> {},
               tip |-> 0, work |-> 0, schema |-> SchemaVersion]

StoreInit ==
  /\ Init
  /\ disk \in {EmptyStore} \cup {StoreOf(c, 1) : c \in OldChains}
  /\ savedCheckpoints = checkpoints
  /\ savedAnchor = NoAnchor
  /\ phase = "down"
  /\ commit = NoCommit
  /\ backfill = <<>>
  /\ dirty = FALSE
  /\ crashes = 0
  /\ failures = 0

(* OpenChain: loadBolt, loadCheckpoints, loadAuthAnchor.  The process      *)
(* serves nothing until the rebuild, when there is one, is over.           *)
Start ==
  LET empty     == disk.blocks = <<>>
      chain     == IF empty THEN <<Genesis>> ELSE Loadable(disk)
      truncated == Len(chain) < Cardinality(DOMAIN disk.blocks)
      bump      == IF truncated THEN <<[NoTxn EXCEPT !.schema = SchemaVersion]>>
                   ELSE <<>>
  IN  /\ phase = "down"
      /\ blocks' = chain
      /\ cumWork' = SumWork(chain)
      /\ checkpoints' = savedCheckpoints
      /\ authAnchor' = savedAnchor
      /\ drAct' = 0
      /\ phase' = IF empty \/ truncated THEN "loading" ELSE "up"
      /\ commit' = IF empty \/ truncated
                   THEN [fork |-> 0, txns |-> bump \o RebuildTxns(chain)]
                   ELSE NoCommit
      /\ backfill' = IF phase' = "up" /\ disk.schema < SchemaVersion
                     THEN BackfillTxns(chain) ELSE <<>>
      /\ dirty' = FALSE
      /\ UNCHANGED <<now, disk, savedCheckpoints, savedAnchor, crashes, failures>>

(* AddBlock up to the release of c.mu, with diskMu taken first and kept. *)
StoreAddBlock(b) ==
  /\ Idle
  /\ AddBlock(b)
  /\ commit' = [fork |-> Len(blocks), txns |-> ExtendTxns(<<b>>, cumWork')]
  /\ UNCHANGED <<disk, savedCheckpoints, savedAnchor, phase, backfill, dirty,
                 crashes, failures>>

StoreTryAdoptChain(start, new) ==
  /\ Idle
  /\ TryAdoptChain(start, new)
  /\ commit' = IF ~Adoptable(start, new) THEN commit
               ELSE [fork |-> start,
                     txns |-> IF Depth(start) = 0 THEN ExtendTxns(new, cumWork')
                              ELSE ReorgTxns(start, new, cumWork')]
  /\ UNCHANGED <<disk, savedCheckpoints, savedAnchor, phase, backfill, dirty,
                 crashes, failures>>

(* One transaction of the running commit, or of the rebuild at startup. *)
CommitStep ==
  /\ commit.txns # <<>>
  /\ disk' = RunTxn(disk, Head(commit.txns))
  /\ commit' = IF Len(commit.txns) = 1 THEN NoCommit
               ELSE [commit EXCEPT !.txns = Tail(@)]
  /\ phase' = IF commit' = NoCommit THEN "up" ELSE phase
  /\ UNCHANGED <<vars, savedCheckpoints, savedAnchor, backfill, dirty, crashes, failures>>

Fail == failures < MaxFailures /\ failures' = failures + 1

(* The transaction rolls back; runCommit returns the error (or a panic     *)
(* turned into one) and memory keeps the block.  At startup the error is   *)
(* fatal.                                                                  *)
CommitFails ==
  /\ commit.txns # <<>>
  /\ phase = "up"
  /\ Fail
  /\ commit' = NoCommit
  /\ dirty' = TRUE
  /\ UNCHANGED <<vars, disk, savedCheckpoints, savedAnchor, phase, backfill, crashes>>

BackfillStep ==
  /\ backfill # <<>>
  /\ disk' = RunTxn(disk, Head(backfill))
  /\ backfill' = Tail(backfill)
  /\ UNCHANGED <<vars, savedCheckpoints, savedAnchor, phase, commit, dirty, crashes, failures>>

BackfillFails ==
  /\ backfill # <<>>
  /\ Fail
  /\ backfill' = <<>>
  /\ UNCHANGED <<vars, disk, savedCheckpoints, savedAnchor, phase, commit, dirty, crashes>>

(* The handlers of signed checkpoints need only c.mu: they run during a    *)
(* commit.  The error of the file write is ignored, and a checkpoint that  *)
(* is already known is not written again.                                  *)
StoreApplyCheckpoint(cp) ==
  /\ phase = "up"
  /\ ApplyCheckpoint(cp)
  /\ \/ /\ savedCheckpoints' = IF checkpoints' = checkpoints THEN savedCheckpoints
                               ELSE checkpoints'
        /\ UNCHANGED failures
     \/ checkpoints' # checkpoints /\ Fail /\ UNCHANGED savedCheckpoints
  /\ UNCHANGED <<disk, savedAnchor, phase, commit, backfill, dirty, crashes>>

StoreSetAuthorityAnchor(cp) ==
  /\ phase = "up"
  /\ SetAuthorityAnchor(cp)
  /\ \/ savedAnchor' = authAnchor' /\ UNCHANGED failures
     \/ Fail /\ UNCHANGED savedAnchor
  /\ UNCHANGED <<disk, savedCheckpoints, phase, commit, backfill, dirty, crashes>>

(* The process dies (kill, watchdog, power): memory is lost, files stay.   *)
(* A startup whose rebuild fails ends the same way.                        *)
Die ==
  /\ phase # "down"
  /\ phase' = "down"
  /\ blocks' = <<Genesis>>
  /\ cumWork' = Work[Genesis]
  /\ checkpoints' = [h \in {} |-> Genesis]
  /\ authAnchor' = NoAnchor
  /\ drAct' = 0
  /\ commit' = NoCommit
  /\ backfill' = <<>>
  /\ dirty' = FALSE
  /\ UNCHANGED <<now, disk, savedCheckpoints, savedAnchor, failures>>

Crash == Die /\ crashes < MaxCrashes /\ crashes' = crashes + 1

Running ==
  \/ Start
  \/ \E b \in Block : StoreAddBlock(b)
  \/ \E start \in 1..Len(blocks), new \in Candidates : StoreTryAdoptChain(start, new)
  \/ CommitStep
  \/ CommitFails
  \/ BackfillStep
  \/ BackfillFails
  \/ \E cp \in SignedCheckpoints : StoreApplyCheckpoint(cp)
  \/ \E cp \in SignedCheckpoints : StoreSetAuthorityAnchor(cp)

StoreNext == Running \/ Crash

StoreSpec == StoreInit /\ [][StoreNext]_allVars

-----------------------------------------------------------------------------
(* Properties. *)

(* The shape of the files and of the running commit. *)
StoreTypeOK ==
  /\ TypeOK
  /\ DOMAIN disk.blocks \subseteq Nat
  /\ \A h \in DOMAIN disk.blocks : Height[disk.blocks[h]] = h
  /\ disk.indexed \subseteq Block /\ disk.history \subseteq Block
  /\ disk.schema \in {1, SchemaVersion}
  /\ savedAnchor \in SignedCheckpoints \cup {NoAnchor}
  /\ phase \in {"down", "loading", "up"}
  /\ phase = "down" => commit = NoCommit /\ backfill = <<>>
  /\ phase = "loading" => commit # NoCommit

(* Whatever commits failed and wherever the process died, the next start   *)
(* loads a linked chain of validated blocks.                               *)
LoadsValidChain ==
  disk.blocks # <<>> => IsChain(Loadable(disk)) /\ BlocksOf(Loadable(disk)) \subseteq Sound

(* Both: the files are well formed and load a valid chain.                 *)
StoreSound == StoreTypeOK /\ LoadsValidChain

(* With diskMu free and no failed commit in this process, the file holds   *)
(* exactly the chain in memory: commits reach the disk in the order of the *)
(* adoptions, and a restart heals what an earlier process left behind      *)
(* (except meta, stamped last by a batched commit and not on load).        *)
DiskHoldsChain ==
  Idle /\ ~dirty =>
    /\ disk.blocks = [h \in 0..TipHeight |-> blocks[h + 1]]
    /\ crashes = 0 => disk.tip = TipHeight /\ disk.work = cumWork

(* While no disk write ever failed, the hash and transaction indexes name  *)
(* exactly the blocks of the main chain, across crashes inside a batched   *)
(* reorg or rebuild.                                                       *)
IndexesExact == Idle /\ failures = 0 => disk.indexed = BlocksOf(blocks)

(* A crash inside a commit costs no block below its fork point: what the   *)
(* next start loads agrees with memory up to there.                        *)
CrashKeepsForkPoint ==
  phase = "up" /\ ~dirty =>
    CommonLen(Loadable(disk), blocks) >=
      (IF commit.txns = <<>> THEN Len(blocks) ELSE commit.fork)

(* "the indexes can never desync (ACID)": the comment on blockStore. *)
IndexesNeverDesync == disk.indexed = Range(disk.blocks)

(* "so /api/history is correct throughout" the background backfill: the    *)
(* comment in loadBolt.                                                    *)
HistoryIsMainChain == Idle /\ failures = 0 => disk.history = BlocksOf(blocks)
=============================================================================
