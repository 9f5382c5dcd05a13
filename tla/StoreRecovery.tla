---------------------------- MODULE StoreRecovery ----------------------------
(***************************************************************************)
(* A node on a losing chain that is restarted over and over, by its stall  *)
(* watchdog or its operator, while it moves to the network's chain: the    *)
(* restart loop of 2026-07-02 that truncateAndAppend was written against.  *)
(*                                                                         *)
(* Assumed of the environment: the process may die at any moment, without  *)
(* a bound on how often, but no transaction of at most Batch blocks is cut *)
(* off every time; one of more blocks never ends before the watchdog       *)
(* strikes.                                                                *)
(***************************************************************************)
EXTENDS ChainStore

CONSTANTS
  NetworkTip,   \* tip of the chain the peers serve
  MaxTxns       \* bound: transactions of the longest commit

NetworkChain == PathTo(NetworkTip)

(* The sync loop: the whole branch from the fork point when we are on      *)
(* another branch, a bounded chunk when we are only behind (external: the  *)
(* peer's blocks; the chunk of node.go is smaller than Batch).             *)
SyncFromNetwork ==
  LET fork == CommonLen(blocks, NetworkChain)
      last == IF fork < Len(blocks) THEN Len(NetworkChain)
              ELSE Min({fork + Batch, Len(NetworkChain)})
  IN  /\ phase = "up"
      /\ Tip # NetworkTip
      /\ StoreTryAdoptChain(fork, SubSeq(NetworkChain, fork + 1, last))

BoundedTxn(t) ==
  Cardinality(t.del \cap DOMAIN disk.blocks) + Len(t.put) <= Batch

(* The step of the commit that has n transactions left. *)
BoundedCommitStep(n) ==
  /\ Len(commit.txns) = n
  /\ BoundedTxn(Head(commit.txns))
  /\ CommitStep

RestartLoop == Die /\ UNCHANGED crashes

LoopNext ==
  \/ Start
  \/ SyncFromNetwork
  \/ \E n \in 1..MaxTxns : BoundedCommitStep(n)
  \/ BackfillStep
  \/ RestartLoop

LoopSpec ==
  /\ StoreInit
  /\ [][LoopNext]_allVars
  /\ WF_allVars(Start)
  /\ SF_allVars(SyncFromNetwork)
  /\ \A n \in 1..MaxTxns : SF_allVars(BoundedCommitStep(n))

(* However often it is restarted, the node ends with the network's chain   *)
(* on disk: no restart loop pins it to the losing tip ("the restart loop   *)
(* cannot recur", truncateAndAppend).                                      *)
LeavesLosingTip == <>[](Loadable(disk) = NetworkChain)
=============================================================================
