---------------------------- MODULE ChainRecovery ----------------------------
(***************************************************************************)
(* Re-convergence of a node to the heaviest chain of the network, under    *)
(* the fairness that the sync loop provides: node.go polls its peers on    *)
(* every tick for ever, so the branch from the real fork point up to the   *)
(* network's tip is offered to TryAdoptChain again and again.              *)
(***************************************************************************)
EXTENDS ChainCore

CONSTANT NetworkTip    \* tip of the chain the peers serve

NetworkChain == PathTo(NetworkTip)

(* One sync round with a peer on the network's chain: fetch from the last  *)
(* common block and offer the rest (external: the peer's blocks).          *)
SyncFromNetwork ==
  LET fork == CommonLen(blocks, NetworkChain)
  IN  /\ Tip # NetworkTip
      /\ TryAdoptChain(fork, SubSeq(NetworkChain, fork + 1, Len(NetworkChain)))

RecoverySpec ==
  /\ Init
  /\ [][Next \/ SyncFromNetwork]_vars
  /\ WF_vars(SyncFromNetwork)
  /\ WF_vars(Tick)

(* The latest signed block and the enforced ones are on the network's      *)
(* chain: the authority signs no other branch.                             *)
AuthorityOnNetwork ==
  /\ authAnchor.height \in 1..Len(NetworkChain) - 1
  /\ NetworkChain[authAnchor.height + 1] = authAnchor.hash
  /\ \A h \in DOMAIN checkpoints : NetworkChain[h + 1] = checkpoints[h]

(* The network's chain is heavy enough to pay the penalty of the reorg.    *)
NetworkPays ==
  LET fork == CommonLen(blocks, NetworkChain)
  IN  Tip # NetworkTip =>
        EnoughWork(fork, SubSeq(NetworkChain, fork + 1, Len(NetworkChain)))

(* The node sits on another branch than the one the authority signed, with *)
(* the v4 rule locked in below its reorg horizon (before that, a shallow   *)
(* reorg can still undo the activation).                                   *)
Stranded ==
  /\ AuthorityOnNetwork
  /\ authAnchor.hash \notin BlocksOf(blocks)
  /\ GateHeight # 0
  /\ Len(blocks) >= GateHeight + MaxReorgDepth

(* "an honest node >maxreorg behind re-converges to the operator-blessed   *)
(* chain on its own" (TryAdoptChain): however far behind, and whatever     *)
(* else it adopts on the way, a stranded node reaches the network's tip,   *)
(* if the authority never signs another branch and the network's chain     *)
(* stays heavy enough for the depth of the reorg.                          *)
StrandedNodeRecovers ==
  [](Stranded /\ [](AuthorityOnNetwork /\ NetworkPays) => <>(Tip = NetworkTip))
=============================================================================
