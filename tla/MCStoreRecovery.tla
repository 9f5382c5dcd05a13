--------------------------- MODULE MCStoreRecovery ---------------------------
(* The network is on branch c; the node starts on any chain of the tree.   *)
EXTENDS StoreRecovery, MCBlockTree

MCNetworkTip == 11
MCNone == {}
MCOldChains == {PathTo(b) : b \in MCSound \ {13, 14}}
=============================================================================
