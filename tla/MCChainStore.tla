---------------------------- MODULE MCChainStore ----------------------------
(* ChainStore on the block tree of MCBlockTree, with fewer branches on     *)
(* offer.  With Batch = 2 the reorgs 9 over 5-6, 10 over 5 and the whole   *)
(* branch c are batched; 4 over 5 and 9 over 5 are one transaction.        *)
EXTENDS ChainStore, MCBlockTree

MCBranches == {<<2, 5, 6>>, <<9>>, <<4>>, <<1, 3, 10>>, <<3, 10>>, <<2, 9>>}
MCOldChains == {<<0, 2, 5, 6>>}
MCSigned == {[height |-> 2, hash |-> 9]}
=============================================================================
