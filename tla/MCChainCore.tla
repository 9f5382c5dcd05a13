---------------------------- MODULE MCChainCore ----------------------------
(* ChainCore, and a network on branch c, on the block tree of MCBlockTree. *)
EXTENDS ChainRecovery, MCBlockTree

MCNetworkTip == 11

(* The authority may sign on two branches in turn: branch a, or branch c. *)
MCSigned == {[height |-> 1, hash |-> 2], [height |-> 3, hash |-> 6],
             [height |-> 1, hash |-> 1], [height |-> 3, hash |-> 10],
             [height |-> 4, hash |-> 11]}

=============================================================================
