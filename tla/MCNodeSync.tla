----------------------------- MODULE MCNodeSync -----------------------------
(***************************************************************************)
(* height  0    1    2                                                     *)
(*         0 -- 1 -- 2       the seed's chain, the heaviest                *)
(*          \-- 3 -- 4        the other peer's: beats 1, loses to 2         *)
(*          \-- 5             what that peer may move to, shorter           *)
(* From 4 the way to 2 is beyond the reorg cap: it takes the signed anchor. *)
(***************************************************************************)
EXTENDS NodeSync

MCBlock == 0..5
MCParent == [b \in MCBlock |-> <<0, 0, 1, 0, 3, 0>>[b + 1]]
MCHeight == [b \in MCBlock |-> <<0, 1, 2, 1, 2, 1>>[b + 1]]
MCWork == [b \in MCBlock |-> <<1, 10, 6, 6, 8, 15>>[b + 1]]
MCHashRank == [b \in MCBlock |-> b]
MCNotBefore == [b \in MCBlock |-> 0]
MCPeer == {"p", "q"}
MCPeerStart == [p |-> 2, q |-> 4]
MCSigned == {[height |-> 1, hash |-> 1]}
=============================================================================
