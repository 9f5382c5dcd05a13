------------------------------ MODULE MCMining ------------------------------
(***************************************************************************)
(* Epochs of two blocks: the seed of heights 2 and 3 is the block at 1.    *)
(*                                                                         *)
(* height  0    1    2                                                     *)
(*         0 -- 1 -- 2                                                     *)
(*          \-- 3 -- 4                                                      *)
(*                \-- 5         meets its target under the seed of the      *)
(*                              other branch only                          *)
(***************************************************************************)
EXTENDS BuiltinMiner

MCBlock == 0..5
MCParent == [b \in MCBlock |-> <<0, 0, 1, 0, 3, 3>>[b + 1]]
MCHeight == [b \in MCBlock |-> <<0, 1, 2, 1, 2, 2>>[b + 1]]
MCWork == [b \in MCBlock |-> <<1, 2, 3, 3, 3, 4>>[b + 1]]
MCHashRank == [b \in MCBlock |-> b]
MCNotBefore == [b \in MCBlock |-> 0]
MCMeets == {<<99, 1>>, <<99, 3>>, <<1, 2>>, <<3, 4>>, <<1, 5>>}
MCCandidates == {<<3>>, <<1, 2>>, <<5>>}
=============================================================================
