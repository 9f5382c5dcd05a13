---------------------------- MODULE MCBlockTree ----------------------------
(***************************************************************************)
(* A block tree with the interesting forks for TLC.  Hashes are numbers,   *)
(* so a hash is its own rank.                                              *)
(*                                                                         *)
(*   height  0    1    2    3    4                                         *)
(*           0 -- 2 -- 5 -- 6 -- 7      branch a (5: v4, 6: v4)             *)
(*                 \-- 4 -- 8           branch b (4 ties with 5)            *)
(*                 \-- 9 -- 15          branch d (9 is heavy)              *)
(*           \--- 1 -- 3 -- 10 - 11     branch c, the heaviest              *)
(*   12 is unsound, 13 is a child of 5 that claims height 4,               *)
(*   14 becomes acceptable only at time 1.                                 *)
(***************************************************************************)
EXTENDS Naturals

MCBlock == 0..15
MCGenesis == 0

Row(p, h, w, t, ok, v4) ==
  [parent |-> p, height |-> h, work |-> w, time |-> t, sound |-> ok, v4 |-> v4]

MCTree ==
   [b \in MCBlock |->
     CASE b = 0  -> Row(0, 0, 1, 0, TRUE, FALSE)
       [] b = 1  -> Row(0, 1, 3, 0, TRUE, FALSE)
       [] b = 2  -> Row(0, 1, 2, 0, TRUE, TRUE)
       [] b = 3  -> Row(1, 2, 3, 0, TRUE, FALSE)
       [] b = 4  -> Row(2, 2, 2, 0, TRUE, FALSE)
       [] b = 5  -> Row(2, 2, 2, 0, TRUE, TRUE)
       [] b = 6  -> Row(5, 3, 2, 0, TRUE, TRUE)
       [] b = 7  -> Row(6, 4, 1, 0, TRUE, TRUE)
       [] b = 8  -> Row(4, 3, 3, 0, TRUE, TRUE)
       [] b = 9  -> Row(2, 2, 8, 0, TRUE, TRUE)
       [] b = 10 -> Row(3, 3, 3, 0, TRUE, TRUE)
       [] b = 11 -> Row(10, 4, 4, 0, TRUE, TRUE)
       [] b = 12 -> Row(6, 4, 9, 0, FALSE, TRUE)
       [] b = 13 -> Row(5, 4, 9, 0, TRUE, TRUE)
       [] b = 14 -> Row(8, 4, 2, 1, TRUE, TRUE)
       [] b = 15 -> Row(9, 3, 2, 0, TRUE, FALSE)]

MCParent == [b \in MCBlock |-> MCTree[b].parent]
MCHeight == [b \in MCBlock |-> MCTree[b].height]
MCWork == [b \in MCBlock |-> MCTree[b].work]
MCHashRank == [b \in MCBlock |-> b]
MCNotBefore == [b \in MCBlock |-> MCTree[b].time]
MCSound == {b \in MCBlock : MCTree[b].sound}
MCSignals == {b \in MCBlock : MCTree[b].v4}

(* Linked runs of the tree, and two runs that do not link. *)
MCCandidates ==
  {<<b>> : b \in MCBlock \ {0}}
    \cup {<<MCParent[b], b>> : b \in {c \in MCBlock : MCHeight[c] > 1}}
    \cup {<<2, 5, 6, 7>>, <<2, 5, 6>>, <<2, 5, 6, 12>>, <<5, 6, 7>>, <<2, 4, 8>>,
          <<4, 8, 14>>, <<1, 3, 10>>, <<1, 3, 10, 11>>, <<3, 10, 11>>, <<2, 9>>,
          <<5, 13>>, <<4, 6>>, <<1, 5, 6, 7>>}
=============================================================================
