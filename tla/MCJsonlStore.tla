----------------------------- MODULE MCJsonlStore -----------------------------
(* JsonlStore on the block tree of MCBlockTree, with a few branches.       *)
EXTENDS JsonlStore, MCBlockTree

CONSTANT torn

MCBranches == {<<2, 5, 6>>, <<5, 6>>, <<9>>, <<4>>, <<1, 3, 10>>, <<3, 10>>}
MCNone == {}
=============================================================================
