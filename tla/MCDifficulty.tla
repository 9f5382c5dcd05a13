----------------------------- MODULE MCDifficulty -----------------------------
(* Windows of two blocks, a median of three, a hash space of 64. *)
EXTENDS Difficulty

MCTimeSteps == {-1, 1, 4, 6}
=============================================================================
