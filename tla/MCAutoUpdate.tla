---------------------------- MODULE MCAutoUpdate ----------------------------
(* Three releases of every quality, both programs, both kinds of platform. *)
EXTENDS AutoUpdate

MCVersion == 1..3
=============================================================================
