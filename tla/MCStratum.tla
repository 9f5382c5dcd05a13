------------------------------ MODULE MCStratum ------------------------------
(* Two addresses and two share targets, for a node and for a pool behind    *)
(* the bridge.                                                              *)
EXTENDS Stratum

MCAddr == {"A"}
MCOthers == {"B"}
MCTarget == {"easy", "hard"}
=============================================================================
