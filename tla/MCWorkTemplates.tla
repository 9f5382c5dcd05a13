--------------------------- MODULE MCWorkTemplates ---------------------------
(* Two branches of equal length, 1 - 2 - 4 and 1 - 3 - 5, and two calls,    *)
(* for two addresses.                                                       *)
EXTENDS WorkTemplates

MCBlock == 1..5
MCParent == <<1, 1, 1, 2, 3>>
MCHeight == <<0, 1, 1, 2, 2>>
MCCaller == {"a", "b"}
MCAddrOf == [c \in MCCaller |-> c]
=============================================================================
