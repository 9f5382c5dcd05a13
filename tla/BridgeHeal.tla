----------------------------- MODULE BridgeHeal -----------------------------
(***************************************************************************)
(* The boot guard of the bridge (cmd/cereblix-stratum/update.go): the      *)
(* node's, without suspects and environment halts.  A bridge has no data,  *)
(* so a release that does not come up in a free port is taken for bad.     *)
(***************************************************************************)
EXTENDS BinaryFiles

BridgeMaxBadBoots == 3

BridgeAttempts(fs) == fs["bootn"] + 1

BridgeTooManyBoots(n) == n > BridgeMaxBadBoots

(* decideBoot; the port is probed only when a pending boot needs it. *)
BridgeDecide(fs, envOK) ==
  IF fs["pending"] = Absent THEN "normal"
  ELSE IF ~envOK THEN "env"
  ELSE IF ~BridgeTooManyBoots(BridgeAttempts(fs)) THEN "watch"
  ELSE IF fs["old"] # Absent THEN "rollback"
  ELSE "giveup"

(* What bootGuard does before the bridge binds its port. *)
BridgeBootScript(fs, d) ==
  CASE d = "normal" -> RemoveAll(<<"old", "bootn">>)
    [] d = "env" -> <<>>
    [] d = "rollback" ->
         <<Write("badversion", fs["pending"]), Remove("pending"),
           Remove("bootn"), Move("old", "exe"), Exit>>
    [] d = "giveup" -> RemoveAll(<<"pending", "bootn">>)
    [] d = "watch" -> <<Write("bootn", BridgeAttempts(fs))>>

BridgeWatch(d) == IF d = "watch" THEN "watch" ELSE "none"

BridgeConfirmedHealthy ==
  RemoveAll(<<"pending", "bootn", "old", "badversion">>)
=============================================================================
