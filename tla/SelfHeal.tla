------------------------------ MODULE SelfHeal ------------------------------
(***************************************************************************)
(* The boot guard of the node (cmd/cereblixd/selfheal.go): what a boot     *)
(* decides from the markers and its preflight, and what it then does to    *)
(* the files.  A rollback is also a diagnosis: only a previous binary that *)
(* gets healthy proves the rolled-back one bad.                            *)
(***************************************************************************)
EXTENDS BinaryFiles

NodeMaxBadBoots == 3

Attempts(fs) == fs["bootn"] + 1                 \* this boot included
ConfirmAttempts(fs) == fs["confirmn"] + 1

NodePendingDecisionOnce(fs) ==                  \* faulty variant
  IF Attempts(fs) >= 2 THEN "rollback" ELSE "watch"

NodePendingDecisionGivesUp(fs) ==               \* faulty variant: no rollback
  IF Attempts(fs) < NodeMaxBadBoots THEN "watch" ELSE "giveup"

NodePendingDecision(fs) ==
  IF Attempts(fs) < NodeMaxBadBoots THEN "watch"
  ELSE IF fs["old"] # Absent THEN "rollback"
  ELSE "giveup"

NodeSuspectDecision(fs) ==
  IF ConfirmAttempts(fs) >= NodeMaxBadBoots THEN "envfault" ELSE "confirm"

(* decideBoot *)
NodeDecide(fs, envOK) ==
  IF ~envOK THEN "env"
  ELSE IF fs["pending"] # Absent THEN NodePendingDecision(fs)
  ELSE IF fs["suspect"] # Absent THEN NodeSuspectDecision(fs)
  ELSE "normal"

(* clearSuspectAsEnvFault: not proven bad; pause auto-update. *)
ClearSuspect == <<Remove("suspect"), Remove("confirmn"), Write("envhalt", Present)>>

NodeRollbackTail == RemoveAll(<<"pending", "bootn">>)

(* What bootGuard does before the node starts. *)
NodeBootScript(fs, d) ==
  CASE d = "env" ->
         IF fs["pending"] # Absent \/ fs["suspect"] # Absent
         THEN <<Write("envhalt", Present)>> ELSE <<>>
    [] d = "rollback" ->
         <<Write("suspect", fs["pending"]), Write("confirmn", 0),
           Move("exe", "bad"), Move("old", "exe")>>
         \o NodeRollbackTail \o <<Exit>>
    [] d = "giveup" -> NodeRollbackTail
    [] d = "watch" -> <<Write("bootn", Attempts(fs))>>
    [] d = "confirm" -> <<Write("confirmn", ConfirmAttempts(fs))>>
    [] d = "envfault" -> ClearSuspect
    [] d = "normal" -> RemoveAll(<<"old", "bad", "bootn">>)

(* The rename back of a rollback failed: put the binary back, go on. *)
NodeRollbackError == <<Move("bad", "exe")>> \o NodeRollbackTail

(* The background confirmation this boot starts. *)
NodeWatch(fs, d) ==
  CASE d = "watch" -> "watch"
    [] d = "confirm" -> "confirm"
    [] d = "normal" /\ fs["envhalt"] # Absent -> "recover"
    [] OTHER -> "none"

NodeConfirmedHealthy(watch, fs) ==
  CASE watch = "watch" ->
         RemoveAll(<<"pending", "bootn", "confirmn", "old", "bad",
                     "badversion", "suspect", "envhalt">>)
    [] watch = "confirm" ->
         <<Write("badversion", fs["suspect"])>>
         \o RemoveAll(<<"suspect", "confirmn", "old", "bad", "envhalt">>)
    [] watch = "recover" -> <<Remove("envhalt")>>

NodeNotHealthy(watch, fs) == IF watch = "confirm" THEN ClearSuspect ELSE <<>>

(* blockedVersion: the higher of the proven and the tentative bad one. *)
NodeBlocked(fs) ==
  IF fs["suspect"] > fs["badversion"] THEN fs["suspect"] ELSE fs["badversion"]
=============================================================================
