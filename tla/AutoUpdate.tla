----------------------------- MODULE AutoUpdate -----------------------------
(***************************************************************************)
(* A node or a bridge under its supervisor, from release to release: the   *)
(* boot guard, the update loop and the background confirmation, three      *)
(* threads that work on the same files, with process deaths between any    *)
(* two file operations, failing renames and writes, and an environment     *)
(* (port, data directory) that breaks and heals.                           *)
(*                                                                         *)
(* A release is good, crashes while it starts (before its update loop), or *)
(* hangs: it stays alive, updates itself and never serves.                 *)
(***************************************************************************)
EXTENDS SelfHeal, BridgeHeal

CONSTANTS
  Version,      \* releases 1..n; 1 is installed and good
  MaxMishaps,   \* bound: boots lost to kills or outages, failing file operations
  MaxBreaks     \* bound: times the environment breaks or the operator intervenes

ASSUME AutoUpdateAssumption ==
  /\ Version \subseteq Nat \ {0}
  /\ 1 \in Version
  /\ MaxMishaps \in Nat /\ MaxBreaks \in Nat

VARIABLES
  product,      \* "node" or "bridge"
  windows,      \* runs on Windows
  quality,      \* Version -> {"good", "crashing", "hanging"}
  dataOK,       \* the data directory's content lets a good release start
  files,        \* the files on disk
  envOK,        \* data directory writable, ports free
  phase,        \* "off", "cli", "boot", "load", "running" or "up"
  run,          \* version of the running process, Absent when off
  script,       \* operations left of "boot", "watch" and "update"
  watch,        \* confirmation that waits for health: "none" or its kind
  guarded,      \* the preflight of this boot passed
  overlap,      \* history: an update ran over an unconfirmed release, or none
  mishaps, breaks

world == <<product, windows, quality, dataOK>>
counters == <<mishaps, breaks>>
process == <<phase, run, script, watch, guarded>>
updateVars == <<world, files, envOK, process, overlap, counters>>

Thread == {"boot", "watch", "update"}
NoScripts == [t \in Thread |-> <<>>]

UpdateInit ==
  /\ product \in {"node", "bridge"}
  /\ windows \in BOOLEAN
  /\ quality \in [Version -> {"good", "crashing", "hanging"}]
  /\ quality[1] = "good"
  /\ dataOK \in BOOLEAN
  /\ product = "bridge" => dataOK
  /\ files = [f \in File |-> IF f = "exe" THEN 1 ELSE Absent]
  /\ envOK = TRUE
  /\ phase = "off" /\ run = Absent /\ script = NoScripts /\ watch = "none"
  /\ guarded = FALSE
  /\ overlap = FALSE
  /\ mishaps = 0 /\ breaks = 0

-----------------------------------------------------------------------------
(* The process. *)

Decision == IF product = "node" THEN NodeDecide(files, envOK)
            ELSE BridgeDecide(files, envOK)

BootScript(d) == IF product = "node" THEN NodeBootScript(files, d)
                 ELSE BridgeBootScript(files, d)

Watch(d) == IF product = "node" THEN NodeWatch(files, d) ELSE BridgeWatch(d)

(* The supervisor starts whatever the executable is now. *)
Start ==
  /\ phase = "off"
  /\ files["exe"] # Absent
  /\ phase' = "boot"
  /\ run' = files["exe"]
  /\ script' = [NoScripts EXCEPT !["boot"] = BootScript(Decision)]
  /\ watch' = Watch(Decision)
  /\ guarded' = (Decision # "env")
  /\ UNCHANGED <<world, files, envOK, overlap, counters>>

Stopped ==
  /\ phase' = "off" /\ run' = Absent /\ script' = NoScripts
  /\ watch' = "none" /\ guarded' = FALSE

GuardReturns ==
  /\ phase = "boot"
  /\ script["boot"] = <<>>
  /\ phase' = "load"
  /\ UNCHANGED <<world, files, envOK, run, script, watch, guarded,
                 overlap, counters>>

CanLoad == quality[run] # "crashing" /\ dataOK

(* OpenChain and node.New: a bad release or bad data ends the process. *)
Load ==
  /\ phase = "load"
  /\ CanLoad
  /\ phase' = "running"
  /\ UNCHANGED <<world, files, envOK, run, script, watch, guarded,
                 overlap, counters>>

FailToLoad ==
  /\ phase = "load"
  /\ ~CanLoad
  /\ Stopped
  /\ UNCHANGED <<world, files, envOK, overlap, counters>>

(* Serve, or net.Listen of the bridge. *)
Serve ==
  /\ phase = "running"
  /\ envOK
  /\ quality[run] = "good"
  /\ phase' = "up"
  /\ UNCHANGED <<world, files, envOK, run, script, watch, guarded,
                 overlap, counters>>

(* A boot that the guard counted and that is lost through no fault of the  *)
(* release is a mishap.                                                    *)
FailToServe ==
  /\ phase = "running"
  /\ ~envOK
  /\ quality[run] = "good"
  /\ guarded => mishaps < MaxMishaps
  /\ mishaps' = IF guarded THEN mishaps + 1 ELSE mishaps
  /\ Stopped
  /\ UNCHANGED <<world, files, envOK, overlap, breaks>>

Kill ==
  /\ phase # "off"
  /\ mishaps < MaxMishaps
  /\ mishaps' = mishaps + 1
  /\ Stopped
  /\ UNCHANGED <<world, files, envOK, overlap, breaks>>

-----------------------------------------------------------------------------
(* Threads. *)

(* A rename of a missing file fails, and one over a running Windows        *)
(* executable.                                                             *)
Refused(op) ==
  /\ op.kind = "move"
  /\ files[op.from] = Absent \/ (windows /\ op.to = "exe" /\ files["exe"] # Absent)

Step(t) ==
  LET op == Head(script[t])
  IN  /\ script[t] # <<>>
      /\ ~Refused(op)
      /\ files' = After(op, files)
      /\ IF op = Exit THEN Stopped
         ELSE /\ script' = [script EXCEPT ![t] = Tail(@)]
              /\ UNCHANGED <<phase, run, watch, guarded>>
      /\ UNCHANGED <<world, envOK, overlap, counters>>

(* An operation returns an error: because of a rename, or because the disk *)
(* or a virus scanner says so.                                             *)
BootError ==
  LET op == Head(script["boot"])
  IN  IF op = Move("old", "exe")
      THEN IF product = "node" THEN NodeRollbackError ELSE <<>>
      ELSE Tail(script["boot"])

ErrorIn(t) ==
  CASE t = "boot" -> BootError
    [] t = "update" -> AfterError(windows, script["update"])
    [] t = "watch" -> Tail(script["watch"])

OpFails(t) ==
  /\ script[t] # <<>>
  /\ Head(script[t]) # Exit
  /\ Refused(Head(script[t])) \/ mishaps < MaxMishaps
  /\ mishaps' = IF Refused(Head(script[t])) THEN mishaps ELSE mishaps + 1
  /\ script' = [script EXCEPT ![t] = ErrorIn(t)]
  /\ UNCHANGED <<world, files, envOK, phase, run, watch, guarded,
                 overlap, breaks>>

(* The background confirmation sees the node serve, or gives up when its   *)
(* window ends without.                                                    *)
Watching == watch # "none" /\ phase \notin {"off", "boot", "cli"}

ConfirmHealthy ==
  /\ Watching
  /\ phase = "up"
  /\ watch' = "none"
  /\ script' = [script EXCEPT !["watch"] =
       IF product = "node" THEN NodeConfirmedHealthy(watch, files)
       ELSE BridgeConfirmedHealthy]
  /\ overlap' = (overlap \/ script["update"] # <<>>)
  /\ UNCHANGED <<world, files, envOK, phase, run, guarded, counters>>

ConfirmTimesOut ==
  /\ Watching
  /\ phase # "up"
  /\ watch' = "none"
  /\ script' = [script EXCEPT !["watch"] =
       IF product = "node" THEN NodeNotHealthy(watch, files) ELSE <<>>]
  /\ UNCHANGED <<world, files, envOK, phase, run, guarded, overlap,
                 counters>>

Blocked == IF product = "node" THEN NodeBlocked(files) ELSE files["badversion"]

Paused == \/ files["noupdate"] # Absent
          \/ product = "node" /\ files["envhalt"] # Absent

(* A release waits for its confirmation, or one rolled back for a verdict, *)
(* or a swap or rollback that failed twice left no executable.             *)
Unconfirmed == \/ files["pending"] # Absent \/ files["suspect"] # Absent
               \/ watch # "none" \/ script["watch"] # <<>>
               \/ files["exe"] = Absent

(* autoUpdateLoop and applyManifest: any mirror's signed manifest, the     *)
(* latest or an older one; the download matched its hash.  The loop starts *)
(* 15 s after the load, when a good release serves or has failed to.       *)
ApplyManifest(m) ==
  /\ phase = "up" \/ (phase = "running" /\ quality[run] = "hanging")
  /\ script["update"] = <<>>
  /\ ~Paused
  /\ ShouldInstall(m, run, Blocked)
  /\ script' = [script EXCEPT !["update"] =
                  SwapBinary(windows, m) \o MarkPending(m) \o <<Exit>>]
  /\ overlap' = (overlap \/ Unconfirmed)
  /\ UNCHANGED <<world, files, envOK, phase, run, watch, guarded,
                 counters>>

(* -update: the same, once, by hand, whatever pauses the loop. *)
RunUpdateOnce(m) ==
  /\ phase = "off"
  /\ files["exe"] # Absent
  /\ ShouldInstall(m, files["exe"], Blocked)
  /\ phase' = "cli"
  /\ run' = files["exe"]
  /\ script' = [NoScripts EXCEPT !["update"] =
                  SwapBinary(windows, m) \o MarkPending(m) \o <<Exit>>]
  /\ overlap' = (overlap \/ Unconfirmed)
  /\ UNCHANGED <<world, files, envOK, watch, guarded, counters>>

(* -update that failed prints the error and ends. *)
UpdateOnceEnds ==
  /\ phase = "cli"
  /\ script["update"] = <<>>
  /\ Stopped
  /\ UNCHANGED <<world, files, envOK, overlap, counters>>

-----------------------------------------------------------------------------
(* The environment. *)

(* -autoupdate on | off, at any time. *)
SetAutoUpdate ==
  /\ breaks < MaxBreaks
  /\ breaks' = breaks + 1
  /\ files' = [files EXCEPT !["noupdate"] = IF @ = Absent THEN Present ELSE Absent]
  /\ UNCHANGED <<world, envOK, process, overlap, mishaps>>

EnvBreaks ==
  /\ envOK
  /\ breaks < MaxBreaks
  /\ envOK' = FALSE
  /\ breaks' = breaks + 1
  /\ UNCHANGED <<world, files, process, overlap, mishaps>>

EnvHeals ==
  /\ ~envOK
  /\ envOK' = TRUE
  /\ UNCHANGED <<world, files, process, overlap, counters>>

Main ==
  \/ Start \/ GuardReturns \/ Load \/ FailToLoad \/ Serve \/ FailToServe
  \/ UpdateOnceEnds

UpdateNext ==
  \/ Main
  \/ \E t \in Thread : Step(t) \/ OpFails(t)
  \/ ConfirmHealthy \/ ConfirmTimesOut
  \/ \E m \in Version : ApplyManifest(m) \/ RunUpdateOnce(m)
  \/ Kill \/ SetAutoUpdate \/ EnvBreaks \/ EnvHeals

(* The supervisor restarts, the process and its threads get the processor, *)
(* ports get free.                                                         *)
UpdateSpec ==
  /\ UpdateInit /\ [][UpdateNext]_updateVars
  /\ WF_updateVars(Main)
  /\ \A t \in Thread : WF_updateVars(Step(t) \/ (OpFails(t) /\ Refused(Head(script[t]))))
  /\ WF_updateVars(EnvHeals)

-----------------------------------------------------------------------------
(* Properties. *)

(* Types; no process without a version, no version without a process.      *)
UpdateTypeOK ==
  /\ DOMAIN files = File
  /\ files["exe"] \in Version \cup {Absent}
  /\ files["old"] \in Version \cup {Absent}
  /\ files["pending"] \in Version \cup {Absent}
  /\ files["bootn"] \in 0..NodeMaxBadBoots
  /\ files["confirmn"] \in 0..NodeMaxBadBoots
  /\ (run = Absent) = (phase = "off")
  /\ watch \in {"none", "watch", "confirm", "recover"}

(* "a genuinely bad release is told apart from a broken environment": a    *)
(* lost boot or a failing file operation alone never blacklists a good     *)
(* release, nor does a data fault, however long, or an environment the     *)
(* preflight sees.  (An update cut off before it marked its release leaves *)
(* the mark of the unconfirmed one before it, which takes the blame: that  *)
(* is overlap.)                                                            *)
GoodReleaseKept ==
  LET v == files["badversion"]
  IN  v # Absent /\ quality[v] = "good" => overlap \/ mishaps > 1

(* At whatever operation a swap or a rollback is cut off, a release that   *)
(* can be put back is still on disk, unless an update ran while a          *)
(* confirmation was removing the backup, or over a swap or rollback whose  *)
(* renames failed, the one back included.                                  *)
BinaryNeverLost ==
  files["exe"] = Absent /\ ~overlap =>
    files["old"] # Absent \/ files["new"] # Absent

(* Without that exception.  Violated: on Windows a swap whose last rename  *)
(* fails, and the one back too, leaves the running release as the backup;  *)
(* the next attempt removes it first, finds no executable to set aside,    *)
(* and the one after that removes the download.                            *)
SomeBinaryLeft == \E f \in {"exe", "new", "old", "bad"} : files[f] # Absent

(* Both: the marker files are well formed and a binary is left.            *)
BinarySound == UpdateTypeOK /\ BinaryNeverLost

(* "the node ends up running a healthy binary - never stuck, never         *)
(* thrashing": while no boot is lost to a kill, no file operation fails,   *)
(* the data loads, no release hangs and none is installed over another     *)
(* that is unconfirmed, what crashes is left for good for one that serves. *)
(* (The bridge's rollback is "best-effort on Windows": it always fails,    *)
(* for unlike the node it does not move the running executable aside.)     *)
Calm == /\ mishaps = 0 /\ dataOK /\ ~overlap
        /\ ~(windows /\ product = "bridge")
        /\ \A v \in Version : quality[v] # "hanging"

EndsUpHealthy == <>(~Calm) \/ <>[](phase = "up")

(* "in EVERY situation the node ends up running a healthy binary - never   *)
(* stuck": a process that is gone can be started again.  Violated: a       *)
(* rollback (and on Windows a swap) is two renames, and nothing is in      *)
(* place between them.                                                     *)
ExecutablePresent == phase = "off" => files["exe"] # Absent
=============================================================================
