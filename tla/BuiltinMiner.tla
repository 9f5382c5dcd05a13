----------------------------- MODULE BuiltinMiner -----------------------------
(***************************************************************************)
(* The node's own miner (mineWorker of node/node.go) on the chain of       *)
(* ProofOfWork.  A worker reads a template and the epoch seed in two steps *)
(* and keeps its VM until the number of the epoch changes.                 *)
(***************************************************************************)
EXTENDS ProofOfWork

CONSTANTS Worker, NoBlock

VARIABLES
  work,     \* Worker -> tip its template extends, NoBlock without one
  vm,       \* Worker -> [epoch, seed] its VM is built for
  step,     \* Worker -> "template", "seed" or "hash"
  swapped   \* Worker -> history: the boundary of its VM's epoch was replaced

workerVars == <<work, vm, step, swapped>>
vars == <<powVars, workerVars>>

(* EpochSeedForNext: for the next block on the current tip. *)
SeedForNext == [epoch |-> Epoch(Len(blocks)), seed |-> SeedFor(blocks, Len(blocks))]

NoVM == [epoch |-> -1, seed |-> EpochSeed0]

Init ==
  /\ PowInit
  /\ work = [w \in Worker |-> NoBlock]
  /\ vm = [w \in Worker |-> NoVM]
  /\ step = [w \in Worker |-> "template"]
  /\ swapped = [w \in Worker |-> FALSE]

TakeTemplate(w) ==
  /\ step[w] = "template"
  /\ work' = [work EXCEPT ![w] = Tip]
  /\ step' = [step EXCEPT ![w] = "seed"]
  /\ UNCHANGED <<powVars, vm, swapped>>

KeepsVMAlways(w) == vm[w] # NoVM                      \* faulty variant
KeepsVM(w) == vm[w].epoch = SeedForNext.epoch

TakeSeed(w) ==
  /\ step[w] = "seed"
  /\ step' = [step EXCEPT ![w] = "hash"]
  /\ vm' = IF KeepsVM(w) THEN vm ELSE [vm EXCEPT ![w] = SeedForNext]
  /\ swapped' = IF KeepsVM(w) THEN swapped ELSE [swapped EXCEPT ![w] = FALSE]
  /\ UNCHANGED <<powVars, work>>

RightSeed(w) == SeedFor(PathTo(work[w]), Height[work[w]] + 1)

(* A nonce that meets the target under the VM the worker has: AddBlock.    *)
Solve(w, j, b) ==
  /\ step[w] = "hash"
  /\ Parent[b] = work[w] /\ <<vm[w].seed, b>> \in Meets
  /\ step' = [step EXCEPT ![w] = "template"]
  /\ work' = [work EXCEPT ![w] = NoBlock]
  /\ Submit(j, b)
  /\ UNCHANGED <<vm, swapped>>

(* The tip moved after a hash, or templateMaxAge passed. *)
Leave(w) ==
  /\ step[w] = "hash"
  /\ step' = [step EXCEPT ![w] = "template"]
  /\ work' = [work EXCEPT ![w] = NoBlock]
  /\ UNCHANGED <<powVars, vm, swapped>>

WorkerStep(w) == TakeTemplate(w) \/ TakeSeed(w) \/ Leave(w)

(* The chain moves; a reorg below the seed of a worker's VM is remembered. *)
Next ==
  \/ /\ PowNext
     /\ swapped' = [w \in Worker |->
          \/ swapped[w]
          \/ vm[w].epoch > 0 /\ vm[w].seed \notin BlocksOf(blocks')]
     /\ UNCHANGED <<work, vm, step>>
  \/ \E w \in Worker : WorkerStep(w)
  \/ \E w \in Worker, j \in Job, b \in Block : Solve(w, j, b)

Spec == Init /\ [][Next]_vars

-----------------------------------------------------------------------------
(* Property. *)

(* A worker that hashes for the tip hashes with the seed of its block: the *)
(* two reads of TakeTemplate and TakeSeed may straddle a tip move, but     *)
(* then the template is no longer for the tip.  The exception is a worker  *)
(* whose epoch boundary a reorg replaced after it built its VM: it keeps   *)
(* that VM, for the number of the epoch is the same.                       *)
HashesCount ==
  \A w \in Worker :
    step[w] = "hash" /\ work[w] = Tip => vm[w].seed = RightSeed(w) \/ swapped[w]
=============================================================================
