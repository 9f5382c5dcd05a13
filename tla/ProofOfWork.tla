----------------------------- MODULE ProofOfWork -----------------------------
(***************************************************************************)
(* How core/chain.go checks NeuroMorph proof of work without hashing under *)
(* the chain lock.  The hash of a block depends on the seed of its epoch,  *)
(* the hash of the last block of the epoch before, which a reorg replaces. *)
(* PreVerifyPoW hashes a candidate on a snapshot of the chain and leaves   *)
(* its results in powOK; validateBlock trusts powOK and verifiedPow, and   *)
(* else hashes with a VM that vmFor keeps per epoch.                       *)
(*                                                                         *)
(* One action per lock: jobs prepare side by side, one of them at a time   *)
(* holds c.mu and validates block by block, and other calls of PreVerify-  *)
(* PoW run beside it.  The other rules of validateBlock are left out.      *)
(***************************************************************************)
EXTENDS BlockTree, FiniteSets

CONSTANTS
  Meets,        \* pairs <<seed, block>>: the hash under seed meets the target
  EpochLength,
  EpochSeed0,   \* seed of epoch 0
  Candidates,   \* runs of blocks that peers or miners may offer
  MaxBatch,     \* longest of them
  MaxPowOK,     \* powOKMax
  MaxVerified,  \* maxVerifiedPow
  Job           \* bound: calls in flight at once

ASSUME PowAssumption ==
  /\ EpochLength \in Nat \ {0}
  /\ EpochSeed0 \notin Block
  /\ Meets \subseteq (Block \cup {EpochSeed0}) \X Block
  /\ Candidates \subseteq Seq(Block) \ {<<>>}
  /\ \A new \in Candidates : Len(new) <= MaxBatch

VARIABLES
  blocks,    \* c.blocks
  powOK,     \* c.powOK: pairs <<seed, block>>
  verified,  \* c.verifiedPow
  vms,       \* c.vmCache, by c.vmSeed: epoch -> seed the VM is built for
  job        \* the calls in flight

powVars == <<blocks, powOK, verified, vms, job>>

Tip == TipOf(blocks)
Epoch(h) == h \div EpochLength

(* epochSeedFor: the seed of a block at height h on that prefix. *)
SeedFor(prefix, h) ==
  IF Epoch(h) = 0 THEN EpochSeed0 ELSE prefix[Epoch(h) * EpochLength]

NoJob == [pc |-> "none", start |-> 0, new |-> <<>>, prefix |-> <<>>, i |-> 0]

PowInit ==
  /\ blocks = <<Genesis>>
  /\ powOK = {} /\ verified = {}
  /\ vms = [e \in {} |-> EpochSeed0]
  /\ job = [j \in Job |-> NoJob]

-----------------------------------------------------------------------------
(* PreVerifyPoW(start, new): snapshot and prune, then one block a step. *)

Prune(memo) == IF Cardinality(memo) > MaxPowOK THEN {} ELSE memo

BeginPreVerify(j, start, new) ==
  /\ job[j] = NoJob
  /\ start \in 1..Len(blocks)
  /\ job' = [job EXCEPT ![j] = [pc |-> "pre", start |-> start, new |-> new,
                                prefix |-> SubSeq(blocks, 1, start), i |-> 1]]
  /\ powOK' = Prune(powOK)
  /\ UNCHANGED <<blocks, verified, vms>>

PowKey(prefix, h, b) == <<SeedFor(prefix, h), b>>

(* The height of the next block is the one its place calls for. *)
InLine(c) == c.i <= Len(c.new) /\ Height[c.new[c.i]] = c.start + c.i - 1

PreVerify(j) ==
  LET c == job[j]
      h == c.start + c.i - 1
      b == c.new[c.i]
      seed == SeedFor(c.prefix, h)
  IN
  /\ c.pc = "pre" /\ InLine(c)
  /\ powOK' = IF <<seed, b>> \in Meets THEN powOK \cup {PowKey(c.prefix, h, b)} ELSE powOK
  /\ job' = [job EXCEPT ![j].prefix = Append(@, b), ![j].i = @ + 1]
  /\ UNCHANGED <<blocks, verified, vms>>

(* All blocks are hashed, or a height is out of line. *)
EndPreVerify(j) ==
  LET c == job[j] IN
  /\ c.pc = "pre"
  /\ ~InLine(c)
  /\ job' = [job EXCEPT ![j] = [c EXCEPT !.pc = "offer", !.prefix = <<>>, !.i = 0]]
  /\ UNCHANGED <<blocks, powOK, verified, vms>>

(* A mined or pushed block goes to AddBlock unprepared. *)
Submit(j, b) ==
  /\ job[j] = NoJob
  /\ Parent[b] = Tip
  /\ job' = [job EXCEPT ![j] = [NoJob EXCEPT !.pc = "offer", !.start = Len(blocks),
                                             !.new = <<b>>]]
  /\ UNCHANGED <<blocks, powOK, verified, vms>>

-----------------------------------------------------------------------------
(* validateBlock under the lock. *)

Heavier(start, new) == SumWork(SubSeq(blocks, 1, start) \o new) > SumWork(blocks)

(* The guards of TryAdoptChain before any block is looked at; c.mu. *)
LockFree == \A k \in Job : job[k].pc # "validate"

TakeLock(j) ==
  LET c == job[j] IN
  /\ c.pc = "offer"
  /\ LockFree
  /\ job' = IF c.start <= Len(blocks) /\ Heavier(c.start, c.new)
            THEN [job EXCEPT ![j] = [c EXCEPT !.pc = "validate", !.i = 1,
                                              !.prefix = SubSeq(blocks, 1, c.start)]]
            ELSE [job EXCEPT ![j] = NoJob]
  /\ UNCHANGED <<blocks, powOK, verified, vms>>

(* vmFor: the cached VM of the epoch, if it was built for this seed; else  *)
(* a new one, and old epochs go when more than three are kept.             *)
HasVMOfEpoch(e, seed) == e \in DOMAIN vms               \* faulty variant
HasVM(e, seed) == e \in DOMAIN vms /\ vms[e] = seed

VMsAfter(e, seed) ==
  LET held == DOMAIN vms \cup {e}
      kept == {d \in held : Cardinality(held) > 3 => d + 2 >= e}
  IN  IF HasVM(e, seed) THEN vms
      ELSE [d \in kept |-> IF d = e THEN seed ELSE vms[d]]

(* The three ways validateBlock comes to accept a proof of work. *)
Known(prefix, b) ==
  \/ b \in verified
  \/ <<SeedFor(prefix, Height[b]), b>> \in powOK

Hashes(prefix, b) ==
  LET e == Epoch(Height[b])
      seed == SeedFor(prefix, Height[b])
  IN  <<IF HasVM(e, seed) THEN vms[e] ELSE seed, b>> \in Meets

PassesPow(prefix, b) == Known(prefix, b) \/ Hashes(prefix, b)

(* markPowVerified: a full set first loses half of itself, any half. *)
Mark(b) ==
  IF b \in verified \/ Cardinality(verified) < MaxVerified
  THEN verified' = verified \cup {b}
  ELSE \E kept \in SUBSET verified :
         /\ Cardinality(kept) = Cardinality(verified) - MaxVerified \div 2
         /\ verified' = kept \cup {b}

Linked(prefix, b) == Height[b] = Len(prefix) /\ Parent[b] = TipOf(prefix)

Refuse(j) == job' = [job EXCEPT ![j] = NoJob]

Validate(j) ==
  LET c == job[j]
      b == c.new[c.i]
  IN
  /\ c.pc = "validate" /\ c.i <= Len(c.new)
  /\ vms' = IF Linked(c.prefix, b) /\ ~Known(c.prefix, b)
            THEN VMsAfter(Epoch(Height[b]), SeedFor(c.prefix, Height[b])) ELSE vms
  /\ IF Linked(c.prefix, b) /\ PassesPow(c.prefix, b)
     THEN Mark(b) /\ job' = [job EXCEPT ![j].prefix = Append(@, b), ![j].i = @ + 1]
     ELSE Refuse(j) /\ UNCHANGED verified
  /\ UNCHANGED <<blocks, powOK>>

Commit(j) ==
  LET c == job[j] IN
  /\ c.pc = "validate" /\ c.i > Len(c.new)
  /\ blocks' = c.prefix
  /\ job' = [job EXCEPT ![j] = NoJob]
  /\ UNCHANGED <<powOK, verified, vms>>

PowNext ==
  \E j \in Job :
    \/ \E new \in Candidates, start \in 1..Len(blocks) : BeginPreVerify(j, start, new)
    \/ PreVerify(j) \/ EndPreVerify(j)
    \/ \E b \in Block : Submit(j, b)
    \/ TakeLock(j) \/ Validate(j) \/ Commit(j)

PowSpec == PowInit /\ [][PowNext]_powVars

-----------------------------------------------------------------------------
(* Property. *)

(* "Outcome is byte-identical; this only moves the hashing off the write   *)
(* lock" (validateBlock): on any branch, at any moment, with whatever the  *)
(* memos and the VM cache hold, a block passes the proof-of-work check     *)
(* exactly if its hash under the seed of its own ancestry meets its        *)
(* target.  A block hashed by PreVerifyPoW on a chain that was reorganised *)
(* since, or next to a VM of a replaced epoch boundary, changes nothing.   *)
MemosAgree ==
  \A b \in Block \ {Genesis} :
    LET prefix == PathTo(Parent[b])
    IN  PassesPow(prefix, b) <=> <<SeedFor(prefix, Height[b]), b>> \in Meets
=============================================================================
