------------------------------ MODULE ChainCore ------------------------------
(***************************************************************************)
(* The in-memory consensus engine of core/chain.go: the main chain, its    *)
(* cumulative work, the authority's checkpoints and anchor, and the sticky *)
(* activation height of gated deep-reorg recovery.  Every action is one    *)
(* critical section of c.mu: AddBlock and TryAdoptChain up to the point    *)
(* where they release it (what they then write to disk is ChainStore),     *)
(* ApplyCheckpoint and SetAuthorityAnchor.                                 *)
(*                                                                         *)
(* Calls that return an error leave every variable alone, except that      *)
(* TryAdoptChain may fill drAct before it refuses a deep candidate.        *)
(***************************************************************************)
EXTENDS BlockTree, FiniteSets

CONSTANTS
  Candidates,            \* branches peers may offer: sequences of blocks
  SignedCheckpoints,     \* records [height, hash] signed by the authority
  MaxReorgDepth,         \* -maxreorg (0 = no cap)
  ReorgPenaltyPermille,  \* -reorg-penalty (0 = none)
  SignalWindow,          \* DeepRecoveryWindow
  SignalRequired,        \* deepRecoveryRequired()
  MaxTime                \* bound: local clock readings explored are 0..MaxTime

NoAnchor == [height |-> 0, hash |-> Genesis]

ASSUME ChainCoreAssumption ==
  /\ Candidates \subseteq Seq(Block)
  /\ SignedCheckpoints \subseteq [height : Nat \ {0}, hash : Block]
  /\ MaxReorgDepth \in Nat
  /\ ReorgPenaltyPermille \in Nat
  /\ SignalWindow \in Nat \ {0}
  /\ SignalRequired \in 1..SignalWindow
  /\ MaxTime \in Nat

VARIABLES
  blocks,       \* c.blocks; position i holds height i - 1
  cumWork,      \* c.cumWork
  checkpoints,  \* c.Checkpoints: height -> hash
  authAnchor,   \* c.authAnchor; height 0 until one is learnt
  drAct,        \* c.drAct: cached activation height, 0 = not cached
  now           \* the local wall clock

vars == <<blocks, cumWork, checkpoints, authAnchor, drAct, now>>

Tip == TipOf(blocks)
TipHeight == Len(blocks) - 1

Init ==
  /\ blocks = <<Genesis>>
  /\ cumWork = Work[Genesis]
  /\ checkpoints = [h \in {} |-> Genesis]
  /\ authAnchor = NoAnchor
  /\ drAct = 0
  /\ now = 0

-----------------------------------------------------------------------------
(* Readiness gate (core/upgrade.go). *)

(* How many of the SignalWindow blocks before height `at` signal. *)
SignalCount(bs, at) ==
  Cardinality({h \in (at - SignalWindow)..(at - 1) : bs[h + 1] \in Signals})

(* First height whose preceding window reached the bar, or 0. *)
ActivationHeight(bs) ==
  LET reached == {a \in SignalWindow..Len(bs) :
                    SignalCount(bs, a) >= SignalRequired}
  IN  IF reached = {} THEN 0
      ELSE CHOOSE a \in reached : \A other \in reached : a <= other

(* What deepRecoveryActivationC returns, and what it leaves in the cache. *)
GateHeight == IF drAct # 0 THEN drAct ELSE ActivationHeight(blocks)

CachedGateHeight ==
  IF GateHeight # 0 /\ Len(blocks) >= GateHeight + MaxReorgDepth
  THEN GateHeight ELSE drAct

DeepRecoveryActive == GateHeight # 0 /\ Len(blocks) >= GateHeight

-----------------------------------------------------------------------------
(* validateBlock of the block at position i of a chain, on the prefix      *)
(* before it.                                                              *)

(* Faulty variant: the break-glass test is not made. *)
MatchesCheckpointSkipped(b) == TRUE

MatchesCheckpoint(b) ==
  Height[b] \in DOMAIN checkpoints => checkpoints[Height[b]] = b

ValidAt(chain, i) ==
  /\ LinkedAt(chain, i)
  /\ MatchesCheckpoint(chain[i])
  /\ NotBefore[chain[i]] <= now
  /\ chain[i] \in Sound

(* A mined, pushed or submitted block that extends the tip. *)
AddBlock(b) ==
  /\ Parent[b] = Tip
  /\ ValidAt(Append(blocks, b), Len(blocks) + 1)
  /\ blocks' = Append(blocks, b)
  /\ cumWork' = cumWork + Work[b]
  /\ UNCHANGED <<checkpoints, authAnchor, drAct, now>>

-----------------------------------------------------------------------------
(* TryAdoptChain(start, new): `start` is the height of new[1], so the      *)
(* candidate keeps blocks[1..start].                                       *)

Depth(start) == Len(blocks) - start
Candidate(start, new) == SubSeq(blocks, 1, start) \o new

TooDeep(start) == MaxReorgDepth > 0 /\ Depth(start) > MaxReorgDepth

(* candidateMeetsAnchor *)
MeetsAnchor(start, new) ==
  /\ authAnchor.height # 0
  /\ authAnchor.height >= start
  /\ authAnchor.height - start < Len(new)
  /\ new[authAnchor.height - start + 1] = authAnchor.hash

(* Faulty variants: deep recovery without the signed block; and none.      *)
DepthAllowedUnsigned(start, new) == TooDeep(start) => DeepRecoveryActive
DepthAllowedNever(start, new) == ~TooDeep(start)

DepthAllowed(start, new) ==
  TooDeep(start) => DeepRecoveryActive /\ MeetsAnchor(start, new)

(* The break-glass guard: do not shorten the chain below a checkpoint. *)
KeepsCheckpointsOffByOne(start, new) ==      \* faulty variant
  \A h \in DOMAIN checkpoints :
    ~(h > start /\ h <= TipHeight /\ h > start + Len(new))

KeepsCheckpoints(start, new) ==
  \A h \in DOMAIN checkpoints :
    ~(h >= start /\ h <= TipHeight /\ h > start + Len(new) - 1)

(* Header-only candidate work. *)
CandidateWorkKeepsOne(start, new) ==         \* faulty variant
  cumWork - SumWork(SubSeq(blocks, start + 2, Len(blocks))) + SumWork(new)

CandidateWork(start, new) ==
  cumWork - SumWork(SubSeq(blocks, start + 1, Len(blocks))) + SumWork(new)

WorkThresholdFlat(start) ==                  \* faulty variant
  IF Depth(start) > 1
  THEN cumWork + (cumWork * ReorgPenaltyPermille) \div 1000
  ELSE cumWork

WorkThreshold(start) ==
  IF Depth(start) > 1
  THEN cumWork + (cumWork * (Depth(start) * ReorgPenaltyPermille)) \div 1000
  ELSE cumWork

TieBreakWins(start, new) ==
  /\ Depth(start) = 1
  /\ CandidateWork(start, new) = cumWork
  /\ Height[TipOf(new)] = Height[Tip]
  /\ HashRank[TipOf(new)] < HashRank[Tip]

EnoughWork(start, new) ==
  \/ CandidateWork(start, new) > WorkThreshold(start)
  \/ TieBreakWins(start, new)

AdoptableTipUnchecked(start, new) ==         \* faulty variant
  /\ DepthAllowed(start, new)
  /\ KeepsCheckpoints(start, new)
  /\ EnoughWork(start, new)
  /\ \A i \in 1..Len(new) - 1 : ValidAt(Candidate(start, new), start + i)

(* Every guard of TryAdoptChain and the validation of every new block.     *)
Adoptable(start, new) ==
  /\ DepthAllowed(start, new)
  /\ KeepsCheckpoints(start, new)
  /\ EnoughWork(start, new)
  /\ \A i \in 1..Len(new) : ValidAt(Candidate(start, new), start + i)

Adopt(start, new) ==
  /\ Adoptable(start, new)
  /\ blocks' = Candidate(start, new)
  /\ cumWork' = CandidateWork(start, new)

Refuse(start, new) ==
  /\ ~Adoptable(start, new)
  /\ UNCHANGED <<blocks, cumWork>>

TryAdoptChain(start, new) ==
  /\ Len(new) > 0
  /\ start \in 1..Len(blocks)
  /\ Adopt(start, new) \/ Refuse(start, new)
  /\ drAct' = IF TooDeep(start) THEN CachedGateHeight ELSE drAct
  /\ UNCHANGED <<checkpoints, authAnchor, now>>

-----------------------------------------------------------------------------
(* Signed authority checkpoints; the callers verified the signature. *)

ApplyCheckpointOffByOne(cp) ==               \* faulty variant
  /\ cp.height < Len(blocks)
  /\ blocks[cp.height + 1] = cp.hash
  /\ checkpoints' = [h \in DOMAIN checkpoints \cup {cp.height - 1} |->
                       IF h = cp.height - 1 THEN cp.hash ELSE checkpoints[h]]
  /\ UNCHANGED <<blocks, cumWork, authAnchor, drAct, now>>

ApplyCheckpoint(cp) ==
  /\ cp.height < Len(blocks)
  /\ blocks[cp.height + 1] = cp.hash
  /\ checkpoints' = [h \in DOMAIN checkpoints \cup {cp.height} |->
                       IF h = cp.height THEN cp.hash ELSE checkpoints[h]]
  /\ UNCHANGED <<blocks, cumWork, authAnchor, drAct, now>>

SetAuthorityAnchor(cp) ==
  /\ cp.height > authAnchor.height
  /\ authAnchor' = cp
  /\ UNCHANGED <<blocks, cumWork, checkpoints, drAct, now>>

Tick ==
  /\ now < MaxTime
  /\ now' = now + 1
  /\ UNCHANGED <<blocks, cumWork, checkpoints, authAnchor, drAct>>

Next ==
  \/ \E b \in Block : AddBlock(b)
  \/ \E start \in 1..Len(blocks), new \in Candidates : TryAdoptChain(start, new)
  \/ \E cp \in SignedCheckpoints : ApplyCheckpoint(cp)
  \/ \E cp \in SignedCheckpoints : SetAuthorityAnchor(cp)
  \/ Tick

Spec == Init /\ [][Next]_vars

-----------------------------------------------------------------------------
(* Properties. *)

(* The variables have their types; a checkpoint or an anchor of height 0   *)
(* (the genesis block) is never recorded.                                  *)
TypeOK ==
  /\ blocks \in Seq(Block)
  /\ cumWork \in Nat
  /\ DOMAIN checkpoints \subseteq Nat \ {0}
  /\ checkpoints \in [DOMAIN checkpoints -> Block]
  /\ authAnchor \in SignedCheckpoints \cup {NoAnchor}
  /\ drAct \in Nat
  /\ now \in 0..MaxTime

(* Whatever mix of extensions, multi-block adoptions and reorgs, c.blocks  *)
(* is one linked path from the genesis block on which every block passed   *)
(* validation (validateBlock is always given the prefix it will sit on).   *)
ChainIsValid ==
  /\ IsChain(blocks)
  /\ \A i \in 1..Len(blocks) : blocks[i] \in Sound /\ NotBefore[blocks[i]] <= now

(* The incremental header-only work arithmetic of TryAdoptChain equals a   *)
(* full replay's sum ("This equals a full replay's work sum EXACTLY").     *)
WorkIsSum == cumWork = SumWork(blocks)

(* An accepted authority checkpoint is final: from then on the main chain  *)
(* holds that block at that height, through every reorg, including those   *)
(* to a shorter but heavier branch.                                        *)
CheckpointsHeld ==
  \A h \in DOMAIN checkpoints :
    h < Len(blocks) /\ blocks[h + 1] = checkpoints[h]

(* The chain only ever moves to a strictly better one: more cumulative     *)
(* work, or equal work, equal height and a smaller tip hash.  So no        *)
(* sequence of offers can make a node oscillate between tips.              *)
ForkChoiceProgress ==
  [][blocks' # blocks =>
       \/ cumWork' > cumWork
       \/ /\ cumWork' = cumWork
          /\ Len(blocks') = Len(blocks)
          /\ HashRank[TipOf(blocks')] < HashRank[Tip]]_vars

(* A step that discards more than MaxReorgDepth of our blocks happens only *)
(* once deep recovery locked in, and only onto a chain that holds the      *)
(* latest block the authority signed.                                      *)
DeepReorgIsSigned ==
  [][MaxReorgDepth > 0 /\ Len(blocks) - CommonLen(blocks, blocks') > MaxReorgDepth =>
       /\ GateHeight # 0
       /\ authAnchor.height \in 1..Len(blocks') - 1
       /\ blocks'[authAnchor.height + 1] = authAnchor.hash]_vars

(* Discarding d > 1 blocks takes more than d * permille / 1000 of our work *)
(* on top of ours, whatever the start height of the candidate claims and   *)
(* however much of our own chain it repeats.                               *)
DeepReorgPays ==
  [][LET d == Len(blocks) - CommonLen(blocks, blocks')
     IN  d > 1 => cumWork' > cumWork + (cumWork * d * ReorgPenaltyPermille) \div 1000]_vars

(* "cached value is provably identical to a fresh scan": the comment of    *)
(* lwmaActivationC, whose contract deepRecoveryActivationC shares.         *)
CachedActivationIsFresh == drAct # 0 => drAct = ActivationHeight(blocks)

(* "the anti-51% guard against UNSIGNED deep reorgs stays fully intact":   *)
(* a reorg beyond the cap leaves a branch that lacks the signed block.  A  *)
(* candidate that starts below the anchor our own chain already holds      *)
(* meets the anchor without being told apart from our branch by it.        *)
DeepReorgLeavesUnsignedBranch ==
  [][MaxReorgDepth > 0 /\ Len(blocks) - CommonLen(blocks, blocks') > MaxReorgDepth =>
       authAnchor.hash \notin BlocksOf(blocks)]_vars

(* ChainCore promises the fork choice of ForkChoice: a register holding    *)
(* the best tip seen that keeps every finalized block.                     *)
Promise ==
  INSTANCE ForkChoice WITH tip <- Tip,
                           finalized <- {checkpoints[h] : h \in DOMAIN checkpoints}
ImplementsForkChoice == Promise!Spec
=============================================================================
