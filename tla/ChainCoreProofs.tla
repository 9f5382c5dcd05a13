--------------------------- MODULE ChainCoreProofs ---------------------------
(***************************************************************************)
(* The safety properties of ChainCore for every block tree, every set of   *)
(* candidate branches, every reorg cap, penalty and readiness window.      *)
(*                                                                         *)
(* One inductive invariant carries them all.  TypeOK alone is not enough:  *)
(* cumWork stays a natural number only because it is the work of blocks    *)
(* (the header-only pass subtracts the work of the branch it leaves), and  *)
(* checkpoints survive only because every block sits at the height its     *)
(* header claims.                                                          *)
(***************************************************************************)
EXTENDS ChainCore, BlockTreeProofs

(* CoreInv is what also holds of a chain just loaded from disk: a crash    *)
(* may have left it short of a checkpoint, and nothing compares the times  *)
(* of its blocks with the clock again.                                     *)
SoundChain == IsChain(blocks) /\ BlocksOf(blocks) \subseteq Sound
CoreInv == TypeOK /\ SoundChain /\ WorkIsSum
IInv == CoreInv /\ ChainIsValid /\ CheckpointsHeld

-----------------------------------------------------------------------------
(* The least height of ActivationHeight exists whenever any was reached. *)
LEMMA ActivationHeightType ==
  ASSUME NEW bs \in Seq(Block)
  PROVE  ActivationHeight(bs) \in Nat
<1> DEFINE reached == {a \in SignalWindow..Len(bs) :
                         SignalCount(bs, a) >= SignalRequired}
<1>1. reached \subseteq Nat
  BY ChainCoreAssumption
<1>2. CASE reached = {}
  BY <1>2 DEF ActivationHeight
<1>3. CASE reached # {}
  <2>1. \E a \in reached : \A other \in reached : a <= other
    <3> HIDE DEF reached
    <3> QED BY <1>1, <1>3, NatSetLeast
  <2>2. ActivationHeight(bs) =
          CHOOSE a \in reached : \A other \in reached : a <= other
    BY <1>3 DEF ActivationHeight
  <2> HIDE DEF reached
  <2>3. ActivationHeight(bs) \in reached
    BY <2>1, <2>2
  <2> QED BY <1>1, <2>3
<1> QED BY <1>2, <1>3

(* The cached activation height is a height. *)
LEMMA CachedGateHeightType ==
  ASSUME TypeOK
  PROVE  CachedGateHeight \in Nat
BY ActivationHeightType DEF CachedGateHeight, GateHeight, TypeOK

(* A candidate is our chain up to `start` and the offered branch after it. *)
LEMMA CandidateShape ==
  ASSUME TypeOK, NEW start \in 1..Len(blocks), NEW new \in Seq(Block)
  PROVE  /\ Candidate(start, new) \in Seq(Block)
         /\ Len(Candidate(start, new)) = start + Len(new)
         /\ \A i \in 1..start : Candidate(start, new)[i] = blocks[i]
         /\ \A i \in 1..Len(new) : Candidate(start, new)[start + i] = new[i]
<1> DEFINE kept == SubSeq(blocks, 1, start)
<1>1. blocks \in Seq(Block) /\ start \in Nat /\ start <= Len(blocks)
  BY DEF TypeOK
<1>2. kept \in Seq(Block) /\ Len(kept) = start /\ \A i \in 1..start : kept[i] = blocks[i]
  BY <1>1, SubSeqProperties
<1>3. Candidate(start, new) = kept \o new
  BY DEF Candidate
<1> HIDE DEF kept
<1>4. kept \o new \in Seq(Block) /\ Len(kept \o new) = start + Len(new)
  BY <1>2, ConcatProperties
<1>5. \A i \in 1..start : (kept \o new)[i] = kept[i]
  BY <1>2, ConcatProperties
<1>6. \A i \in 1..Len(new) : (kept \o new)[start + i] = new[i]
  BY <1>1, <1>2, ConcatProperties
<1> QED BY <1>2, <1>3, <1>4, <1>5, <1>6

(* The header-only work of a candidate is the work of a full replay. *)
LEMMA CandidateWorkIsSum ==
  ASSUME CoreInv, NEW start \in 1..Len(blocks), NEW new \in Seq(Block)
  PROVE  /\ CandidateWork(start, new) = SumWork(Candidate(start, new))
         /\ CandidateWork(start, new) \in Nat
<1> DEFINE kept == SubSeq(blocks, 1, start)
           left == SubSeq(blocks, start + 1, Len(blocks))
<1>1. blocks \in Seq(Block) /\ start \in Nat /\ start <= Len(blocks)
  BY DEF CoreInv, TypeOK
<1>2. kept \in Seq(Block) /\ left \in Seq(Block)
  BY <1>1, SubSeqProperties
<1>3. blocks = kept \o left
  BY <1>1
<1>4. cumWork = SumWork(blocks)
  BY DEF CoreInv, WorkIsSum
<1>5. CandidateWork(start, new) = cumWork - SumWork(left) + SumWork(new)
  BY DEF CandidateWork
<1>6. Candidate(start, new) = kept \o new
  BY DEF Candidate
<1> HIDE DEF kept, left
<1>7. SumWork(blocks) = SumWork(kept) + SumWork(left)
  BY <1>2, <1>3, SumWorkConcat
<1>8. SumWork(kept \o new) = SumWork(kept) + SumWork(new)
  BY <1>2, SumWorkConcat
<1>9. SumWork(kept) \in Nat /\ SumWork(left) \in Nat /\ SumWork(new) \in Nat
  BY <1>2, SumWorkType
<1> QED BY <1>4, <1>5, <1>6, <1>7, <1>8, <1>9

(* The penalty only ever raises the bar. *)
LEMMA ThresholdAtLeastOurWork ==
  ASSUME CoreInv, NEW start \in 1..Len(blocks)
  PROVE  WorkThreshold(start) \in Nat /\ WorkThreshold(start) >= cumWork
<1> DEFINE p == Depth(start) * ReorgPenaltyPermille
<1>1. cumWork \in Nat /\ Depth(start) \in Nat /\ ReorgPenaltyPermille \in Nat
  BY ChainCoreAssumption DEF CoreInv, TypeOK, Depth
<1>2. \A a, b \in Nat : a * b \in Nat
  OBVIOUS
<1>3. \A a \in Nat : a \div 1000 \in Nat
  OBVIOUS
<1>4. p \in Nat
  BY <1>1, <1>2
<1> HIDE DEF p
<1>5. (cumWork * p) \div 1000 \in Nat
  BY <1>1, <1>2, <1>3, <1>4
<1>6. WorkThreshold(start) = IF Depth(start) > 1 THEN cumWork + (cumWork * p) \div 1000
                             ELSE cumWork
  BY DEF WorkThreshold, p
<1> QED BY <1>1, <1>5, <1>6

(* Both tips sit at the height their chain gives them. *)
LEMMA TipHeights ==
  ASSUME CoreInv, NEW start \in 1..Len(blocks), NEW new \in Seq(Block), Len(new) > 0,
         Adoptable(start, new)
  PROVE  /\ Height[Tip] = Len(blocks) - 1
         /\ Height[TipOf(new)] = Len(Candidate(start, new)) - 1
         /\ TipOf(Candidate(start, new)) = TipOf(new)
<1> DEFINE n == Len(blocks)
           m == Len(new)
<1>1. n \in Nat /\ n > 0 /\ m \in Nat /\ m > 0 /\ m \in 1..m /\ start \in Nat
  BY DEF CoreInv, TypeOK, SoundChain, IsChain
<1>2. Height[Tip] = n - 1
  <2>1. CASE n = 1
    BY <2>1, BlockTreeAssumption DEF CoreInv, SoundChain, IsChain, Tip, TipOf
  <2>2. CASE n # 1
    <3>1. n \in 2..n
      <4> HIDE DEF n
      <4> QED BY <1>1, <2>2
    <3>2. LinkedAt(blocks, n)
      BY <3>1 DEF CoreInv, SoundChain, IsChain
    <3> QED BY <3>2 DEF LinkedAt, Tip, TipOf
  <2> QED BY <2>1, <2>2
<1>3. /\ Len(Candidate(start, new)) = start + m
      /\ Candidate(start, new)[start + m] = new[m]
  BY <1>1, CandidateShape DEF CoreInv
<1>4. ValidAt(Candidate(start, new), start + m)
  BY <1>1 DEF Adoptable
<1>5. Height[new[m]] = start + m - 1
  BY <1>3, <1>4 DEF ValidAt, LinkedAt
<1> QED BY <1>2, <1>3, <1>5 DEF TipOf

-----------------------------------------------------------------------------
(* What a step does to the chain, proved once for both ways of growing it. *)

(* AddBlock keeps the core invariant, and validity. *)
LEMMA AddBlockStep ==
  ASSUME CoreInv, NEW b \in Block, AddBlock(b)
  PROVE  CoreInv' /\ (ChainIsValid => ChainIsValid')
<1> DEFINE n == Len(blocks)
<1>1. /\ blocks \in Seq(Block) /\ n \in Nat /\ n > 0
      /\ blocks' = Append(blocks, b)
      /\ cumWork' = cumWork + Work[b]
      /\ UNCHANGED <<checkpoints, authAnchor, drAct, now>>
  BY DEF CoreInv, TypeOK, AddBlock, SoundChain, IsChain
<1>2. /\ blocks' \in Seq(Block)
      /\ Len(blocks') = n + 1
      /\ blocks'[n + 1] = b
      /\ \A i \in 1..n : blocks'[i] = blocks[i]
  BY <1>1, AppendProperties
<1>3. /\ LinkedAt(blocks', n + 1) /\ MatchesCheckpoint(b)
      /\ NotBefore[b] <= now /\ b \in Sound
  BY <1>1, <1>2 DEF AddBlock, ValidAt, LinkedAt
<1>4. TypeOK'
  <2>1. Work[b] \in Nat /\ cumWork \in Nat
    BY BlockTreeAssumption DEF CoreInv, TypeOK
  <2>2. cumWork' \in Nat
    BY <1>1, <2>1
  <2> QED BY <1>1, <1>2, <2>2 DEF CoreInv, TypeOK
<1>5. SoundChain' /\ (ChainIsValid => ChainIsValid')
  <2>1. \A i \in 1..n + 1 : i \in 1..n \/ i = n + 1
    BY <1>1
  <2>2. \A i \in 2..n : LinkedAt(blocks', i)
    <3>1. \A i \in 2..n : i \in 1..n /\ i - 1 \in 1..n
      BY <1>1
    <3> QED BY <1>2, <3>1 DEF CoreInv, SoundChain, IsChain, LinkedAt
  <2>3. IsChain(blocks')
    BY <1>1, <1>2, <1>3, <2>1, <2>2 DEF CoreInv, SoundChain, IsChain
  <2>4. ASSUME NEW i \in 1..n + 1
        PROVE  /\ blocks'[i] \in Sound
               /\ ChainIsValid => NotBefore[blocks'[i]] <= now'
    BY <1>1, <1>2, <1>3, <2>1 DEF CoreInv, SoundChain, BlocksOf, ChainIsValid
  <2> QED BY <1>2, <2>3, <2>4 DEF SoundChain, BlocksOf, ChainIsValid
<1>6. WorkIsSum'
  BY <1>1, SumWorkAppend DEF CoreInv, WorkIsSum
<1> QED BY <1>4, <1>5, <1>6 DEF CoreInv

(* So does the adoption of a branch. *)
LEMMA AdoptStep ==
  ASSUME CoreInv, NEW start \in 1..Len(blocks), NEW new \in Seq(Block), Len(new) > 0,
         Adopt(start, new), drAct' \in Nat, UNCHANGED <<checkpoints, authAnchor, now>>
  PROVE  CoreInv' /\ (ChainIsValid => ChainIsValid')
<1> DEFINE n == start + Len(new)
<1>1. /\ blocks \in Seq(Block) /\ start \in Nat /\ start > 0 /\ start <= Len(blocks)
      /\ Len(new) \in Nat /\ n \in Nat /\ TypeOK
      /\ blocks' = Candidate(start, new)
      /\ cumWork' = CandidateWork(start, new)
      /\ UNCHANGED <<checkpoints, authAnchor, now>>
  BY DEF CoreInv, TypeOK, Adopt
<1>2. /\ blocks' \in Seq(Block)
      /\ Len(blocks') = n
      /\ \A i \in 1..start : blocks'[i] = blocks[i]
      /\ \A i \in 1..Len(new) : blocks'[start + i] = new[i]
  BY <1>1, CandidateShape
<1>3. \A i \in start + 1..n : ValidAt(blocks', i)
  <2>1. \A i \in start + 1..n : i - start \in 1..Len(new) /\ start + (i - start) = i
    BY <1>1
  <2>2. \A j \in 1..Len(new) : ValidAt(blocks', start + j)
    BY <1>1 DEF Adopt, Adoptable
  <2> QED BY <2>1, <2>2
<1>4. \A i \in 1..n : i \in 1..start \/ i \in start + 1..n
  BY <1>1
<1>5. TypeOK'
  BY <1>1, <1>2, CandidateWorkIsSum DEF CoreInv, TypeOK
<1>6. SoundChain' /\ (ChainIsValid => ChainIsValid')
  <2>1. \A i \in 2..start : LinkedAt(blocks', i)
    <3>1. \A i \in 2..start : i \in 1..start /\ i - 1 \in 1..start /\ i \in 2..Len(blocks)
      BY <1>1
    <3> QED BY <1>2, <3>1 DEF CoreInv, SoundChain, IsChain, LinkedAt
  <2>2. \A i \in 2..n : i \in 2..start \/ i \in start + 1..n
    BY <1>1
  <2>3. \A i \in 2..n : LinkedAt(blocks', i)
    BY <1>3, <2>1, <2>2 DEF ValidAt
  <2>4. blocks'[1] = Genesis
    BY <1>1, <1>2 DEF CoreInv, SoundChain, IsChain
  <2>5. IsChain(blocks')
    BY <1>1, <1>2, <2>3, <2>4 DEF IsChain
  <2>6. ASSUME NEW i \in 1..n
        PROVE  /\ blocks'[i] \in Sound
               /\ ChainIsValid => NotBefore[blocks'[i]] <= now'
    <3>1. CASE i \in 1..start
      <4>1. i \in 1..Len(blocks)
        BY <1>1, <3>1
      <4> QED BY <1>1, <1>2, <3>1, <4>1 DEF CoreInv, SoundChain, BlocksOf, ChainIsValid
    <3>2. CASE i \in start + 1..n
      BY <1>1, <1>3, <3>2 DEF ValidAt
    <3> QED BY <1>4, <3>1, <3>2
  <2> QED BY <1>2, <2>5, <2>6 DEF SoundChain, BlocksOf, ChainIsValid
<1>7. WorkIsSum'
  BY <1>1, CandidateWorkIsSum DEF WorkIsSum
<1> QED BY <1>5, <1>6, <1>7 DEF CoreInv

(* Neither way loses a block that a checkpoint holds. *)
LEMMA AddBlockKeepsCheckpoints ==
  ASSUME IInv, NEW b \in Block, AddBlock(b)
  PROVE  CheckpointsHeld'
<1> DEFINE n == Len(blocks)
<1>1. /\ blocks \in Seq(Block) /\ n \in Nat
      /\ blocks' = Append(blocks, b) /\ UNCHANGED checkpoints
  BY DEF IInv, CoreInv, TypeOK, AddBlock
<1>2. /\ Len(blocks') = n + 1
      /\ \A i \in 1..n : blocks'[i] = blocks[i]
  BY <1>1, AppendProperties
<1>3. ASSUME NEW h \in DOMAIN checkpoints
      PROVE  h < n + 1 /\ blocks'[h + 1] = checkpoints[h]
  <2>1. h \in Nat /\ h < n /\ blocks[h + 1] = checkpoints[h]
    BY <1>1 DEF IInv, CoreInv, TypeOK, CheckpointsHeld
  <2> QED BY <1>1, <1>2, <2>1
<1> QED BY <1>1, <1>2, <1>3 DEF CheckpointsHeld

(* A branch is adopted only above or through every checkpoint. *)
LEMMA AdoptKeepsCheckpoints ==
  ASSUME IInv, NEW start \in 1..Len(blocks), NEW new \in Seq(Block), Len(new) > 0,
         Adopt(start, new), UNCHANGED checkpoints
  PROVE  CheckpointsHeld'
<1> DEFINE n == start + Len(new)
<1>1. /\ blocks \in Seq(Block) /\ start \in Nat /\ start > 0 /\ start <= Len(blocks)
      /\ Len(new) \in Nat /\ n \in Nat /\ TypeOK
      /\ blocks' = Candidate(start, new)
      /\ UNCHANGED checkpoints
  BY DEF IInv, CoreInv, TypeOK, Adopt
<1>2. /\ blocks' \in Seq(Block)
      /\ Len(blocks') = n
      /\ \A i \in 1..start : blocks'[i] = blocks[i]
      /\ \A i \in 1..Len(new) : blocks'[start + i] = new[i]
  BY <1>1, CandidateShape
<1>3. \A i \in start + 1..n : ValidAt(blocks', i)
  <2>1. \A i \in start + 1..n : i - start \in 1..Len(new) /\ start + (i - start) = i
    BY <1>1
  <2>2. \A j \in 1..Len(new) : ValidAt(blocks', start + j)
    BY <1>1 DEF Adopt, Adoptable
  <2> QED BY <2>1, <2>2
<1>4. ASSUME NEW h \in DOMAIN checkpoints
      PROVE  h < n /\ blocks'[h + 1] = checkpoints[h]
  <2>1. h \in Nat /\ h < Len(blocks) /\ blocks[h + 1] = checkpoints[h]
    BY DEF IInv, CoreInv, TypeOK, CheckpointsHeld
  <2>2. CASE h < start
    <3>1. start \in Nat /\ n \in Nat /\ n > start
      BY <1>1
    <3> HIDE DEF n
    <3>2. h + 1 \in 1..start /\ h < n
      BY <2>1, <2>2, <3>1
    <3>3. blocks'[h + 1] = blocks[h + 1]
      BY <1>2, <3>2, Zenon
    <3> QED BY <2>1, <3>2, <3>3, Zenon
  <2>3. CASE h >= start
    <3>1. ~(h >= start /\ h <= TipHeight /\ h > start + Len(new) - 1)
      BY <1>1 DEF Adopt, Adoptable, KeepsCheckpoints
    <3>2. h < n /\ h + 1 \in start + 1..n
      BY <1>1, <2>1, <2>3, <3>1 DEF TipHeight
    <3>3. Height[blocks'[h + 1]] = h /\ MatchesCheckpoint(blocks'[h + 1])
      BY <1>3, <2>1, <3>2 DEF ValidAt, LinkedAt
    <3> QED BY <3>2, <3>3 DEF MatchesCheckpoint
  <2> QED BY <1>1, <2>1, <2>2, <2>3
<1> QED BY <1>1, <1>2, <1>4 DEF CheckpointsHeld

(* TryAdoptChain adopts or refuses. *)
LEMMA TryAdoptChainStep ==
  ASSUME CoreInv, NEW start \in 1..Len(blocks), NEW new \in Seq(Block),
         TryAdoptChain(start, new)
  PROVE  /\ CoreInv'
         /\ ChainIsValid => ChainIsValid'
         /\ IInv => CheckpointsHeld'
<1>1. Len(new) > 0 /\ UNCHANGED <<checkpoints, authAnchor, now>>
  BY DEF TryAdoptChain
<1>2. drAct' \in Nat
  BY CachedGateHeightType DEF TryAdoptChain, CoreInv, TypeOK
<1>3. CASE Adopt(start, new)
  BY <1>1, <1>2, <1>3, AdoptStep, AdoptKeepsCheckpoints DEF IInv
<1>4. CASE Refuse(start, new)
  BY <1>1, <1>2, <1>4
     DEF Refuse, IInv, CoreInv, TypeOK, SoundChain, ChainIsValid, WorkIsSum, CheckpointsHeld
<1> QED BY <1>3, <1>4 DEF TryAdoptChain

(* A checkpoint is taken only for a block of the main chain. *)
LEMMA ApplyCheckpointStep ==
  ASSUME CoreInv, NEW cp \in SignedCheckpoints, ApplyCheckpoint(cp)
  PROVE  /\ CoreInv'
         /\ ChainIsValid => ChainIsValid'
         /\ IInv => CheckpointsHeld'
<1>1. /\ cp.height \in Nat \ {0} /\ cp.hash \in Block
      /\ cp.height < Len(blocks) /\ blocks[cp.height + 1] = cp.hash
      /\ checkpoints' = [h \in DOMAIN checkpoints \cup {cp.height} |->
                           IF h = cp.height THEN cp.hash ELSE checkpoints[h]]
      /\ UNCHANGED <<blocks, cumWork, authAnchor, drAct, now>>
  BY ChainCoreAssumption DEF ApplyCheckpoint
<1>2. TypeOK'
  BY <1>1 DEF CoreInv, TypeOK
<1>3. SoundChain' /\ (ChainIsValid => ChainIsValid') /\ WorkIsSum'
  BY <1>1 DEF CoreInv, SoundChain, ChainIsValid, WorkIsSum
<1>4. CheckpointsHeld => CheckpointsHeld'
  BY <1>1 DEF CheckpointsHeld
<1> QED BY <1>2, <1>3, <1>4 DEF CoreInv, IInv

(* The anchor touches nothing else. *)
LEMMA SetAuthorityAnchorStep ==
  ASSUME CoreInv, NEW cp \in SignedCheckpoints, SetAuthorityAnchor(cp)
  PROVE  /\ CoreInv'
         /\ ChainIsValid => ChainIsValid'
         /\ IInv => CheckpointsHeld'
BY DEF SetAuthorityAnchor, IInv, CoreInv, TypeOK, SoundChain, ChainIsValid, WorkIsSum,
       CheckpointsHeld

(* A block that was not from the future stays so. *)
LEMMA TickStep ==
  ASSUME CoreInv, Tick
  PROVE  /\ CoreInv'
         /\ ChainIsValid => ChainIsValid'
         /\ IInv => CheckpointsHeld'
<1>1. now \in Nat /\ now' = now + 1 /\ now' \in 0..MaxTime
      /\ UNCHANGED <<blocks, cumWork, checkpoints, authAnchor, drAct>>
  BY ChainCoreAssumption DEF Tick, CoreInv, TypeOK
<1>2. ASSUME NEW i \in 1..Len(blocks)
      PROVE  ChainIsValid => NotBefore[blocks[i]] <= now'
  <2>1. NotBefore[blocks[i]] \in Nat
    BY BlockTreeAssumption, SMTT(30) DEF CoreInv, TypeOK
  <2>2. ChainIsValid => NotBefore[blocks[i]] <= now
    BY DEF ChainIsValid
  <2> QED BY <1>1, <2>1, <2>2
<1>3. ChainIsValid => ChainIsValid'
  BY <1>1, <1>2 DEF ChainIsValid
<1> QED BY <1>1, <1>3 DEF IInv, CoreInv, TypeOK, SoundChain, WorkIsSum, CheckpointsHeld

(* The chain of a fresh process. *)
LEMMA InitInvariant == Init => IInv
<1> SUFFICES ASSUME Init
             PROVE  IInv
  OBVIOUS
<1>1. TypeOK
  BY BlockTreeAssumption, ChainCoreAssumption DEF Init, TypeOK
<1>2. ChainIsValid
  BY BlockTreeAssumption DEF Init, ChainIsValid, IsChain
<1>3. WorkIsSum
  BY SumWorkGenesis DEF Init, WorkIsSum
<1>4. CheckpointsHeld
  BY DEF Init, CheckpointsHeld
<1> QED BY <1>1, <1>2, <1>3, <1>4 DEF IInv, CoreInv, SoundChain, ChainIsValid, BlocksOf

(* The invariant is inductive. *)
LEMMA InvariantHolds == Spec => []IInv
<1>1. IInv /\ [Next]_vars => IInv'
  <2> SUFFICES ASSUME IInv, [Next]_vars
               PROVE  CoreInv' /\ ChainIsValid' /\ CheckpointsHeld'
    BY DEF IInv
  <2> USE DEF IInv
  <2>1. ASSUME NEW b \in Block, AddBlock(b)
        PROVE  CoreInv' /\ ChainIsValid' /\ CheckpointsHeld'
    BY <2>1, AddBlockStep, AddBlockKeepsCheckpoints
  <2>2. ASSUME NEW start \in 1..Len(blocks), NEW new \in Candidates,
               TryAdoptChain(start, new)
        PROVE  CoreInv' /\ ChainIsValid' /\ CheckpointsHeld'
    BY <2>2, TryAdoptChainStep, ChainCoreAssumption
  <2>3. ASSUME NEW cp \in SignedCheckpoints, ApplyCheckpoint(cp)
        PROVE  CoreInv' /\ ChainIsValid' /\ CheckpointsHeld'
    BY <2>3, ApplyCheckpointStep
  <2>4. ASSUME NEW cp \in SignedCheckpoints, SetAuthorityAnchor(cp)
        PROVE  CoreInv' /\ ChainIsValid' /\ CheckpointsHeld'
    BY <2>4, SetAuthorityAnchorStep
  <2>5. CASE Tick
    BY <2>5, TickStep
  <2>6. CASE UNCHANGED vars
    BY <2>6 DEF vars, CoreInv, TypeOK, SoundChain, ChainIsValid, WorkIsSum, CheckpointsHeld
  <2> QED BY <2>1, <2>2, <2>3, <2>4, <2>5, <2>6 DEF Next
<1> QED BY <1>1, InitInvariant, PTL DEF Spec

-----------------------------------------------------------------------------
(* The state of the engine always has its types: in particular the work    *)
(* counter never goes negative, however many blocks a reorg discards.      *)
THEOREM TypeCorrect == Spec => []TypeOK
BY InvariantHolds, PTL DEF IInv, CoreInv

(* The main chain is one linked path of validated blocks.                  *)
THEOREM ChainAlwaysValid == Spec => []ChainIsValid
BY InvariantHolds, PTL DEF IInv, CoreInv

(* The incremental work arithmetic equals a full replay, always.           *)
THEOREM WorkAlwaysSum == Spec => []WorkIsSum
BY InvariantHolds, PTL DEF IInv, CoreInv

(* No reorg drops a block the authority declared final.                    *)
THEOREM CheckpointsAlwaysHeld == Spec => []CheckpointsHeld
BY InvariantHolds, PTL DEF IInv, CoreInv

(* A step to another chain is a step to a strictly better one.             *)
LEMMA StepProgress ==
  ASSUME CoreInv, Next, blocks' # blocks
  PROVE  \/ cumWork' > cumWork
         \/ /\ cumWork' = cumWork
            /\ Len(blocks') = Len(blocks)
            /\ HashRank[TipOf(blocks')] < HashRank[Tip]
<1> DEFINE Better == \/ cumWork' > cumWork
                     \/ /\ cumWork' = cumWork
                        /\ Len(blocks') = Len(blocks)
                        /\ HashRank[TipOf(blocks')] < HashRank[Tip]
<1>1. ASSUME NEW b \in Block, AddBlock(b)
      PROVE  Better
  <2>1. cumWork \in Nat /\ Work[b] \in Nat /\ Work[b] > 0 /\ cumWork' = cumWork + Work[b]
    BY <1>1, BlockTreeAssumption DEF AddBlock, CoreInv, TypeOK
  <2> QED BY <2>1
<1>2. ASSUME NEW start \in 1..Len(blocks), NEW new \in Candidates,
             TryAdoptChain(start, new)
      PROVE  Better
  <2>1. /\ new \in Seq(Block) /\ Len(new) \in Nat /\ Len(new) > 0
        /\ start \in Nat /\ Len(blocks) \in Nat /\ Len(blocks) > 0
        /\ blocks \in Seq(Block) /\ cumWork \in Nat
    BY <1>2, ChainCoreAssumption DEF TryAdoptChain, CoreInv, TypeOK, SoundChain, IsChain
  <2>2. Adopt(start, new)
    BY <1>2 DEF TryAdoptChain, Refuse
  <2>3. EnoughWork(start, new) /\ cumWork' = CandidateWork(start, new)
        /\ blocks' = Candidate(start, new)
    BY <2>2 DEF Adopt, Adoptable
  <2>4. CASE CandidateWork(start, new) > WorkThreshold(start)
    BY <2>1, <2>3, <2>4, ThresholdAtLeastOurWork, CandidateWorkIsSum
  <2>5. CASE TieBreakWins(start, new)
    <3>1. /\ Height[Tip] = Len(blocks) - 1
          /\ Height[TipOf(new)] = Len(blocks') - 1
          /\ TipOf(blocks') = TipOf(new)
      BY <2>1, <2>2, <2>3, TipHeights DEF Adopt
    <3>2. cumWork' = cumWork /\ HashRank[TipOf(new)] < HashRank[Tip]
          /\ Height[TipOf(new)] = Height[Tip]
      BY <2>3, <2>5 DEF TieBreakWins
    <3>3. Len(blocks') \in Nat
      BY <2>1, <2>3, CandidateShape DEF CoreInv
    <3>4. Len(blocks') = Len(blocks)
      BY <2>1, <3>1, <3>2, <3>3
    <3> QED BY <3>1, <3>2, <3>4
  <2> QED BY <2>3, <2>4, <2>5 DEF EnoughWork
<1> QED BY <1>1, <1>2 DEF Next, ApplyCheckpoint, SetAuthorityAnchor, Tick

(* Every change of chain is to a strictly better chain, for every penalty  *)
(* (WorkThreshold never falls below our own work).                         *)
THEOREM AlwaysProgress == Spec => ForkChoiceProgress
<1> DEFINE Better == \/ cumWork' > cumWork
                     \/ /\ cumWork' = cumWork
                        /\ Len(blocks') = Len(blocks)
                        /\ HashRank[TipOf(blocks')] < HashRank[Tip]
<1>1. IInv /\ [Next]_vars => [blocks' # blocks => Better]_vars
  BY StepProgress DEF IInv
<1>2. Spec => [][blocks' # blocks => Better]_vars
  BY <1>1, InvariantHolds, PTL DEF Spec
<1> QED BY <1>2 DEF ForkChoiceProgress

-----------------------------------------------------------------------------
(* What a step may discard.  The properties count the blocks really        *)
(* discarded, with CommonLen; the code counts from the start height of the *)
(* candidate.  CommonLenCovers relates the two: repeating our blocks only  *)
(* makes the code's count the larger one.                                  *)

(* An adopted candidate discards at most the depth the code computes. *)
LEMMA DiscardedAtMostDepth ==
  ASSUME CoreInv, NEW start \in 1..Len(blocks), NEW new \in Seq(Block),
         blocks' = Candidate(start, new)
  PROVE  /\ Len(blocks) - CommonLen(blocks, blocks') \in Nat
         /\ Depth(start) \in Nat
         /\ Len(blocks) - CommonLen(blocks, blocks') <= Depth(start)
<1>1. /\ blocks \in Seq(Block) /\ Len(blocks) \in Nat /\ start \in Nat /\ TypeOK
      /\ start <= Len(blocks) /\ Len(new) \in Nat
  BY DEF CoreInv, TypeOK
<1>2. /\ blocks' \in Seq(Block) /\ Len(blocks') = start + Len(new)
      /\ \A i \in 1..start : blocks[i] = blocks'[i]
  BY <1>1, CandidateShape
<1>3. CommonLen(blocks, blocks') \in Nat /\ CommonLen(blocks, blocks') >= start
  <2>1. start <= Len(blocks')
    BY <1>1, <1>2
  <2> QED BY <1>1, <1>2, <2>1, CommonLenCovers
<1>4. CommonLen(blocks, blocks') \in 0..Len(blocks)
  BY <1>1, <1>2, CommonLenExists
<1> QED BY <1>1, <1>3, <1>4 DEF Depth

(* A step that is not an adoption discards nothing. *)
LEMMA OnlyAdoptDiscards ==
  ASSUME IInv, Next, Len(blocks) - CommonLen(blocks, blocks') # 0
  PROVE  \E start \in 1..Len(blocks), new \in Candidates :
           TryAdoptChain(start, new) /\ Adopt(start, new)
<1>1. blocks \in Seq(Block) /\ Len(blocks) \in Nat
  BY DEF IInv, CoreInv, TypeOK
<1>2. ASSUME blocks' = blocks
      PROVE  FALSE
  <2>1. CommonLen(blocks, blocks) \in 0..Len(blocks) /\ CommonLen(blocks, blocks) >= Len(blocks)
    BY <1>1, CommonLenCovers, CommonLenExists
  <2> QED BY <1>1, <1>2, <2>1
<1>3. ASSUME NEW b \in Block, AddBlock(b)
      PROVE  FALSE
  <2>1. blocks' = Append(blocks, b)
    BY <1>3 DEF AddBlock
  <2>2. /\ blocks' \in Seq(Block) /\ Len(blocks') = Len(blocks) + 1
        /\ \A i \in 1..Len(blocks) : blocks[i] = blocks'[i]
    BY <1>1, <2>1, AppendProperties
  <2>3. CommonLen(blocks, blocks') \in 0..Len(blocks)
        /\ CommonLen(blocks, blocks') >= Len(blocks)
    BY <1>1, <2>2, CommonLenCovers, CommonLenExists
  <2> QED BY <1>1, <2>3
<1>4. PICK start \in 1..Len(blocks), new \in Candidates : TryAdoptChain(start, new)
  BY <1>2, <1>3 DEF Next, ApplyCheckpoint, SetAuthorityAnchor, Tick
<1>5. Adopt(start, new)
  BY <1>2, <1>4 DEF TryAdoptChain, Refuse
<1> QED BY <1>4, <1>5

-----------------------------------------------------------------------------
(* Whatever candidates peers offer, more than MaxReorgDepth blocks are     *)
(* discarded only under the active v4 rule, for a chain that holds the     *)
(* authority's latest signed block.                                        *)
THEOREM DeepReorgsAreSigned == Spec => DeepReorgIsSigned
<1> DEFINE Discarded == Len(blocks) - CommonLen(blocks, blocks')
           Signed == /\ GateHeight # 0
                     /\ authAnchor.height \in 1..Len(blocks') - 1
                     /\ blocks'[authAnchor.height + 1] = authAnchor.hash
<1>1. IInv /\ [Next]_vars => [MaxReorgDepth > 0 /\ Discarded > MaxReorgDepth => Signed]_vars
  <2> SUFFICES ASSUME IInv, Next, MaxReorgDepth > 0, Discarded > MaxReorgDepth
               PROVE  Signed
    OBVIOUS
  <2>1. MaxReorgDepth \in Nat /\ blocks \in Seq(Block) /\ Len(blocks) \in Nat /\ TypeOK
    BY ChainCoreAssumption DEF IInv, CoreInv, TypeOK
  <2>2. PICK start \in 1..Len(blocks), new \in Candidates :
          TryAdoptChain(start, new) /\ Adopt(start, new)
    <3>1. Discarded # 0
      BY <2>1
    <3> QED BY <3>1, OnlyAdoptDiscards
  <2>3. /\ new \in Seq(Block) /\ Len(new) \in Nat /\ start \in Nat
        /\ blocks' = Candidate(start, new)
    BY <2>2, ChainCoreAssumption DEF Adopt
  <2>4. TooDeep(start)
    BY <2>1, <2>3, DiscardedAtMostDepth DEF TooDeep, IInv
  <2>5. DeepRecoveryActive /\ MeetsAnchor(start, new)
    BY <2>2, <2>4 DEF Adopt, Adoptable, DepthAllowed
  <2>6. /\ Len(blocks') = start + Len(new)
        /\ \A i \in 1..Len(new) : blocks'[start + i] = new[i]
    BY <2>1, <2>3, CandidateShape
  <2>7. authAnchor.height \in Nat
    BY <2>1, ChainCoreAssumption DEF TypeOK, NoAnchor
  <2>8. /\ authAnchor.height # 0 /\ authAnchor.height >= start
        /\ authAnchor.height - start < Len(new)
        /\ new[authAnchor.height - start + 1] = authAnchor.hash
    BY <2>5 DEF MeetsAnchor
  <2>9. /\ authAnchor.height - start + 1 \in 1..Len(new)
        /\ start + (authAnchor.height - start + 1) = authAnchor.height + 1
        /\ authAnchor.height \in 1..Len(blocks') - 1
    <3> DEFINE h == authAnchor.height
               m == Len(new)
    <3>1. h \in Nat /\ h # 0 /\ h >= start /\ h - start < m /\ m \in Nat /\ start \in Nat
      BY <2>3, <2>7, <2>8
    <3> HIDE DEF h, m
    <3>2. h - start + 1 \in 1..m /\ start + (h - start + 1) = h + 1 /\ h \in 1..(start + m) - 1
      BY <3>1
    <3> QED BY <2>6, <3>2 DEF h, m
  <2> QED BY <2>5, <2>6, <2>8, <2>9 DEF DeepRecoveryActive
<1>2. Spec => [][MaxReorgDepth > 0 /\ Discarded > MaxReorgDepth => Signed]_vars
  BY <1>1, InvariantHolds, PTL DEF Spec
<1> QED BY <1>2 DEF DeepReorgIsSigned

(* Multiplication and rounding down by 1000 keep an inequality. *)
LEMMA PenaltyGrows ==
  ASSUME NEW w \in Nat, NEW p \in Nat, NEW d \in Nat, NEW e \in Nat, d <= e
  PROVE  /\ (w * d * p) \div 1000 \in Nat /\ (w * (e * p)) \div 1000 \in Nat
         /\ (w * (e * p)) \div 1000 >= (w * d * p) \div 1000
<1>1. PICK k \in Nat : e = d + k
  <2>1. e - d \in Nat /\ e = d + (e - d)
    OBVIOUS
  <2> QED BY <2>1
<1>2. \A a, b \in Nat : a * b \in Nat
  OBVIOUS
<1>3. w * (e * p) = w * d * p + w * k * p
  BY <1>1
<1>4. w * d \in Nat /\ w * d * p \in Nat /\ w * k \in Nat /\ w * k * p \in Nat
  BY <1>2
<1>5. \A x, y \in Nat : x \div 1000 \in Nat /\ (x + y) \div 1000 \in Nat
                          /\ (x + y) \div 1000 >= x \div 1000
  OBVIOUS
<1> QED BY <1>3, <1>4, <1>5

(* No candidate, wherever it claims to start, discards d > 1 blocks for    *)
(* less than the penalty on d blocks.                                      *)
THEOREM DeepReorgsPay == Spec => DeepReorgPays
<1> DEFINE d == Len(blocks) - CommonLen(blocks, blocks')
           Pays == cumWork' > cumWork + (cumWork * d * ReorgPenaltyPermille) \div 1000
<1>1. IInv /\ [Next]_vars => [d > 1 => Pays]_vars
  <2> SUFFICES ASSUME IInv, Next, d > 1
               PROVE  Pays
    OBVIOUS
  <2>1. /\ ReorgPenaltyPermille \in Nat /\ cumWork \in Nat
        /\ blocks \in Seq(Block) /\ Len(blocks) \in Nat /\ TypeOK
    BY ChainCoreAssumption DEF IInv, CoreInv, TypeOK
  <2>2. PICK start \in 1..Len(blocks), new \in Candidates :
          TryAdoptChain(start, new) /\ Adopt(start, new)
    <3>1. d # 0
      OBVIOUS
    <3> QED BY <3>1, OnlyAdoptDiscards
  <2>3. /\ new \in Seq(Block) /\ blocks' = Candidate(start, new)
        /\ cumWork' = CandidateWork(start, new) /\ EnoughWork(start, new)
    BY <2>2, ChainCoreAssumption DEF Adopt, Adoptable
  <2>4. d \in Nat /\ Depth(start) \in Nat /\ d <= Depth(start)
    BY <2>1, <2>3, DiscardedAtMostDepth DEF IInv
  <2> HIDE DEF d
  <2>5. Depth(start) > 1
    BY <2>4
  <2>6. CandidateWork(start, new) > WorkThreshold(start)
    BY <2>3, <2>4, <2>5 DEF EnoughWork, TieBreakWins
  <2>7. WorkThreshold(start)
          = cumWork + (cumWork * (Depth(start) * ReorgPenaltyPermille)) \div 1000
    BY <2>5 DEF WorkThreshold
  <2>8. /\ (cumWork * d * ReorgPenaltyPermille) \div 1000 \in Nat
        /\ (cumWork * (Depth(start) * ReorgPenaltyPermille)) \div 1000 \in Nat
        /\ (cumWork * (Depth(start) * ReorgPenaltyPermille)) \div 1000
             >= (cumWork * d * ReorgPenaltyPermille) \div 1000
    <3> DEFINE w == cumWork
               p == ReorgPenaltyPermille
               e == Depth(start)
    <3>1. w \in Nat /\ p \in Nat /\ d \in Nat /\ e \in Nat /\ d <= e
      BY <2>1, <2>4
    <3> HIDE DEF w, p, e
    <3>2. /\ (w * d * p) \div 1000 \in Nat /\ (w * (e * p)) \div 1000 \in Nat
          /\ (w * (e * p)) \div 1000 >= (w * d * p) \div 1000
      BY <3>1, PenaltyGrows
    <3> QED BY <3>2 DEF w, p, e
  <2>9. CandidateWork(start, new) \in Nat /\ WorkThreshold(start) \in Nat
    BY <2>3, CandidateWorkIsSum, ThresholdAtLeastOurWork DEF IInv
  <2>10. cumWork + (cumWork * d * ReorgPenaltyPermille) \div 1000 <= WorkThreshold(start)
    <3> DEFINE x == (cumWork * d * ReorgPenaltyPermille) \div 1000
               y == (cumWork * (Depth(start) * ReorgPenaltyPermille)) \div 1000
    <3>1. x \in Nat /\ y >= x /\ WorkThreshold(start) = cumWork + y
      BY <2>7, <2>8
    <3>2. y \in Int
      BY <2>8
    <3> HIDE DEF x, y
    <3>3. cumWork + x <= WorkThreshold(start)
      BY <2>1, <3>1, <3>2
    <3> QED BY <3>3 DEF x
  <2>11. (cumWork * d * ReorgPenaltyPermille) \div 1000 \in Nat
    BY <2>8
  <2> DEFINE bar == cumWork + (cumWork * d * ReorgPenaltyPermille) \div 1000
  <2>12. bar \in Nat /\ bar <= WorkThreshold(start)
    BY <2>1, <2>10, <2>11
  <2> HIDE DEF bar
  <2>13. CandidateWork(start, new) > bar
    BY <2>6, <2>9, <2>12
  <2> QED BY <2>3, <2>13 DEF bar
<1>2. Spec => [][d > 1 => Pays]_vars
  BY <1>1, InvariantHolds, PTL DEF Spec
<1> QED BY <1>2 DEF DeepReorgPays

-----------------------------------------------------------------------------
(* The refinement of ForkChoice.  The mapping takes the main chain to its  *)
(* tip; PathToChain turns the tip back into the chain.                     *)

(* The mapped state: the tip, and the blocks that were declared final. *)
Final == {checkpoints[h] : h \in DOMAIN checkpoints}

(* The operators of ForkChoice, read on the chain instead of its tip. *)
LEMMA MappedOperators ==
  ASSUME NEW s, IsChain(s)
  PROVE  /\ Promise!TotalWork(TipOf(s)) = SumWork(s)
         /\ Promise!Ancestors(TipOf(s)) = BlocksOf(s)
         /\ BlocksOf(s) \subseteq Sound => Promise!Eligible(TipOf(s))
<1>1. Promise!PathTo(TipOf(s)) = s
  BY PathToChain DEF PathTo, Promise!PathTo
<1>2. Promise!TotalWork(TipOf(s)) = SumWork(s)
  BY <1>1 DEF Promise!TotalWork, Promise!SumWork, SumWork
<1>3. Promise!Ancestors(TipOf(s)) = BlocksOf(s)
  BY <1>1 DEF Promise!Ancestors, Promise!BlocksOf, BlocksOf
<1>4. Promise!IsChain(s)
  BY DEF Promise!IsChain, Promise!LinkedAt, IsChain, LinkedAt
<1> QED BY <1>1, <1>2, <1>3, <1>4 DEF Promise!Eligible

(* A change of chain is a Move: to a better tip, away from no final block. *)
LEMMA ChangeIsMove ==
  ASSUME IInv, IInv', Next, blocks' # blocks
  PROVE  Promise!Move(TipOf(blocks'))
<1>1. IsChain(blocks) /\ IsChain(blocks')
  BY DEF IInv, CoreInv, ChainIsValid
<1>2. BlocksOf(blocks') \subseteq Sound
  BY DEF IInv, CoreInv, ChainIsValid, BlocksOf
<1>3. checkpoints' = checkpoints
  BY DEF Next, AddBlock, TryAdoptChain, ApplyCheckpoint, SetAuthorityAnchor, Tick
<1>4. /\ Promise!TotalWork(TipOf(blocks')) = cumWork'
      /\ Promise!TotalWork(Tip) = cumWork
  BY <1>1, MappedOperators DEF IInv, CoreInv, WorkIsSum, Tip
<1>5. /\ Height[TipOf(blocks')] = Len(blocks') - 1
      /\ Height[Tip] = Len(blocks) - 1
  BY <1>1, ChainHeights DEF Tip
<1>6. Promise!Better(TipOf(blocks'), Tip)
  BY <1>4, <1>5, StepProgress DEF Promise!Better, IInv
<1>7. Final \subseteq BlocksOf(blocks')
  <2>1. ASSUME NEW h \in DOMAIN checkpoints
        PROVE  checkpoints[h] \in BlocksOf(blocks')
    <3>1. h \in Nat /\ h < Len(blocks') /\ blocks'[h + 1] = checkpoints[h]
      BY <1>3 DEF IInv, CoreInv, TypeOK, CheckpointsHeld
    <3>2. Len(blocks') \in Nat
      BY <1>1, ChainHeights
    <3>3. h + 1 \in 1..Len(blocks')
      BY <3>1, <3>2
    <3> QED BY <3>1, <3>3 DEF BlocksOf
  <2> QED BY <2>1 DEF Final
<1> QED BY <1>1, <1>2, <1>3, <1>6, <1>7, MappedOperators
        DEF Promise!Move, Final, Tip

(* A new checkpoint is a Finalize of a block of the chain. *)
LEMMA CheckpointIsFinalize ==
  ASSUME IInv, NEW cp \in SignedCheckpoints, ApplyCheckpoint(cp)
  PROVE  Promise!Finalize(cp.hash)
<1>1. /\ cp.height \in Nat /\ cp.height < Len(blocks)
      /\ blocks[cp.height + 1] = cp.hash
      /\ checkpoints' = [h \in DOMAIN checkpoints \cup {cp.height} |->
                           IF h = cp.height THEN cp.hash ELSE checkpoints[h]]
      /\ blocks' = blocks
  BY ChainCoreAssumption DEF ApplyCheckpoint
<1>2. IsChain(blocks) /\ Len(blocks) \in Nat
  BY ChainHeights DEF IInv, CoreInv, ChainIsValid
<1>3. cp.hash \in BlocksOf(blocks)
  <2>1. cp.height + 1 \in 1..Len(blocks)
    BY <1>1, <1>2
  <2> QED BY <1>1, <2>1 DEF BlocksOf
<1>4. \A h \in DOMAIN checkpoints : checkpoints'[h] = checkpoints[h]
  BY <1>1 DEF IInv, CoreInv, CheckpointsHeld
<1>5. /\ DOMAIN checkpoints' = DOMAIN checkpoints \cup {cp.height}
      /\ checkpoints'[cp.height] = cp.hash
  BY <1>1
<1>6. Final' = Final \cup {cp.hash}
  BY <1>4, <1>5 DEF Final
<1> QED BY <1>1, <1>2, <1>3, <1>6, MappedOperators DEF Promise!Finalize, Final, Tip

(* The engine is the register ForkChoice promises: every step is a Move to *)
(* a better tip, a Finalize, or leaves tip and final blocks alone.         *)
THEOREM RefinesForkChoice == Spec => ImplementsForkChoice
<1>1. Init => Promise!Init
  BY DEF Init, Promise!Init, Tip, TipOf
<1>2. IInv /\ IInv' /\ [Next]_vars
        => [Promise!Next]_<<Tip, {checkpoints[h] : h \in DOMAIN checkpoints}>>
  <2> SUFFICES ASSUME IInv, IInv', [Next]_vars
               PROVE  Promise!Next \/ UNCHANGED <<Tip, Final>>
    BY DEF Final
  <2>1. CASE Next /\ blocks' # blocks
    <3>1. TipOf(blocks') \in Block
      BY ChainHeights DEF IInv, CoreInv, ChainIsValid
    <3> QED BY <2>1, <3>1, ChangeIsMove DEF Promise!Next
  <2>2. ASSUME NEW cp \in SignedCheckpoints, ApplyCheckpoint(cp)
        PROVE  Promise!Next
    <3>1. cp.hash \in Block
      BY ChainCoreAssumption
    <3> QED BY <2>2, <3>1, CheckpointIsFinalize DEF Promise!Next
  <2>3. CASE blocks' = blocks /\ checkpoints' = checkpoints
    BY <2>3 DEF Tip, TipOf, Final
  <2>4. ASSUME Next, blocks' = blocks
        PROVE  \/ checkpoints' = checkpoints
               \/ \E cp \in SignedCheckpoints : ApplyCheckpoint(cp)
    BY <2>4 DEF Next, AddBlock, TryAdoptChain, SetAuthorityAnchor, Tick
  <2>5. CASE UNCHANGED vars
    BY <2>3, <2>5 DEF vars
  <2> QED BY <2>1, <2>2, <2>3, <2>4, <2>5
<1> QED BY <1>1, <1>2, InvariantHolds, PTL DEF Spec, ImplementsForkChoice, Promise!Spec
=============================================================================
