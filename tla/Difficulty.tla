------------------------------ MODULE Difficulty ------------------------------
(***************************************************************************)
(* Time and difficulty in core/chain.go: which times and which target a    *)
(* block may have after a given prefix.  The target follows the windowed   *)
(* average until enough blocks signal v3, and LWMA from then on; the       *)
(* height of the switch is cached once it is too deep for a reorg.         *)
(*                                                                         *)
(* A block is its time, its target and its v3 signal; its other rules and  *)
(* its hash are in ChainCore and ProofOfWork.  AddBlock is TryAdoptChain   *)
(* of one block on the tip; both run under the lock.  The exception of the *)
(* reorg cap for signed branches is left out (ChainCore has it).           *)
(***************************************************************************)
EXTENDS Integers, SequencesExt

CONSTANTS
  BlockTargetSpacing, RetargetWindow, LWMAWindow, MedianSpan, MaxFutureDrift,
  MaxTarget, GenesisTarget, GenesisTime,
  HashSpace,         \* 2^256
  SignalWindow, LWMAThreshold, MaxReorgDepth,
  TimeSteps,         \* from the block before: times that blocks are offered with
  MaxLength, MaxRun, MaxClock     \* bounds: chain, candidate, clock

ASSUME DifficultyAssumption ==
  /\ {BlockTargetSpacing, RetargetWindow, LWMAWindow, MedianSpan} \subseteq Nat \ {0}
  /\ HashSpace \in Nat
  /\ MaxTarget \in 1..HashSpace - 1 /\ GenesisTarget \in 1..MaxTarget
  /\ GenesisTime \in Nat /\ MaxFutureDrift \in Nat
  /\ SignalWindow \in Nat \ {0} /\ MaxReorgDepth \in Nat
  /\ TimeSteps \subseteq Int
  /\ MaxLength \in Nat \ {0}

VARIABLES
  blocks,    \* c.blocks: [time, target, v3]
  lwmaAct,   \* c.lwmaAct, 0 while unknown
  clock,     \* time.Now, never set back
  strayed    \* history: a refused candidate filled the cache, or a reorg
             \* made the chain shorter while it was filled

diffVars == <<blocks, lwmaAct, clock, strayed>>

TheBlock(t, g, v) == [time |-> t, target |-> g, v3 |-> v]

Init ==
  /\ blocks = <<TheBlock(GenesisTime, GenesisTarget, FALSE)>>
  /\ lwmaAct = 0 /\ clock = GenesisTime /\ strayed = FALSE

-----------------------------------------------------------------------------
(* Median time, work and targets, each as a function of a prefix. *)

(* A recursive function, not a fold, so that the proofs can unfold it. *)
Total(s) ==
  LET sum[i \in 0..Len(s)] == IF i = 0 THEN 0 ELSE sum[i - 1] + s[i]
  IN  sum[Len(s)]

LastTimes(p) ==
  LET n == Min({MedianSpan, Len(p)})
  IN  [i \in 1..n |-> p[Len(p) - n + i].time]

(* Place Len \div 2, from 0, of the sorted times: the least of which more    *)
(* than half of them are no later.                                         *)
NotLater(s, t) == {i \in DOMAIN s : s[i] <= t}

MedianTime(p) ==
  LET s == LastTimes(p)
  IN  Min({t \in Range(s) : Cardinality(NotLater(s, t)) > Len(s) \div 2})

WorkOf(target) == HashSpace \div (target + 1)

Clamp(x, low, high) == Max({low, Min({x, high})})
InRange(target) == Clamp(target, 1, MaxTarget)

LegacyTarget(p) ==
  LET h == Len(p)
      window == Min({RetargetWindow, h - 1})
      expected == window * BlockTargetSpacing
      actual == Clamp(p[h].time - p[h - window].time, expected \div 4, expected * 4)
      sum == Total([k \in 1..window |-> p[h - window + k].target])
  IN  IF h < 2 THEN GenesisTarget
      ELSE InRange(((sum \div window) * actual) \div expected)

SolveTime(p, i) == Clamp(p[i].time - p[i - 1].time, 1, 10 * BlockTargetSpacing)

(* The k-th block of the LWMA window, and the work of all. *)
InWindow(p, k) == Len(p) - LWMAWindow + k
WindowWork(p) == Total([k \in 1..LWMAWindow |-> WorkOf(p[InWindow(p, k)].target)])
WeightedTimes(p) ==
  Total([k \in 1..LWMAWindow |-> k * SolveTime(p, InWindow(p, k))])

(* Faulty variant: the weights sum to N(N+1)/2, not to N*N/2. *)
LWMAScaleFlat == BlockTargetSpacing * LWMAWindow
LWMAScale == BlockTargetSpacing * (LWMAWindow + 1)

LWMATarget(p) ==
  LET difficulty == Max({1, (WindowWork(p) * LWMAScale) \div (2 * WeightedTimes(p))})
  IN  IF Len(p) < LWMAWindow + 1 THEN LegacyTarget(p)
      ELSE InRange(HashSpace \div difficulty - 1)

-----------------------------------------------------------------------------
(* The readiness gate and its cache. *)

Signalled(p, a) ==
  Cardinality({i \in a - SignalWindow + 1 .. a : p[i].v3}) >= LWMAThreshold

(* lwmaActivation: the first height after a window with enough signals. *)
Activation(p) ==
  LET reached == {a \in SignalWindow..Len(p) : Signalled(p, a)}
  IN  IF reached = {} THEN 0 ELSE Min(reached)

TargetFrom(p, a) == IF a # 0 /\ Len(p) >= a THEN LWMATarget(p) ELSE LegacyTarget(p)
ExpectedTarget(p) == TargetFrom(p, Activation(p))

(* lwmaActivationC: the height used, and the cache after. *)
Used(cached, p) == IF cached # 0 THEN cached ELSE Activation(p)

BuriedAtOnce(a, p) == TRUE                              \* faulty variant
Buried(a, p) == Len(p) >= a + MaxReorgDepth

CacheAfter(cached, p) ==
  LET a == Used(cached, p) IN IF a # 0 /\ Buried(a, p) THEN a ELSE cached

-----------------------------------------------------------------------------
(* validateBlock, as far as times and targets go, along a candidate. *)

TimeOKWithoutDrift(p, b) == b.time > MedianTime(p)      \* faulty variant
TimeOK(p, b) == b.time > MedianTime(p) /\ b.time <= clock + MaxFutureDrift

(* The outcome after one more block: accepted prefix, cache, and the       *)
(* length of the prefix on which the cache was filled.                     *)
ValidateNext(acc, b) ==
  LET p == acc.prefix
      cache == CacheAfter(acc.cache, p)
      filled == IF cache # acc.cache THEN Len(p) ELSE acc.filled
      Refused(c, f) == [ok |-> FALSE, prefix |-> p, cache |-> c, filled |-> f]
  IN  IF ~acc.ok \/ ~TimeOK(p, b) THEN Refused(acc.cache, acc.filled)
      ELSE IF b.target # TargetFrom(p, Used(acc.cache, p))
           THEN Refused(cache, filled)
           ELSE [ok |-> TRUE, prefix |-> Append(p, b), cache |-> cache, filled |-> filled]

Outcome(start, new) ==
  LET out[k \in 0..Len(new)] ==
        IF k = 0 THEN [ok |-> TRUE, prefix |-> SubSeq(blocks, 1, start),
                       cache |-> lwmaAct, filled |-> 0]
        ELSE ValidateNext(out[k - 1], new[k])
  IN  out[Len(new)]

TotalWork(p) == Total([i \in DOMAIN p |-> WorkOf(p[i].target)])

(* The guards that come before the validation of the candidate. *)
Considered(start, new) ==
  /\ MaxReorgDepth = 0 \/ Len(blocks) - start <= MaxReorgDepth
  /\ TotalWork(SubSeq(blocks, 1, start) \o new) > TotalWork(blocks)

TryAdoptChain(start, new) ==
  /\ UNCHANGED clock
  /\ IF Considered(start, new)
     THEN LET out == Outcome(start, new) IN
          /\ blocks' = IF out.ok THEN out.prefix ELSE blocks
          /\ lwmaAct' = out.cache
          /\ strayed' = \/ strayed
                        \/ ~out.ok /\ out.filled > start
                        \/ out.ok /\ lwmaAct # 0 /\ start + Len(new) < Len(blocks)
     ELSE UNCHANGED <<blocks, lwmaAct, strayed>>

(* What peers and miners offer on a prefix: the target the rule asks for,  *)
(* or the hardest one, as a block that claims more work than it has would. *)
Offers(p) ==
  {TheBlock(p[Len(p)].time + d, g, v) :
     d \in TimeSteps, g \in {ExpectedTarget(p), 1}, v \in BOOLEAN}

Runs(start) ==
  LET p == SubSeq(blocks, 1, start)
      one == {<<b>> : b \in Offers(p)}
      two == UNION {{<<s[1], b>> : b \in Offers(p \o s)} : s \in one}
  IN  IF MaxRun = 1 THEN one ELSE one \cup two

Tick(n) ==
  /\ clock + n <= MaxClock
  /\ clock' = clock + n
  /\ UNCHANGED <<blocks, lwmaAct, strayed>>

Next ==
  \/ \E start \in 1..Len(blocks) :
       \E new \in Runs(start) :
         start + Len(new) <= MaxLength /\ TryAdoptChain(start, new)
  \/ \E n \in {1, BlockTargetSpacing} : Tick(n)

Spec == Init /\ [][Next]_diffVars

-----------------------------------------------------------------------------
(* BuildTemplate: the time it stamps, and when it gives up. *)

TemplateTime == Max({clock, MedianTime(blocks) + 1})
Buildable == TemplateTime <= clock + MaxFutureDrift

(* Properties. *)

(* The variables have their types: no retarget, whatever the times, leaves *)
(* a target of zero or one easier than the floor.                          *)
DiffTypeOK ==
  /\ \A i \in DOMAIN blocks :
       blocks[i].time \in Nat /\ blocks[i].target \in 1..MaxTarget /\ blocks[i].v3 \in BOOLEAN
  /\ lwmaAct \in 0..MaxLength
  /\ ExpectedTarget(blocks) \in 1..MaxTarget
  /\ clock \in Nat /\ strayed \in BOOLEAN

(* "the cached value is provably identical to a fresh scan": a node that   *)
(* syncs this chain from nothing, with an empty cache, asks every block    *)
(* for the very target it has, so the cache never splits two nodes.  The   *)
(* exceptions are a node that filled its cache on the blocks of a          *)
(* candidate it then refused, and one whose chain got shorter afterwards:  *)
(* a branch of fewer and heavier blocks takes back the depth at which the  *)
(* switch was buried, and the next reorg may reach below it.               *)
FreshNodeAgrees ==
  strayed \/ \A i \in 2..Len(blocks) :
               blocks[i].target = ExpectedTarget(SubSeq(blocks, 1, i - 1))

(* "no reorg can ever change it and the cached value is provably identical *)
(* to a fresh scan".  Violated, in both ways that strayed names.           *)
CachedLWMAIsFresh == lwmaAct # 0 => lwmaAct = Activation(blocks)

(* The retarget steers: after a window of blocks none of which came late   *)
(* the next target is no easier than the average work of the window, and   *)
(* after one of which none came early it is no harder (lwma_test.go asks   *)
(* it of three constant spacings).                                         *)
LWMASteers ==
  LET average == InRange(HashSpace \div Max({1, WindowWork(blocks) \div LWMAWindow}) - 1)
      pace(k) == SolveTime(blocks, InWindow(blocks, k))
  IN  Len(blocks) > LWMAWindow =>
        /\ (\A k \in 1..LWMAWindow : pace(k) <= BlockTargetSpacing)
             => LWMATarget(blocks) <= average
        /\ (\A k \in 1..LWMAWindow : pace(k) >= BlockTargetSpacing)
             => LWMATarget(blocks) >= average

(* Both: a retarget stays in range and moves against the pace of blocks.   *)
TargetsSound == DiffTypeOK /\ LWMASteers

(* A node whose getwork is refused because the recent blocks pushed the    *)
(* median ahead ("retry shortly") builds templates again one second later, *)
(* and until the next block.                                               *)
RefusalIsShort == [][clock' > clock => Buildable']_diffVars
=============================================================================
