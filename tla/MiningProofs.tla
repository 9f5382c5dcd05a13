---------------------------- MODULE MiningProofs ----------------------------
(***************************************************************************)
(* The memos of the proof-of-work check never change its outcome, for      *)
(* every block tree, epoch length, candidate set and number of calls.      *)
(*                                                                         *)
(* powOK is harmless by itself: each entry names the seed it was computed  *)
(* under.  verifiedPow names the block alone, and is harmless because a    *)
(* block is only marked behind its own parent on a linked path, which is   *)
(* the only path that ends in that parent (PathToChain).  So the invariant *)
(* must say that whoever holds the lock builds such a path.                *)
(***************************************************************************)
EXTENDS BuiltinMiner, BlockTreeProofs

(* The hash of b under the seed of its own ancestry meets its target. *)
GoodPow(b) == <<SeedFor(PathTo(Parent[b]), Height[b]), b>> \in Meets

(* The calls in flight.  One that holds the lock has a linked path, and    *)
(* with the blocks it has still to add outweighs the main chain.           *)
JobType == [pc : {"none", "pre", "offer", "validate"}, start : Nat, new : Seq(Block),
            prefix : Seq(Block), i : Nat]

Remaining(c) == SubSeq(c.new, c.i, Len(c.new))

JobOK(c) ==
  /\ c.pc # "none" => c.start > 0
  /\ c.pc = "pre" => 0 < c.i
  /\ c.pc = "validate" =>
       /\ IsChain(c.prefix)
       /\ 0 < c.i /\ c.i <= Len(c.new) + 1
       /\ SumWork(c.prefix) + SumWork(Remaining(c)) > SumWork(blocks)

PowInv ==
  /\ IsChain(blocks)
  /\ powOK \subseteq Meets
  /\ \A b \in verified : b \in Block /\ GoodPow(b)
  /\ job \in [Job -> JobType]
  /\ \A j \in Job : JobOK(job[j])
  /\ \A j, k \in Job : job[j].pc = "validate" /\ job[k].pc = "validate" => j = k

(* Behind its parent, a block passes the check exactly if its hash meets   *)
(* the target under the seed of that path.                                 *)
LEMMA PassesIsMeets ==
  ASSUME PowInv, NEW b \in Block
  PROVE  PassesPow(PathTo(Parent[b]), b) <=> GoodPow(b)
<1>1. Hashes(PathTo(Parent[b]), b) <=> GoodPow(b)
  BY DEF Hashes, HasVM, GoodPow
<1>2. Known(PathTo(Parent[b]), b) => GoodPow(b)
  BY DEF Known, PowInv, GoodPow
<1> QED BY <1>1, <1>2 DEF PassesPow

(* A path grows by a block that links to it. *)
LEMMA LinkedExtends ==
  ASSUME NEW prefix, IsChain(prefix), NEW b \in Block, Linked(prefix, b)
  PROVE  IsChain(Append(prefix, b)) /\ prefix = PathTo(Parent[b])
<1>1. prefix \in Seq(Block) /\ Len(prefix) \in Nat /\ Len(prefix) > 0
  BY DEF IsChain
<1>2. prefix = PathTo(Parent[b])
  BY PathToChain DEF Linked
<1>3. /\ Append(prefix, b) \in Seq(Block)
      /\ Len(Append(prefix, b)) = Len(prefix) + 1
      /\ Append(prefix, b)[Len(prefix) + 1] = b
      /\ \A i \in 1..Len(prefix) : Append(prefix, b)[i] = prefix[i]
  BY <1>1, AppendProperties
<1>4. ASSUME NEW i \in 2..Len(prefix) + 1
      PROVE  LinkedAt(Append(prefix, b), i)
  <2>1. CASE i = Len(prefix) + 1
    <3>1. i - 1 = Len(prefix) /\ i - 1 \in 1..Len(prefix)
      BY <1>1, <2>1
    <3> QED BY <1>3, <2>1, <3>1 DEF LinkedAt, Linked, TipOf
  <2>2. CASE i # Len(prefix) + 1
    <3>1. i \in 2..Len(prefix) /\ i \in 1..Len(prefix) /\ i - 1 \in 1..Len(prefix)
      BY <1>1, <2>2
    <3> QED BY <1>3, <3>1 DEF IsChain, LinkedAt
  <2> QED BY <2>1, <2>2
<1>5. Append(prefix, b)[1] = Genesis
  <2>1. 1 \in 1..Len(prefix)
    BY <1>1
  <2> QED BY <1>3, <2>1 DEF IsChain
<1> QED BY <1>1, <1>2, <1>3, <1>4, <1>5 DEF IsChain

(* A prefix of a linked path is one. *)
LEMMA PrefixIsChain ==
  ASSUME NEW s, IsChain(s), NEW n \in Nat, 0 < n, n <= Len(s)
  PROVE  IsChain(SubSeq(s, 1, n))
<1>1. s \in Seq(Block) /\ Len(s) \in Nat
  BY DEF IsChain
<1>2. /\ SubSeq(s, 1, n) \in Seq(Block)
      /\ Len(SubSeq(s, 1, n)) = n
      /\ \A i \in 1..n : SubSeq(s, 1, n)[i] = s[i]
  BY <1>1, SubSeqProperties
<1>3. ASSUME NEW i \in 2..n
      PROVE  LinkedAt(SubSeq(s, 1, n), i)
  <2>1. i \in 1..n /\ i - 1 \in 1..n /\ i \in 2..Len(s)
    BY <1>1
  <2> QED BY <1>2, <2>1 DEF IsChain, LinkedAt
<1>4. 1 \in 1..n
  OBVIOUS
<1> QED BY <1>2, <1>3, <1>4 DEF IsChain

(* The work of a rest, after its first block. *)
LEMMA RestWork ==
  ASSUME NEW s \in Seq(Block), NEW i \in 1..Len(s)
  PROVE  /\ s[i] \in Block
         /\ SubSeq(s, i + 1, Len(s)) \in Seq(Block)
         /\ SumWork(SubSeq(s, i, Len(s)))
              = Work[s[i]] + SumWork(SubSeq(s, i + 1, Len(s)))
<1> DEFINE rest == SubSeq(s, i + 1, Len(s))
           one == Append(<<>>, s[i])
<1>1. s[i] \in Block /\ rest \in Seq(Block) /\ one \in Seq(Block)
  BY SubSeqProperties, EmptySeq, AppendProperties
<1>2. SubSeq(s, i, Len(s)) = one \o rest
  OBVIOUS
<1>3. SumWork(one) = Work[s[i]]
  <2>1. \A b \in Block : SumWork(Append(<<>>, b)) = SumWork(<<>>) + Work[b]
    BY SumWorkAppend, EmptySeq
  <2>2. SumWork(one) = 0 + Work[s[i]]
    BY <1>1, <2>1, SumWorkEmpty
  <2>3. Work[s[i]] \in Nat
    BY <1>1, BlockTreeAssumption
  <2> QED BY <2>2, <2>3
<1> HIDE DEF rest, one
<1> QED BY <1>1, <1>2, <1>3, SumWorkConcat DEF rest
-----------------------------------------------------------------------------
(* PowInv holds initially and is kept by every step of PowNext. *)

JobsOK ==
  /\ job \in [Job -> JobType]
  /\ \A j \in Job : JobOK(job[j])
  /\ \A j, k \in Job : job[j].pc = "validate" /\ job[k].pc = "validate" => j = k

(* PowInv holds at first. *)
LEMMA PowInitInv == PowInit => PowInv
<1> SUFFICES ASSUME PowInit PROVE PowInv
  OBVIOUS
<1>1. NoJob \in JobType
  BY DEF NoJob, JobType
<1>2. IsChain(<<Genesis>>)
  BY BlockTreeAssumption DEF IsChain
<1> QED BY <1>1, <1>2 DEF PowInit, PowInv, NoJob, JobOK

(* A step of one call that leaves the chain alone. *)
LEMMA OneJobChanges ==
  ASSUME PowInv, NEW j \in Job, NEW c \in JobType, JobOK(c),
         blocks' = blocks, job' = [job EXCEPT ![j] = c],
         c.pc = "validate" => \A k \in Job \ {j} : job[k].pc # "validate"
  PROVE  JobsOK'
<1>1. job' \in [Job -> JobType]
  BY DEF PowInv
<1>2. \A k \in Job : job'[k] = IF k = j THEN c ELSE job[k]
  BY DEF PowInv
<1>3. ASSUME NEW k \in Job
      PROVE  JobOK(job[k])'
  <2>1. JobOK(job'[k])
    BY <1>2 DEF PowInv
  <2> QED BY <2>1 DEF JobOK
<1>4. ASSUME NEW k \in Job, NEW l \in Job,
             job'[k].pc = "validate", job'[l].pc = "validate"
      PROVE  k = l
  BY <1>2, <1>4 DEF PowInv
<1> QED BY <1>1, <1>3, <1>4 DEF JobsOK

(* PowInv of the next state from its parts. *)
LEMMA PowInvParts ==
  ASSUME IsChain(blocks)', (powOK \subseteq Meets)',
         (\A b \in verified : b \in Block /\ GoodPow(b))', JobsOK'
  PROVE  PowInv'
BY DEF PowInv, JobsOK

(* A free slot satisfies what is said of calls. *)
LEMMA NoJobOK == NoJob \in JobType /\ JobOK(NoJob) /\ NoJob.pc # "validate"
BY DEF NoJob, JobType, JobOK

(* A call is the record of its fields. *)
Call(pc, start, new, prefix, i) ==
  [pc |-> pc, start |-> start, new |-> new, prefix |-> prefix, i |-> i]

(* A call that goes on, as the record it becomes. *)
LEMMA CallAdvances ==
  ASSUME NEW c \in JobType, NEW prefix, NEW i
  PROVE  [c EXCEPT !.prefix = prefix, !.i = i] = Call(c.pc, c.start, c.new, prefix, i)
<1> DEFINE d == [c EXCEPT !.prefix = prefix]
<1>1. d = Call(c.pc, c.start, c.new, prefix, c.i)
  BY DEF Call, JobType
<1>2. [c EXCEPT !.prefix = prefix, !.i = i] = [d EXCEPT !.i = i]
  OBVIOUS
<1> HIDE DEF d
<1>3. d \in [pc : {c.pc}, start : {c.start}, new : {c.new}, prefix : {prefix}, i : {c.i}]
  BY <1>1 DEF Call
<1>4. [d EXCEPT !.i = i] = Call(d.pc, d.start, d.new, d.prefix, i)
  BY <1>3 DEF Call
<1>5. d.pc = c.pc /\ d.start = c.start /\ d.new = c.new /\ d.prefix = prefix
  BY <1>3
<1> QED BY <1>2, <1>4, <1>5

(* The same for a call done hashing. *)
LEMMA CallOffered ==
  ASSUME NEW c \in JobType
  PROVE  [c EXCEPT !.pc = "offer", !.prefix = <<>>, !.i = 0]
           = Call("offer", c.start, c.new, <<>>, 0)
<1> DEFINE d == [c EXCEPT !.pc = "offer"]
           e == [d EXCEPT !.prefix = <<>>]
<1>1. d = Call("offer", c.start, c.new, c.prefix, c.i)
  BY DEF Call, JobType
<1>2. e = Call("offer", c.start, c.new, <<>>, c.i)
  <2> HIDE DEF d
  <2> QED BY <1>1 DEF Call
<1>3. [c EXCEPT !.pc = "offer", !.prefix = <<>>, !.i = 0] = [e EXCEPT !.i = 0]
  OBVIOUS
<1> HIDE DEF d, e
<1>4. [e EXCEPT !.i = 0] = Call("offer", c.start, c.new, <<>>, 0)
  BY <1>2 DEF Call
<1> QED BY <1>3, <1>4

(* The same for a call that takes the lock. *)
LEMMA CallLocked ==
  ASSUME NEW c \in JobType, NEW prefix
  PROVE  [c EXCEPT !.pc = "validate", !.i = 1, !.prefix = prefix]
           = Call("validate", c.start, c.new, prefix, 1)
<1> DEFINE d == [c EXCEPT !.pc = "validate"]
           e == [d EXCEPT !.i = 1]
<1>1. d = Call("validate", c.start, c.new, c.prefix, c.i)
  BY DEF Call, JobType
<1>2. e = Call("validate", c.start, c.new, c.prefix, 1)
  <2> HIDE DEF d
  <2> QED BY <1>1 DEF Call
<1>3. [c EXCEPT !.pc = "validate", !.i = 1, !.prefix = prefix] = [e EXCEPT !.prefix = prefix]
  OBVIOUS
<1> HIDE DEF d, e
<1>4. [e EXCEPT !.prefix = prefix] = Call("validate", c.start, c.new, prefix, 1)
  BY <1>2 DEF Call
<1> QED BY <1>3, <1>4

(* The same for a slot that a call takes. *)
LEMMA CallSubmitted ==
  ASSUME NEW start \in Nat, NEW new
  PROVE  [NoJob EXCEPT !.pc = "offer", !.start = start, !.new = new]
           = Call("offer", start, new, <<>>, 0)
<1> DEFINE d == [NoJob EXCEPT !.pc = "offer"]
           e == [d EXCEPT !.start = start]
<1>1. d = Call("offer", 0, <<>>, <<>>, 0)
  BY DEF NoJob, Call
<1>2. e = Call("offer", start, <<>>, <<>>, 0)
  <2> HIDE DEF d
  <2> QED BY <1>1 DEF Call
<1>3. [NoJob EXCEPT !.pc = "offer", !.start = start, !.new = new] = [e EXCEPT !.new = new]
  OBVIOUS
<1> HIDE DEF d, e
<1>4. [e EXCEPT !.new = new] = Call("offer", start, new, <<>>, 0)
  BY <1>2 DEF Call
<1> QED BY <1>3, <1>4

(* The start of the hashing off the lock keeps PowInv. *)
LEMMA BeginPreVerifyInv ==
  ASSUME PowInv, NEW j \in Job, NEW new \in Candidates, NEW start \in 1..Len(blocks),
         BeginPreVerify(j, start, new)
  PROVE  PowInv'
<1> DEFINE c == [pc |-> "pre", start |-> start, new |-> new,
                 prefix |-> SubSeq(blocks, 1, start), i |-> 1]
<1>1. new \in Seq(Block)
  BY PowAssumption
<1>2. SubSeq(blocks, 1, start) \in Seq(Block)
  BY SubSeqProperties DEF PowInv, IsChain
<1>3. c \in JobType /\ JobOK(c) /\ c.pc # "validate"
  BY <1>1, <1>2 DEF JobType, JobOK, PowInv, IsChain
<1>4. JobsOK'
  <2>1. blocks' = blocks /\ job' = [job EXCEPT ![j] = c]
    BY DEF BeginPreVerify
  <2> HIDE DEF c
  <2> QED BY <1>3, <2>1, OneJobChanges
<1>5. powOK' \subseteq Meets
  BY DEF BeginPreVerify, Prune, PowInv
<1>6. IsChain(blocks)' /\ (\A b \in verified : b \in Block /\ GoodPow(b))'
  BY DEF BeginPreVerify, PowInv, GoodPow
<1> QED BY <1>4, <1>5, <1>6, PowInvParts

(* A hash off the lock keeps it. *)
LEMMA PreVerifyInv ==
  ASSUME PowInv, NEW j \in Job, PreVerify(j)
  PROVE  PowInv'
<1> DEFINE b == job[j].new[job[j].i]
           prefix == Append(job[j].prefix, b)
           c == Call("pre", job[j].start, job[j].new, prefix, job[j].i + 1)
<1>1. job[j] \in JobType /\ JobOK(job[j]) /\ job[j].pc = "pre"
  BY DEF PowInv, PreVerify
<1>2. b \in Block
  BY <1>1 DEF JobType, JobOK, PreVerify, InLine
<1>3. prefix \in Seq(Block)
  BY <1>1, <1>2, AppendProperties DEF JobType
<1>4. c \in JobType /\ JobOK(c) /\ c.pc # "validate"
  <2> HIDE DEF prefix
  <2> QED BY <1>1, <1>3 DEF JobType, JobOK, Call
<1>5. JobsOK'
  <2>1. job' = [job EXCEPT ![j] = [job[j] EXCEPT !.prefix = prefix, !.i = job[j].i + 1]]
    BY DEF PreVerify, PowInv
  <2>2. [job[j] EXCEPT !.prefix = prefix, !.i = job[j].i + 1] = c
    <3> HIDE DEF prefix
    <3> QED BY <1>1, CallAdvances
  <2>3. blocks' = blocks /\ job' = [job EXCEPT ![j] = c]
    BY <2>1, <2>2 DEF PreVerify
  <2> HIDE DEF c
  <2> QED BY <1>4, <2>3, OneJobChanges
<1>6. powOK' \subseteq Meets
  BY DEF PreVerify, PowKey, PowInv
<1>7. IsChain(blocks)' /\ (\A x \in verified : x \in Block /\ GoodPow(x))'
  BY DEF PreVerify, PowInv, GoodPow
<1> QED BY <1>5, <1>6, <1>7, PowInvParts

(* The end of the hashing keeps it. *)
LEMMA EndPreVerifyInv ==
  ASSUME PowInv, NEW j \in Job, EndPreVerify(j)
  PROVE  PowInv'
<1> DEFINE c == Call("offer", job[j].start, job[j].new, <<>>, 0)
<1>1. job[j] \in JobType /\ JobOK(job[j]) /\ job[j].pc = "pre"
  BY DEF PowInv, EndPreVerify
<1>2. c \in JobType /\ JobOK(c) /\ c.pc # "validate"
  BY <1>1 DEF JobType, JobOK, Call
<1>3. JobsOK'
  <2>1. [job[j] EXCEPT !.pc = "offer", !.prefix = <<>>, !.i = 0] = c
    BY <1>1, CallOffered
  <2>2. blocks' = blocks /\ job' = [job EXCEPT ![j] = c]
    BY <2>1 DEF EndPreVerify
  <2> HIDE DEF c
  <2> QED BY <1>2, <2>2, OneJobChanges
<1>4. /\ IsChain(blocks)' /\ (powOK \subseteq Meets)'
      /\ (\A x \in verified : x \in Block /\ GoodPow(x))'
  BY DEF EndPreVerify, PowInv, GoodPow
<1> QED BY <1>3, <1>4, PowInvParts

(* A block handed in without hashing keeps it. *)
LEMMA SubmitInv ==
  ASSUME PowInv, NEW j \in Job, NEW b \in Block, Submit(j, b)
  PROVE  PowInv'
<1> DEFINE c == Call("offer", Len(blocks), <<b>>, <<>>, 0)
<1>1. c \in JobType /\ JobOK(c) /\ c.pc # "validate"
  BY DEF JobType, JobOK, PowInv, IsChain, Call
<1>2. JobsOK'
  <2>1. blocks' = blocks /\ job' = [job EXCEPT ![j] = c]
    <3>1. Len(blocks) \in Nat
      BY DEF PowInv, IsChain
    <3>2. [NoJob EXCEPT !.pc = "offer", !.start = Len(blocks), !.new = <<b>>] = c
      BY <3>1, CallSubmitted
    <3> HIDE DEF c
    <3> QED BY <3>2 DEF Submit
  <2> HIDE DEF c
  <2> QED BY <1>1, <2>1, OneJobChanges
<1>3. /\ IsChain(blocks)' /\ (powOK \subseteq Meets)'
      /\ (\A x \in verified : x \in Block /\ GoodPow(x))'
  BY DEF Submit, PowInv, GoodPow
<1> QED BY <1>2, <1>3, PowInvParts

(* Taking the lock keeps it. *)
LEMMA TakeLockInv ==
  ASSUME PowInv, NEW j \in Job, TakeLock(j)
  PROVE  PowInv'
<1> DEFINE start == job[j].start
           new == job[j].new
           prefix == SubSeq(blocks, 1, start)
           c == Call("validate", start, new, prefix, 1)
<1>1. job[j] \in JobType /\ JobOK(job[j]) /\ job[j].pc = "offer"
  BY DEF PowInv, TakeLock
<1>2. start \in Nat /\ start > 0 /\ new \in Seq(Block)
  BY <1>1 DEF JobType, JobOK
<1>3. JobsOK'
  <2>1. CASE start <= Len(blocks) /\ Heavier(start, new)
    <3>1. IsChain(prefix) /\ prefix \in Seq(Block)
      BY <1>2, <2>1, PrefixIsChain DEF PowInv, IsChain
    <3>2. SubSeq(new, 1, Len(new)) = new
      BY <1>2
    <3>3. SumWork(prefix) + SumWork(new) > SumWork(blocks)
      BY <1>2, <2>1, <3>1, SumWorkConcat DEF Heavier
    <3>4. c \in JobType
      <4> HIDE DEF prefix
      <4> QED BY <1>2, <3>1 DEF JobType, Call
    <3>5. JobOK(c)
      <4>1. /\ c.pc = "validate" /\ c.start = start /\ c.new = new
            /\ c.prefix = prefix /\ c.i = 1
        BY DEF Call
      <4>2. 1 <= Len(new) + 1
        BY <1>2
      <4> HIDE DEF c, prefix, start, new
      <4>3. Remaining(c) = new
        BY <3>2, <4>1 DEF Remaining
      <4>4. IsChain(c.prefix) /\ SumWork(c.prefix) + SumWork(Remaining(c)) > SumWork(blocks)
        BY <3>1, <3>3, <4>1, <4>3
      <4> QED BY <1>2, <4>1, <4>2, <4>4 DEF JobOK
    <3>6. [job[j] EXCEPT !.pc = "validate", !.i = 1, !.prefix = prefix] = c
      <4> HIDE DEF prefix
      <4> QED BY <1>1, CallLocked
    <3>7. blocks' = blocks /\ job' = [job EXCEPT ![j] = c]
      <4> HIDE DEF c
      <4> QED BY <2>1, <3>6 DEF TakeLock
    <3>8. \A k \in Job : job[k].pc # "validate"
      BY DEF TakeLock, LockFree
    <3> HIDE DEF c
    <3> QED BY <3>4, <3>5, <3>7, <3>8, OneJobChanges
  <2>2. CASE ~(start <= Len(blocks) /\ Heavier(start, new))
    <3>1. blocks' = blocks /\ job' = [job EXCEPT ![j] = NoJob]
      BY <2>2 DEF TakeLock
    <3> QED BY <3>1, NoJobOK, OneJobChanges
  <2> QED BY <2>1, <2>2
<1>4. /\ IsChain(blocks)' /\ (powOK \subseteq Meets)'
      /\ (\A x \in verified : x \in Block /\ GoodPow(x))'
  BY DEF TakeLock, PowInv, GoodPow
<1> QED BY <1>3, <1>4, PowInvParts

(* Marking a block adds that block and no other. *)
LEMMA MarkAdds ==
  ASSUME NEW b, Mark(b)
  PROVE  verified' \subseteq verified \cup {b}
<1>1. CASE b \in verified \/ Cardinality(verified) < MaxVerified
  BY <1>1 DEF Mark
<1>2. CASE ~(b \in verified \/ Cardinality(verified) < MaxVerified)
  <2>1. PICK kept \in SUBSET verified : verified' = kept \cup {b}
    BY <1>2 DEF Mark
  <2> QED BY <2>1
<1> QED BY <1>1, <1>2

(* Validating a block under the lock keeps it. *)
LEMMA ValidateInv ==
  ASSUME PowInv, NEW j \in Job, Validate(j)
  PROVE  PowInv'
<1> DEFINE old == job[j]
           b == old.new[old.i]
           passes == Linked(old.prefix, b) /\ PassesPow(old.prefix, b)
<1>1. old \in JobType /\ JobOK(old) /\ old.pc = "validate"
  BY DEF PowInv, Validate
<1>2. old.new \in Seq(Block) /\ old.i \in 1..Len(old.new) /\ IsChain(old.prefix)
  BY <1>1 DEF JobType, JobOK, Validate
<1>3. b \in Block
  BY <1>2, RestWork
<1>4. CASE passes
  <2> DEFINE prefix == Append(old.prefix, b)
             c == Call("validate", old.start, old.new, prefix, old.i + 1)
  <2>1. IsChain(prefix) /\ prefix \in Seq(Block) /\ old.prefix = PathTo(Parent[b])
    BY <1>2, <1>3, <1>4, LinkedExtends DEF IsChain
  <2>2. GoodPow(b)
    BY <1>3, <1>4, <2>1, PassesIsMeets
  <2>3. SumWork(prefix) = SumWork(old.prefix) + Work[b]
    BY <1>2, <1>3, SumWorkAppend DEF IsChain
  <2>4. /\ SubSeq(old.new, old.i + 1, Len(old.new)) \in Seq(Block)
        /\ SumWork(Remaining(old)) = Work[b] + SumWork(SubSeq(old.new, old.i + 1, Len(old.new)))
    BY <1>2, RestWork DEF Remaining
  <2>5. SumWork(old.prefix) + SumWork(Remaining(old)) > SumWork(blocks)
    BY <1>1 DEF JobOK
  <2>6. SumWork(prefix) + SumWork(SubSeq(old.new, old.i + 1, Len(old.new))) > SumWork(blocks)
    <3>1. SumWork(old.prefix) \in Nat /\ Work[b] \in Nat
          /\ SumWork(SubSeq(old.new, old.i + 1, Len(old.new))) \in Nat
      BY <1>2, <1>3, <2>4, SumWorkType, BlockTreeAssumption DEF IsChain
    <3> HIDE DEF prefix, b, old
    <3> QED BY <2>3, <2>4, <2>5, <3>1
  <2>7. c \in JobType
    <3> HIDE DEF prefix
    <3> QED BY <1>1, <2>1 DEF JobType, Call
  <2>8. JobOK(c)
    <3>1. c.pc = "validate" /\ c.start = old.start /\ c.new = old.new
          /\ c.prefix = prefix /\ c.i = old.i + 1
      BY DEF Call
    <3>2. old.start > 0
      BY <1>1 DEF JobOK
    <3>3. 0 < old.i + 1 /\ old.i + 1 <= Len(old.new) + 1
      BY <1>2
    <3> HIDE DEF c, prefix, old
    <3> QED BY <2>1, <2>6, <3>1, <3>2, <3>3 DEF JobOK, Remaining
  <2>9. JobsOK'
    <3>1. job' = [job EXCEPT ![j] = [old EXCEPT !.prefix = prefix, !.i = old.i + 1]]
      BY <1>4 DEF Validate, PowInv
    <3>2. [old EXCEPT !.prefix = prefix, !.i = old.i + 1] = c
      <4> HIDE DEF prefix
      <4> QED BY <1>1, CallAdvances
    <3>3. blocks' = blocks /\ job' = [job EXCEPT ![j] = c]
      BY <3>1, <3>2 DEF Validate
    <3>4. \A k \in Job \ {j} : job[k].pc # "validate"
      BY <1>1 DEF PowInv
    <3> HIDE DEF c
    <3> QED BY <2>7, <2>8, <3>3, <3>4, OneJobChanges
  <2>10. verified' \subseteq verified \cup {b}
    BY <1>4, MarkAdds DEF Validate
  <2>11. (\A x \in verified : x \in Block /\ GoodPow(x))'
    BY <1>3, <2>2, <2>10 DEF PowInv, GoodPow
  <2>12. IsChain(blocks)' /\ (powOK \subseteq Meets)'
    BY DEF Validate, PowInv
  <2> QED BY <2>9, <2>11, <2>12, PowInvParts
<1>5. CASE ~passes
  <2>1. blocks' = blocks /\ job' = [job EXCEPT ![j] = NoJob] /\ verified' = verified
    BY <1>5 DEF Validate, Refuse
  <2>2. JobsOK'
    BY <2>1, NoJobOK, OneJobChanges
  <2>3. /\ IsChain(blocks)' /\ (powOK \subseteq Meets)'
        /\ (\A x \in verified : x \in Block /\ GoodPow(x))'
    BY <2>1 DEF Validate, PowInv, GoodPow
  <2> QED BY <2>2, <2>3, PowInvParts
<1> QED BY <1>4, <1>5

(* Only here does the chain move, and it gains work. *)
LEMMA CommitInv ==
  ASSUME PowInv, NEW j \in Job, Commit(j)
  PROVE  PowInv' /\ SumWork(blocks') > SumWork(blocks)
<1> DEFINE old == job[j]
<1>1. old \in JobType /\ JobOK(old) /\ old.pc = "validate"
  BY DEF PowInv, Commit
<1>2. old.i = Len(old.new) + 1 /\ old.new \in Seq(Block)
  BY <1>1 DEF JobType, JobOK, Commit
<1>3. SubSeq(old.new, old.i, Len(old.new)) = <<>>
  BY <1>2
<1>4. SumWork(old.prefix) > SumWork(blocks)
  <2>1. SumWork(Remaining(old)) = 0
    BY <1>3, SumWorkEmpty DEF Remaining
  <2>2. SumWork(old.prefix) + SumWork(Remaining(old)) > SumWork(blocks) /\ IsChain(old.prefix)
    BY <1>1 DEF JobOK
  <2>3. SumWork(old.prefix) \in Nat
    BY <2>2, SumWorkType DEF IsChain
  <2> QED BY <2>1, <2>2, <2>3
<1>5. blocks' = old.prefix /\ IsChain(blocks')
  BY <1>1 DEF Commit, JobOK
<1>6. JobsOK'
  <2>1. job' = [job EXCEPT ![j] = NoJob]
    BY DEF Commit
  <2>2. job' \in [Job -> JobType]
    BY <2>1, NoJobOK DEF PowInv
  <2>3. \A k \in Job : job'[k] = IF k = j THEN NoJob ELSE job[k]
    BY <2>1 DEF PowInv
  <2>4. \A k \in Job : job'[k].pc # "validate"
    BY <1>1, <2>3, NoJobOK DEF PowInv
  <2>5. ASSUME NEW k \in Job
        PROVE  JobOK(job[k])'
    <3>1. JobOK(job'[k])
      BY <2>3, NoJobOK DEF PowInv
    <3> QED BY <2>4, <3>1 DEF JobOK
  <2> QED BY <2>2, <2>4, <2>5 DEF JobsOK
<1>7. (powOK \subseteq Meets)' /\ (\A x \in verified : x \in Block /\ GoodPow(x))'
  BY DEF Commit, PowInv, GoodPow
<1>8. IsChain(blocks)'
  BY <1>5
<1> QED BY <1>4, <1>5, <1>6, <1>7, <1>8, PowInvParts

(* Every step keeps PowInv. *)
LEMMA PowStepInv ==
  ASSUME PowInv, [PowNext]_powVars
  PROVE  PowInv'
<1>1. CASE PowNext
  <2> SUFFICES ASSUME NEW j \in Job,
                      \/ \E new \in Candidates, start \in 1..Len(blocks) :
                           BeginPreVerify(j, start, new)
                      \/ PreVerify(j) \/ EndPreVerify(j)
                      \/ \E b \in Block : Submit(j, b)
                      \/ TakeLock(j) \/ Validate(j) \/ Commit(j)
               PROVE  PowInv'
    BY <1>1 DEF PowNext
  <2> QED BY BeginPreVerifyInv, PreVerifyInv, EndPreVerifyInv, SubmitInv, TakeLockInv,
             ValidateInv, CommitInv
<1>2. CASE UNCHANGED powVars
  BY <1>2 DEF powVars, PowInv, JobOK, GoodPow
<1> QED BY <1>1, <1>2

(* The invariant says what the property needs. *)
LEMMA PowInvMemos == PowInv => MemosAgree
<1> SUFFICES ASSUME PowInv, NEW b \in Block \ {Genesis}
             PROVE  PassesPow(PathTo(Parent[b]), b)
                      <=> <<SeedFor(PathTo(Parent[b]), Height[b]), b>> \in Meets
  BY DEF MemosAgree
<1> QED BY PassesIsMeets DEF GoodPow

-----------------------------------------------------------------------------
(* A step of the miner is a step of the chain, a submission, or neither.   *)
LEMMA NextPow ==
  ASSUME PowInv, [Next]_vars
  PROVE  PowInv'
<1>1. CASE Next
  <2>1. CASE PowNext
    BY <2>1, PowStepInv
  <2>2. CASE \E w \in Worker : WorkerStep(w)
    <3>1. UNCHANGED powVars
      BY <2>2 DEF WorkerStep, TakeTemplate, TakeSeed, Leave
    <3> QED BY <3>1, PowStepInv
  <2>3. CASE \E w \in Worker, j \in Job, b \in Block : Solve(w, j, b)
    <3>1. PICK j \in Job, b \in Block : Submit(j, b)
      BY <2>3 DEF Solve
    <3> QED BY <3>1, SubmitInv
  <2> QED BY <1>1, <2>1, <2>2, <2>3 DEF Next
<1>2. CASE UNCHANGED vars
  <2>1. UNCHANGED powVars
    BY <1>2 DEF vars
  <2> QED BY <2>1, PowStepInv
<1> QED BY <1>1, <1>2

(* "Outcome is byte-identical": on any branch, at any moment, a block      *)
(* passes the proof-of-work check exactly if its hash under the seed of    *)
(* its own ancestry meets its target, whatever powOK, verifiedPow and the  *)
(* VM cache hold.                                                          *)
THEOREM MemosAlwaysAgree == Spec => []MemosAgree
<1>1. Init => PowInv
  BY PowInitInv DEF Init
<1>2. PowInv /\ [Next]_vars => PowInv'
  BY NextPow
<1>3. PowInv => MemosAgree
  BY PowInvMemos
<1> QED BY <1>1, <1>2, <1>3, PTL DEF Spec

-----------------------------------------------------------------------------
(* The miner.  A template that is not for the tip is for a block with less *)
(* work than the main chain, and so can never be for the tip again.        *)

Older(b) == SumWork(PathTo(b)) \in Nat /\ SumWork(PathTo(b)) < SumWork(blocks)

(* A VM holds the seed of its epoch on the main chain, unless that was     *)
(* replaced since.                                                         *)
VMOK(w) ==
  /\ vm[w].epoch <= 0 => vm[w].seed = EpochSeed0
  /\ vm[w].epoch > 0 /\ ~swapped[w] =>
       /\ vm[w].epoch * EpochLength \in 1..Len(blocks)
       /\ vm[w].seed = blocks[vm[w].epoch * EpochLength]

WorkOK(w) ==
  /\ step[w] = "seed" => Older(work[w]) \/ work[w] = Tip
  /\ step[w] = "hash" =>
       Older(work[w]) \/ (work[w] = Tip /\ vm[w].epoch = Epoch(Len(blocks)))

MinerShape ==
  /\ work \in [Worker -> Block \cup {NoBlock}]
  /\ vm \in [Worker -> [epoch : Int, seed : Block \cup {EpochSeed0}]]
  /\ step \in [Worker -> {"template", "seed", "hash"}]
  /\ swapped \in [Worker -> BOOLEAN]

MinerInv ==
  /\ PowInv
  /\ MinerShape
  /\ \A w \in Worker : VMOK(w) /\ WorkOK(w)

(* A block has one height on a chain. *)
LEMMA HeightsOnChain ==
  ASSUME NEW s, IsChain(s), NEW i \in 1..Len(s)
  PROVE  s[i] \in Block /\ Height[s[i]] = i - 1
<1>1. Len(s) \in Nat /\ s \in Seq(Block)
  BY DEF IsChain
<1>2. CASE i = 1
  BY <1>1, <1>2, BlockTreeAssumption DEF IsChain
<1>3. CASE i # 1
  <2>1. i \in 2..Len(s)
    BY <1>1, <1>3
  <2> QED BY <1>1, <2>1 DEF IsChain, LinkedAt
<1> QED BY <1>2, <1>3

(* A block keeps its place on every chain that holds it. *)
LEMMA SamePlace ==
  ASSUME NEW s, IsChain(s), NEW t, IsChain(t), NEW k \in 1..Len(s), s[k] \in BlocksOf(t)
  PROVE  k \in 1..Len(t) /\ t[k] = s[k]
<1>1. PICK i \in 1..Len(t) : t[i] = s[k]
  BY DEF BlocksOf
<1>2. Height[s[k]] = k - 1 /\ Height[t[i]] = i - 1
  BY HeightsOnChain
<1>3. i = k
  BY <1>1, <1>2
<1> QED BY <1>1, <1>3

(* The last height of the epoch before that of the next block. *)
LEMMA EpochStart ==
  ASSUME NEW h \in Nat
  PROVE  /\ Epoch(h) \in Nat
         /\ Epoch(h) > 0 => Epoch(h) * EpochLength \in 1..h
<1>1. EpochLength \in Nat /\ EpochLength > 0
  BY PowAssumption
<1>2. h \div EpochLength \in Nat /\ (h \div EpochLength) * EpochLength <= h
  BY <1>1
<1>3. \A e \in Nat : e > 0 => e * EpochLength \in Nat /\ e * EpochLength >= 1
  BY <1>1
<1> QED BY <1>2, <1>3 DEF Epoch

(* The chain only moves to more work. *)
LEMMA PowMoves ==
  ASSUME PowInv, PowNext
  PROVE  blocks' = blocks \/ SumWork(blocks') > SumWork(blocks)
<1>1. ASSUME NEW j \in Job, Commit(j)
      PROVE  SumWork(blocks') > SumWork(blocks)
  BY <1>1, CommitInv
<1> QED BY <1>1 DEF PowNext, BeginPreVerify, PreVerify, EndPreVerify, Submit, TakeLock, Validate

(* A chain has a work, and is the path to its tip. *)
LEMMA ChainWork ==
  ASSUME NEW s, IsChain(s)
  PROVE  SumWork(s) \in Nat /\ PathTo(TipOf(s)) = s
BY SumWorkType, PathToChain DEF IsChain

(* A step of the chain keeps what is said of the miner. *)
LEMMA PowStepMiner ==
  ASSUME MinerInv, PowNext, UNCHANGED <<work, vm, step>>,
         swapped' = [w \in Worker |->
           \/ swapped[w]
           \/ vm[w].epoch > 0 /\ vm[w].seed \notin BlocksOf(blocks')]
  PROVE  MinerInv'
<1>1. PowInv' /\ IsChain(blocks) /\ IsChain(blocks')
  BY PowStepInv DEF MinerInv, PowInv
<1>2. MinerShape'
  BY DEF MinerInv, MinerShape
<1>3. ASSUME NEW w \in Worker
      PROVE  VMOK(w)'
  <2> SUFFICES ASSUME vm[w].epoch > 0, ~swapped'[w]
               PROVE  /\ vm[w].epoch * EpochLength \in 1..Len(blocks')
                      /\ vm[w].seed = blocks'[vm[w].epoch * EpochLength]
    BY <1>3 DEF MinerInv, VMOK
  <2>1. ~swapped[w] /\ vm[w].seed \in BlocksOf(blocks')
    BY <1>3
  <2>2. /\ vm[w].epoch * EpochLength \in 1..Len(blocks)
        /\ vm[w].seed = blocks[vm[w].epoch * EpochLength]
    BY <1>3, <2>1 DEF MinerInv, VMOK
  <2> QED BY <1>1, <2>1, <2>2, SamePlace
<1>4. ASSUME NEW w \in Worker
      PROVE  WorkOK(w)'
  <2>1. CASE blocks' = blocks
    BY <1>3, <1>4, <2>1 DEF MinerInv, WorkOK, Older, Tip
  <2>2. CASE SumWork(blocks') > SumWork(blocks)
    <3>1. SumWork(blocks) \in Nat /\ SumWork(blocks') \in Nat /\ PathTo(Tip) = blocks
      BY <1>1, ChainWork DEF Tip
    <3>2. Older(work[w]) \/ work[w] = Tip => Older(work[w])'
      BY <2>2, <3>1 DEF Older
    <3> QED BY <1>4, <3>2 DEF MinerInv, WorkOK
  <2> QED BY <2>1, <2>2, PowMoves DEF MinerInv
<1> QED BY <1>1, <1>2, <1>3, <1>4 DEF MinerInv

(* MinerInv holds at first. *)
LEMMA MinerInitInv == Init => MinerInv
<1> SUFFICES ASSUME Init PROVE MinerInv
  OBVIOUS
<1>1. PowInv
  BY PowInitInv DEF Init
<1>2. MinerShape
  BY DEF Init, MinerShape, NoVM
<1>3. ASSUME NEW w \in Worker
      PROVE  VMOK(w) /\ WorkOK(w)
  BY <1>3 DEF Init, VMOK, WorkOK, NoVM
<1> QED BY <1>1, <1>2, <1>3 DEF MinerInv

(* A worker that gives up or hands in its block starts over. *)
LEMMA StartsOver ==
  ASSUME MinerInv, PowInv', NEW w \in Worker, blocks' = blocks,
         step' = [step EXCEPT ![w] = "template"], work' = [work EXCEPT ![w] = NoBlock],
         UNCHANGED <<vm, swapped>>
  PROVE  MinerInv'
<1>1. MinerShape'
  BY DEF MinerInv, MinerShape
<1>2. ASSUME NEW v \in Worker
      PROVE  VMOK(v)' /\ WorkOK(v)'
  BY <1>2 DEF MinerInv, MinerShape, VMOK, WorkOK, Older, Tip
<1> QED BY <1>1, <1>2 DEF MinerInv

(* Reading a template keeps MinerInv. *)
LEMMA TakeTemplateInv ==
  ASSUME MinerInv, NEW w \in Worker, TakeTemplate(w)
  PROVE  MinerInv'
<1>1. blocks' = blocks /\ PowInv' /\ Tip \in Block
  <2>1. UNCHANGED powVars
    BY DEF TakeTemplate
  <2> QED BY <2>1, PowStepInv, ChainHeights DEF MinerInv, powVars, PowInv, Tip
<1>2. MinerShape'
  BY <1>1 DEF TakeTemplate, MinerInv, MinerShape
<1>3. ASSUME NEW v \in Worker
      PROVE  VMOK(v)' /\ WorkOK(v)'
  BY <1>1, <1>3 DEF TakeTemplate, MinerInv, MinerShape, VMOK, WorkOK, Older, Tip
<1> QED BY <1>1, <1>2, <1>3 DEF MinerInv

(* Reading the seed keeps it. *)
LEMMA TakeSeedInv ==
  ASSUME MinerInv, NEW w \in Worker, TakeSeed(w)
  PROVE  MinerInv'
<1> DEFINE next == SeedForNext
           e == Epoch(Len(blocks))
<1>1. blocks' = blocks /\ PowInv' /\ IsChain(blocks) /\ Len(blocks) \in Nat
  <2>1. UNCHANGED powVars
    BY DEF TakeSeed
  <2> QED BY <2>1, PowStepInv DEF MinerInv, powVars, PowInv, IsChain
<1>2. /\ next.epoch = e /\ e \in Nat
      /\ e > 0 => e * EpochLength \in 1..Len(blocks) /\ next.seed = blocks[e * EpochLength]
      /\ e = 0 => next.seed = EpochSeed0
  BY <1>1, EpochStart DEF SeedForNext, SeedFor
<1>3. next \in [epoch : Int, seed : Block \cup {EpochSeed0}]
  <2>1. next.seed \in Block \cup {EpochSeed0}
    BY <1>1, <1>2, HeightsOnChain
  <2> QED BY <1>2, <2>1 DEF SeedForNext
<1> HIDE DEF next
<1>4. /\ vm' \in [Worker -> [epoch : Int, seed : Block \cup {EpochSeed0}]]
      /\ swapped' \in [Worker -> BOOLEAN]
      /\ vm'[w].epoch = e
      /\ \A v \in Worker :
           \/ vm'[v] = vm[v] /\ swapped'[v] = swapped[v]
           \/ vm'[v] = next
  BY <1>2, <1>3 DEF next, TakeSeed, KeepsVM, MinerInv, MinerShape
<1>5. MinerShape'
  BY <1>4 DEF TakeSeed, MinerInv, MinerShape
<1>6. ASSUME NEW v \in Worker
      PROVE  VMOK(v)'
  BY <1>1, <1>2, <1>4, <1>6 DEF MinerInv, VMOK
<1>7. ASSUME NEW v \in Worker
      PROVE  WorkOK(v)'
  <2>1. CASE v = w
    BY <1>1, <1>4, <2>1 DEF TakeSeed, MinerInv, MinerShape, WorkOK, Older, Tip
  <2>2. CASE v # w
    <3>1. step'[v] = step[v] /\ work'[v] = work[v] /\ vm'[v] = vm[v]
      BY <1>7, <2>2 DEF TakeSeed, MinerInv, MinerShape
    <3> QED BY <1>1, <1>7, <3>1 DEF MinerInv, WorkOK, Older, Tip
  <2> QED BY <2>1, <2>2
<1> QED BY <1>1, <1>5, <1>6, <1>7 DEF MinerInv

(* Every step keeps MinerInv. *)
LEMMA MinerStepInv ==
  ASSUME MinerInv, [Next]_vars
  PROVE  MinerInv'
<1>1. PowInv'
  BY NextPow DEF MinerInv
<1>2. ASSUME PowNext,
             swapped' = [w \in Worker |->
               \/ swapped[w]
               \/ vm[w].epoch > 0 /\ vm[w].seed \notin BlocksOf(blocks')],
             UNCHANGED <<work, vm, step>>
      PROVE  MinerInv'
  BY <1>2, PowStepMiner
<1>3. ASSUME NEW w \in Worker, WorkerStep(w)
      PROVE  MinerInv'
  <2>1. CASE Leave(w)
    BY <1>1, <2>1, StartsOver DEF Leave, powVars
  <2> QED BY <1>3, <2>1, TakeTemplateInv, TakeSeedInv DEF WorkerStep
<1>4. ASSUME NEW w \in Worker, NEW j \in Job, NEW b \in Block, Solve(w, j, b)
      PROVE  MinerInv'
  BY <1>1, <1>4, StartsOver DEF Solve, Submit
<1>5. CASE UNCHANGED vars
  BY <1>1, <1>5 DEF vars, powVars, workerVars, MinerInv, MinerShape, VMOK, WorkOK, Older, Tip
<1> QED BY <1>2, <1>3, <1>4, <1>5 DEF Next

(* MinerInv gives the property. *)
LEMMA MinerInvHashes == MinerInv => HashesCount
<1> SUFFICES ASSUME MinerInv, NEW w \in Worker, step[w] = "hash", work[w] = Tip, ~swapped[w]
             PROVE  vm[w].seed = RightSeed(w)
  BY DEF HashesCount
<1>1. /\ IsChain(blocks) /\ PathTo(Tip) = blocks /\ SumWork(blocks) \in Nat
      /\ Height[Tip] + 1 = Len(blocks) /\ Len(blocks) \in Nat
  BY ChainWork, ChainHeights DEF MinerInv, PowInv, Tip
<1>2. vm[w].epoch = Epoch(Len(blocks))
  BY <1>1 DEF MinerInv, WorkOK, Older
<1>3. RightSeed(w) = SeedFor(blocks, Len(blocks))
  BY <1>1 DEF RightSeed
<1>4. Epoch(Len(blocks)) \in Nat
  BY <1>1, EpochStart
<1> QED BY <1>2, <1>3, <1>4 DEF MinerInv, VMOK, SeedFor

(* A worker that hashes for the tip hashes with the seed of the block it   *)
(* mines, unless a reorg replaced the boundary of its epoch after it built *)
(* its VM: mineWorker reads the template and the epoch seed in two steps,  *)
(* and a tip move between them leaves a template that is no longer for the *)
(* tip, and never will be again because the main chain only gains work.    *)
THEOREM HashesAlwaysCount == Spec => []HashesCount
<1>1. Init => MinerInv
  BY MinerInitInv
<1>2. MinerInv /\ [Next]_vars => MinerInv'
  BY MinerStepInv
<1>3. MinerInv => HashesCount
  BY MinerInvHashes
<1> QED BY <1>1, <1>2, <1>3, PTL DEF Spec
=============================================================================
