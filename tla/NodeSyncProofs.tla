--------------------------- MODULE NodeSyncProofs ---------------------------
(***************************************************************************)
(* What holds of the sync attempts of a node for every network: any number *)
(* of peers and attempts, any batch and chunk sizes, any failures.         *)
(***************************************************************************)
EXTENDS NodeSync, ChainCoreProofs

Stages == {"idle", "compare", "probe", "fetch", "adopt", "salvage", "reread"}

Attempt ==
  [pc : Stages, peer : Peer \cup {NoBlock}, their : Block \cup {NoBlock}, ourH : Nat,
   lo : Nat, hi : Int, anc : Nat, reorg : BOOLEAN, from : Nat, pending : Seq(Block)]

(* What each stage leaves to the next. *)
AttemptOK(a) ==
  /\ a \in Attempt
  /\ a.pc # "idle" => a.peer \in Peer /\ a.their \in Block
  /\ a.pc = "adopt" => Due(a)
  /\ a.pc \in {"adopt", "salvage"} => Len(a.pending) > 0

AttemptsOK ==
  /\ att = [s \in Slot |-> att[s]]
  /\ \A s \in Slot : AttemptOK(att[s])

(* The tips that peers show. *)
Shown == PeerTips \cup {PeerStart[p] : p \in Peer}
PeersOK == peerTip \in [Peer -> Shown]

Memos == [Peer -> Block \cup {NoBlock}]

HealthOK ==
  /\ table \subseteq Peer /\ resting \subseteq Peer
  /\ fails \in [Peer -> Nat]
  /\ \A p \in Peer \ Seeds : fails[p] < EvictAfter
  /\ doomed \in Memos
  /\ SeedsStay

SyncInv == CoreInv /\ PeersOK /\ HealthOK /\ AttemptsOK

-----------------------------------------------------------------------------
(* Peers serve chains of blocks. *)
LEMMA ShownChains ==
  \A b \in Shown : b \in Block /\ Path[b] \in Seq(Block) /\ IsChain(Path[b])
                   /\ BlocksOf(Path[b]) \subseteq Sound
<1> SUFFICES ASSUME NEW b \in Shown
             PROVE  b \in Block /\ Path[b] \in Seq(Block) /\ IsChain(Path[b])
                    /\ BlocksOf(Path[b]) \subseteq Sound
  OBVIOUS
<1>1. b \in Block /\ IsChain(PathTo(b)) /\ BlocksOf(PathTo(b)) \subseteq Sound
  BY NodeSyncAssumption DEF Shown
<1>2. Path[b] = PathTo(b)
  BY <1>1 DEF Path
<1> QED BY <1>1, <1>2 DEF IsChain

(* An attempt that is over. *)
LEMMA IdleOK == AttemptOK(Idle) /\ Idle \in Attempt /\ Idle.pending = <<>>
<1>1. <<>> \in Seq(Block)
  BY EmptySeq
<1> QED BY <1>1 DEF Idle, AttemptOK, Attempt, Stages

(* An attempt that begins. *)
LEMMA AttemptBegins ==
  ASSUME NEW p \in Peer, NEW t \in Block
  PROVE  AttemptOK([Idle EXCEPT !.pc = "compare", !.peer = p, !.their = t])
<1> DEFINE a == [Idle EXCEPT !.pc = "compare", !.peer = p, !.their = t]
<1>1. a \in Attempt /\ a.pc = "compare" /\ a.peer = p /\ a.their = t
  BY IdleOK DEF Attempt, Stages
<1> HIDE DEF a
<1> QED BY <1>1 DEF AttemptOK, a

(* Recheck keeps the ancestor and forgets the search. *)
LEMMA FetchBegins ==
  ASSUME NEW p \in Peer, NEW t \in Block, NEW n \in Nat, NEW m \in Nat, NEW r \in BOOLEAN
  PROVE  AttemptOK([Idle EXCEPT !.pc = "fetch", !.peer = p, !.their = t, !.anc = n,
                                !.from = m, !.reorg = r])
<1> DEFINE a == [Idle EXCEPT !.pc = "fetch", !.peer = p, !.their = t, !.anc = n,
                             !.from = m, !.reorg = r]
<1>1. a \in Attempt
  BY IdleOK DEF Attempt, Stages
<1>2. a.pc = "fetch" /\ a.peer = p /\ a.their = t
  BY IdleOK DEF Attempt, Stages
<1> HIDE DEF a
<1> QED BY <1>1, <1>2 DEF AttemptOK, a

(* One attempt moves; the others do not. *)
LEMMA AttemptMoves ==
  ASSUME AttemptsOK, NEW s \in Slot, NEW a, AttemptOK(a), att' = [att EXCEPT ![s] = a]
  PROVE  AttemptsOK'
<1>1. att' = [t \in Slot |-> IF t = s THEN a ELSE att[t]]
  BY DEF AttemptsOK
<1>2. att' = [t \in Slot |-> att'[t]]
  BY <1>1
<1>3. ASSUME NEW t \in Slot
      PROVE  AttemptOK(att'[t])
  BY <1>1 DEF AttemptsOK
<1> QED BY <1>2, <1>3 DEF AttemptsOK, AttemptOK, Due, Complete

(* peerResult, with the attempt's memo. *)
LEMMA PeerResultKeepsHealth ==
  ASSUME HealthOK, NEW p \in Peer, NEW ok, NEW memo \in Memos, PeerResult(p, ok, memo)
  PROVE  HealthOK'
<1>1. CASE ok
  BY <1>1, NodeSyncAssumption DEF PeerResult, HealthOK, SeedsStay
<1>2. CASE ~ok /\ Evicts(p)
  <2>1. /\ table' = table \ {p} /\ fails' = [fails EXCEPT ![p] = 0]
        /\ resting' = resting \ {p} /\ doomed' = [memo EXCEPT ![p] = NoBlock]
        /\ p \notin Seeds
    BY <1>2 DEF PeerResult, Evicts
  <2>2. doomed' \in Memos
    BY <2>1 DEF Memos
  <2> QED BY <2>1, <2>2, NodeSyncAssumption DEF HealthOK, SeedsStay
<1>3. CASE ~ok /\ ~Evicts(p)
  <2>1. /\ fails' = [fails EXCEPT ![p] = fails[p] + 1] /\ UNCHANGED table
        /\ resting' = resting \cup {p} /\ doomed' = memo
    BY <1>3 DEF PeerResult
  <2>2. fails \in [Peer -> Nat] /\ fails' \in [Peer -> Nat]
    BY <2>1 DEF HealthOK
  <2>3. ASSUME NEW q \in Peer \ Seeds
        PROVE  fails'[q] < EvictAfter
    <3>1. CASE q = p
      BY <1>3, <2>1, <2>2, <3>1, NodeSyncAssumption DEF Evicts
    <3>2. CASE q # p
      BY <2>1, <2>2, <3>2 DEF HealthOK
    <3> QED BY <3>1, <3>2
  <2> QED BY <2>1, <2>2, <2>3 DEF HealthOK, SeedsStay
<1> QED BY <1>1, <1>2, <1>3

(* An attempt ends. *)
LEMMA FinishKeeps ==
  ASSUME HealthOK, AttemptsOK, NEW s \in Slot, att[s].peer \in Peer, NEW ok, Finish(s, ok)
  PROVE  HealthOK' /\ AttemptsOK'
<1>1. att' = [att EXCEPT ![s] = Idle] /\ PeerResult(att[s].peer, ok, doomed)
  BY DEF Finish
<1>2. doomed \in Memos
  BY DEF HealthOK
<1> QED BY <1>1, <1>2, IdleOK, AttemptMoves, PeerResultKeepsHealth

-----------------------------------------------------------------------------
(* The steps, one by one. *)

(* The tip request, whoever makes it. *)
LEMMA AskTipStep ==
  ASSUME SyncInv, NEW s \in Slot, NEW p \in Peer, AskTip(s, p)
  PROVE  SyncInv'
<1>1. UNCHANGED <<chainVars, peerTip>>
  BY DEF AskTip
<1>2. CoreInv' /\ PeersOK'
  BY <1>1 DEF SyncInv, CoreInv, TypeOK, SoundChain, WorkIsSum, PeersOK, chainVars
<1>3. CASE /\ att' = [att EXCEPT ![s] = [Idle EXCEPT !.pc = "compare", !.peer = p,
                                                  !.their = peerTip[p]]]
           /\ table' = table \cup {p}
           /\ UNCHANGED <<fails, resting, doomed, bounds>>
  <2> DEFINE a == [Idle EXCEPT !.pc = "compare", !.peer = p, !.their = peerTip[p]]
  <2>1. peerTip[p] \in Block
    BY ShownChains DEF SyncInv, PeersOK
  <2>2. AttemptOK(a)
    BY <2>1, AttemptBegins
  <2> HIDE DEF a
  <2>3. AttemptsOK'
    BY <1>3, <2>2, AttemptMoves DEF SyncInv, a
  <2>4. HealthOK'
    BY <1>3 DEF SyncInv, HealthOK, SeedsStay
  <2> QED BY <1>2, <2>3, <2>4 DEF SyncInv
<1>4. CASE RequestFails /\ PeerResult(p, FALSE, doomed) /\ UNCHANGED att
  <2>1. doomed \in Memos
    BY DEF SyncInv, HealthOK
  <2>2. HealthOK'
    BY <1>4, <2>1, PeerResultKeepsHealth DEF SyncInv
  <2>3. AttemptsOK'
    BY <1>4 DEF SyncInv, AttemptsOK, AttemptOK, Due, Complete
  <2> QED BY <1>2, <2>2, <2>3 DEF SyncInv
<1> QED BY <1>3, <1>4 DEF AskTip

(* The comparison with the advertised tip. *)
LEMMA CompareStep ==
  ASSUME SyncInv, NEW s \in Slot, Compare(s)
  PROVE  SyncInv'
<1> DEFINE a == att[s]
<1>1. a.pc = "compare" /\ UNCHANGED <<chainVars, peerTip, bounds>>
  BY DEF Compare
<1>2. AttemptOK(a) /\ a.peer \in Peer /\ a.their \in Block
  BY <1>1 DEF SyncInv, AttemptsOK, AttemptOK
<1>3. CoreInv' /\ PeersOK'
  BY <1>1 DEF SyncInv, CoreInv, TypeOK, SoundChain, WorkIsSum, PeersOK, chainVars
<1>4. CASE /\ att' = [att EXCEPT ![s].pc = "probe", ![s].ourH = TipHeight,
                         ![s].hi = Least(TipHeight, Height[a.their])]
           /\ UNCHANGED health
  <2> DEFINE b == [a EXCEPT !.pc = "probe", !.ourH = TipHeight,
                            !.hi = Least(TipHeight, Height[a.their])]
  <2>1. TipHeight \in Nat
    <3>1. IsChain(blocks)
      BY DEF SyncInv, CoreInv, SoundChain
    <3> QED BY <3>1 DEF TipHeight, IsChain
  <2>2. Least(TipHeight, Height[a.their]) \in Int
    BY <1>2, <2>1, BlockTreeAssumption DEF Least
  <2>3. AttemptOK(b)
    <3> HIDE DEF a
    <3> QED BY <1>2, <2>1, <2>2 DEF AttemptOK, Attempt, Stages
  <2>4. att' = [att EXCEPT ![s] = b]
    BY <1>4 DEF SyncInv, AttemptsOK
  <2> HIDE DEF b
  <2>5. AttemptsOK'
    BY <2>3, <2>4, AttemptMoves DEF SyncInv
  <2>6. HealthOK'
    BY <1>4 DEF SyncInv, HealthOK, SeedsStay, health
  <2> QED BY <1>3, <2>5, <2>6 DEF SyncInv
<1>5. CASE Finish(s, TRUE)
  BY <1>2, <1>3, <1>5, FinishKeeps DEF SyncInv
<1> QED BY <1>4, <1>5 DEF Compare

(* One round of the binary search. *)
LEMMA ProbeStep ==
  ASSUME SyncInv, NEW s \in Slot, Probe(s)
  PROVE  SyncInv'
<1> DEFINE a == att[s]
           mid == Mid(a)
           b == IF mid <= TipHeight /\ blocks[mid + 1] = ChainOf(a.peer)[mid + 1]
                THEN [a EXCEPT !.anc = mid, !.lo = mid + 1]
                ELSE [a EXCEPT !.hi = mid - 1]
<1>1. /\ a.pc = "probe" /\ a.lo <= a.hi /\ att' = [att EXCEPT ![s] = b]
      /\ UNCHANGED <<chainVars, peerTip, health, bounds>>
  BY DEF Probe
<1>2. AttemptOK(a)
  BY DEF SyncInv, AttemptsOK
<1>3. mid \in Nat
  <2>1. a.lo \in Nat /\ a.hi \in Nat
    BY <1>1, <1>2 DEF AttemptOK, Attempt
  <2> QED BY <2>1 DEF Mid
<1>4. AttemptOK(b)
  <2> HIDE DEF a, mid
  <2>1. CASE b = [a EXCEPT !.anc = mid, !.lo = mid + 1]
    <3>1. a \in Attempt /\ mid + 1 \in Nat
      BY <1>2, <1>3 DEF AttemptOK
    <3> HIDE DEF b
    <3>2. b \in Attempt /\ b.pc = a.pc /\ b.peer = a.peer /\ b.their = a.their
      BY <1>3, <2>1, <3>1 DEF Attempt
    <3> QED BY <1>1, <1>2, <3>2 DEF AttemptOK
  <2>2. CASE b = [a EXCEPT !.hi = mid - 1]
    BY <1>1, <1>2, <1>3, <2>2 DEF AttemptOK, Attempt
  <2> QED BY <2>1, <2>2
<1> HIDE DEF b
<1>5. AttemptsOK'
  BY <1>1, <1>4, AttemptMoves DEF SyncInv
<1> QED BY <1>1, <1>5 DEF SyncInv, CoreInv, TypeOK, SoundChain, WorkIsSum, PeersOK, HealthOK,
        SeedsStay, chainVars, health

(* The search is over without an answer. *)
LEMMA ProbeFailsStep ==
  ASSUME SyncInv, NEW s \in Slot, ProbeFails(s)
  PROVE  SyncInv'
<1>1. /\ att[s].pc = "probe" /\ Finish(s, FALSE) /\ UNCHANGED <<chainVars, peerTip>>
  BY DEF ProbeFails
<1>2. att[s].peer \in Peer
  BY <1>1 DEF SyncInv, AttemptsOK, AttemptOK
<1>3. HealthOK' /\ AttemptsOK'
  BY <1>1, <1>2, FinishKeeps DEF SyncInv
<1> QED BY <1>1, <1>3 DEF SyncInv, CoreInv, TypeOK, SoundChain, WorkIsSum, PeersOK, chainVars

(* The search found the common ancestor. *)
LEMMA RecheckStep ==
  ASSUME SyncInv, NEW s \in Slot, Recheck(s)
  PROVE  SyncInv'
<1> DEFINE a == att[s]
           b == [Idle EXCEPT !.pc = "fetch", !.peer = a.peer,
                   !.their = a.their, !.anc = a.anc, !.from = a.anc + 1,
                   !.reorg = a.anc < a.ourH]
<1>1. /\ a.pc = "probe" /\ UNCHANGED <<chainVars, peerTip, bounds>>
      /\ \/ Finish(s, TRUE)
         \/ att' = [att EXCEPT ![s] = b] /\ UNCHANGED health
  BY DEF Recheck
<1>2. AttemptOK(a) /\ a.peer \in Peer /\ a.their \in Block
  BY <1>1 DEF SyncInv, AttemptsOK, AttemptOK
<1>3. AttemptOK(b)
  <2>1. a.anc \in Nat /\ a.anc + 1 \in Nat /\ (a.anc < a.ourH) \in BOOLEAN
    BY <1>2 DEF AttemptOK, Attempt
  <2> DEFINE m == a.anc + 1
             r == a.anc < a.ourH
  <2>2. b = [Idle EXCEPT !.pc = "fetch", !.peer = a.peer, !.their = a.their,
                         !.anc = a.anc, !.from = m, !.reorg = r]
    BY DEF Idle
  <2>3. m \in Nat /\ r \in BOOLEAN
    BY <2>1
  <2> HIDE DEF a, b, m, r
  <2> QED BY <1>2, <2>1, <2>2, <2>3, FetchBegins
<1> HIDE DEF b
<1>4. HealthOK' /\ AttemptsOK'
  <2>1. CASE Finish(s, TRUE)
    BY <1>2, <2>1, FinishKeeps DEF SyncInv
  <2>2. CASE att' = [att EXCEPT ![s] = b] /\ UNCHANGED health
    <3>1. AttemptsOK'
      BY <1>3, <2>2, AttemptMoves DEF SyncInv
    <3> QED BY <2>2, <3>1 DEF SyncInv, HealthOK, SeedsStay, health
  <2> QED BY <1>1, <2>1, <2>2
<1> QED BY <1>1, <1>4 DEF SyncInv, CoreInv, TypeOK, SoundChain, WorkIsSum, PeersOK, chainVars

(* A batch is a part of the peer's chain. *)
LEMMA ServedBlocks ==
  ASSUME PeersOK, NEW a \in Attempt, a.peer \in Peer
  PROVE  Served(a) \in Seq(Block) /\ Len(Served(a)) \in Nat
<1> DEFINE chain == ChainOf(a.peer)
           m == a.from + 1
           n == Least(a.from + BatchBlocks, Len(chain))
<1>1. chain \in Seq(Block) /\ Len(chain) \in Nat
  BY ShownChains DEF PeersOK, ChainOf
<1>2. m \in Nat /\ m >= 1 /\ n \in Nat /\ n <= Len(chain)
  BY <1>1, NodeSyncAssumption DEF Attempt, Least
<1> HIDE DEF chain, m, n
<1>3. SubSeq(chain, m, n) \in Seq(Block)
  BY <1>1, <1>2, SubSeqProperties
<1>4. Served(a) = SubSeq(chain, m, n)
  BY DEF Served, chain, m, n
<1> QED BY <1>3, <1>4

(* A batch arrives. *)
LEMMA FetchStep ==
  ASSUME SyncInv, NEW s \in Slot, Fetch(s)
  PROVE  SyncInv'
<1> DEFINE a == att[s]
           x == a.pending \o Served(a)
           y == a.from + Len(Served(a))
           got == [a EXCEPT !.pending = x, !.from = y]
           pc == IF Due(got) THEN "adopt" ELSE "fetch"
           b == [got EXCEPT !.pc = pc]
<1>1. /\ a.pc = "fetch" /\ Len(Served(a)) > 0
      /\ att' = [att EXCEPT ![s] = b]
      /\ UNCHANGED <<chainVars, peerTip, health, bounds>>
  BY DEF Fetch
<1>2. AttemptOK(a) /\ a \in Attempt /\ a.peer \in Peer /\ a.their \in Block
  BY <1>1 DEF SyncInv, AttemptsOK, AttemptOK
<1>3. x \in Seq(Block) /\ y \in Nat /\ Len(x) > 0
  <2>1. Served(a) \in Seq(Block) /\ Len(Served(a)) \in Nat
    BY <1>2, ServedBlocks DEF SyncInv
  <2>2. a.pending \in Seq(Block) /\ a.from \in Nat
    BY <1>2 DEF Attempt
  <2> DEFINE p == a.pending
             q == Served(a)
             i == Len(p)
             j == Len(q)
  <2>3. x \in Seq(Block) /\ Len(x) = i + j
    BY <2>1, <2>2, ConcatProperties
  <2>4. i \in Nat /\ j \in Nat /\ j > 0 /\ a.from \in Nat /\ y = a.from + j
    BY <1>1, <2>1, <2>2
  <2> HIDE DEF a, x, y, p, q, i, j
  <2> QED BY <2>3, <2>4
<1> HIDE DEF a, x, y
<1>4. /\ got \in Attempt /\ got.pc = a.pc /\ got.peer = a.peer /\ got.their = a.their
      /\ got.pending = x
  BY <1>2, <1>3 DEF Attempt
<1>5. pc \in {"adopt", "fetch"} /\ (pc = "adopt" => Due(got))
  OBVIOUS
<1> HIDE DEF got, pc
<1>6. /\ b \in Attempt /\ b.pc = pc /\ b.peer = a.peer /\ b.their = a.their /\ b.pending = x
      /\ b.from = got.from /\ b.reorg = got.reorg /\ b.pending = got.pending
      /\ b.their = got.their
  BY <1>4, <1>5 DEF Attempt, Stages
<1> HIDE DEF b
<1>7. Due(got) => Due(b)
  BY <1>6 DEF Due, Complete
<1>8. AttemptOK(b)
  BY <1>2, <1>3, <1>5, <1>6, <1>7 DEF AttemptOK
<1>9. AttemptsOK'
  BY <1>1, <1>8, AttemptMoves DEF SyncInv
<1> QED BY <1>1, <1>9 DEF SyncInv, CoreInv, TypeOK, SoundChain, WorkIsSum, PeersOK, HealthOK,
        SeedsStay, chainVars, health

(* The peer does not serve what it advertised. *)
LEMMA TruncatedStep ==
  ASSUME SyncInv, NEW s \in Slot, Truncated(s)
  PROVE  SyncInv'
<1> DEFINE a == att[s]
           b == [a EXCEPT !.pc = "salvage"]
<1>1. /\ a.pc = "fetch" /\ UNCHANGED <<chainVars, peerTip>>
      /\ \/ Len(a.pending) > 0 /\ att' = [att EXCEPT ![s].pc = "salvage"] /\ UNCHANGED health
         \/ Finish(s, FALSE)
  BY DEF Truncated
<1>2. AttemptOK(a) /\ a \in Attempt /\ a.peer \in Peer /\ a.their \in Block
  BY <1>1 DEF SyncInv, AttemptsOK, AttemptOK
<1>3. Len(a.pending) > 0 => AttemptOK(b)
  <2> HIDE DEF a
  <2>1. b \in Attempt /\ b.pc = "salvage" /\ b.peer = a.peer /\ b.their = a.their
        /\ b.pending = a.pending
    BY <1>2 DEF Attempt, Stages
  <2> HIDE DEF b
  <2> QED BY <1>2, <2>1 DEF AttemptOK
<1>4. HealthOK' /\ AttemptsOK'
  <2>1. CASE Finish(s, FALSE)
    BY <1>2, <2>1, FinishKeeps DEF SyncInv
  <2>2. CASE Len(a.pending) > 0 /\ att' = [att EXCEPT ![s].pc = "salvage"] /\ UNCHANGED health
    <3>1. att' = [att EXCEPT ![s] = b]
      BY <2>2 DEF SyncInv, AttemptsOK
    <3> HIDE DEF b
    <3>2. AttemptsOK'
      BY <1>3, <2>2, <3>1, AttemptMoves DEF SyncInv
    <3> QED BY <2>2, <3>2 DEF SyncInv, HealthOK, SeedsStay, health
  <2> QED BY <1>1, <2>1, <2>2
<1> QED BY <1>1, <1>4 DEF SyncInv, CoreInv, TypeOK, SoundChain, WorkIsSum, PeersOK, chainVars

(* What an attempt offers to the core. *)
LEMMA OfferStep ==
  ASSUME CoreInv, NEW a \in Attempt, Offer(a)
  PROVE  CoreInv'
<1>1. CASE BadForkPoint(a)
  <2>1. UNCHANGED chainVars
    BY <1>1 DEF Offer
  <2> QED BY <2>1 DEF CoreInv, TypeOK, SoundChain, WorkIsSum, chainVars
<1>2. CASE ~BadForkPoint(a)
  <2> DEFINE start == a.anc + 1
             new == a.pending
  <2>1. TryAdoptChain(start, new)
    BY <1>2 DEF Offer
  <2>2. start \in 1..Len(blocks) /\ new \in Seq(Block)
    <3>1. Len(blocks) \in Nat /\ a.anc \in Nat
      BY DEF CoreInv, TypeOK, Attempt
    <3> QED BY <1>2, <3>1 DEF BadForkPoint, Attempt
  <2> HIDE DEF start, new
  <2> QED BY <2>1, <2>2, TryAdoptChainStep
<1> QED BY <1>1, <1>2

(* The adopt closure. *)
LEMMA AdoptFetchedStep ==
  ASSUME SyncInv, NEW s \in Slot, AdoptFetched(s)
  PROVE  SyncInv'
<1> DEFINE a == att[s]
           e == <<>>
           b == [a EXCEPT !.pc = "reread", !.pending = e]
<1>1. /\ a.pc = "adopt" /\ Offer(a) /\ UNCHANGED <<peerTip, bounds>>
      /\ \/ att' = [att EXCEPT ![s].pc = "reread", ![s].pending = e] /\ UNCHANGED health
         \/ /\ att' = [att EXCEPT ![s] = Idle]
            /\ PeerResult(a.peer, Adopted(a) \/ HealthyReject(a),
                          IF Adopted(a) THEN doomed ELSE Memo(a))
  BY DEF AdoptFetched
<1>2. AttemptOK(a) /\ a \in Attempt /\ a.peer \in Peer /\ a.their \in Block
  BY <1>1 DEF SyncInv, AttemptsOK, AttemptOK
<1>3. CoreInv'
  BY <1>1, <1>2, OfferStep DEF SyncInv
<1>4. AttemptOK(b)
  <2>1. e \in Seq(Block)
    BY EmptySeq
  <2> HIDE DEF a, e
  <2>2. b \in Attempt /\ b.pc = "reread" /\ b.peer = a.peer /\ b.their = a.their
    BY <1>2, <2>1 DEF Attempt, Stages
  <2> HIDE DEF b
  <2> QED BY <1>2, <2>2 DEF AttemptOK
<1>5. HealthOK' /\ AttemptsOK'
  <2>1. CASE att' = [att EXCEPT ![s].pc = "reread", ![s].pending = e] /\ UNCHANGED health
    <3>1. att' = [att EXCEPT ![s] = b]
      BY <2>1 DEF SyncInv, AttemptsOK
    <3> HIDE DEF b
    <3>2. AttemptsOK'
      BY <1>4, <3>1, AttemptMoves DEF SyncInv
    <3> QED BY <2>1, <3>2 DEF SyncInv, HealthOK, SeedsStay, health
  <2>2. CASE /\ att' = [att EXCEPT ![s] = Idle]
             /\ PeerResult(a.peer, Adopted(a) \/ HealthyReject(a),
                           IF Adopted(a) THEN doomed ELSE Memo(a))
    <3> DEFINE memo == IF Adopted(a) THEN doomed ELSE Memo(a)
               ok == Adopted(a) \/ HealthyReject(a)
    <3>1. memo \in Memos
      BY <1>2 DEF SyncInv, HealthOK, Memos, Memo
    <3>2. PeerResult(a.peer, ok, memo)
      BY <2>2
    <3> HIDE DEF memo, ok, a
    <3>3. HealthOK'
      BY <1>2, <3>1, <3>2, PeerResultKeepsHealth DEF SyncInv
    <3> QED BY <2>2, <3>3, IdleOK, AttemptMoves DEF SyncInv
  <2> QED BY <1>1, <2>1, <2>2
<1> QED BY <1>1, <1>3, <1>5 DEF SyncInv, PeersOK

(* The last offer of a truncated fetch. *)
LEMMA AdoptTruncatedStep ==
  ASSUME SyncInv, NEW s \in Slot, AdoptTruncated(s)
  PROVE  SyncInv'
<1> DEFINE a == att[s]
           ok == ~Adopted(a) /\ HealthyReject(a)
<1>1. /\ a.pc = "salvage" /\ Offer(a) /\ UNCHANGED <<peerTip, bounds>>
      /\ att' = [att EXCEPT ![s] = Idle]
      /\ PeerResult(a.peer, ok, doomed)
  BY DEF AdoptTruncated
<1>2. AttemptOK(a) /\ a \in Attempt /\ a.peer \in Peer
  BY <1>1 DEF SyncInv, AttemptsOK, AttemptOK
<1>3. CoreInv'
  BY <1>1, <1>2, OfferStep DEF SyncInv
<1>4. doomed \in Memos
  BY DEF SyncInv, HealthOK
<1> HIDE DEF ok, a
<1>5. HealthOK' /\ AttemptsOK'
  BY <1>1, <1>2, <1>4, IdleOK, AttemptMoves, PeerResultKeepsHealth DEF SyncInv
<1> QED BY <1>1, <1>3, <1>5 DEF SyncInv, PeersOK

(* The height is read again under a lock of its own. *)
LEMMA RereadStep ==
  ASSUME SyncInv, NEW s \in Slot, Reread(s)
  PROVE  SyncInv'
<1> DEFINE a == att[s]
           b == [a EXCEPT !.pc = "fetch", !.anc = TipHeight]
<1>1. /\ a.pc = "reread" /\ UNCHANGED <<chainVars, peerTip, health, bounds>>
      /\ att' = [att EXCEPT ![s] = b]
  BY DEF Reread, SyncInv, AttemptsOK
<1>2. AttemptOK(a) /\ a \in Attempt /\ a.peer \in Peer /\ a.their \in Block
  BY <1>1 DEF SyncInv, AttemptsOK, AttemptOK
<1>3. TipHeight \in Nat
  <2>1. IsChain(blocks)
    BY DEF SyncInv, CoreInv, SoundChain
  <2> QED BY <2>1 DEF TipHeight, IsChain
<1>4. AttemptOK(b)
  <2> HIDE DEF a
  <2>1. b \in Attempt /\ b.pc = "fetch" /\ b.peer = a.peer /\ b.their = a.their
    BY <1>2, <1>3 DEF Attempt, Stages
  <2> HIDE DEF b
  <2> QED BY <1>2, <2>1 DEF AttemptOK
<1> HIDE DEF b
<1>5. AttemptsOK'
  BY <1>1, <1>4, AttemptMoves DEF SyncInv
<1> QED BY <1>1, <1>5 DEF SyncInv, CoreInv, TypeOK, SoundChain, WorkIsSum, PeersOK, HealthOK,
        SeedsStay, chainVars, health

(* A peer pushes its tip. *)
LEMMA PushExtendsStep ==
  ASSUME SyncInv, NEW p \in Peer, PushExtends(p)
  PROVE  SyncInv'
<1>1. AddBlock(peerTip[p]) /\ UNCHANGED <<peerTip, health, att, bounds>>
  BY DEF PushExtends
<1>2. peerTip[p] \in Block
  BY ShownChains DEF SyncInv, PeersOK
<1>3. CoreInv'
  BY <1>1, <1>2, AddBlockStep DEF SyncInv
<1> QED BY <1>1, <1>3 DEF SyncInv, PeersOK, HealthOK, SeedsStay, AttemptsOK, AttemptOK, Due,
        Complete, health

(* Backoff, discovery, the watchdog, and the peers' own moves. *)
LEMMA SurroundingSteps ==
  ASSUME SyncInv,
         \/ \E p \in Peer : BackoffEnds(p) \/ AddPeer(p)
         \/ \E p \in Peer, b \in PeerTips : PeerMoves(p, b)
         \/ WatchdogResets
  PROVE  SyncInv'
<1>1. UNCHANGED <<chainVars, att>>
  BY DEF BackoffEnds, AddPeer, PeerMoves, WatchdogResets
<1>2. CoreInv' /\ AttemptsOK'
  BY <1>1 DEF SyncInv, CoreInv, TypeOK, SoundChain, WorkIsSum, chainVars, AttemptsOK,
     AttemptOK, Due, Complete
<1>3. ASSUME NEW p \in Peer, BackoffEnds(p) \/ AddPeer(p)
      PROVE  PeersOK' /\ HealthOK'
  BY <1>3 DEF SyncInv, BackoffEnds, AddPeer, PeersOK, HealthOK, SeedsStay
<1>4. ASSUME NEW p \in Peer, NEW b \in PeerTips, PeerMoves(p, b)
      PROVE  PeersOK' /\ HealthOK'
  <2>1. b \in Shown /\ peerTip' = [peerTip EXCEPT ![p] = b] /\ UNCHANGED health
    BY <1>4 DEF PeerMoves, Shown
  <2>2. PeersOK'
    BY <2>1 DEF SyncInv, PeersOK
  <2>3. UNCHANGED <<table, fails, resting, doomed>>
    BY <2>1 DEF health
  <2>4. HealthOK'
    BY <2>3 DEF SyncInv, HealthOK, SeedsStay
  <2> QED BY <2>2, <2>4
<1>5. CASE WatchdogResets
  <2>1. /\ fails' = [p \in Peer |-> 0] /\ resting' = {} /\ doomed' = [p \in Peer |-> NoBlock]
        /\ UNCHANGED <<peerTip, table>>
    BY <1>5 DEF WatchdogResets, ClearDoomed
  <2>2. fails' \in [Peer -> Nat] /\ \A p \in Peer : fails'[p] < EvictAfter
    BY <2>1, NodeSyncAssumption
  <2>3. doomed' \in Memos
    BY <2>1 DEF Memos
  <2>4. PeersOK'
    BY <2>1 DEF SyncInv, PeersOK
  <2>5. table' \subseteq Peer /\ resting' \subseteq Peer /\ SeedsStay'
    BY <2>1 DEF SyncInv, HealthOK, SeedsStay
  <2>6. HealthOK'
    BY <2>2, <2>3, <2>5 DEF HealthOK
  <2> QED BY <1>2, <2>4, <2>6 DEF SyncInv
<1> QED BY <1>2, <1>3, <1>4, <1>5 DEF SyncInv

(* The authority's checkpoints, learnt from a peer. *)
LEMMA CheckpointsLearnt ==
  ASSUME SyncInv, NEW cp \in SignedCheckpoints, LearnAnchor(cp) \/ EnforceCheckpoint(cp)
  PROVE  SyncInv'
<1>1. UNCHANGED <<peerTip, health, att, bounds>>
  BY DEF LearnAnchor, EnforceCheckpoint
<1>2. CoreInv'
  BY ApplyCheckpointStep, SetAuthorityAnchorStep DEF SyncInv, LearnAnchor, EnforceCheckpoint
<1> QED BY <1>1, <1>2 DEF SyncInv, PeersOK, HealthOK, SeedsStay, AttemptsOK, AttemptOK, Due,
        Complete, health

(* The invariant is inductive. *)
LEMMA SyncInvariantHolds == SyncSpec => []SyncInv
<1>1. SyncInit => SyncInv
  <2> SUFFICES ASSUME SyncInit
               PROVE  SyncInv
    OBVIOUS
  <2>1. PICK t \in StartTips : blocks = Path[t] /\ cumWork = WorkAt(t)
    BY DEF SyncInit
  <2>2. /\ checkpoints = [h \in {} |-> Genesis] /\ authAnchor = NoAnchor
        /\ drAct = 0 /\ now = 0
        /\ peerTip = PeerStart /\ table = SavedPeers \cup Seeds
        /\ fails = [p \in Peer |-> 0] /\ resting = {}
        /\ doomed = [p \in Peer |-> NoBlock] /\ att = [s \in Slot |-> Idle]
    BY DEF SyncInit
  <2>3. t \in Block /\ IsChain(PathTo(t)) /\ BlocksOf(PathTo(t)) \subseteq Sound
    BY NodeSyncAssumption
  <2>4. blocks = PathTo(t) /\ cumWork = SumWork(blocks) /\ blocks \in Seq(Block)
    BY <2>1, <2>3 DEF Path, PathWork, WorkAt, IsChain
  <2>5. CoreInv
    <3>1. cumWork \in Nat
      BY <2>4, SumWorkType
    <3>2. TypeOK
      BY <2>2, <2>4, <3>1, ChainCoreAssumption DEF TypeOK
    <3> QED BY <2>3, <2>4, <3>2 DEF CoreInv, SoundChain, WorkIsSum
  <2>6. PeersOK /\ HealthOK
    BY <2>2, NodeSyncAssumption DEF PeersOK, Shown, HealthOK, SeedsStay, Memos
  <2>7. AttemptsOK
    <3> HIDE DEF Idle
    <3> QED BY <2>2, IdleOK DEF AttemptsOK
  <2> QED BY <2>5, <2>6, <2>7 DEF SyncInv
<1>2. SyncInv /\ [SyncNext]_syncVars => SyncInv'
  <2> SUFFICES ASSUME SyncInv, [SyncNext]_syncVars
               PROVE  SyncInv'
    OBVIOUS
  <2>1. ASSUME NEW s \in Slot, Step(s)
        PROVE  SyncInv'
    BY <2>1, CompareStep, ProbeStep, ProbeFailsStep, RecheckStep, FetchStep, TruncatedStep,
       AdoptFetchedStep, AdoptTruncatedStep, RereadStep DEF Step
  <2>2. ASSUME NEW s \in Slot, NEW p \in Peer,
               LoopVisit(s, p) \/ Announced(s, p) \/ PushStartsSync(s, p)
        PROVE  SyncInv'
    BY <2>2, AskTipStep DEF LoopVisit, Announced, PushStartsSync
  <2>3. ASSUME NEW p \in Peer, PushExtends(p)
        PROVE  SyncInv'
    BY <2>3, PushExtendsStep
  <2>4. CASE \/ \E p \in Peer : BackoffEnds(p) \/ AddPeer(p)
             \/ \E p \in Peer, b \in PeerTips : PeerMoves(p, b)
             \/ WatchdogResets
    BY <2>4, SurroundingSteps
  <2>5. ASSUME NEW cp \in SignedCheckpoints, LearnAnchor(cp) \/ EnforceCheckpoint(cp)
        PROVE  SyncInv'
    BY <2>5, CheckpointsLearnt
  <2>6. CASE UNCHANGED syncVars
    BY <2>6 DEF syncVars, chainVars, health, SyncInv, CoreInv, TypeOK, SoundChain, WorkIsSum,
       PeersOK, HealthOK, SeedsStay, AttemptsOK, AttemptOK, Due, Complete
  <2> QED BY <2>1, <2>2, <2>3, <2>4, <2>5, <2>6 DEF SyncNext
<1> QED BY <1>1, <1>2, PTL DEF SyncSpec

-----------------------------------------------------------------------------
(* Whatever fails and however attempts, pushes and evictions interleave:   *)
(* health records and attempts are well formed, nothing empty or premature *)
(* is offered to core, no ordinary peer outlives its failures, and the     *)
(* seeds are never dropped (peerResult, dropPeer, syncWithPeerOnce).       *)
THEOREM SyncAlwaysSound == SyncSpec => []SyncSound
<1>1. SyncInv => SyncSound
  <2> SUFFICES ASSUME SyncInv
               PROVE  SyncTypeOK /\ SeedsStay
    BY DEF SyncSound
  <2>1. peerTip \in [Peer -> Block]
    <3>1. Shown \subseteq Block
      BY NodeSyncAssumption DEF Shown
    <3> QED BY <3>1 DEF SyncInv, PeersOK
  <2>2. ASSUME NEW s \in Slot
        PROVE  /\ att[s].pc \in Stages
               /\ att[s].pc # "idle" => att[s].peer \in Peer /\ att[s].their \in Block
               /\ att[s].pending \in Seq(Block)
               /\ att[s].pc = "adopt" => Due(att[s])
               /\ att[s].pc \in {"adopt", "salvage"} => Len(att[s].pending) > 0
    <3>1. AttemptOK(att[s])
      BY DEF SyncInv, AttemptsOK
    <3> QED BY <3>1 DEF AttemptOK, Attempt
  <2>3. SyncTypeOK
    BY <2>1, <2>2 DEF SyncInv, HealthOK, Memos, SyncTypeOK, Stages
  <2> QED BY <2>3 DEF SyncInv, HealthOK
<1> QED BY <1>1, SyncInvariantHolds, PTL

(* What the node holds is one chain of validated blocks, and its work is   *)
(* the work of that chain, whatever the network does.                      *)
THEOREM SyncKeepsSoundChain == SyncSpec => [](SoundChain /\ WorkIsSum)
<1>1. SyncInv => SoundChain /\ WorkIsSum
  BY DEF SyncInv, CoreInv
<1> QED BY <1>1, SyncInvariantHolds, PTL
=============================================================================
