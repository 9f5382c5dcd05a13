------------------------------ MODULE NodeSync ------------------------------
(***************************************************************************)
(* How a node follows its peers (node/node.go): the sync attempts that     *)
(* SyncLoop, the subscriptions and the /p2p/block handler start, each an   *)
(* independent goroutine that asks one peer, searches the common ancestor, *)
(* fetches batches and offers them to ChainCore, with the health record of *)
(* every peer (backoff, eviction, memo of the tip core refused), the peer  *)
(* table, the authority's checkpoints learnt from peers, and the watchdog. *)
(*                                                                         *)
(* One action per lock or request: between any two of them the other       *)
(* attempts may move the chain and the peer may move its own.  The peers   *)
(* are honest nodes on sound chains whose requests may fail.  What a       *)
(* pushTip or a broadcast does at the peer is a move of the peer.          *)
(***************************************************************************)
EXTENDS ChainCore

CONSTANTS
  Peer,         \* peer URLs
  Seeds,        \* fallbackSeeds and n.seeds
  SavedPeers,   \* peers.json at the start
  MaxPeers,     \* 64: the cap of addPeer
  BatchBlocks,  \* batchBlocks
  AdoptChunk,   \* adoptChunk
  EvictAfter,   \* 20 failures in a row
  StartTips,    \* tips of the chain the node loads
  PeerStart,    \* tip of every peer at the start
  PeerTips,     \* bound: tips the peers may come to
  NoBlock,
  Slot,         \* bound: attempts in flight at once
  MaxErrors,    \* bound: requests that fail
  MaxMoves      \* bound: tip moves of the peers

(* New adds the seeds after peers.json, and addPeer refuses a full table.  *)
ASSUME RoomForSeeds == Cardinality(SavedPeers \cup Seeds) <= MaxPeers

(* The node loads, and the peers serve, chains that passed validation.     *)
ASSUME NodeSyncAssumption ==
  /\ Seeds \subseteq Peer /\ SavedPeers \subseteq Peer
  /\ BatchBlocks \in Nat \ {0} /\ AdoptChunk \in Nat \ {0} /\ EvictAfter \in Nat \ {0}
  /\ MaxErrors \in Nat /\ MaxMoves \in Nat
  /\ PeerStart \in [Peer -> Block] /\ PeerTips \subseteq Block /\ StartTips \subseteq Block
  /\ \A b \in StartTips \cup PeerTips \cup {PeerStart[p] : p \in Peer} :
       IsChain(PathTo(b)) /\ BlocksOf(PathTo(b)) \subseteq Sound

VARIABLES
  peerTip,  \* tip of each peer's chain
  table,    \* n.peers
  fails,    \* peerHealth.fails; 0 also stands for no record
  resting,  \* peers whose nextTry lies in the future
  doomed,   \* peerHealth.lastDoomed
  att,      \* the attempts of syncWithPeerOnce
  errors, moves

chainVars == <<blocks, cumWork, checkpoints, authAnchor, drAct, now>>
health == <<table, fails, resting, doomed>>
bounds == <<errors, moves>>
syncVars == <<chainVars, peerTip, health, att, bounds>>

Path == [b \in Block |-> PathTo(b)]
PathWork == [b \in Block |-> SumWork(Path[b])]
ChainOf(p) == Path[peerTip[p]]
WorkAt(b) == PathWork[b]
Least(i, j) == IF i <= j THEN i ELSE j

Idle == [pc |-> "idle", peer |-> NoBlock, their |-> NoBlock, ourH |-> 0,
         lo |-> 0, hi |-> 0, anc |-> 0, reorg |-> FALSE, from |-> 0,
         pending |-> <<>>]

SyncInit ==
  /\ \E t \in StartTips : blocks = Path[t] /\ cumWork = WorkAt(t)
  /\ checkpoints = [h \in {} |-> Genesis] /\ authAnchor = NoAnchor
  /\ drAct = 0 /\ now = 0
  /\ peerTip = PeerStart
  /\ table = SavedPeers \cup Seeds
  /\ fails = [p \in Peer |-> 0] /\ resting = {}
  /\ doomed = [p \in Peer |-> NoBlock]
  /\ att = [s \in Slot |-> Idle]
  /\ errors = 0 /\ moves = 0

-----------------------------------------------------------------------------
(* peerResult, after the memo of this attempt was noted. *)

(* Faulty variant: seeds are evicted too. *)
EvictsAnyone(p) == fails[p] + 1 >= EvictAfter

Evicts(p) == fails[p] + 1 >= EvictAfter /\ p \notin Seeds

PeerResult(p, ok, memo) ==
  IF ok
  THEN /\ fails' = [fails EXCEPT ![p] = 0]
       /\ resting' = resting \ {p}
       /\ doomed' = memo
       /\ UNCHANGED table
  ELSE IF Evicts(p)                                      \* dropPeer
  THEN /\ table' = table \ {p}
       /\ fails' = [fails EXCEPT ![p] = 0]
       /\ resting' = resting \ {p}
       /\ doomed' = [memo EXCEPT ![p] = NoBlock]
  ELSE /\ fails' = [fails EXCEPT ![p] = @ + 1]
       /\ resting' = resting \cup {p}
       /\ doomed' = memo
       /\ UNCHANGED table

Finish(s, ok) ==
  /\ att' = [att EXCEPT ![s] = Idle]
  /\ PeerResult(att[s].peer, ok, doomed)

RequestFails == errors < MaxErrors /\ errors' = errors + 1 /\ UNCHANGED moves

(* nextTry passes. *)
BackoffEnds(p) ==
  /\ p \in resting
  /\ resting' = resting \ {p}
  /\ UNCHANGED <<chainVars, peerTip, table, fails, doomed, att, bounds>>

-----------------------------------------------------------------------------
(* syncWithPeer: the tip request, and who starts it. *)

(* peerAhead, and the same test inside syncWithPeerOnce. *)
TipAhead(b) ==
  \/ WorkAt(b) > cumWork
  \/ WorkAt(b) = cumWork /\ HashRank[b] < HashRank[Tip]

AskTip(s, p) ==
  /\ att[s].pc = "idle"
  /\ \/ /\ att' = [att EXCEPT ![s] = [Idle EXCEPT !.pc = "compare", !.peer = p,
                                                  !.their = peerTip[p]]]
        /\ table' = table \cup {p}                       \* markPeer
        /\ UNCHANGED <<fails, resting, doomed, bounds>>
     \/ RequestFails /\ PeerResult(p, FALSE, doomed) /\ UNCHANGED att
  /\ UNCHANGED <<chainVars, peerTip>>

(* SyncLoop visits every peer of the table that is past its backoff. *)
LoopVisit(s, p) == p \in table \ resting /\ AskTip(s, p)

(* subscribeLoop: a peer of the table announced a tip ahead of ours. *)
Announced(s, p) == p \in table /\ TipAhead(peerTip[p]) /\ AskTip(s, p)

(* /p2p/block: the peer pushed its tip.  It extends ours, or the handler   *)
(* syncs with the sender, listed or not.                                   *)
PushExtends(p) ==
  /\ AddBlock(peerTip[p])
  /\ UNCHANGED <<peerTip, health, att, bounds>>

PushStartsSync(s, p) == Parent[peerTip[p]] # Tip /\ AskTip(s, p)

-----------------------------------------------------------------------------
(* syncWithPeerOnce after the tip request. *)

Compare(s) ==
  LET a == att[s] IN
  /\ a.pc = "compare"
  /\ IF TipAhead(a.their) /\ doomed[a.peer] # a.their
     THEN /\ att' = [att EXCEPT ![s].pc = "probe", ![s].ourH = TipHeight,
                       ![s].hi = Least(TipHeight, Height[a.their])]
          /\ UNCHANGED health
     ELSE Finish(s, TRUE)
  /\ UNCHANGED <<chainVars, peerTip, bounds>>

(* One round of the binary search: /p2p/hash against our BlockAt(mid). *)
Mid(a) == (a.lo + a.hi) \div 2

Probe(s) ==
  LET a == att[s]
      mid == Mid(a)
  IN
  /\ a.pc = "probe" /\ a.lo <= a.hi
  /\ mid <= Height[peerTip[a.peer]]
  /\ att' = [att EXCEPT ![s] =
       IF mid <= TipHeight /\ blocks[mid + 1] = ChainOf(a.peer)[mid + 1]
       THEN [a EXCEPT !.anc = mid, !.lo = mid + 1]
       ELSE [a EXCEPT !.hi = mid - 1]]
  /\ UNCHANGED <<chainVars, peerTip, health, bounds>>

(* The peer does not answer, or its chain became shorter: 404. *)
ProbeFails(s) ==
  LET a == att[s] IN
  /\ a.pc = "probe" /\ a.lo <= a.hi
  /\ RequestFails \/ (Mid(a) > Height[peerTip[a.peer]] /\ UNCHANGED bounds)
  /\ Finish(s, FALSE)
  /\ UNCHANGED <<chainVars, peerTip>>

(* "pull nothing" if others carried us strictly past this peer's work. *)
Recheck(s) ==
  LET a == att[s] IN
  /\ a.pc = "probe" /\ a.lo > a.hi
  /\ IF cumWork > WorkAt(a.their)
     THEN Finish(s, TRUE)
     ELSE /\ att' = [att EXCEPT ![s] = [Idle EXCEPT !.pc = "fetch", !.peer = a.peer,
                         !.their = a.their, !.anc = a.anc, !.from = a.anc + 1,
                         !.reorg = a.anc < a.ourH]]
          /\ UNCHANGED health
  /\ UNCHANGED <<chainVars, peerTip, bounds>>

Served(a) ==
  LET chain == ChainOf(a.peer)
  IN  SubSeq(chain, a.from + 1, Least(a.from + BatchBlocks, Len(chain)))

Complete(a) == a.from > Height[a.their]

(* Chunk only pure extensions; a reorg must be adopted whole. *)
Due(a) == Complete(a) \/ (~a.reorg /\ Len(a.pending) >= AdoptChunk)

Fetch(s) ==
  LET a == att[s]
      got == [a EXCEPT !.pending = @ \o Served(a), !.from = @ + Len(Served(a))]
  IN
  /\ a.pc = "fetch"
  /\ Len(Served(a)) > 0
  /\ att' = [att EXCEPT ![s] = [got EXCEPT !.pc = IF Due(got) THEN "adopt" ELSE "fetch"]]
  /\ UNCHANGED <<chainVars, peerTip, health, bounds>>

(* No answer or an empty batch: the peer did not serve the chain it        *)
(* advertised.  What was fetched is still offered.                         *)
Truncated(s) ==
  LET a == att[s] IN
  /\ a.pc = "fetch"
  /\ RequestFails \/ (Len(Served(a)) = 0 /\ UNCHANGED bounds)
  /\ IF Len(a.pending) > 0
     THEN att' = [att EXCEPT ![s].pc = "salvage"] /\ UNCHANGED health
     ELSE Finish(s, FALSE)
  /\ UNCHANGED <<chainVars, peerTip>>

-----------------------------------------------------------------------------
(* The adopt closure: TryAdoptChain(anc + 1, pending). *)

BadForkPoint(a) == a.anc + 1 > Len(blocks)

LacksWork(a) ==
  /\ DepthAllowed(a.anc + 1, a.pending)
  /\ KeepsCheckpoints(a.anc + 1, a.pending)
  /\ ~EnoughWork(a.anc + 1, a.pending)

(* healthyReject: "reorg too deep" or "lacks sufficient work". *)
HealthyReject(a) ==
  /\ ~BadForkPoint(a)
  /\ ~DepthAllowed(a.anc + 1, a.pending) \/ LacksWork(a)

Dooms(a) == Complete(a) /\ ~BadForkPoint(a) /\ LacksWork(a)

Memo(a) == IF Dooms(a) THEN [doomed EXCEPT ![a.peer] = a.their] ELSE doomed

Offer(a) ==
  IF BadForkPoint(a) THEN UNCHANGED chainVars
  ELSE TryAdoptChain(a.anc + 1, a.pending)

Adopted(a) == ~BadForkPoint(a) /\ Adoptable(a.anc + 1, a.pending)

AdoptFetched(s) ==
  LET a == att[s] IN
  /\ a.pc = "adopt"
  /\ Offer(a)
  /\ IF Adopted(a) /\ ~Complete(a)
     THEN /\ att' = [att EXCEPT ![s].pc = "reread", ![s].pending = <<>>]
          /\ UNCHANGED health
     ELSE /\ att' = [att EXCEPT ![s] = Idle]
          /\ PeerResult(a.peer, Adopted(a) \/ HealthyReject(a),
                        IF Adopted(a) THEN doomed ELSE Memo(a))
  /\ UNCHANGED <<peerTip, bounds>>

(* The last offer of a truncated fetch, which is never `complete`. *)
AdoptTruncated(s) ==
  LET a == att[s] IN
  /\ a.pc = "salvage"
  /\ Offer(a)
  /\ att' = [att EXCEPT ![s] = Idle]
  /\ PeerResult(a.peer, ~Adopted(a) /\ HealthyReject(a), doomed)
  /\ UNCHANGED <<peerTip, bounds>>

(* anc = n.Chain.Height(), a lock of its own. *)
Reread(s) ==
  /\ att[s].pc = "reread"
  /\ att' = [att EXCEPT ![s].pc = "fetch", ![s].anc = TipHeight]
  /\ UNCHANGED <<chainVars, peerTip, health, bounds>>

Step(s) ==
  \/ Compare(s) \/ Probe(s) \/ ProbeFails(s) \/ Recheck(s)
  \/ Fetch(s) \/ Truncated(s) \/ AdoptFetched(s) \/ AdoptTruncated(s) \/ Reread(s)

-----------------------------------------------------------------------------
(* Checkpoints, discovery, the watchdog, and what happens elsewhere. *)

(* fetchCheckpoint: the signed checkpoint becomes the anchor, and is       *)
(* enforced when our chain holds its block.                                *)
LearnAnchor(cp) ==
  /\ table # {}
  /\ SetAuthorityAnchor(cp)
  /\ UNCHANGED <<peerTip, health, att, bounds>>

EnforceCheckpoint(cp) ==
  /\ table # {}
  /\ cp.height <= authAnchor.height
  /\ cp.height \notin DOMAIN checkpoints
  /\ ApplyCheckpoint(cp)
  /\ UNCHANGED <<peerTip, health, att, bounds>>

(* addPeer, from discoverPeers or the header of a request. *)
AddPeer(p) ==
  /\ p \notin table /\ Cardinality(table) < MaxPeers
  /\ table' = table \cup {p}
  /\ UNCHANGED <<chainVars, peerTip, fails, resting, doomed, att, bounds>>

Behind == \E p \in table : WorkAt(peerTip[p]) > cumWork      \* bestPeerWork

(* Faulty variant: clearDoomed is not called. *)
ClearDoomedNever == doomed
ClearDoomed == [p \in Peer |-> NoBlock]

(* Ticks 15 minutes apart found the same height and peers ahead: the       *)
(* watchdog calls resetPeerBackoff and clearDoomed.  When that is, is left *)
(* open here: any time we are behind.  With -stall-restart it may then     *)
(* exit, which the supervisor answers with a start from disk.              *)
WatchdogResets ==
  /\ Behind
  /\ fails' = [p \in Peer |-> 0] /\ resting' = {}
  /\ doomed' = ClearDoomed
  /\ UNCHANGED <<chainVars, peerTip, table, att, bounds>>

PeerMoves(p, b) ==
  /\ moves < MaxMoves /\ moves' = moves + 1
  /\ \/ WorkAt(b) > WorkAt(peerTip[p])
     \/ /\ WorkAt(b) = WorkAt(peerTip[p])
        /\ HashRank[b] < HashRank[peerTip[p]]
  /\ peerTip' = [peerTip EXCEPT ![p] = b]
  /\ UNCHANGED <<chainVars, health, att, errors>>

SyncNext ==
  \/ \E s \in Slot : Step(s)
  \/ \E s \in Slot, p \in Peer :
       LoopVisit(s, p) \/ Announced(s, p) \/ PushStartsSync(s, p)
  \/ \E p \in Peer : PushExtends(p) \/ BackoffEnds(p) \/ AddPeer(p)
  \/ \E cp \in SignedCheckpoints : LearnAnchor(cp) \/ EnforceCheckpoint(cp)
  \/ WatchdogResets
  \/ \E p \in Peer, b \in PeerTips : PeerMoves(p, b)

(* Goroutines run, a backoff ends, the watchdog's ticker fires, and        *)
(* SyncLoop comes round to every ready seed; SF because a slot is a bound  *)
(* of the model, for which the attempts compete, and no limit of the node. *)
SyncFairness ==
  /\ \A s \in Slot : WF_syncVars(Step(s))
  /\ \A p \in Seeds : SF_syncVars(\E s \in Slot : LoopVisit(s, p))
  /\ \A p \in Seeds : WF_syncVars(BackoffEnds(p))
  /\ WF_syncVars(WatchdogResets)

SyncSpec == SyncInit /\ [][SyncNext]_syncVars /\ SyncFairness

-----------------------------------------------------------------------------
(* Properties. *)

(* The variables have their types; no ordinary peer outlives EvictAfter    *)
(* failures in a row; nothing empty or premature is offered to core.       *)
SyncTypeOK ==
  /\ peerTip \in [Peer -> Block]
  /\ table \subseteq Peer /\ resting \subseteq Peer
  /\ fails \in [Peer -> Nat]
  /\ \A p \in Peer \ Seeds : fails[p] < EvictAfter
  /\ doomed \in [Peer -> Block \cup {NoBlock}]
  /\ \A s \in Slot :
       /\ att[s].pc \in {"idle", "compare", "probe", "fetch", "adopt", "salvage", "reread"}
       /\ att[s].pc # "idle" => att[s].peer \in Peer /\ att[s].their \in Block
       /\ att[s].pending \in Seq(Block)
       /\ att[s].pc = "adopt" => Due(att[s])
       /\ att[s].pc \in {"adopt", "salvage"} => Len(att[s].pending) > 0

(* Eviction can take every ordinary peer, whatever fails and in whatever   *)
(* order, and never leaves the node without the seeds to sync from.        *)
SeedsStay == Seeds \subseteq table

(* Both: the attempts and the health records are well formed, and the      *)
(* seeds are among the peers.                                              *)
SyncSound == SyncTypeOK /\ SeedsStay

(* The peer's chain, offered whole from where it leaves ours. *)
Fork(b) == CommonLen(blocks, Path[b])
Rest(b) == SubSeq(Path[b], Fork(b) + 1, Len(Path[b]))
Outstanding(p) == Rest(peerTip[p]) # <<>> /\ Adoptable(Fork(peerTip[p]), Rest(peerTip[p]))

(* However the attempts interleave, whatever fails, is evicted, memoized   *)
(* or truncated on the way: a seed never keeps a chain we would adopt and  *)
(* do not have.                                                            *)
FollowsSeeds == \A p \in Seeds : []<>~Outstanding(p)

(* "`complete` = we hold the whole advertised candidate, so a 'lacks       *)
(* sufficient work' rejection is a genuine losing fork" (adopt).           *)
DoomedIsLosing == \A p \in Peer : doomed[p] = peerTip[p] => ~Outstanding(p)
=============================================================================
