---------------------------- MODULE ServiceProofs ----------------------------
(***************************************************************************)
(* What the programs around the node guarantee: the Stratum bridge its     *)
(* miner, and node and bridge the operator who lets them update            *)
(* themselves.  The two parts share nothing; each has its own invariant.   *)
(*                                                                         *)
(* The bridge, for every set of addresses and targets, table and buffer    *)
(* size, number of templates, faults and reconnects.                       *)
(*                                                                         *)
(* The two threads of a connection and the miner hold jobs, finds and ids  *)
(* that they read at different times.  The invariant says of each that it  *)
(* is of this connection and for a template whose id is still on file or   *)
(* was replaced (JobOK), and of a submit that it is under the id of its    *)
(* template unless that was replaced (PostOK).  No step takes that back:   *)
(* templates, names and replaced ids only grow while the connection lasts  *)
(* (Carry), and nothing of it is left when it is closed (ClosedInv).       *)
(*                                                                         *)
(* Self-update and self-heal, for every set of releases of any quality and *)
(* any number of lost boots, failing operations and outages.  The guard,   *)
(* the confirmation and the update work through scripts of file            *)
(* operations, so the invariant (HealInv) speaks of what is on disk and of *)
(* what is left to do: which operations each thread may still have and in  *)
(* what order (ProcessInv, BootInv), how far an update has come            *)
(* (UpdateInv), that a binary is left wherever a process may die           *)
(* (BinaryInv), and that the boots counted against a good release are      *)
(* mishaps (BlameInv).                                                     *)
(***************************************************************************)
EXTENDS Stratum, AutoUpdate, FiniteSetTheorems, SequenceTheorems, TLAPS

-----------------------------------------------------------------------------
(* A miner's connection to the bridge: the records the threads work on. *)

ConnFields == {"cid", "names", "open", "addr", "ex", "cur", "jobs", "tgt", "header", "diff"}
PostFields == {"pc", "id", "found", "nonce", "tgt", "tries"}

IsRecord(r, fields) == r = [f \in fields |-> r[f]]

JobSet == [n : Nat, ex : Addr, cid : Nat, tgt : Target]
FoundSet == [n : Nat, ex : Addr, cid : Nat, tgt : Target, block : BOOLEAN]
MessageSet == [kind : {"refused", "ok", "error"}] \cup [kind : {"job"}, job : JobSet]
RequestSet == [kind : {"login"}, addr : Addr] \cup [kind : {"submit"}, find : FoundSet]

(* A template whose id the connection has, or once had. *)
OnHand(n) == n \in 1..Latest /\ n \in replaced \cup OnFile(conn)

(* Jobs and finds of this connection: every address in them is one that    *)
(* the miner logged in with.                                               *)
JobOK(j) == /\ conn.cur # 0 /\ j.cid = conn.cid /\ j.ex \in conn.names
            /\ OnHand(j.n)
IdOK(id) == id.n \in 1..Latest /\ id.addr \in conn.names

-----------------------------------------------------------------------------
(* The inductive invariant. *)

BackendInv == /\ solo \in BOOLEAN
              /\ built \in Seq(1..MaxTips) /\ Len(built) > 0
              /\ IsRecord(shared, {"work", "addr"})
              /\ shared.work = NoWork \/ shared.work.n \in 1..Latest

ConnInv ==
  /\ IsRecord(conn, ConnFields)
  /\ conn.cid \in Nat /\ conn.open \in BOOLEAN
  /\ conn.names \subseteq Addr /\ IsFiniteSet(conn.names)
  /\ conn.tgt \in Target /\ conn.diff \in Target
  /\ conn.cur # 0 => /\ conn.cur \in DOMAIN conn.jobs
                     /\ conn.addr \in conn.names /\ conn.ex \in conn.names
  /\ IsFiniteSet(DOMAIN conn.jobs) /\ Cardinality(DOMAIN conn.jobs) <= MaxJobs
  /\ \A t \in DOMAIN conn.jobs : IdOK(conn.jobs[t]) /\ built[conn.jobs[t].n] = t

(* A submit carries the find as mined, up to the extranonce, under the id  *)
(* of its template unless that was replaced.                               *)
PostOK ==
  /\ IsRecord(handler, PostFields)
  /\ IdOK(handler.id)
  /\ handler.found \in FoundSet /\ handler.found.ex \in conn.names
  /\ handler.found.n \in 1..Latest
  /\ handler.nonce \in FoundSet /\ handler.nonce.ex \in conn.names
  /\ handler.nonce = [handler.found EXCEPT !.ex = handler.nonce.ex]
  /\ handler.found.n \in replaced \/ handler.id.n = handler.found.n

HandlerInv ==
  \/ handler = IdleHandler
  \/ handler.pc = "fetch" /\ conn.addr \in conn.names
  \/ /\ handler.pc = "install" /\ conn.addr \in conn.names
     /\ handler.w.n \in 1..Latest /\ handler.w.addr \in conn.names
  \/ handler.pc = "post" /\ PostOK
  \/ handler.pc = "answer" /\ handler.msg \in {"ok", "error"}

PollerInv ==
  \/ poller = IdlePoller
  \/ poller.pc = "fetch" /\ poller.addr \in conn.names /\ poller.ex \in conn.names
     /\ conn.addr \in conn.names
  \/ /\ poller.pc = "push" /\ poller.addr \in conn.names /\ poller.ex \in conn.names
     /\ conn.addr \in conn.names
     /\ poller.w.n \in 1..Latest /\ (solo => poller.w.addr \in conn.names)

WireInv ==
  /\ wire \in Seq(MessageSet) /\ Len(wire) <= WireCap
  /\ \A i \in 1..Len(wire) : wire[i].kind = "job" => JobOK(wire[i].job)

InboxInv ==
  /\ inbox \in Seq(RequestSet)
  /\ \A i \in 1..Len(inbox) : inbox[i].kind = "submit" => JobOK(inbox[i].find)

MiningInv == mining = NoJob \/ (mining \in JobSet /\ JobOK(mining))

ClosedInv ==
  ~conn.open => /\ wire = <<>> /\ inbox = <<>> /\ mining = NoJob
                /\ handler = IdleHandler /\ poller = IdlePoller

OneName == \A a, b \in conn.names : a = b

LostInv == OneName => lost \subseteq replaced

BridgeInv ==
  /\ BackendInv /\ ConnInv /\ HandlerInv /\ PollerInv
  /\ WireInv /\ InboxInv /\ MiningInv /\ ClosedInv /\ LostInv

-----------------------------------------------------------------------------
(* What most steps leave: no template, name or job of the connection goes. *)

Carry ==
  /\ conn'.cid = conn.cid /\ conn.names \subseteq conn'.names
  /\ conn.cur # 0 => conn'.cur # 0
  /\ 1..Latest \subseteq 1..Latest' /\ replaced \subseteq replaced'
  /\ replaced \cup OnFile(conn) \subseteq replaced' \cup OnFile(conn')

(* Jobs, finds and ids stay sound. *)
LEMMA CarryJob ==
  ASSUME Carry, NEW j
  PROVE  /\ conn.cur # 0 /\ j.cid = conn.cid /\ j.ex \in conn.names /\ OnHand(j.n)
              => /\ conn'.cur # 0 /\ j.cid = conn'.cid /\ j.ex \in conn'.names
                 /\ j.n \in 1..Latest' /\ j.n \in replaced' \cup OnFile(conn')
         /\ IdOK(j) => j.n \in 1..Latest' /\ j.addr \in conn'.names
BY DEF Carry, OnHand, IdOK

(* What travels on the link. *)
LEMMA CarryWire == ASSUME Carry, WireInv, wire' = wire PROVE WireInv'
<1>1. \A i \in 1..Len(wire) : wire[i].kind = "job" => JobOK(wire[i].job)'
  BY CarryJob DEF WireInv, JobOK, OnHand
<1> QED BY <1>1 DEF WireInv

(* What the miner sent. *)
LEMMA CarryInbox == ASSUME Carry, InboxInv, inbox' = inbox PROVE InboxInv'
<1>1. \A i \in 1..Len(inbox) : inbox[i].kind = "submit" => JobOK(inbox[i].find)'
  BY CarryJob DEF InboxInv, JobOK, OnHand
<1> QED BY <1>1 DEF InboxInv

(* The job it works on. *)
LEMMA CarryMining == ASSUME Carry, MiningInv, mining' = mining PROVE MiningInv'
BY CarryJob DEF MiningInv, JobOK, OnHand

(* Its blocks. *)
LEMMA CarryLost == ASSUME Carry, LostInv, lost' = lost PROVE LostInv'
BY DEF LostInv, OneName, Carry

(* The handler. *)
LEMMA CarryHandler ==
  ASSUME Carry, HandlerInv, handler' = handler, conn'.addr = conn.addr
  PROVE  HandlerInv'
<1>1. CASE handler = IdleHandler
  BY <1>1 DEF HandlerInv
<1>2. CASE handler.pc = "fetch" /\ conn.addr \in conn.names
  BY <1>2 DEF HandlerInv, Carry
<1>3. CASE /\ handler.pc = "install" /\ conn.addr \in conn.names
           /\ handler.w.n \in 1..Latest /\ handler.w.addr \in conn.names
  BY <1>3 DEF HandlerInv, Carry
<1>4. CASE handler.pc = "post" /\ PostOK
  <2>1. PostOK'
    BY <1>4, CarryJob DEF PostOK, Carry, IdOK
  <2> QED BY <1>4, <2>1 DEF HandlerInv
<1>5. CASE handler.pc = "answer" /\ handler.msg \in {"ok", "error"}
  BY <1>5 DEF HandlerInv
<1> QED BY <1>1, <1>2, <1>3, <1>4, <1>5 DEF HandlerInv

(* The poller. *)
LEMMA CarryPoller ==
  ASSUME Carry, PollerInv, poller' = poller, solo' = solo,
         conn'.addr = conn.addr \/ conn'.addr \in conn'.names
  PROVE  PollerInv'
BY DEF PollerInv, Carry

(* All of them. *)
LEMMA CarryNetwork ==
  ASSUME Carry, WireInv, InboxInv, MiningInv, UNCHANGED network
  PROVE  WireInv' /\ InboxInv' /\ MiningInv'
BY CarryWire, CarryInbox, CarryMining DEF network

(* A step that leaves the connection, the templates and their ids alone. *)
LEMMA SameCarry ==
  ASSUME UNCHANGED <<conn, built, replaced>>
  PROVE  Carry /\ (ConnInv => ConnInv')
<1>1. Carry
  BY DEF Carry, OnFile, Latest
<1>2. ConnInv => ConnInv'
  BY DEF ConnInv, IdOK, Latest
<1> QED BY <1>1, <1>2

-----------------------------------------------------------------------------
(* Templates of the backend. *)

(* The last template is one, and so is its tip. *)
LEMMA LatestIs ==
  ASSUME BackendInv
  PROVE  /\ Latest \in 1..Latest /\ Latest \in Nat /\ Tip \in 1..MaxTips
         /\ \A n \in 1..Latest : built[n] \in 1..MaxTips
         /\ \A a : Work(a).n \in 1..Latest /\ Work(a).addr = a
<1>1. built \in Seq(1..MaxTips) /\ Len(built) > 0 /\ Len(built) \in Nat
  BY DEF BackendInv
<1>2. Latest \in 1..Latest /\ Latest \in Nat
  BY <1>1 DEF Latest
<1>3. \A n \in 1..Latest : built[n] \in 1..MaxTips
  BY <1>1, ElementOfSeq DEF Latest
<1> QED BY <1>2, <1>3 DEF Tip, Work

(* A new template leaves those before it. *)
LEMMA AppendTemplate ==
  ASSUME BackendInv, NEW t \in 1..MaxTips, built' = Append(built, t),
         UNCHANGED <<conn, replaced>>
  PROVE  /\ built' \in Seq(1..MaxTips) /\ Len(built') > 0
         /\ Carry /\ (ConnInv => ConnInv')
<1>1. built \in Seq(1..MaxTips) /\ Len(built) \in Nat
  BY DEF BackendInv
<1>2. /\ built' \in Seq(1..MaxTips) /\ Len(built') = Len(built) + 1
      /\ \A n \in 1..Len(built) : built'[n] = built[n]
  BY <1>1, AppendProperties
<1>3. 1..Latest \subseteq 1..Latest' /\ Len(built') > 0
      /\ \A n \in 1..Latest : built'[n] = built[n]
  BY <1>1, <1>2 DEF Latest
<1>4. Carry
  BY <1>3 DEF Carry, OnFile
<1>5. ConnInv => ConnInv'
  BY <1>3 DEF ConnInv, IdOK
<1> QED BY <1>2, <1>3, <1>4, <1>5

-----------------------------------------------------------------------------
(* setJob. *)

(* The fields that setJob changes and those it leaves. *)
LEMMA SetJobIs ==
  ASSUME IsRecord(conn, ConnFields), NEW w, NEW ex, NEW a
  PROVE  LET d == SetJob(conn, w, ex, a)
         IN /\ IsRecord(d, ConnFields)
            /\ d.cid = conn.cid /\ d.names = conn.names /\ d.open = conn.open
            /\ d.addr = conn.addr /\ d.ex = ex /\ d.cur = built[w.n]
            /\ d.jobs = Remember(conn.jobs, built[w.n], IdFor(w, a))
            /\ d.tgt = conn.diff /\ d.header = w.n /\ d.diff = conn.diff
<1> DEFINE d == SetJob(conn, w, ex, a)
<1>1. DOMAIN conn = ConnFields
  BY DEF IsRecord
<1>2. /\ d.cid = conn.cid /\ d.names = conn.names /\ d.open = conn.open
      /\ d.addr = conn.addr /\ d.ex = ex /\ d.cur = built[w.n]
  BY <1>1 DEF SetJob, ConnFields
<1>3. /\ d.jobs = Remember(conn.jobs, built[w.n], IdFor(w, a))
      /\ d.tgt = conn.diff /\ d.header = w.n /\ d.diff = conn.diff
  BY <1>1 DEF SetJob, ConnFields
<1>4. IsRecord(d, ConnFields)
  BY <1>1 DEF SetJob, IsRecord, ConnFields
<1> QED BY <1>2, <1>3, <1>4

(* The table has the new id, under the tip of its template, ids it had     *)
(* before under the others, and no more than it may.                       *)
LEMMA RememberIs ==
  ASSUME NEW jobs, IsFiniteSet(DOMAIN jobs), Cardinality(DOMAIN jobs) <= MaxJobs,
         NEW t, NEW id
  PROVE  LET r == Remember(jobs, t, id)
         IN /\ t \in DOMAIN r /\ r[t] = id
            /\ \A u \in DOMAIN r : u = t \/ (u \in DOMAIN jobs /\ r[u] = jobs[u])
            /\ IsFiniteSet(DOMAIN r) /\ Cardinality(DOMAIN r) <= MaxJobs
<1> DEFINE kept == IF Cardinality(DOMAIN jobs) >= MaxJobs THEN <<>> ELSE jobs
           r == Remember(jobs, t, id)
<1>1. MaxJobs \in Nat /\ MaxJobs > 0
  BY StratumAssumption
<1>2. Cardinality(DOMAIN jobs) \in Nat
  BY FS_CardinalityType
<1>3. /\ IsFiniteSet(DOMAIN kept) /\ Cardinality(DOMAIN kept) \in Nat
      /\ Cardinality(DOMAIN kept) < MaxJobs
      /\ \A u \in DOMAIN kept : u \in DOMAIN jobs /\ kept[u] = jobs[u]
  <2>1. CASE Cardinality(DOMAIN jobs) >= MaxJobs
    <3>1. DOMAIN kept = {}
      BY <2>1
    <3> HIDE DEF kept
    <3> QED BY <1>1, <3>1, FS_EmptySet
  <2>2. CASE ~(Cardinality(DOMAIN jobs) >= MaxJobs)
    BY <1>1, <1>2, <2>2
  <2> QED BY <2>1, <2>2
<1>4. r = [k \in DOMAIN kept \cup {t} |-> IF k = t THEN id ELSE kept[k]]
  BY DEF Remember
<1> HIDE DEF kept, r
<1>5. DOMAIN r = DOMAIN kept \cup {t}
  BY <1>4
<1>6. /\ IsFiniteSet(DOMAIN kept \cup {t})
      /\ Cardinality(DOMAIN kept \cup {t}) <= MaxJobs
  <2>1. IsFiniteSet(DOMAIN kept \cup {t})
    BY <1>3, FS_AddElement
  <2>2. Cardinality(DOMAIN kept \cup {t}) \in {Cardinality(DOMAIN kept), Cardinality(DOMAIN kept) + 1}
    BY <1>3, FS_AddElement
  <2> QED BY <1>1, <1>3, <2>1, <2>2
<1>7. t \in DOMAIN r /\ r[t] = id
      /\ \A u \in DOMAIN r : u = t \/ (u \in DOMAIN jobs /\ r[u] = jobs[u])
  BY <1>3, <1>4
<1> QED BY <1>5, <1>6, <1>7 DEF r

(* A setJob under addresses of the miner is sound, and its job is on hand. *)
LEMMA SetJobKeeps ==
  ASSUME BackendInv, ConnInv,
         NEW w, NEW ex \in conn.names, NEW a \in conn.names,
         w.n \in 1..Latest, solo => w.addr \in conn.names, conn.addr \in conn.names,
         conn' = SetJob(conn, w, ex, a),
         replaced' = replaced \cup (OnFile(conn) \ OnFile(conn')),
         UNCHANGED <<built, solo>>
  PROVE  /\ ConnInv' /\ Carry
         /\ conn'.open = conn.open /\ conn'.addr = conn.addr
         /\ Job(w, ex) \in JobSet
         /\ conn'.cur # 0 /\ Job(w, ex).cid = conn'.cid /\ Job(w, ex).ex \in conn'.names
         /\ Job(w, ex).n \in 1..Latest' /\ Job(w, ex).n \in replaced' \cup OnFile(conn')
<1>1. /\ IsRecord(conn', ConnFields)
      /\ conn'.cid = conn.cid /\ conn'.names = conn.names /\ conn'.open = conn.open
      /\ conn'.addr = conn.addr /\ conn'.ex = ex /\ conn'.cur = built[w.n]
      /\ conn'.jobs = Remember(conn.jobs, built[w.n], IdFor(w, a))
      /\ conn'.tgt = conn.diff /\ conn'.diff = conn.diff
  BY SetJobIs DEF ConnInv
<1>2. /\ conn.cid \in Nat /\ conn.open \in BOOLEAN /\ conn.names \subseteq Addr
      /\ IsFiniteSet(conn.names) /\ conn.diff \in Target /\ conn.tgt \in Target
      /\ \A t \in DOMAIN conn.jobs : IdOK(conn.jobs[t]) /\ built[conn.jobs[t].n] = t
      /\ IsFiniteSet(DOMAIN conn.jobs) /\ Cardinality(DOMAIN conn.jobs) <= MaxJobs
  BY DEF ConnInv
<1> DEFINE t == built[w.n]
           id == IdFor(w, a)
           jobs == conn'.jobs
<1>3. t \in 1..MaxTips /\ t # 0
  BY LatestIs, StratumAssumption
<1>4. id.n = w.n /\ id.addr \in conn.names
  BY DEF IdFor, BackendInv
<1> HIDE DEF t, id
<1>5. /\ t \in DOMAIN jobs /\ jobs[t] = id
      /\ \A u \in DOMAIN jobs : u = t \/ (u \in DOMAIN conn.jobs /\ jobs[u] = conn.jobs[u])
      /\ IsFiniteSet(DOMAIN jobs) /\ Cardinality(DOMAIN jobs) <= MaxJobs
  <2>1. jobs = Remember(conn.jobs, t, id)
    BY <1>1 DEF t, id
  <2> HIDE DEF jobs
  <2> QED BY <1>2, <2>1, RememberIs
<1>6. Latest' = Latest
  BY DEF Latest
<1>7. \A u \in DOMAIN jobs :
        jobs[u].n \in 1..Latest /\ jobs[u].addr \in conn.names /\ built[jobs[u].n] = u
  <2>1. id.n \in 1..Latest /\ id.addr \in conn.names /\ built[id.n] = t
    BY <1>4 DEF t
  <2> HIDE DEF jobs
  <2> QED BY <1>2, <1>5, <2>1 DEF IdOK
<1>8. ConnInv'
  <2>1. conn'.cur = t
    BY <1>1 DEF t
  <2>2. (\A u \in DOMAIN conn.jobs : IdOK(conn.jobs[u]) /\ built[conn.jobs[u].n] = u)'
    BY <1>1, <1>6, <1>7 DEF IdOK
  <2>3. IsRecord(conn, ConnFields)' /\ conn'.cid \in Nat /\ conn'.open \in BOOLEAN /\ conn'.names \subseteq Addr
        /\ IsFiniteSet(conn'.names) /\ conn'.tgt \in Target /\ conn'.diff \in Target
        /\ conn'.cur \in DOMAIN conn'.jobs /\ conn'.addr \in conn'.names
        /\ conn'.ex \in conn'.names
    BY <1>1, <1>2, <1>5, <2>1 DEF IsRecord
  <2>4. IsFiniteSet(DOMAIN conn'.jobs) /\ Cardinality(DOMAIN conn'.jobs) <= MaxJobs
    BY <1>5
  <2> QED BY <2>2, <2>3, <2>4 DEF ConnInv
<1>9. replaced' \cup OnFile(conn') = replaced \cup OnFile(conn) \cup OnFile(conn')
  OBVIOUS
<1>10. Carry
  BY <1>1, <1>3, <1>6, <1>9 DEF Carry, t
<1>11. w.n \in OnFile(conn')
  BY <1>4, <1>5 DEF OnFile
<1>12. Job(w, ex).n = w.n /\ Job(w, ex).cid = conn.cid /\ Job(w, ex).ex \in conn.names
       /\ Job(w, ex).tgt = conn.diff
       /\ Job(w, ex) = [n |-> w.n, ex |-> Job(w, ex).ex, cid |-> conn.cid, tgt |-> conn.diff]
  BY DEF Job, Extranonce, BackendInv
<1>13. w.n \in Nat
  BY LatestIs
<1>14. Job(w, ex) \in JobSet
  <2> DEFINE j == Job(w, ex)
  <2>1. j = [n |-> w.n, ex |-> j.ex, cid |-> conn.cid, tgt |-> conn.diff] /\ j.ex \in Addr
    BY <1>2, <1>12
  <2> HIDE DEF j
  <2> QED BY <1>2, <1>13, <2>1 DEF JobSet, j
<1>15. /\ conn'.cur # 0 /\ Job(w, ex).cid = conn'.cid /\ Job(w, ex).ex \in conn'.names
       /\ Job(w, ex).n \in 1..Latest' /\ Job(w, ex).n \in replaced' \cup OnFile(conn')
  BY <1>1, <1>3, <1>6, <1>11, <1>12 DEF t
<1> QED BY <1>1, <1>8, <1>10, <1>14, <1>15

-----------------------------------------------------------------------------
(* Messages. *)

(* One more message to the miner. *)
LEMMA SendKeeps ==
  ASSUME Carry, WireInv, CanSend, NEW m \in MessageSet, wire' = Append(wire, m),
         m.kind = "job" =>
           /\ conn'.cur # 0 /\ m.job.cid = conn'.cid /\ m.job.ex \in conn'.names
           /\ m.job.n \in 1..Latest' /\ m.job.n \in replaced' \cup OnFile(conn')
  PROVE  WireInv'
<1>1. wire \in Seq(MessageSet) /\ Len(wire) \in Nat /\ Len(wire) < WireCap /\ WireCap \in Nat
  BY StratumAssumption DEF WireInv, CanSend
<1>2. /\ wire' \in Seq(MessageSet) /\ Len(wire') = Len(wire) + 1
      /\ wire'[Len(wire) + 1] = m
      /\ \A i \in 1..Len(wire) : wire'[i] = wire[i]
  <2> HIDE DEF MessageSet
  <2> QED BY <1>1, AppendProperties
<1>3. ASSUME NEW i \in 1..Len(wire'), wire'[i].kind = "job"
      PROVE  /\ conn'.cur # 0 /\ wire'[i].job.cid = conn'.cid
             /\ wire'[i].job.ex \in conn'.names
             /\ wire'[i].job.n \in 1..Latest'
             /\ wire'[i].job.n \in replaced' \cup OnFile(conn')
  <2>1. CASE i = Len(wire) + 1
    BY <1>2, <1>3, <2>1
  <2>2. CASE i # Len(wire) + 1
    <3>1. i \in 1..Len(wire) /\ wire'[i] = wire[i]
      BY <1>1, <1>2, <2>2
    <3>2. JobOK(wire[i].job)
      BY <1>3, <3>1 DEF WireInv
    <3> DEFINE j == wire[i].job
    <3>3. conn.cur # 0 /\ j.cid = conn.cid /\ j.ex \in conn.names /\ OnHand(j.n)
      BY <3>2 DEF JobOK
    <3> HIDE DEF j
    <3>4. conn'.cur # 0 /\ j.cid = conn'.cid /\ j.ex \in conn'.names
          /\ j.n \in 1..Latest' /\ j.n \in replaced' \cup OnFile(conn')
      BY <3>3, CarryJob
    <3> QED BY <3>1, <3>4 DEF j
  <2> QED BY <2>1, <2>2
<1>4. Len(wire') <= WireCap
  BY <1>1, <1>2
<1> QED BY <1>2, <1>3, <1>4 DEF WireInv, JobOK, OnHand

(* A message less. *)
LEMMA TailOf ==
  ASSUME NEW S, NEW s \in Seq(S), s # <<>>
  PROVE  /\ Tail(s) \in Seq(S) /\ Len(Tail(s)) = Len(s) - 1 /\ Head(s) = s[1]
         /\ Len(s) \in Nat /\ 1 \in 1..Len(s) /\ Head(s) \in S
         /\ \A i \in 1..Len(Tail(s)) : i + 1 \in 1..Len(s) /\ Tail(s)[i] = s[i + 1]
<1>1. Tail(s) \in Seq(S) /\ Len(Tail(s)) = Len(s) - 1 /\ Len(s) \in Nat /\ Len(s) > 0
  BY EmptySeq
<1>2. \A i \in 1..Len(Tail(s)) : i + 1 \in 1..Len(s) /\ Tail(s)[i] = s[i + 1]
  BY <1>1
<1>3. Head(s) = s[1] /\ 1 \in 1..Len(s)
  BY <1>1
<1> QED BY <1>1, <1>2, <1>3

(* The bridge reads one of the miner's requests. *)
LEMMA ReadKeeps ==
  ASSUME Carry, InboxInv, inbox # <<>>, inbox' = Tail(inbox)
  PROVE  /\ InboxInv' /\ Head(inbox) \in RequestSet
         /\ Head(inbox).kind = "submit" => JobOK(Head(inbox).find)
<1>1. /\ inbox' \in Seq(RequestSet) /\ Head(inbox) = inbox[1]
      /\ Head(inbox) \in RequestSet /\ 1 \in 1..Len(inbox)
      /\ \A i \in 1..Len(inbox') : i + 1 \in 1..Len(inbox) /\ inbox'[i] = inbox[i + 1]
  <2> HIDE DEF RequestSet
  <2>1. inbox \in Seq(RequestSet)
    BY DEF InboxInv
  <2> QED BY <2>1, TailOf
<1>2. ASSUME NEW i \in 1..Len(inbox'), inbox'[i].kind = "submit"
      PROVE  /\ conn'.cur # 0 /\ inbox'[i].find.cid = conn'.cid
             /\ inbox'[i].find.ex \in conn'.names
             /\ inbox'[i].find.n \in 1..Latest'
             /\ inbox'[i].find.n \in replaced' \cup OnFile(conn')
  <2> DEFINE j == inbox[i + 1].find
  <2>1. i + 1 \in 1..Len(inbox) /\ inbox'[i] = inbox[i + 1]
    BY <1>1
  <2>2. conn.cur # 0 /\ j.cid = conn.cid /\ j.ex \in conn.names /\ OnHand(j.n)
    BY <1>2, <2>1 DEF InboxInv, JobOK
  <2> HIDE DEF j
  <2>3. conn'.cur # 0 /\ j.cid = conn'.cid /\ j.ex \in conn'.names
        /\ j.n \in 1..Latest' /\ j.n \in replaced' \cup OnFile(conn')
    BY <2>2, CarryJob
  <2> QED BY <2>1, <2>3 DEF j
<1>3. Head(inbox).kind = "submit" => JobOK(Head(inbox).find)
  BY <1>1 DEF InboxInv
<1> QED BY <1>1, <1>2, <1>3 DEF InboxInv, JobOK, OnHand

-----------------------------------------------------------------------------
(* The backend's steps, and those of other connections. *)

(* The threads of a connection that is not open are idle, so it is open    *)
(* for whoever works.                                                      *)
LEMMA WorkingIsOpen ==
  ASSUME ClosedInv, handler.pc # "read" \/ poller.pc # "tick"
  PROVE  conn.open
BY DEF ClosedInv, IdleHandler, IdlePoller

(* A step of neither thread keeps all but the backend's part. *)
LEMMA ElsewhereKeeps ==
  ASSUME BridgeInv, Carry, ConnInv', conn' = conn,
         UNCHANGED <<solo, handler, poller, network, lost>>
  PROVE  /\ HandlerInv' /\ PollerInv' /\ WireInv' /\ InboxInv' /\ MiningInv'
         /\ ClosedInv' /\ LostInv'
<1>1. HandlerInv' /\ PollerInv'
  BY CarryHandler, CarryPoller DEF BridgeInv
<1>2. WireInv' /\ InboxInv' /\ MiningInv'
  BY CarryNetwork DEF BridgeInv
<1>3. LostInv'
  BY CarryLost DEF BridgeInv
<1>4. ClosedInv'
  BY DEF BridgeInv, ClosedInv, network
<1> QED BY <1>1, <1>2, <1>3, <1>4

(* The backend builds a template. *)
LEMMA NewTemplateKeeps ==
  ASSUME BridgeInv, NewTemplate
  PROVE  BridgeInv'
<1>1. /\ UNCHANGED <<solo, shared, conn, handler, poller, network, lost>>
      /\ UNCHANGED <<conn, replaced>>
  BY DEF NewTemplate, bridge, history
<1>2. PICK t \in {Tip, Tip + 1} : t <= MaxTips /\ built' = Append(built, t)
  BY DEF NewTemplate
<1>3. BackendInv /\ ConnInv
  BY DEF BridgeInv
<1>4. t \in 1..MaxTips
  BY <1>2, <1>3, LatestIs, StratumAssumption
<1>5. built' \in Seq(1..MaxTips) /\ Len(built') > 0 /\ Carry /\ ConnInv'
  BY <1>1, <1>2, <1>3, <1>4, AppendTemplate
<1>6. BackendInv'
  BY <1>1, <1>3, <1>5 DEF BackendInv, Carry
<1> QED BY <1>1, <1>5, <1>6, ElsewhereKeeps DEF BridgeInv

(* The fetcher or another login changes the shared template. *)
LEMMA SharedKeeps ==
  ASSUME BridgeInv, FetchShared \/ \E a \in Others : OtherLogin(a)
  PROVE  BridgeInv'
<1>1. /\ UNCHANGED <<solo, built, conn, handler, poller, network, lost>>
      /\ UNCHANGED <<conn, built, replaced>>
  BY DEF FetchShared, OtherLogin, history
<1>2. BackendInv /\ ConnInv /\ Latest' = Latest
  BY <1>1 DEF BridgeInv, Latest
<1>3. Carry /\ ConnInv'
  BY <1>1, <1>2, SameCarry
<1>4. IsRecord(shared, {"work", "addr"})' /\ (shared'.work = NoWork \/ shared'.work.n \in 1..Latest)
  <2>1. CASE FetchShared
    BY <1>2, <2>1, LatestIs DEF FetchShared, IsRecord, BackendInv
  <2>2. ASSUME NEW a \in Others, OtherLogin(a)
        PROVE  IsRecord(shared, {"work", "addr"})' /\ (shared'.work = NoWork \/ shared'.work.n \in 1..Latest)
    BY <1>2, <2>2, LatestIs DEF OtherLogin, SeedShared, IsRecord, BackendInv
  <2> QED BY <2>1, <2>2
<1>5. BackendInv'
  BY <1>1, <1>2, <1>4 DEF BackendInv
<1> QED BY <1>1, <1>3, <1>5, ElsewhereKeeps DEF BridgeInv

-----------------------------------------------------------------------------
(* The handler's steps. *)

(* A step of the handler that leaves the connection and the templates.     *)
LEMMA AnsweringKeeps ==
  ASSUME BridgeInv, UNCHANGED <<solo, built, shared, conn, poller, replaced, lost>>,
         conn.open, HandlerInv', WireInv', InboxInv', mining' = mining
  PROVE  BridgeInv'
<1>1. Carry /\ ConnInv'
  BY SameCarry DEF BridgeInv
<1>2. PollerInv' /\ MiningInv' /\ LostInv'
  BY <1>1, CarryPoller, CarryMining, CarryLost DEF BridgeInv
<1>3. BackendInv'
  BY DEF BridgeInv, BackendInv, Latest
<1>4. ClosedInv'
  BY DEF ClosedInv
<1> QED BY <1>1, <1>2, <1>3, <1>4 DEF BridgeInv

(* A login names the address it is for. *)
LEMMA ReadLoginKeeps ==
  ASSUME BridgeInv, ReadLogin
  PROVE  BridgeInv'
<1> DEFINE a == Head(inbox).addr
<1>1. /\ conn.open /\ inbox # <<>> /\ inbox' = Tail(inbox)
      /\ conn' = [conn EXCEPT !.addr = a, !.names = @ \cup {a}]
      /\ handler' = [pc |-> "fetch"]
      /\ UNCHANGED <<solo, built, shared, poller, wire, mining, replaced, lost>>
      /\ Head(inbox).kind = "login"
  BY DEF ReadLogin, history
<1>2. a \in Addr
  <2>1. Head(inbox) \in RequestSet
    <3>1. inbox \in Seq(RequestSet)
      BY DEF BridgeInv, InboxInv
    <3> HIDE DEF RequestSet
    <3> QED BY <1>1, <3>1, TailOf
  <2> QED BY <1>1, <2>1 DEF RequestSet
<1>3. /\ IsRecord(conn, ConnFields) /\ conn.cid \in Nat /\ conn.open \in BOOLEAN
      /\ conn.names \subseteq Addr /\ IsFiniteSet(conn.names)
      /\ conn.tgt \in Target /\ conn.diff \in Target
      /\ conn.cur # 0 => conn.cur \in DOMAIN conn.jobs /\ conn.ex \in conn.names
      /\ IsFiniteSet(DOMAIN conn.jobs) /\ Cardinality(DOMAIN conn.jobs) <= MaxJobs
      /\ \A t \in DOMAIN conn.jobs : IdOK(conn.jobs[t]) /\ built[conn.jobs[t].n] = t
  BY DEF BridgeInv, ConnInv
<1> HIDE DEF a
<1>4. /\ conn'.cid = conn.cid /\ conn'.open = conn.open /\ conn'.names = conn.names \cup {a}
      /\ conn'.addr = a /\ conn'.ex = conn.ex /\ conn'.cur = conn.cur /\ conn'.jobs = conn.jobs
      /\ conn'.tgt = conn.tgt /\ conn'.diff = conn.diff
  <2>1. DOMAIN conn = ConnFields
    BY <1>3 DEF IsRecord
  <2> QED BY <1>1, <2>1 DEF ConnFields
<1>5. IsRecord(conn, ConnFields)'
  BY <1>1, <1>3 DEF IsRecord, ConnFields
<1>6. Latest' = Latest
  BY <1>1 DEF Latest
<1>7. Carry
  BY <1>1, <1>4, <1>6 DEF Carry, OnFile
<1>8. ConnInv'
  <2>1. IsFiniteSet(conn'.names) /\ conn'.names \subseteq Addr
    BY <1>2, <1>3, <1>4, FS_AddElement
  <2>2. (\A t \in DOMAIN conn.jobs : IdOK(conn.jobs[t]) /\ built[conn.jobs[t].n] = t)'
    BY <1>1, <1>3, <1>4, <1>6 DEF IdOK
  <2> QED BY <1>3, <1>4, <1>5, <2>1, <2>2 DEF ConnInv
<1>9. InboxInv'
  BY <1>1, <1>7, ReadKeeps DEF BridgeInv
<1>10. PollerInv' /\ WireInv' /\ MiningInv' /\ LostInv'
  BY <1>1, <1>4, <1>7, CarryPoller, CarryWire, CarryMining, CarryLost DEF BridgeInv
<1>11. HandlerInv'
  BY <1>1, <1>4 DEF HandlerInv
<1>12. BackendInv'
  BY <1>1, <1>6 DEF BridgeInv, BackendInv
<1>13. ClosedInv'
  BY <1>1, <1>4 DEF ClosedInv
<1> QED BY <1>8, <1>9, <1>10, <1>11, <1>12, <1>13 DEF BridgeInv

(* Its fetch asks for that address. *)
LEMMA LoginFetchesKeeps ==
  ASSUME BridgeInv, LoginFetches
  PROVE  BridgeInv'
<1>1. /\ handler.pc = "fetch" /\ handler' = [pc |-> "install", w |-> Work(conn.addr)]
      /\ UNCHANGED <<solo, built, shared, conn, poller, wire, inbox, mining, replaced, lost>>
  BY DEF LoginFetches, network, history
<1>2. Carry /\ conn.open
  BY <1>1, SameCarry, WorkingIsOpen DEF BridgeInv
<1>3. conn.addr \in conn.names
  BY <1>1 DEF BridgeInv, HandlerInv, IdleHandler
<1>4. Work(conn.addr).n \in 1..Latest /\ Work(conn.addr).addr = conn.addr
  BY LatestIs DEF BridgeInv
<1>5. Latest' = Latest
  BY <1>1 DEF Latest
<1>6. HandlerInv'
  BY <1>1, <1>3, <1>4, <1>5 DEF HandlerInv
<1>7. WireInv' /\ InboxInv'
  BY <1>1, <1>2, CarryWire, CarryInbox DEF BridgeInv
<1> QED BY <1>1, <1>2, <1>6, <1>7, AnsweringKeeps

(* A login whose fetch failed is told so. *)
LEMMA LoginFetchFailsKeeps ==
  ASSUME BridgeInv, LoginFetchFails
  PROVE  BridgeInv'
<1>1. /\ handler.pc = "fetch" /\ CanSend /\ handler' = IdleHandler
      /\ wire' = Append(wire, [kind |-> "refused"])
      /\ UNCHANGED <<solo, built, shared, conn, poller, inbox, mining, replaced, lost>>
  BY DEF LoginFetchFails, history
<1>2. Carry /\ conn.open
  BY <1>1, SameCarry, WorkingIsOpen DEF BridgeInv
<1>3. HandlerInv'
  BY <1>1 DEF HandlerInv
<1>4. WireInv'
  <2> DEFINE m == [kind |-> "refused"]
  <2>1. m \in MessageSet /\ m.kind # "job"
    BY DEF MessageSet
  <2> HIDE DEF m
  <2>2. wire' = Append(wire, m)
    BY <1>1 DEF m
  <2> QED BY <1>1, <1>2, <2>1, <2>2, SendKeeps DEF BridgeInv
<1>5. InboxInv'
  BY <1>1, <1>2, CarryInbox DEF BridgeInv
<1> QED BY <1>1, <1>2, <1>3, <1>4, <1>5, AnsweringKeeps

(* One that did not installs the job. *)
LEMMA LoginInstallsKeeps ==
  ASSUME BridgeInv, LoginInstalls
  PROVE  BridgeInv'
<1> DEFINE w == handler.w
           m == [kind |-> "job", job |-> Job(w, w.addr)]
<1>1. /\ handler.pc = "install" /\ CanSend
      /\ shared' = SeedShared(w, conn.addr)
      /\ conn' = SetJob(conn, w, w.addr, conn.addr)
      /\ replaced' = replaced \cup (OnFile(conn) \ OnFile(conn'))
      /\ wire' = Append(wire, m)
      /\ handler' = IdleHandler
      /\ UNCHANGED <<solo, built, poller, inbox, mining, lost>>
  BY DEF LoginInstalls
<1>2. conn.open /\ BackendInv /\ ConnInv
  BY <1>1, WorkingIsOpen DEF BridgeInv
<1>3. conn.addr \in conn.names /\ w.n \in 1..Latest /\ w.addr \in conn.names
  BY <1>1 DEF BridgeInv, HandlerInv, IdleHandler
<1> HIDE DEF w
<1>4. /\ ConnInv' /\ Carry
      /\ conn'.open = conn.open /\ conn'.addr = conn.addr
      /\ Job(w, w.addr) \in JobSet
      /\ conn'.cur # 0 /\ Job(w, w.addr).cid = conn'.cid /\ Job(w, w.addr).ex \in conn'.names
      /\ Job(w, w.addr).n \in 1..Latest' /\ Job(w, w.addr).n \in replaced' \cup OnFile(conn')
  BY <1>1, <1>2, <1>3, SetJobKeeps
<1>5. WireInv'
  <2>1. m \in MessageSet /\ m.kind = "job" /\ m.job = Job(w, w.addr)
    BY <1>4 DEF MessageSet
  <2> HIDE DEF m
  <2> QED BY <1>1, <1>4, <2>1, SendKeeps DEF BridgeInv
<1>6. InboxInv' /\ MiningInv' /\ PollerInv' /\ LostInv'
  BY <1>1, <1>4, CarryInbox, CarryMining, CarryPoller, CarryLost DEF BridgeInv
<1>7. HandlerInv'
  BY <1>1 DEF HandlerInv
<1>8. Latest' = Latest
  BY <1>1 DEF Latest
<1>9. BackendInv'
  <2>1. IsRecord(shared, {"work", "addr"})' /\ (shared'.work = NoWork \/ shared'.work.n \in 1..Latest)
    BY <1>1, <1>2, <1>3 DEF SeedShared, IsRecord, BackendInv
  <2> QED BY <1>1, <1>2, <1>8, <2>1 DEF BackendInv
<1>10. ClosedInv'
  BY <1>2, <1>4 DEF ClosedInv
<1> QED BY <1>4, <1>5, <1>6, <1>7, <1>9, <1>10 DEF BridgeInv

(* A submit is posted under the id of its template, if that is on file.    *)
LEMMA ReadSubmitKeeps ==
  ASSUME BridgeInv, ReadSubmit
  PROVE  BridgeInv'
<1> DEFINE find == Head(inbox).find
           id == IdOf(built[find.n])
           nonce == Nonce(find)
<1>1. /\ conn.open /\ inbox # <<>> /\ inbox' = Tail(inbox) /\ Head(inbox).kind = "submit"
      /\ handler' = [pc |-> "post", id |-> id, found |-> find, nonce |-> nonce,
                     tgt |-> conn.tgt, tries |-> 0]
      /\ UNCHANGED <<solo, built, shared, conn, poller, wire, mining, replaced, lost>>
  BY DEF ReadSubmit, history
<1>2. Carry /\ Latest' = Latest
  BY <1>1, SameCarry DEF BridgeInv, Latest
<1>3. InboxInv' /\ Head(inbox) \in RequestSet /\ JobOK(find)
  BY <1>1, <1>2, ReadKeeps DEF BridgeInv
<1>4. find \in FoundSet
  BY <1>1, <1>3 DEF RequestSet
<1>5. /\ conn.cur # 0 /\ find.cid = conn.cid /\ find.ex \in conn.names
      /\ find.n \in 1..Latest /\ find.n \in replaced \cup OnFile(conn)
  BY <1>3 DEF JobOK, OnHand
<1>6. /\ conn.names \subseteq Addr /\ conn.cid \in Nat
      /\ conn.cur \in DOMAIN conn.jobs /\ conn.ex \in conn.names
      /\ \A t \in DOMAIN conn.jobs : IdOK(conn.jobs[t]) /\ built[conn.jobs[t].n] = t
  BY <1>5 DEF BridgeInv, ConnInv
<1> HIDE DEF find
<1>7. IdOK(id) /\ (find.n \in replaced \/ id.n = find.n)
  <2>1. IdOK(id)
    BY <1>6 DEF IdOf
  <2>2. ASSUME find.n \in OnFile(conn)
        PROVE  id.n = find.n
    <3>1. PICK t \in DOMAIN conn.jobs : find.n = conn.jobs[t].n
      BY <2>2 DEF OnFile
    <3>2. built[find.n] = t
      BY <1>6, <3>1
    <3> QED BY <3>1, <3>2 DEF IdOf
  <2> QED BY <1>5, <2>1, <2>2
<1>8. /\ nonce \in FoundSet /\ nonce.ex \in conn.names
      /\ nonce = [find EXCEPT !.ex = nonce.ex]
  <2>1. nonce = [find EXCEPT !.cid = conn.cid, !.ex = conn.ex]
    BY DEF Nonce
  <2>2. nonce = [find EXCEPT !.ex = conn.ex] /\ nonce.ex = conn.ex
    BY <1>4, <1>5, <2>1 DEF FoundSet
  <2>3. nonce \in FoundSet
    BY <1>4, <1>6, <2>2 DEF FoundSet
  <2> QED BY <1>6, <2>2, <2>3
<1> HIDE DEF id, nonce
<1>9. IsRecord(handler, PostFields)' /\ handler'.pc = "post" /\ handler'.id = id
      /\ handler'.found = find /\ handler'.nonce = nonce
  BY <1>1 DEF IsRecord, PostFields
<1>10. HandlerInv'
  <2>1. IdOK(handler.id)'
    BY <1>1, <1>2, <1>7, <1>9 DEF IdOK
  <2> QED BY <1>1, <1>2, <1>4, <1>5, <1>7, <1>8, <1>9, <2>1 DEF HandlerInv, PostOK
<1>11. WireInv'
  BY <1>1, <1>2, CarryWire DEF BridgeInv
<1> QED BY <1>1, <1>3, <1>10, <1>11, AnsweringKeeps

(* What a submit under way is. *)
LEMMA PostIs ==
  ASSUME BridgeInv, handler.pc = "post"
  PROVE  PostOK /\ conn.open
BY WorkingIsOpen DEF BridgeInv, HandlerInv, IdleHandler

(* A block that the backend takes. *)
LEMMA BackendTakesBlockKeeps ==
  ASSUME BridgeInv, BackendTakesBlock
  PROVE  BridgeInv'
<1>1. /\ handler.pc = "post" /\ handler' = [pc |-> "answer", msg |-> "ok"]
      /\ built' = IF Tip < MaxTips /\ Latest < MaxTemplates THEN Append(built, Tip + 1) ELSE built
      /\ UNCHANGED <<solo, shared, conn, poller, wire, inbox, mining, replaced, lost>>
  BY DEF BackendTakesBlock, Answered, network, history
<1>2. conn.open /\ BackendInv /\ ConnInv
  BY <1>1, PostIs DEF BridgeInv
<1>3. Carry /\ ConnInv' /\ built' \in Seq(1..MaxTips) /\ Len(built') > 0
  <2>1. CASE Tip < MaxTips /\ Latest < MaxTemplates
    <3>1. Tip + 1 \in 1..MaxTips
      BY <1>2, <2>1, LatestIs, StratumAssumption
    <3>2. built' = Append(built, Tip + 1)
      BY <1>1, <2>1
    <3> QED BY <1>1, <1>2, <3>1, <3>2, AppendTemplate
  <2>2. CASE ~(Tip < MaxTips /\ Latest < MaxTemplates)
    <3>1. built' = built
      BY <1>1, <2>2
    <3> QED BY <1>1, <1>2, <3>1, SameCarry DEF BackendInv
  <2> QED BY <2>1, <2>2
<1>4. BackendInv'
  BY <1>1, <1>2, <1>3 DEF BackendInv, Carry
<1>5. PollerInv' /\ LostInv' /\ WireInv' /\ InboxInv' /\ MiningInv'
  BY <1>1, <1>3, CarryPoller, CarryLost, CarryWire, CarryInbox, CarryMining DEF BridgeInv
<1>6. HandlerInv'
  BY <1>1 DEF HandlerInv
<1>7. ClosedInv'
  BY <1>1, <1>2 DEF ClosedInv
<1> QED BY <1>3, <1>4, <1>5, <1>6, <1>7 DEF BridgeInv

(* A miner of one name loses a block only when its id was replaced: else   *)
(* the id and the nonce that were posted are those of the find.            *)
LEMMA BackendRefusesKeeps ==
  ASSUME BridgeInv, BackendRefuses
  PROVE  BridgeInv'
<1>1. /\ handler.pc = "post" /\ handler' = [pc |-> "answer", msg |-> "ok"]
      /\ ~(Known(handler.id) /\ Solves /\ Block)
      /\ lost' = IF Loses THEN lost \cup {handler.found.n} ELSE lost
      /\ UNCHANGED <<solo, built, shared, conn, poller, wire, inbox, mining, replaced>>
  BY DEF BackendRefuses, Answered, network
<1>2. conn.open /\ PostOK
  BY <1>1, PostIs
<1>3. Carry /\ ConnInv'
  BY <1>1, SameCarry DEF BridgeInv
<1>4. LostInv'
  <2>1. SUFFICES ASSUME OneName, Loses
                 PROVE  handler.found.n \in replaced
    BY <1>1 DEF BridgeInv, LostInv, OneName
  <2>2. SUFFICES ASSUME handler.id.n = handler.found.n
                 PROVE  FALSE
    BY <1>2 DEF PostOK
  <2>3. handler.nonce.ex = handler.found.ex
    BY <1>2, <2>1 DEF PostOK, OneName
  <2>4. handler.nonce = handler.found
    BY <1>2, <2>3 DEF PostOK, FoundSet
  <2>5. Known(handler.id) /\ Solves /\ Block
    BY <2>1, <2>2, <2>4 DEF Loses, Known, Solves
  <2> QED BY <1>1, <2>5
<1>5. PollerInv' /\ WireInv' /\ InboxInv' /\ MiningInv'
  BY <1>1, <1>3, CarryPoller, CarryWire, CarryInbox, CarryMining DEF BridgeInv
<1>6. HandlerInv'
  BY <1>1 DEF HandlerInv
<1>7. ClosedInv' /\ BackendInv'
  BY <1>1, <1>2 DEF ClosedInv, BridgeInv, BackendInv, Latest
<1> QED BY <1>3, <1>4, <1>5, <1>6, <1>7 DEF BridgeInv

(* A post that failed is repeated as it was, or given up. *)
LEMMA PostFailsKeeps ==
  ASSUME BridgeInv, PostFails
  PROVE  BridgeInv'
<1>1. /\ handler.pc = "post"
      /\ \/ handler' = [handler EXCEPT !.tries = @ + 1]
         \/ handler' = [pc |-> "answer", msg |-> "error"]
      /\ UNCHANGED <<solo, built, shared, conn, poller, wire, inbox, mining, replaced, lost>>
  BY DEF PostFails, Answered, network, history
<1>2. conn.open /\ PostOK
  BY <1>1, PostIs
<1>3. Carry
  BY <1>1, SameCarry
<1>4. HandlerInv'
  <2>1. CASE handler' = [pc |-> "answer", msg |-> "error"]
    BY <2>1 DEF HandlerInv
  <2>2. CASE handler' = [handler EXCEPT !.tries = @ + 1]
    <3>1. DOMAIN handler = PostFields
      BY <1>2 DEF PostOK, IsRecord
    <3>2. /\ handler'.pc = "post" /\ handler'.id = handler.id
          /\ handler'.found = handler.found /\ handler'.nonce = handler.nonce
      BY <1>1, <2>2, <3>1 DEF PostFields
    <3>3. IsRecord(handler, PostFields)'
      BY <2>2, <3>1 DEF IsRecord
    <3>4. Latest' = Latest
      BY <1>1 DEF Latest
    <3>5. PostOK'
      BY <1>1, <1>2, <3>2, <3>3, <3>4 DEF PostOK, IdOK
    <3> QED BY <3>2, <3>5 DEF HandlerInv
  <2> QED BY <1>1, <2>1, <2>2
<1>5. WireInv' /\ InboxInv'
  BY <1>1, <1>3, CarryWire, CarryInbox DEF BridgeInv
<1> QED BY <1>1, <1>2, <1>4, <1>5, AnsweringKeeps

(* The answer may come with a new share target for the next job. *)
LEMMA AnswerKeeps ==
  ASSUME BridgeInv, Answer
  PROVE  BridgeInv'
<1>1. /\ handler.pc = "answer" /\ CanSend /\ handler' = IdleHandler
      /\ wire' = Append(wire, [kind |-> handler.msg])
      /\ UNCHANGED <<solo, built, shared, poller, inbox, mining, replaced, lost>>
  BY DEF Answer, history
<1>2. PICK d \in Target : conn' = [conn EXCEPT !.diff = d]
  BY DEF Answer
<1>3. conn.open /\ handler.msg \in {"ok", "error"} /\ ConnInv
  BY <1>1, WorkingIsOpen DEF BridgeInv, HandlerInv, IdleHandler
<1>4. DOMAIN conn = ConnFields
  BY <1>3 DEF ConnInv, IsRecord
<1>5. /\ conn'.cid = conn.cid /\ conn'.open = conn.open /\ conn'.names = conn.names
      /\ conn'.addr = conn.addr /\ conn'.ex = conn.ex /\ conn'.cur = conn.cur
      /\ conn'.jobs = conn.jobs /\ conn'.tgt = conn.tgt /\ conn'.diff = d
      /\ Latest' = Latest
  BY <1>1, <1>2, <1>4 DEF ConnFields, Latest
<1>6. IsRecord(conn, ConnFields)'
  BY <1>2, <1>4 DEF IsRecord
<1>7. Carry
  BY <1>1, <1>5 DEF Carry, OnFile
<1>8. ConnInv'
  BY <1>1, <1>3, <1>5, <1>6 DEF ConnInv, IdOK
<1>9. WireInv'
  <2> DEFINE m == [kind |-> handler.msg]
  <2>1. m \in MessageSet /\ m.kind # "job"
    BY <1>3 DEF MessageSet
  <2> HIDE DEF m
  <2>2. wire' = Append(wire, m)
    BY <1>1 DEF m
  <2> QED BY <1>1, <1>7, <2>1, <2>2, SendKeeps DEF BridgeInv
<1>10. InboxInv' /\ MiningInv' /\ PollerInv' /\ LostInv'
  BY <1>1, <1>5, <1>7, CarryInbox, CarryMining, CarryPoller, CarryLost DEF BridgeInv
<1>11. HandlerInv' /\ ClosedInv'
  BY <1>1, <1>3, <1>5 DEF HandlerInv, ClosedInv
<1>12. BackendInv'
  BY <1>1, <1>5 DEF BridgeInv, BackendInv
<1> QED BY <1>8, <1>9, <1>10, <1>11, <1>12 DEF BridgeInv

-----------------------------------------------------------------------------
(* The poller's steps. *)

(* A poll notes the addresses, fetches for them, or gives up. *)
LEMMA PollingKeeps ==
  ASSUME BridgeInv, PollSnapshot \/ PollFetches \/ PollFails
  PROVE  BridgeInv'
<1>1. UNCHANGED <<solo, built, shared, conn, handler, wire, inbox, mining, replaced, lost>>
  BY DEF PollSnapshot, PollFetches, PollFails, network, history
<1>2. Carry /\ ConnInv' /\ Latest' = Latest
  BY <1>1, SameCarry DEF BridgeInv, Latest
<1>3. conn.open
  BY WorkingIsOpen DEF BridgeInv, PollSnapshot, PollFetches, PollFails
<1>4. PollerInv'
  <2>1. CASE PollSnapshot
    BY <1>1, <2>1 DEF PollSnapshot, PollerInv, BridgeInv, ConnInv
  <2>2. CASE PollFetches
    <3>1. poller.pc = "fetch" /\ poller.addr \in conn.names /\ poller.ex \in conn.names
          /\ conn.addr \in conn.names
      BY <2>2 DEF PollFetches, BridgeInv, PollerInv, IdlePoller
    <3> DEFINE w == IF solo THEN Work(poller.addr) ELSE shared.work
    <3>2. poller' = IF w = NoWork THEN IdlePoller
                    ELSE [pc |-> "push", addr |-> poller.addr, ex |-> poller.ex, w |-> w]
      BY <2>2 DEF PollFetches
    <3>3. w # NoWork => w.n \in 1..Latest /\ (solo => w.addr \in conn.names)
      BY <3>1, LatestIs DEF BridgeInv, BackendInv
    <3> HIDE DEF w
    <3> QED BY <1>1, <1>2, <3>1, <3>2, <3>3 DEF PollerInv
  <2>3. CASE PollFails
    BY <2>3 DEF PollFails, PollerInv
  <2> QED BY <2>1, <2>2, <2>3
<1>5. HandlerInv' /\ WireInv' /\ InboxInv' /\ MiningInv' /\ LostInv'
  BY <1>1, <1>2, CarryHandler, CarryWire, CarryInbox, CarryMining, CarryLost DEF BridgeInv
<1>6. BackendInv' /\ ClosedInv'
  BY <1>1, <1>2, <1>3 DEF BridgeInv, BackendInv, ClosedInv
<1> QED BY <1>2, <1>4, <1>5, <1>6 DEF BridgeInv

(* It installs what it fetched, and pushes it if there is a reason. *)
LEMMA PollPushesKeeps ==
  ASSUME BridgeInv, PollPushes
  PROVE  BridgeInv'
<1> DEFINE w == poller.w
           m == [kind |-> "job", job |-> Job(w, poller.ex)]
<1>1. /\ poller.pc = "push" /\ poller' = IdlePoller
      /\ conn' = SetJob(conn, w, poller.ex, poller.addr)
      /\ replaced' = replaced \cup (OnFile(conn) \ OnFile(conn'))
      /\ wire' = wire \/ (CanSend /\ wire' = Append(wire, m))
      /\ UNCHANGED <<solo, built, shared, handler, inbox, mining, lost>>
  BY DEF PollPushes
<1>2. conn.open /\ BackendInv /\ ConnInv
  BY <1>1, WorkingIsOpen DEF BridgeInv
<1>3. /\ conn.addr \in conn.names /\ poller.addr \in conn.names /\ poller.ex \in conn.names
      /\ w.n \in 1..Latest /\ (solo => w.addr \in conn.names)
  BY <1>1 DEF BridgeInv, PollerInv, IdlePoller
<1> HIDE DEF w
<1>4. /\ ConnInv' /\ Carry
      /\ conn'.open = conn.open /\ conn'.addr = conn.addr
      /\ Job(w, poller.ex) \in JobSet
      /\ conn'.cur # 0 /\ Job(w, poller.ex).cid = conn'.cid /\ Job(w, poller.ex).ex \in conn'.names
      /\ Job(w, poller.ex).n \in 1..Latest'
      /\ Job(w, poller.ex).n \in replaced' \cup OnFile(conn')
  BY <1>1, <1>2, <1>3, SetJobKeeps
<1>5. WireInv'
  <2>1. m \in MessageSet /\ m.kind = "job" /\ m.job = Job(w, poller.ex)
    BY <1>4 DEF MessageSet
  <2> HIDE DEF m
  <2>2. CASE wire' = wire
    BY <1>4, <2>2, CarryWire DEF BridgeInv
  <2>3. CASE CanSend /\ wire' = Append(wire, m)
    BY <1>4, <2>1, <2>3, SendKeeps DEF BridgeInv
  <2> QED BY <1>1, <2>2, <2>3
<1>6. InboxInv' /\ MiningInv' /\ HandlerInv' /\ LostInv'
  BY <1>1, <1>4, CarryInbox, CarryMining, CarryHandler, CarryLost DEF BridgeInv
<1>7. PollerInv' /\ ClosedInv'
  BY <1>1, <1>2, <1>4 DEF PollerInv, ClosedInv
<1>8. BackendInv'
  BY <1>1, <1>2 DEF BackendInv, Latest
<1> QED BY <1>4, <1>5, <1>6, <1>7, <1>8 DEF BridgeInv

-----------------------------------------------------------------------------
(* The miner and the link. *)

(* A job or find that was sound, as the next state sees it. *)
StaysOK(j) == /\ conn'.cur # 0 /\ j.cid = conn'.cid /\ j.ex \in conn'.names
              /\ j.n \in 1..Latest' /\ j.n \in replaced' \cup OnFile(conn')

(* It stays sound. *)
LEMMA CarryOne == ASSUME Carry, NEW j, JobOK(j) PROVE StaysOK(j)
BY CarryJob DEF JobOK, StaysOK

(* A job that is delivered is one of the wire's. *)
LEMMA DeliverKeeps ==
  ASSUME BridgeInv, Deliver
  PROVE  BridgeInv'
<1>1. /\ conn.open /\ wire # <<>> /\ wire' = Tail(wire)
      /\ mining' = IF Head(wire).kind = "job" THEN Head(wire).job ELSE mining
      /\ UNCHANGED <<solo, built, shared, conn, handler, poller, inbox, replaced, lost>>
  BY DEF Deliver, bridge, history
<1>2. Carry /\ ConnInv'
  BY <1>1, SameCarry DEF BridgeInv
<1>3. /\ wire' \in Seq(MessageSet) /\ Len(wire') = Len(wire) - 1 /\ Head(wire) = wire[1]
      /\ Len(wire) \in Nat /\ 1 \in 1..Len(wire) /\ Head(wire) \in MessageSet
      /\ \A i \in 1..Len(wire') : i + 1 \in 1..Len(wire) /\ wire'[i] = wire[i + 1]
  <2> HIDE DEF MessageSet
  <2>1. wire \in Seq(MessageSet)
    BY DEF BridgeInv, WireInv
  <2> QED BY <1>1, <2>1, TailOf
<1>4. \A i \in 1..Len(wire) : wire[i].kind = "job" => StaysOK(wire[i].job)
  BY <1>2, CarryOne DEF BridgeInv, WireInv
<1>5. WireInv'
  <2>1. Len(wire) <= WireCap /\ WireCap \in Nat
    BY StratumAssumption DEF BridgeInv, WireInv
  <2>4. Len(wire') <= WireCap
    BY <1>3, <2>1
  <2>2. \A i \in 1..Len(wire') : wire'[i].kind = "job" => StaysOK(wire'[i].job)
    BY <1>3, <1>4
  <2>3. ( \A i \in 1..Len(wire) : wire[i].kind = "job" => JobOK(wire[i].job) )'
    BY <2>2 DEF JobOK, OnHand, StaysOK
  <2> QED BY <1>3, <2>3, <2>4 DEF WireInv
<1>6. MiningInv'
  <2>1. CASE Head(wire).kind = "job"
    <3>1. Head(wire).job \in JobSet
      BY <1>3, <2>1 DEF MessageSet
    <3>2. StaysOK(Head(wire).job)
      BY <1>3, <1>4, <2>1
    <3> QED BY <1>1, <2>1, <3>1, <3>2 DEF MiningInv, JobOK, OnHand, StaysOK
  <2>2. CASE Head(wire).kind # "job"
    BY <1>1, <1>2, <2>2, CarryMining DEF BridgeInv
  <2> QED BY <2>1, <2>2
<1>7. InboxInv' /\ HandlerInv' /\ PollerInv' /\ LostInv'
  BY <1>1, <1>2, CarryInbox, CarryHandler, CarryPoller, CarryLost DEF BridgeInv
<1>8. ClosedInv' /\ BackendInv'
  BY <1>1 DEF BridgeInv, ClosedInv, BackendInv, Latest
<1> QED BY <1>2, <1>5, <1>6, <1>7, <1>8 DEF BridgeInv

(* A request goes into an empty inbox. *)
LEMMA RequestKeeps ==
  ASSUME BridgeInv, conn.open, inbox = <<>>, NEW r \in RequestSet,
         inbox' = Append(inbox, r), r.kind = "submit" => JobOK(r.find),
         UNCHANGED <<solo, built, bridge, wire, mining, history>>
  PROVE  BridgeInv'
<1>1. UNCHANGED <<solo, built, shared, conn, handler, poller, wire, mining, replaced, lost>>
  BY DEF bridge, history
<1>2. Carry /\ ConnInv'
  BY <1>1, SameCarry DEF BridgeInv
<1>3. InboxInv'
  <2> HIDE DEF RequestSet
  <2>1. inbox \in Seq(RequestSet) /\ Len(inbox) = 0
    BY EmptySeq DEF BridgeInv, InboxInv
  <2>2. inbox' \in Seq(RequestSet) /\ Len(inbox') = 1 /\ inbox'[1] = r
    BY <2>1, AppendProperties
  <2>3. r.kind = "submit" => StaysOK(r.find)
    BY <1>2, CarryOne
  <2>4. \A i \in 1..Len(inbox') : i = 1
    BY <2>2
  <2>5. \A i \in 1..Len(inbox') : inbox'[i].kind = "submit" => StaysOK(inbox'[i].find)
    BY <2>2, <2>3, <2>4
  <2>6. ( \A i \in 1..Len(inbox) : inbox[i].kind = "submit" => JobOK(inbox[i].find) )'
    BY <2>5 DEF JobOK, OnHand, StaysOK
  <2> QED BY <2>2, <2>6 DEF InboxInv
<1>4. WireInv' /\ MiningInv' /\ HandlerInv' /\ PollerInv' /\ LostInv'
  BY <1>1, <1>2, CarryWire, CarryMining, CarryHandler, CarryPoller, CarryLost DEF BridgeInv
<1>5. ClosedInv' /\ BackendInv'
  BY <1>1 DEF BridgeInv, ClosedInv, BackendInv, Latest
<1> QED BY <1>2, <1>3, <1>4, <1>5 DEF BridgeInv

(* The miner's login. *)
LEMMA LoginKeeps ==
  ASSUME BridgeInv, NEW a \in Addr, Login(a)
  PROVE  BridgeInv'
<1> DEFINE r == [kind |-> "login", addr |-> a]
<1>1. r \in RequestSet /\ r.kind # "submit"
  BY DEF RequestSet
<1>2. /\ conn.open /\ inbox = <<>> /\ inbox' = Append(inbox, r)
      /\ UNCHANGED <<solo, built, bridge, wire, mining, history>>
  BY DEF Login, Quiet
<1> HIDE DEF r
<1> QED BY <1>1, <1>2, RequestKeeps

(* Its find is for a job that it was sent. *)
LEMMA FindKeeps ==
  ASSUME BridgeInv, NEW block \in BOOLEAN, Find(block)
  PROVE  BridgeInv'
<1> DEFINE f == [n |-> mining.n, ex |-> mining.ex, cid |-> mining.cid,
                 tgt |-> mining.tgt, block |-> block]
           r == [kind |-> "submit", find |-> f]
<1>1. /\ conn.open /\ inbox = <<>> /\ inbox' = Append(inbox, r) /\ mining # NoJob
      /\ UNCHANGED <<solo, built, bridge, wire, mining, history>>
  BY DEF Find, Quiet
<1>2. mining \in JobSet /\ JobOK(mining)
  BY <1>1 DEF BridgeInv, MiningInv
<1>3. f \in FoundSet /\ JobOK(f)
  BY <1>2 DEF FoundSet, JobSet, JobOK
<1> HIDE DEF f
<1>4. r \in RequestSet /\ JobOK(r.find)
  BY <1>3 DEF RequestSet
<1> HIDE DEF r
<1> QED BY <1>1, <1>4, RequestKeeps

(* The link dies. *)
LEMMA LinkDiesKeeps ==
  ASSUME BridgeInv, LinkDies
  PROVE  BridgeInv'
<1>1. /\ UNCHANGED <<solo, handler, poller, wire, inbox, mining, lost>>
      /\ UNCHANGED <<built, shared, conn, replaced>>
  BY DEF LinkDies, bridge, history
<1>2. Carry /\ ConnInv'
  BY <1>1, SameCarry DEF BridgeInv
<1>3. HandlerInv' /\ PollerInv' /\ WireInv' /\ InboxInv' /\ MiningInv' /\ LostInv'
  BY <1>1, <1>2, CarryHandler, CarryPoller, CarryWire, CarryInbox, CarryMining, CarryLost
  DEF BridgeInv
<1>4. ClosedInv' /\ BackendInv'
  BY <1>1 DEF BridgeInv, ClosedInv, BackendInv, Latest
<1> QED BY <1>2, <1>3, <1>4 DEF BridgeInv

(* Nothing is on an empty link. *)
LEMMA EmptyLink ==
  ASSUME wire' = <<>>, inbox' = <<>>, mining' = NoJob
  PROVE  WireInv' /\ InboxInv' /\ MiningInv'
<1>1. wire' \in Seq(MessageSet) /\ Len(wire') = 0 /\ inbox' \in Seq(RequestSet) /\ Len(inbox') = 0
  BY EmptySeq
<1>2. \A i \in 1..0 : FALSE
  OBVIOUS
<1>3. 0 <= WireCap
  BY StratumAssumption
<1> QED BY <1>1, <1>2, <1>3 DEF WireInv, InboxInv, MiningInv

(* A deadline ends the connection. *)
LEMMA CloseKeeps ==
  ASSUME BridgeInv, Close
  PROVE  BridgeInv'
<1>1. /\ handler' = IdleHandler /\ poller' = IdlePoller
      /\ wire' = <<>> /\ inbox' = <<>> /\ mining' = NoJob
      /\ conn' = [conn EXCEPT !.open = FALSE]
      /\ UNCHANGED <<solo, built, shared, replaced, lost>>
  BY DEF Close, history
<1>2. ConnInv /\ DOMAIN conn = ConnFields
  BY DEF BridgeInv, ConnInv, IsRecord
<1>3. /\ conn'.cid = conn.cid /\ conn'.open = FALSE /\ conn'.names = conn.names
      /\ conn'.addr = conn.addr /\ conn'.ex = conn.ex /\ conn'.cur = conn.cur
      /\ conn'.jobs = conn.jobs /\ conn'.tgt = conn.tgt /\ conn'.diff = conn.diff
      /\ Latest' = Latest
  BY <1>1, <1>2 DEF ConnFields, Latest
<1>4. IsRecord(conn, ConnFields)'
  BY <1>1, <1>2 DEF IsRecord
<1>5. ConnInv'
  BY <1>1, <1>2, <1>3, <1>4 DEF ConnInv, IdOK
<1>6. WireInv' /\ InboxInv' /\ MiningInv'
  BY <1>1, EmptyLink
<1>7. BackendInv' /\ ClosedInv' /\ HandlerInv' /\ PollerInv' /\ LostInv'
  BY <1>1, <1>3 DEF BridgeInv, BackendInv, ClosedInv, HandlerInv, PollerInv, LostInv, OneName
<1> QED BY <1>5, <1>6, <1>7 DEF BridgeInv

(* A connection that was just made knows nothing. *)
LEMMA FreshIs ==
  ASSUME NEW cid \in Nat
  PROVE  LET c == Fresh(cid)
         IN /\ IsRecord(c, ConnFields) /\ c.cid \in Nat /\ c.open
            /\ c.names = {} /\ IsFiniteSet(c.names) /\ c.cur = 0 /\ c.jobs = <<>>
            /\ c.tgt \in Target /\ c.diff \in Target
            /\ DOMAIN c.jobs = {} /\ IsFiniteSet(DOMAIN c.jobs)
            /\ Cardinality(DOMAIN c.jobs) <= MaxJobs
<1>1. DOMAIN << >> = {}
  OBVIOUS
<1>2. IsFiniteSet({}) /\ Cardinality({}) = 0
  BY FS_EmptySet
<1>3. MaxJobs \in Nat /\ Easiest \in Target
  BY StratumAssumption
<1>4. IsRecord(Fresh(cid), ConnFields)
  BY DEF IsRecord, Fresh, ConnFields
<1> QED BY <1>1, <1>2, <1>3, <1>4 DEF Fresh

(* The rig connects again. *)
LEMMA ReconnectKeeps ==
  ASSUME BridgeInv, NEW a \in Addr, Reconnect(a)
  PROVE  BridgeInv'
<1> DEFINE r == [kind |-> "login", addr |-> a]
<1>1. /\ ~conn.open /\ conn' = Fresh(conn.cid + 1)
      /\ inbox' = <<r>> /\ replaced' = {} /\ lost' = {}
      /\ UNCHANGED <<solo, built, shared, handler, poller, wire, mining>>
  BY DEF Reconnect
<1>2. /\ handler' = IdleHandler /\ poller' = IdlePoller /\ wire' = <<>> /\ mining' = NoJob
  BY <1>1 DEF BridgeInv, ClosedInv
<1>3. conn.cid + 1 \in Nat
  BY DEF BridgeInv, ConnInv
<1>4. ConnInv' /\ conn'.open
  BY <1>1, <1>3, FreshIs DEF ConnInv
<1>5. InboxInv'
  <2>1. r \in RequestSet /\ r.kind # "submit"
    BY DEF RequestSet
  <2> HIDE DEF r, RequestSet
  <2>2. inbox' \in Seq(RequestSet) /\ Len(inbox') = 1 /\ inbox'[1] = r
    BY <1>1, <2>1
  <2> QED BY <2>1, <2>2 DEF InboxInv
<1>6. WireInv' /\ MiningInv'
  <2>1. wire' \in Seq(MessageSet) /\ Len(wire') = 0
    BY <1>2, EmptySeq
  <2>2. \A i \in 1..0 : FALSE
    OBVIOUS
  <2> QED BY <1>2, <2>1, <2>2, StratumAssumption DEF WireInv, MiningInv
<1>7. BackendInv' /\ ClosedInv' /\ HandlerInv' /\ PollerInv' /\ LostInv'
  BY <1>1, <1>2, <1>4 DEF BridgeInv, BackendInv, ClosedInv, HandlerInv, PollerInv, LostInv, Latest
<1> QED BY <1>4, <1>5, <1>6, <1>7 DEF BridgeInv

-----------------------------------------------------------------------------
(* The specification. *)

(* The bridge starts well. *)
LEMMA InitBridge == Init => BridgeInv
<1> SUFFICES ASSUME Init PROVE BridgeInv
  OBVIOUS
<1>1. BackendInv
  <2>1. <<1>> \in Seq(1..MaxTips) /\ Len(<<1>>) > 0
    BY StratumAssumption
  <2>2. IsRecord([work |-> NoWork, addr |-> NoAddr], {"work", "addr"})
    BY DEF IsRecord
  <2> QED BY <2>1, <2>2 DEF Init, BackendInv
<1>2. ConnInv /\ conn.open
  BY FreshIs DEF Init, ConnInv
<1>3. WireInv /\ InboxInv /\ MiningInv
  <2>1. wire \in Seq(MessageSet) /\ Len(wire) = 0 /\ inbox \in Seq(RequestSet) /\ Len(inbox) = 0
    BY EmptySeq DEF Init
  <2>2. \A i \in 1..0 : FALSE
    OBVIOUS
  <2> QED BY <2>1, <2>2, StratumAssumption DEF Init, WireInv, InboxInv, MiningInv
<1>4. HandlerInv /\ PollerInv /\ ClosedInv /\ LostInv
  BY <1>2 DEF Init, HandlerInv, PollerInv, ClosedInv, LostInv
<1> QED BY <1>1, <1>2, <1>3, <1>4 DEF BridgeInv

(* Every step keeps it so. *)
LEMMA NextKeepsBridge == BridgeInv /\ [Next]_vars => BridgeInv'
<1> SUFFICES ASSUME BridgeInv, [Next]_vars PROVE BridgeInv'
  OBVIOUS
<1>1. CASE NewTemplate
  BY <1>1, NewTemplateKeeps
<1>2. CASE FetchShared \/ \E a \in Others : OtherLogin(a)
  BY <1>2, SharedKeeps
<1>3. CASE HandlerStep
  BY <1>3, ReadLoginKeeps, LoginFetchesKeeps, LoginInstallsKeeps, ReadSubmitKeeps,
     BackendTakesBlockKeeps, BackendRefusesKeeps, AnswerKeeps DEF HandlerStep
<1>4. CASE LoginFetchFails \/ PostFails
  BY <1>4, LoginFetchFailsKeeps, PostFailsKeeps
<1>5. CASE PollerStep \/ PollFails
  BY <1>5, PollingKeeps, PollPushesKeeps DEF PollerStep
<1>6. CASE Deliver \/ LinkDies \/ Close
  BY <1>6, DeliverKeeps, LinkDiesKeeps, CloseKeeps
<1>7. CASE \E a \in Addr : Login(a) \/ Reconnect(a)
  BY <1>7, LoginKeeps, ReconnectKeeps
<1>8. CASE \E block \in BOOLEAN : Find(block)
  BY <1>8, FindKeeps
<1>9. CASE UNCHANGED vars
  <2>1. /\ UNCHANGED <<solo, handler, poller, network, lost>>
        /\ UNCHANGED <<conn, built, replaced>> /\ UNCHANGED <<built, shared>>
    BY <1>9 DEF vars, bridge, history
  <2>2. Carry /\ ConnInv'
    BY <2>1, SameCarry DEF BridgeInv
  <2> QED BY <2>1, <2>2, ElsewhereKeeps DEF BridgeInv, BackendInv, Latest
<1> QED BY <1>1, <1>2, <1>3, <1>4, <1>5, <1>6, <1>7, <1>8, <1>9 DEF Next

(* So it always is. *)
LEMMA AlwaysBridge == Spec => []BridgeInv
BY InitBridge, NextKeepsBridge, PTL DEF Spec

(* One name: any two names of the connection are the same. *)
LEMMA SingleName ==
  ASSUME ConnInv, Cardinality(conn.names) = 1
  PROVE  OneName
<1>1. PICK x : conn.names = {x}
  BY FS_Singleton DEF ConnInv
<1> QED BY <1>1 DEF OneName

(* Main.go's connection is always well formed: the job ids on file, at     *)
(* most MaxJobs, are those of their templates, the current one among them, *)
(* and the socket buffer holds what it can; and with one login address per *)
(* connection every share is posted under the address whose extranonce it  *)
(* was mined with.                                                         *)
THEOREM ConnectionAlwaysSound == Spec => []ConnectionSound
<1>1. BridgeInv => ConnectionSound
  <2> SUFFICES ASSUME BridgeInv PROVE ConnectionSound
    OBVIOUS
  <2>1. \A n \in 1..Latest : built[n] \in 1..MaxTips
    BY LatestIs DEF BridgeInv
  <2>2. mining = NoJob \/ mining.n \in 1..Latest
    BY DEF BridgeInv, MiningInv, JobOK, OnHand
  <2>3. StratumTypeOK
    BY <2>1, <2>2 DEF BridgeInv, WireInv, ConnInv, StratumTypeOK
  <2>4. SharesBound
    <3> SUFFICES ASSUME handler.pc = "post", Cardinality(conn.names) = 1
                 PROVE  handler.found.ex = handler.id.addr
      BY DEF SharesBound
    <3>1. OneName
      BY SingleName DEF BridgeInv
    <3>2. PostOK
      BY PostIs
    <3> QED BY <3>1, <3>2 DEF PostOK, IdOK, OneName
  <2> QED BY <2>3, <2>4 DEF ConnectionSound
<1> QED BY <1>1, AlwaysBridge, PTL

(* A block found for a template of the current tip reaches the backend as  *)
(* it was found, whatever the interleaving of the two threads, unless the  *)
(* id of its template was replaced on this connection.                     *)
THEOREM BlockLostOnlyByRefreshAlways == Spec => []BlockLostOnlyByRefresh
<1>1. BridgeInv => BlockLostOnlyByRefresh
  BY SingleName DEF BridgeInv, LostInv, BlockLostOnlyByRefresh
<1> QED BY <1>1, AlwaysBridge, PTL

(* The operations of the scripts. *)

Markers == {"pending", "suspect", "badversion"}
Counts == {"bootn", "confirmn"}
Flags == {"envhalt", "noupdate"}
Release == Version \cup {Absent}

WriteOps ==
  {Write(f, v) : f \in Markers, v \in Release} \cup {Write(f, n) : f \in Counts, n \in 0..3}
  \cup {Write(f, v) : f \in Flags, v \in {Absent, Present}}
  \cup {Write("new", v) : v \in Release} \cup {Remove("old"), Remove("bad")}
RollbackMoves == {Move("exe", "bad"), Move("old", "exe"), Move("bad", "exe")}
Op == WriteOps \cup RollbackMoves
      \cup {Move("exe", "old"), Move("new", "exe"), Copy("exe", "old"), Exit}

(* The operations left to a thread. *)
Ops(t) == {script[t][i] : i \in 1..Len(script[t])}

(* Exit ends a script; after the rename back of a rollback only writes     *)
(* follow, and in a bridge nothing; the boot counter goes after the marker *)
(* of the pending release.                                                 *)
InOrder(s) ==
  \A i, j \in 1..Len(s) : i < j =>
    /\ s[i] # Exit
    /\ s[i] = Move("old", "exe") => /\ s[j].kind \in {"write", "exit"}
                                    /\ product = "bridge" => s[j] = Exit
    /\ s[i] = Remove("bootn") => s[j] # Remove("pending")

OnlyWrites(t) == \A op \in Ops(t) : op.kind = "write"

-----------------------------------------------------------------------------
(* The inductive invariant of self-update and self-heal. *)

(* Types, and which thread may work when. *)
ProcessInv ==
  /\ product \in {"node", "bridge"} /\ windows \in BOOLEAN /\ dataOK \in BOOLEAN
  /\ product = "bridge" => dataOK
  /\ overlap \in BOOLEAN /\ guarded \in BOOLEAN /\ mishaps \in Nat
  /\ phase \in {"off", "cli", "boot", "load", "running", "up"}
  /\ run \in Release /\ (run = Absent) = (phase = "off")
  /\ watch \in {"none", "watch", "confirm", "recover"}
  /\ watch # "none" => /\ phase \in {"boot", "load", "running", "up"}
                       /\ script["watch"] = <<>>
  /\ guarded => phase \in {"boot", "load", "running", "up"}
  /\ script = [t \in Thread |-> script[t]]
  /\ \A t \in Thread : script[t] \in Seq(Op) /\ InOrder(script[t])
  /\ script["boot"] # <<>> => phase = "boot"
  /\ script["watch"] # <<>> => phase \in {"load", "running", "up"}
  /\ script["update"] # <<>> =>
       phase \in {"up", "cli"} \/ (phase = "running" /\ quality[run] = "hanging")
  /\ ~dataOK => phase \notin {"running", "up"}

FilesInv ==
  /\ files = [f \in File |-> files[f]]
  /\ \A f \in Markers \cup {"exe", "new", "old", "bad"} : files[f] \in Release
  /\ \A f \in Counts : files[f] \in 0..3

(* What the boot and the confirmation may do to the files. *)
BootInv ==
  /\ \A t \in {"boot", "watch"} : \A op \in Ops(t) :
       /\ op.kind = "write" => op.to # "new" /\ (op.to = "pending" => op.val = Absent)
       /\ op.kind = "move" => op \in RollbackMoves
       /\ op.kind # "copy"
       /\ op = Remove("pending") => Remove("bootn") \in Ops(t)
  /\ OnlyWrites("watch")
  /\ phase # "up" => Remove("bootn") \notin Ops("watch")
  /\ \A op \in Ops("watch") : op.to = "bootn" => op = Remove("bootn")
  /\ watch # "none" => OnlyWrites("boot")
  /\ Remove("old") \in Ops("boot") => OnlyWrites("boot") /\ files["exe"] # Absent
  /\ Move("exe", "bad") \in Ops("boot") \/ Move("old", "exe") \in Ops("boot") =>
       files["old"] # Absent
  /\ \A op \in Ops("boot") : op.kind = "write" /\ op.to = "bootn" /\ op.val # 0 =>
       Ops("boot") = {op} /\ files["pending"] # Absent

-----------------------------------------------------------------------------
(* How far an update has come: the steps of its script that are left. *)

(* An update, and a rollback of the node. *)
UpdateOps(m) ==
  <<Remove("new"), Write("new", m), Remove("old"),
    IF windows THEN Move("exe", "old") ELSE Copy("exe", "old"),
    Move("new", "exe"), Write("pending", m), Write("bootn", 0), Exit>>
RollbackOps(v) ==
  <<Write("suspect", v), Write("confirmn", 0), Move("exe", "bad"), Move("old", "exe"),
    Remove("pending"), Remove("bootn"), Exit>>

LeftOf(s, full, k) ==
  Len(s) = Len(full) - k + 1 /\ \A i \in 1..Len(s) : s[i] = full[k + i - 1]

Few == mishaps <= 1

Left(m, k) ==
  /\ LeftOf(script["update"], UpdateOps(m), k)
  /\ k <= 4 => files["exe"] # Absent
  /\ k \in 3..5 => files["new"] = m
  /\ k >= 6 => files["exe"] = m
  /\ k <= 6 => files["pending"] = Absent
  /\ k >= 7 => files["pending"] \in {m, Absent}
  /\ k = 7 => (mishaps = 0 => files["bootn"] = 0)
  /\ k = 8 => (Few => files["bootn"] = 0)

(* An update of a confirmed release runs alone. *)
UpdateInv ==
  script["update"] # <<>> /\ ~overlap =>
    /\ watch = "none" /\ script["watch"] = <<>>
    /\ \/ script["update"] = <<Move("old", "exe")>> /\ files["pending"] = Absent
       \/ \E m \in Version, k \in 1..8 : Left(m, k)

-----------------------------------------------------------------------------
(* A binary is left. *)

BinaryInv ==
  ~overlap =>
    /\ files["exe"] # Absent \/ files["old"] # Absent \/ files["new"] # Absent
    /\ watch # "none" \/ script["watch"] # <<>> => files["exe"] # Absent

-----------------------------------------------------------------------------
(* Good releases are not blamed. *)

Good(v) == v # Absent /\ quality[v] = "good"

(* Boots that were lost are mishaps; one under way is counted before.      *)
Counted(n) == n <= mishaps + (IF guarded THEN 1 ELSE 0)

(* A good release that waits for its confirmation is the one on disk, and  *)
(* the one that runs unless its update did not exit yet.                   *)
PendingIsCounted ==
  Good(files["pending"]) =>
    /\ files["exe"] = files["pending"] /\ OnlyWrites("boot")
    /\ script["update"] = <<>> =>
         /\ phase # "cli" /\ (phase # "off" => run = files["pending"])
         /\ Counted(files["bootn"])
         /\ \A op \in Ops("boot") : op.to = "bootn" => guarded /\ Counted(op.val)

(* No counts of an earlier release are left for the next. *)
CountsAreRemoved ==
  mishaps = 0 /\ files["pending"] = Absent =>
    files["bootn"] = 0 \/ Remove("bootn") \in Ops("boot") \cup Ops("watch")

BlameInv ==
  /\ dataOK /\ Few /\ ~overlap =>
       /\ ~Good(files["badversion"]) /\ ~Good(files["suspect"])
       /\ \A t \in Thread : \A op \in Ops(t) :
            op.kind = "write" /\ op.to \in {"badversion", "suspect"} => ~Good(op.val)
       /\ PendingIsCounted
  /\ ~overlap => CountsAreRemoved
  /\ ~dataOK =>
       /\ files["badversion"] = Absent
       /\ \A t \in Thread : \A op \in Ops(t) : op.to = "badversion" => op.val = Absent

HealInv ==
  ProcessInv /\ FilesInv /\ BootInv /\ UpdateInv /\ BinaryInv /\ BlameInv

-----------------------------------------------------------------------------
(* The scripts, written out. *)

(* A concatenation, element by element. *)
LEMMA ConcatIs ==
  ASSUME NEW S, NEW s \in Seq(S), NEW t \in Seq(S), NEW u \in Seq(S),
         Len(u) = Len(s) + Len(t),
         \A i \in 1..Len(s) : u[i] = s[i],
         \A i \in 1..Len(t) : u[Len(s) + i] = t[i]
  PROVE  s \o t = u
<1>1. s \o t \in Seq(S) /\ Len(s \o t) = Len(s) + Len(t) /\ Len(s) \in Nat /\ Len(t) \in Nat
  BY ConcatProperties
<1>2. ASSUME NEW i \in 1..Len(u)
      PROVE  (s \o t)[i] = u[i]
  <2>1. CASE i <= Len(s)
    BY <1>1, <2>1, ConcatProperties
  <2>2. CASE i > Len(s)
    <3>1. i - Len(s) \in 1..Len(t) /\ i = Len(s) + (i - Len(s))
      BY <1>1, <2>2
    <3> QED BY <1>1, <2>2, <3>1, ConcatProperties
  <2> QED BY <1>1, <2>1, <2>2
<1> QED BY <1>1, <1>2, SeqEqual

(* Files, then a swap. *)
LEMMA Join32 ==
  ASSUME NEW a, NEW b, NEW c, NEW d, NEW e
  PROVE  <<a, b, c>> \o <<d, e>> = <<a, b, c, d, e>>
<1> DEFINE S == {a, b, c, d, e}
           s == <<a, b, c>>
           t == <<d, e>>
           u == <<a, b, c, d, e>>
<1>1. s \in Seq(S) /\ t \in Seq(S) /\ u \in Seq(S) /\ Len(u) = Len(s) + Len(t)
  OBVIOUS
<1>2. /\ \A i \in 1..Len(s) : u[i] = s[i]
      /\ \A i \in 1..Len(t) : u[Len(s) + i] = t[i]
  OBVIOUS
<1> HIDE DEF S, s, t, u
<1>3. s \o t = u
  BY <1>1, <1>2, ConcatIs
<1> QED BY <1>3 DEF s, t, u

(* A swap, then its markers. *)
LEMMA Join52 ==
  ASSUME NEW a, NEW b, NEW c, NEW d, NEW e, NEW f, NEW g
  PROVE  <<a, b, c, d, e>> \o <<f, g>> = <<a, b, c, d, e, f, g>>
<1> DEFINE S == {a, b, c, d, e, f, g}
           s == <<a, b, c, d, e>>
           t == <<f, g>>
           u == <<a, b, c, d, e, f, g>>
<1>1. s \in Seq(S) /\ t \in Seq(S) /\ u \in Seq(S) /\ Len(u) = Len(s) + Len(t)
  OBVIOUS
<1>2. /\ \A i \in 1..Len(s) : u[i] = s[i]
      /\ \A i \in 1..Len(t) : u[Len(s) + i] = t[i]
  OBVIOUS
<1> HIDE DEF S, s, t, u
<1>3. s \o t = u
  BY <1>1, <1>2, ConcatIs
<1> QED BY <1>3 DEF s, t, u

(* The whole update. *)
LEMMA Join71 ==
  ASSUME NEW a, NEW b, NEW c, NEW d, NEW e, NEW f, NEW g, NEW h
  PROVE  <<a, b, c, d, e, f, g>> \o <<h>> = <<a, b, c, d, e, f, g, h>>
<1> DEFINE S == {a, b, c, d, e, f, g, h}
           s == <<a, b, c, d, e, f, g>>
           t == <<h>>
           u == <<a, b, c, d, e, f, g, h>>
<1>1. s \in Seq(S) /\ t \in Seq(S) /\ u \in Seq(S) /\ Len(u) = Len(s) + Len(t)
  OBVIOUS
<1>2. /\ \A i \in 1..Len(s) : u[i] = s[i]
      /\ \A i \in 1..Len(t) : u[Len(s) + i] = t[i]
  OBVIOUS
<1> HIDE DEF S, s, t, u
<1>3. s \o t = u
  BY <1>1, <1>2, ConcatIs
<1> QED BY <1>3 DEF s, t, u

(* A rollback, then its markers. *)
LEMMA Join42 ==
  ASSUME NEW a, NEW b, NEW c, NEW d, NEW e, NEW f
  PROVE  <<a, b, c, d>> \o <<e, f>> = <<a, b, c, d, e, f>>
<1> DEFINE S == {a, b, c, d, e, f}
           s == <<a, b, c, d>>
           t == <<e, f>>
           u == <<a, b, c, d, e, f>>
<1>1. s \in Seq(S) /\ t \in Seq(S) /\ u \in Seq(S) /\ Len(u) = Len(s) + Len(t)
  OBVIOUS
<1>2. /\ \A i \in 1..Len(s) : u[i] = s[i]
      /\ \A i \in 1..Len(t) : u[Len(s) + i] = t[i]
  OBVIOUS
<1> HIDE DEF S, s, t, u
<1>3. s \o t = u
  BY <1>1, <1>2, ConcatIs
<1> QED BY <1>3 DEF s, t, u

(* The whole rollback. *)
LEMMA Join61 ==
  ASSUME NEW a, NEW b, NEW c, NEW d, NEW e, NEW f, NEW g
  PROVE  <<a, b, c, d, e, f>> \o <<g>> = <<a, b, c, d, e, f, g>>
<1> DEFINE S == {a, b, c, d, e, f, g}
           s == <<a, b, c, d, e, f>>
           t == <<g>>
           u == <<a, b, c, d, e, f, g>>
<1>1. s \in Seq(S) /\ t \in Seq(S) /\ u \in Seq(S) /\ Len(u) = Len(s) + Len(t)
  OBVIOUS
<1>2. /\ \A i \in 1..Len(s) : u[i] = s[i]
      /\ \A i \in 1..Len(t) : u[Len(s) + i] = t[i]
  OBVIOUS
<1> HIDE DEF S, s, t, u
<1>3. s \o t = u
  BY <1>1, <1>2, ConcatIs
<1> QED BY <1>3 DEF s, t, u

(* A rollback taken back. *)
LEMMA Join12 ==
  ASSUME NEW a, NEW b, NEW c
  PROVE  <<a>> \o <<b, c>> = <<a, b, c>>
<1> DEFINE S == {a, b, c}
           s == <<a>>
           t == <<b, c>>
           u == <<a, b, c>>
<1>1. s \in Seq(S) /\ t \in Seq(S) /\ u \in Seq(S) /\ Len(u) = Len(s) + Len(t)
  OBVIOUS
<1>2. /\ \A i \in 1..Len(s) : u[i] = s[i]
      /\ \A i \in 1..Len(t) : u[Len(s) + i] = t[i]
  OBVIOUS
<1> HIDE DEF S, s, t, u
<1>3. s \o t = u
  BY <1>1, <1>2, ConcatIs
<1> QED BY <1>3 DEF s, t, u

(* A verdict. *)
LEMMA Join15 ==
  ASSUME NEW a, NEW b, NEW c, NEW d, NEW e, NEW f
  PROVE  <<a>> \o <<b, c, d, e, f>> = <<a, b, c, d, e, f>>
<1> DEFINE S == {a, b, c, d, e, f}
           s == <<a>>
           t == <<b, c, d, e, f>>
           u == <<a, b, c, d, e, f>>
<1>1. s \in Seq(S) /\ t \in Seq(S) /\ u \in Seq(S) /\ Len(u) = Len(s) + Len(t)
  OBVIOUS
<1>2. /\ \A i \in 1..Len(s) : u[i] = s[i]
      /\ \A i \in 1..Len(t) : u[Len(s) + i] = t[i]
  OBVIOUS
<1> HIDE DEF S, s, t, u
<1>3. s \o t = u
  BY <1>1, <1>2, ConcatIs
<1> QED BY <1>3 DEF s, t, u

(* Removals. *)
LEMMA RemoveAllIs ==
  /\ RemoveAll(<<"old", "bootn">>) = <<Remove("old"), Remove("bootn")>>
  /\ RemoveAll(<<"pending", "bootn">>) = <<Remove("pending"), Remove("bootn")>>
  /\ RemoveAll(<<"old", "bad", "bootn">>) = <<Remove("old"), Remove("bad"), Remove("bootn")>>
  /\ RemoveAll(<<"pending", "bootn", "old", "badversion">>) =
       <<Remove("pending"), Remove("bootn"), Remove("old"), Remove("badversion")>>
  /\ RemoveAll(<<"suspect", "confirmn", "old", "bad", "envhalt">>) =
       <<Remove("suspect"), Remove("confirmn"), Remove("old"), Remove("bad"), Remove("envhalt")>>
  /\ RemoveAll(<<"pending", "bootn", "confirmn", "old", "bad", "badversion", "suspect", "envhalt">>) =
       <<Remove("pending"), Remove("bootn"), Remove("confirmn"), Remove("old"), Remove("bad"),
         Remove("badversion"), Remove("suspect"), Remove("envhalt")>>
<1>1. RemoveAll(<<"old", "bootn">>) =
       <<Remove("old"), Remove("bootn")>>
  BY DEF RemoveAll
<1>2. RemoveAll(<<"pending", "bootn">>) =
       <<Remove("pending"), Remove("bootn")>>
  BY DEF RemoveAll
<1>3. RemoveAll(<<"old", "bad", "bootn">>) =
       <<Remove("old"), Remove("bad"), Remove("bootn")>>
  BY DEF RemoveAll
<1>4. RemoveAll(<<"pending", "bootn", "old", "badversion">>) =
       <<Remove("pending"), Remove("bootn"), Remove("old"), Remove("badversion")>>
  BY DEF RemoveAll
<1>5. RemoveAll(<<"suspect", "confirmn", "old", "bad", "envhalt">>) =
       <<Remove("suspect"), Remove("confirmn"), Remove("old"),
         Remove("bad"), Remove("envhalt")>>
  BY DEF RemoveAll
<1>6. RemoveAll(<<"pending", "bootn", "confirmn", "old", "bad", "badversion", "suspect", "envhalt">>) =
       <<Remove("pending"), Remove("bootn"), Remove("confirmn"), Remove("old"),
         Remove("bad"), Remove("badversion"), Remove("suspect"), Remove("envhalt")>>
  BY DEF RemoveAll
<1> QED BY <1>1, <1>2, <1>3, <1>4, <1>5, <1>6

(* The update. *)
LEMMA UpdateScriptIs ==
  ASSUME NEW m
  PROVE  SwapBinary(windows, m) \o MarkPending(m) \o <<Exit>> = UpdateOps(m)
<1> DEFINE o == IF windows THEN Move("exe", "old") ELSE Copy("exe", "old")
<1>1. SwapBinary(windows, m) =
        <<Remove("new"), Write("new", m), Remove("old")>> \o <<o, Move("new", "exe")>>
  BY DEF SwapBinary
<1> HIDE DEF o
<1>2. SwapBinary(windows, m) =
        <<Remove("new"), Write("new", m), Remove("old"), o, Move("new", "exe")>>
  BY <1>1, Join32
<1>3. SwapBinary(windows, m) \o MarkPending(m) =
        <<Remove("new"), Write("new", m), Remove("old"), o, Move("new", "exe"),
          Write("pending", m), Write("bootn", 0)>>
  BY <1>2, Join52 DEF MarkPending
<1>4. SwapBinary(windows, m) \o MarkPending(m) \o <<Exit>> =
        <<Remove("new"), Write("new", m), Remove("old"), o, Move("new", "exe"),
          Write("pending", m), Write("bootn", 0), Exit>>
  BY <1>3, Join71
<1> QED BY <1>4 DEF UpdateOps, o

(* The node's rollback, and the rollback it takes back. *)
LEMMA RollbackIs ==
  /\ \A fs : NodeBootScript(fs, "rollback") = RollbackOps(fs["pending"])
  /\ NodeRollbackError = <<Move("bad", "exe"), Remove("pending"), Remove("bootn")>>
<1>1. NodeRollbackTail = <<Remove("pending"), Remove("bootn")>>
  BY RemoveAllIs DEF NodeRollbackTail
<1>2. NodeRollbackError = <<Move("bad", "exe"), Remove("pending"), Remove("bootn")>>
  BY <1>1, Join12 DEF NodeRollbackError
<1>3. ASSUME NEW fs
      PROVE  NodeBootScript(fs, "rollback") = RollbackOps(fs["pending"])
  <2>1. NodeBootScript(fs, "rollback") =
          <<Write("suspect", fs["pending"]), Write("confirmn", 0), Move("exe", "bad"),
            Move("old", "exe")>> \o NodeRollbackTail \o <<Exit>>
    BY DEF NodeBootScript
  <2>2. <<Write("suspect", fs["pending"]), Write("confirmn", 0), Move("exe", "bad"),
          Move("old", "exe")>> \o NodeRollbackTail =
          <<Write("suspect", fs["pending"]), Write("confirmn", 0), Move("exe", "bad"),
            Move("old", "exe"), Remove("pending"), Remove("bootn")>>
    BY <1>1, Join42
  <2>3. <<Write("suspect", fs["pending"]), Write("confirmn", 0), Move("exe", "bad"),
          Move("old", "exe"), Remove("pending"), Remove("bootn")>> \o <<Exit>> =
          RollbackOps(fs["pending"])
    BY Join61 DEF RollbackOps
  <2> QED BY <2>1, <2>2, <2>3
<1> QED BY <1>2, <1>3

-----------------------------------------------------------------------------
(* Operations. *)

(* The kinds of operations, and what they may write. *)
LEMMA OpIs ==
  ASSUME NEW op \in Op
  PROVE  /\ op.kind \in {"write", "copy", "move", "exit"}
         /\ op = Exit <=> op.kind = "exit"
         /\ op.kind = "copy" => op = Copy("exe", "old")
         /\ op.kind = "move" =>
              /\ op \in RollbackMoves \cup {Move("exe", "old"), Move("new", "exe")}
              /\ op = Move(op.from, op.to) /\ op.from # op.to
              /\ {op.from, op.to} \subseteq {"exe", "new", "old", "bad"}
         /\ op.kind = "write" =>
              /\ op = Write(op.to, op.val) /\ op.to \in File \ {"exe"}
              /\ op.to \in Markers \cup {"new", "old", "bad"} => op.val \in Release
              /\ op.to \in Counts => op.val \in 0..3
              /\ op.to \in {"old", "bad"} => op.val = Absent
<1> USE DEF Write, Remove, Copy, Move, Exit
<1>1. CASE op \in WriteOps
  <2> DEFINE Goal == /\ op.kind = "write"
                     /\ op = Write(op.to, op.val) /\ op.to \in File \ {"exe"}
                     /\ op.to \in Markers \cup {"new", "old", "bad"} => op.val \in Release
                     /\ op.to \in Counts => op.val \in 0..3
                     /\ op.to \in {"old", "bad"} => op.val = Absent
  <2>1. ASSUME NEW f \in Markers, NEW v \in Release, op = Write(f, v) PROVE Goal
    BY <2>1 DEF Markers, Counts, File
  <2>2. ASSUME NEW f \in Counts, NEW n \in 0..3, op = Write(f, n) PROVE Goal
    BY <2>2 DEF Markers, Counts, File
  <2>3. ASSUME NEW f \in Flags, NEW v \in {Absent, Present}, op = Write(f, v) PROVE Goal
    BY <2>3 DEF Markers, Counts, Flags, File
  <2>4. ASSUME NEW v \in Release, op = Write("new", v) PROVE Goal
    BY <2>4 DEF Markers, Counts, File
  <2>5. ASSUME op \in {Remove("old"), Remove("bad")} PROVE Goal
    BY <2>5 DEF Markers, Counts, File, Release
  <2> HIDE DEF Goal
  <2>6. Goal
    BY <1>1, <2>1, <2>2, <2>3, <2>4, <2>5 DEF WriteOps
  <2> QED BY <2>6 DEF Goal
<1>2. CASE op \in RollbackMoves \cup {Move("exe", "old"), Move("new", "exe")}
  BY <1>2 DEF RollbackMoves
<1>3. CASE op \in {Copy("exe", "old"), Exit}
  BY <1>3
<1> QED BY <1>1, <1>2, <1>3 DEF Op

(* What an operation makes of the files. *)
LEMMA AfterIs ==
  ASSUME FilesInv, NEW op \in Op, NEW fs, fs = After(op, files),
         op.kind = "move" => files[op.from] # Absent
  PROVE  /\ op.kind = "write" => \A f \in File : fs[f] = IF f = op.to THEN op.val ELSE files[f]
         /\ op.kind = "move" =>
              \A f \in File : fs[f] = IF f = op.from THEN Absent
                                      ELSE IF f = op.to THEN files[op.from] ELSE files[f]
         /\ op.kind = "exit" => fs = files
         /\ op.kind = "copy" =>
              /\ \A f \in File \ {"old"} : fs[f] = files[f]
              /\ files["exe"] # Absent => fs["old"] = files["exe"]
              /\ files["exe"] = Absent => fs = files
         /\ fs = [f \in File |-> fs[f]]
         /\ \A f \in Markers \cup {"exe", "new", "old", "bad"} : fs[f] \in Release
         /\ \A f \in Counts : fs[f] \in 0..3
<1> USE DEF FilesInv
<1>1. CASE op.kind = "write"
  <2>1. fs = [files EXCEPT ![op.to] = op.val]
    BY <1>1 DEF After
  <2>2. op.to \in File /\ op.to # "exe"
    BY <1>1, OpIs
  <2>3. fs = [f \in File |-> fs[f]]
    BY <2>1
  <2>4. \A f \in File : fs[f] = IF f = op.to THEN op.val ELSE files[f]
    BY <2>1
  <2>5. \A f \in Markers \cup {"exe", "new", "old", "bad"} : fs[f] \in Release
    BY <1>1, <2>2, <2>4, OpIs DEF Markers, File
  <2>6. \A f \in Counts : fs[f] \in 0..3
    BY <1>1, <2>2, <2>4, OpIs DEF Counts, File
  <2> QED BY <1>1, <2>3, <2>4, <2>5, <2>6
<1>2. CASE op.kind = "move"
  <2>1. {op.from, op.to} \subseteq {"exe", "new", "old", "bad"} /\ op.from # op.to
    BY <1>2, OpIs
  <2>2. fs = [files EXCEPT ![op.to] = files[op.from], ![op.from] = Absent]
    BY <1>2 DEF After
  <2>3. fs = [f \in File |-> fs[f]]
    BY <2>2
  <2>4. \A f \in File : fs[f] = IF f = op.from THEN Absent
                               ELSE IF f = op.to THEN files[op.from] ELSE files[f]
    BY <2>2
  <2>5. Absent \in Release
    BY DEF Release
  <2>6. \A f \in Markers \cup {"exe", "new", "old", "bad"} : fs[f] \in Release
    BY <2>1, <2>4, <2>5 DEF Markers, File
  <2>7. \A f \in Counts : fs[f] \in 0..3
    BY <2>1, <2>4 DEF Counts, File
  <2> QED BY <1>2, <2>3, <2>4, <2>6, <2>7
<1>3. CASE op.kind = "copy"
  <2>1. op = Copy("exe", "old")
    BY <1>3, OpIs
  <2>2. fs = IF files["exe"] = Absent THEN files ELSE [files EXCEPT !["old"] = files["exe"]]
    BY <2>1 DEF After, Copy
  <2>3. fs = [f \in File |-> fs[f]]
    BY <2>2
  <2>4. /\ \A f \in File \ {"old"} : fs[f] = files[f]
        /\ files["exe"] # Absent => fs["old"] = files["exe"]
        /\ files["exe"] = Absent => fs = files
    BY <2>2 DEF File
  <2> QED BY <1>3, <2>3, <2>4 DEF Markers, Counts, File
<1>4. CASE op.kind = "exit"
  BY <1>4 DEF After
<1> QED BY <1>1, <1>2, <1>3, <1>4, OpIs

(* What is left of a script when its first operation is done. *)
LEMMA TailOfScript ==
  ASSUME NEW s \in Seq(Op), s # <<>>, InOrder(s)
  PROVE  /\ Tail(s) \in Seq(Op) /\ InOrder(Tail(s)) /\ Head(s) \in Op
         /\ Len(Tail(s)) = Len(s) - 1 /\ Len(s) \in Nat /\ Len(s) > 0 /\ Head(s) = s[1]
         /\ \A i \in 1..Len(Tail(s)) : i + 1 \in 1..Len(s) /\ Tail(s)[i] = s[i + 1]
         /\ {s[i] : i \in 1..Len(s)} = {Head(s)} \cup {Tail(s)[i] : i \in 1..Len(Tail(s))}
         /\ Head(s) = Exit => Tail(s) = <<>>
         /\ \A op \in {Tail(s)[i] : i \in 1..Len(Tail(s))} :
              /\ Head(s) = Move("old", "exe") => /\ op.kind \in {"write", "exit"}
                                                 /\ product = "bridge" => op = Exit
              /\ Head(s) = Remove("bootn") => op # Remove("pending")
<1>1. /\ Tail(s) \in Seq(Op) /\ Head(s) \in Op /\ Head(s) = s[1]
      /\ Len(Tail(s)) = Len(s) - 1 /\ Len(s) \in Nat /\ Len(s) > 0
  <2> HIDE DEF Op
  <2> QED BY EmptySeq
<1>2. \A i \in 1..Len(Tail(s)) : i + 1 \in 1..Len(s) /\ Tail(s)[i] = s[i + 1]
  <2> HIDE DEF Op
  <2> QED BY <1>1, HeadTailProperties
<1>3. InOrder(Tail(s))
  <2>1. ASSUME NEW i \in 1..Len(Tail(s)), NEW j \in 1..Len(Tail(s)), i < j
        PROVE  /\ i + 1 \in 1..Len(s) /\ j + 1 \in 1..Len(s) /\ i + 1 < j + 1
               /\ Tail(s)[i] = s[i + 1] /\ Tail(s)[j] = s[j + 1]
    BY <1>1, <1>2, <2>1
  <2> QED BY <2>1 DEF InOrder
<1>4. {s[i] : i \in 1..Len(s)} = {Head(s)} \cup {Tail(s)[i] : i \in 1..Len(Tail(s))}
  <2>1. ASSUME NEW i \in 1..Len(s)
        PROVE  i = 1 \/ (i - 1 \in 1..Len(Tail(s)) /\ s[i] = Tail(s)[i - 1])
    <3>1. CASE i = 1
      BY <3>1
    <3>2. CASE i # 1
      <4>1. i - 1 \in 1..Len(Tail(s)) /\ (i - 1) + 1 = i
        <5> HIDE DEF Op
        <5> QED BY <1>1, <3>2
      <4> QED BY <1>2, <4>1
    <3> QED BY <3>1, <3>2
  <2> DEFINE T == {Tail(s)[i] : i \in 1..Len(Tail(s))}
  <2>2. ASSUME NEW i \in 1..Len(s)
        PROVE  s[i] = Head(s) \/ s[i] \in T
    BY <1>1, <2>1
  <2>3. 1 \in 1..Len(s) /\ s[1] = Head(s)
    <3> HIDE DEF Op
    <3> QED BY <1>1
  <2>4. ASSUME NEW i \in 1..Len(Tail(s))
        PROVE  \E j \in 1..Len(s) : Tail(s)[i] = s[j]
    BY <1>2
  <2>5. \A op \in T : \E j \in 1..Len(s) : op = s[j]
    BY <2>4
  <2> HIDE DEF T
  <2>6. {s[i] : i \in 1..Len(s)} = {Head(s)} \cup T
    BY <2>2, <2>3, <2>5
  <2> QED BY <2>6 DEF T
<1>5. ASSUME NEW i \in 1..Len(Tail(s))
      PROVE  /\ s[1] # Exit
             /\ s[1] = Move("old", "exe") => /\ Tail(s)[i].kind \in {"write", "exit"}
                                             /\ product = "bridge" => Tail(s)[i] = Exit
             /\ s[1] = Remove("bootn") => Tail(s)[i] # Remove("pending")
  <2>1. 1 \in 1..Len(s) /\ i + 1 \in 1..Len(s) /\ 1 < i + 1 /\ Tail(s)[i] = s[i + 1]
    BY <1>1, <1>2
  <2> QED BY <2>1 DEF InOrder
<1>6. Head(s) = Exit => Tail(s) = <<>>
  <2>1. SUFFICES ASSUME Head(s) = Exit PROVE Len(Tail(s)) = 0
    <3> HIDE DEF Op
    <3> QED BY <1>1, EmptySeq
  <2>2. SUFFICES ASSUME Len(Tail(s)) # 0 PROVE FALSE
    OBVIOUS
  <2>3. 1 \in 1..Len(Tail(s))
    BY <1>1, <2>2
  <2> QED BY <1>1, <1>5, <2>1, <2>3
<1> QED BY <1>1, <1>2, <1>3, <1>4, <1>5, <1>6

(* A thread whose script is replaced, and the others. *)
LEMMA NewScript ==
  ASSUME ProcessInv, NEW t \in Thread, NEW s \in Seq(Op), InOrder(s),
         script' = [script EXCEPT ![t] = s], product' = product
  PROVE  /\ script' = [u \in Thread |-> script'[u]]
         /\ \A u \in Thread : script'[u] \in Seq(Op) /\ InOrder(script[u])'
         /\ script'[t] = s
         /\ \A u \in Thread : u # t => script'[u] = script[u] /\ Ops(u)' = Ops(u)
         /\ Ops(t)' = {s[i] : i \in 1..Len(s)}
<1> HIDE DEF Op, Thread
<1>1. script = [u \in Thread |-> script[u]]
  BY DEF ProcessInv
<1>2. script'[t] = s /\ script' = [u \in Thread |-> script'[u]]
  BY <1>1
<1>3. \A u \in Thread : u # t => script'[u] = script[u]
  BY <1>1
<1>4. \A u \in Thread : script'[u] \in Seq(Op)
  BY <1>2, <1>3 DEF ProcessInv
<1>5. ASSUME NEW u \in Thread
      PROVE  InOrder(script[u])'
  <2>1. InOrder(script'[u])
    BY <1>2, <1>3 DEF ProcessInv
  <2> QED BY <2>1 DEF InOrder
<1>6. \A u \in Thread : u # t => Ops(u)' = Ops(u)
  BY <1>3 DEF Ops
<1>7. Ops(t)' = {s[i] : i \in 1..Len(s)}
  BY <1>2 DEF Ops
<1> QED BY <1>2, <1>3, <1>4, <1>5, <1>6, <1>7

(* A thread that does its first operation, or loses it to an error. *)
LEMMA TailScript ==
  ASSUME ProcessInv, NEW t \in Thread, script[t] # <<>>,
         script' = [script EXCEPT ![t] = Tail(script[t])], product' = product
  PROVE  LET op == Head(script[t])
         IN  /\ op \in Op /\ op \in Ops(t)
             /\ script' = [u \in Thread |-> script'[u]]
             /\ \A u \in Thread : script'[u] \in Seq(Op) /\ InOrder(script[u])'
             /\ script'[t] = Tail(script[t])
             /\ \A u \in Thread : u # t => script'[u] = script[u] /\ Ops(u)' = Ops(u)
             /\ Ops(t) = {op} \cup Ops(t)'
             /\ op # Exit \/ script'[t] = <<>>
             /\ \A p \in Ops(t)' :
                  /\ op = Move("old", "exe") => /\ p.kind \in {"write", "exit"}
                                                /\ product = "bridge" => p = Exit
                  /\ op = Remove("bootn") => p # Remove("pending")
<1> DEFINE s == script[t]
<1>1. s \in Seq(Op) /\ InOrder(s) /\ s # <<>>
  BY DEF ProcessInv
<1> HIDE DEF s
<1>2. /\ Tail(s) \in Seq(Op) /\ InOrder(Tail(s)) /\ Head(s) \in Op
      /\ {s[i] : i \in 1..Len(s)} = {Head(s)} \cup {Tail(s)[i] : i \in 1..Len(Tail(s))}
      /\ Head(s) = Exit => Tail(s) = <<>>
      /\ \A op \in {Tail(s)[i] : i \in 1..Len(Tail(s))} :
           /\ Head(s) = Move("old", "exe") => /\ op.kind \in {"write", "exit"}
                                              /\ product = "bridge" => op = Exit
           /\ Head(s) = Remove("bootn") => op # Remove("pending")
  BY <1>1, TailOfScript
<1> DEFINE r == Tail(s)
<1>3. script' = [script EXCEPT ![t] = r]
  BY DEF s
<1> HIDE DEF r
<1>4. r \in Seq(Op) /\ InOrder(r)
  BY <1>2 DEF r
<1>5. /\ script' = [u \in Thread |-> script'[u]]
      /\ \A u \in Thread : script'[u] \in Seq(Op) /\ InOrder(script[u])'
      /\ script'[t] = r
      /\ \A u \in Thread : u # t => script'[u] = script[u] /\ Ops(u)' = Ops(u)
      /\ Ops(t)' = {r[i] : i \in 1..Len(r)}
  BY <1>3, <1>4, NewScript
<1>6. Ops(t) = {s[i] : i \in 1..Len(s)}
  BY DEF Ops, s
<1>7. Ops(t)' = {Tail(s)[i] : i \in 1..Len(Tail(s))}
  BY <1>5 DEF r
<1>8. Ops(t) = {Head(s)} \cup Ops(t)'
  BY <1>2, <1>6, <1>7
<1>9. \A p \in Ops(t)' :
           /\ Head(s) = Move("old", "exe") => /\ p.kind \in {"write", "exit"}
                                              /\ product = "bridge" => p = Exit
           /\ Head(s) = Remove("bootn") => p # Remove("pending")
  BY <1>2, <1>7
<1>10. Head(s) # Exit \/ script'[t] = <<>>
  BY <1>2, <1>5 DEF r
<1> HIDE DEF Op, Thread, Exit, Move, Remove, Ops
<1>11. Head(s) \in Op /\ Head(s) \in Ops(t)
  BY <1>2, <1>8
<1>12. script'[t] = Tail(s)
  BY <1>5 DEF r
<1> QED BY <1>5, <1>8, <1>9, <1>10, <1>11, <1>12 DEF s

(* A thread that has nothing left. *)
LEMMA EmptyOps ==
  /\ \A t \in Thread : script[t] = <<>> => Ops(t) = {}
  /\ \A t \in Thread : script'[t] = <<>> => Ops(t)' = {}
  /\ InOrder(<<>>) /\ <<>> \in Seq(Op)
<1>1. ASSUME NEW t \in Thread, script[t] = <<>> PROVE Ops(t) = {}
  BY <1>1 DEF Ops
<1>2. ASSUME NEW t \in Thread, script'[t] = <<>> PROVE Ops(t)' = {}
  BY <1>2 DEF Ops
<1>3. InOrder(<<>>) /\ <<>> \in Seq(Op)
  BY DEF InOrder
<1> QED BY <1>1, <1>2, <1>3

-----------------------------------------------------------------------------
(* The first state, and processes that end. *)

(* The installed release, nothing running: the invariant holds.            *)
LEMMA HealInvInit == UpdateInit => HealInv
<1> SUFFICES ASSUME UpdateInit PROVE HealInv
  OBVIOUS
<1>1. \A t \in Thread : script[t] = <<>> /\ Ops(t) = {}
  <2>1. \A t \in Thread : script[t] = <<>>
    BY DEF UpdateInit, NoScripts
  <2> QED BY <2>1, EmptyOps
<1>2. files = [f \in File |-> files[f]] /\ files["exe"] = 1
      /\ \A f \in File \ {"exe"} : files[f] = Absent
  BY DEF UpdateInit, File
<1>3. Version \subseteq Nat \ {0} /\ 1 \in Version
  BY AutoUpdateAssumption
<1>4. ProcessInv
  <2>1. \A t \in Thread : script[t] \in Seq(Op) /\ InOrder(script[t])
    BY <1>1, EmptyOps
  <2>2. script = [t \in Thread |-> script[t]]
    BY DEF UpdateInit, NoScripts
  <2>3. script["boot"] = <<>> /\ script["watch"] = <<>> /\ script["update"] = <<>>
    BY <1>1 DEF Thread
  <2> HIDE DEF Op
  <2> QED BY <2>1, <2>2, <2>3 DEF ProcessInv, UpdateInit, Release, Absent
<1>5. FilesInv
  BY <1>2, <1>3 DEF FilesInv, Markers, Counts, File, Release, Absent
<1>6. Ops("boot") = {} /\ Ops("watch") = {} /\ Ops("update") = {}
  BY <1>1 DEF Thread
<1>7. BootInv
  BY <1>6 DEF BootInv, OnlyWrites, UpdateInit
<1>8. UpdateInv
  BY <1>1 DEF UpdateInv, Thread
<1>9. BinaryInv
  BY <1>2, <1>1 DEF BinaryInv, UpdateInit, Absent, Thread
<1>10. BlameInv
  <2>1. files["pending"] = Absent /\ files["badversion"] = Absent /\ files["suspect"] = Absent
        /\ files["bootn"] = 0
    BY <1>2 DEF File, Absent
  <2> QED BY <1>1, <2>1 DEF BlameInv, PendingIsCounted, CountsAreRemoved, Good
<1> QED BY <1>4, <1>5, <1>7, <1>8, <1>9, <1>10 DEF HealInv

(* The process ends, if the boots lost so far are counted as mishaps. *)
LEMMA StoppedKeepsHealInv ==
  ASSUME HealInv, Stopped, UNCHANGED <<world, files, overlap>>,
         mishaps' \in Nat, mishaps' >= mishaps,
         mishaps' <= 1 /\ ~overlap /\ dataOK /\ Good(files["pending"]) =>
           files["bootn"] <= mishaps',
         ~overlap /\ mishaps' = 0 /\ files["pending"] = Absent => files["bootn"] = 0
  PROVE  HealInv'
<1> USE DEF world
<1>1. \A t \in Thread : script'[t] = <<>> /\ Ops(t)' = {}
  <2>1. \A t \in Thread : script'[t] = <<>>
    BY DEF Stopped, NoScripts
  <2> QED BY <2>1, EmptyOps
<1>2. script'["boot"] = <<>> /\ script'["watch"] = <<>> /\ script'["update"] = <<>>
      /\ Ops("boot")' = {} /\ Ops("watch")' = {} /\ Ops("update")' = {}
  BY <1>1 DEF Thread
<1>3. phase' = "off" /\ run' = Absent /\ watch' = "none" /\ guarded' = FALSE
  BY DEF Stopped
<1>4. ProcessInv'
  <2>1. \A t \in Thread : script'[t] \in Seq(Op) /\ InOrder(script'[t])
    BY <1>1, EmptyOps
  <2>2. script' = [t \in Thread |-> script'[t]]
    BY DEF Stopped, NoScripts
  <2>3. ( \A t \in Thread : script[t] \in Seq(Op) /\ InOrder(script[t]) )'
    BY <2>1 DEF InOrder
  <2> HIDE DEF Op
  <2> QED BY <1>2, <1>3, <2>2, <2>3 DEF HealInv, ProcessInv, Release, Absent
<1>5. FilesInv'
  BY DEF HealInv, FilesInv
<1>7. BootInv'
  BY <1>2, <1>3 DEF BootInv, OnlyWrites
<1>8. UpdateInv'
  BY <1>2 DEF UpdateInv
<1>9. BinaryInv'
  BY <1>2, <1>3 DEF HealInv, BinaryInv
<1>10. BlameInv'
  <2>1. dataOK /\ Few' /\ ~overlap =>
          /\ ~Good(files["badversion"]) /\ ~Good(files["suspect"])
          /\ Good(files["pending"]) => files["exe"] = files["pending"]
    <3>1. Few' => Few
      BY DEF Few, HealInv, ProcessInv
    <3> QED BY <3>1 DEF HealInv, BlameInv, PendingIsCounted
  <2>2. \A v : Good(v)' <=> Good(v)
    BY DEF Good
  <2>3. (dataOK /\ Few /\ ~overlap)' => PendingIsCounted'
    <3>1. ASSUME (dataOK /\ Few /\ ~overlap)', Good(files["pending"])'
          PROVE  files["bootn"] <= mishaps'
      BY <3>1 DEF Few, Good
    <3>2. (dataOK /\ Few /\ ~overlap)' /\ Good(files["pending"])' =>
            files'["exe"] = files'["pending"]
      <4>1. files' = files /\ dataOK' = dataOK /\ overlap' = overlap
        OBVIOUS
      <4>2. Good(files["pending"])' <=> Good(files["pending"])
        BY DEF Good
      <4> QED BY <2>1, <4>1, <4>2
    <3>3. mishaps' + 0 = mishaps'
      <4>1. ASSUME NEW a \in Nat PROVE a + 0 = a
        OBVIOUS
      <4> QED BY <4>1
    <3> QED BY <1>2, <1>3, <3>1, <3>2, <3>3 DEF PendingIsCounted, Counted, OnlyWrites
  <2>4. (~overlap)' => CountsAreRemoved'
    BY DEF CountsAreRemoved
  <2>5. (dataOK /\ Few /\ ~overlap)' =>
          /\ ~Good(files["badversion"])' /\ ~Good(files["suspect"])'
          /\ ( \A t \in Thread : \A op \in Ops(t) :
                op.kind = "write" /\ op.to \in {"badversion", "suspect"} => ~Good(op.val) )'
    BY <1>1, <2>1 DEF Good
  <2>6. (~dataOK)' =>
          /\ files'["badversion"] = Absent
          /\ ( \A t \in Thread : \A op \in Ops(t) : op.to = "badversion" => op.val = Absent )'
    BY <1>1 DEF HealInv, BlameInv
  <2> QED BY <2>3, <2>4, <2>5, <2>6 DEF BlameInv
<1> QED BY <1>4, <1>5, <1>7, <1>8, <1>9, <1>10 DEF HealInv

(* The process gets on: the guard returned, the release loaded, it serves. *)
LEMMA PhaseKeepsHealInv ==
  ASSUME HealInv, UNCHANGED <<world, files, run, script, watch, guarded, overlap, mishaps>>,
         \/ phase' = phase
         \/ phase = "boot" /\ script["boot"] = <<>> /\ phase' = "load"
         \/ phase = "load" /\ dataOK /\ phase' = "running"
         \/ phase = "running" /\ phase' = "up"
  PROVE  HealInv'
<1> USE DEF world, HealInv
<1>1. /\ UNCHANGED <<product, windows, quality, dataOK, files, run, script, watch, guarded,
                     overlap, mishaps>>
  OBVIOUS
<1>2. \A t : Ops(t)' = Ops(t)
  BY <1>1 DEF Ops
<1>4. ProcessInv'
  <2>1. ( \A t \in Thread : script[t] \in Seq(Op) /\ InOrder(script[t]) )'
    BY <1>1 DEF ProcessInv, InOrder
  <2>2. /\ phase' \in {"off", "cli", "boot", "load", "running", "up"}
        /\ (run' = Absent) = (phase' = "off")
        /\ watch' # "none" => /\ phase' \in {"boot", "load", "running", "up"}
                              /\ script'["watch"] = <<>>
        /\ guarded' => phase' \in {"boot", "load", "running", "up"}
        /\ script'["boot"] # <<>> => phase' = "boot"
        /\ script'["watch"] # <<>> => phase' \in {"load", "running", "up"}
        /\ script'["update"] # <<>> =>
             phase' \in {"up", "cli"} \/ (phase' = "running" /\ quality'[run'] = "hanging")
        /\ ~dataOK' => phase' \notin {"running", "up"}
    BY <1>1 DEF ProcessInv
  <2> QED BY <1>1, <2>1, <2>2 DEF ProcessInv
<1>5. FilesInv'
  BY DEF FilesInv
<1>6. BootInv'
  BY <1>2 DEF BootInv, OnlyWrites
<1>7. UpdateInv'
  <2>1. \A m, k : Left(m, k) <=> Left(m, k)'
    BY <1>1 DEF Left, LeftOf, UpdateOps, Few
  <2> QED BY <1>1, <2>1 DEF UpdateInv
<1>8. BinaryInv'
  BY DEF BinaryInv
<1>9. BlameInv'
  <2>1. \A v : Good(v)' <=> Good(v)
    BY <1>1 DEF Good
  <2>2. dataOK /\ Few /\ ~overlap => PendingIsCounted'
    <3>1. dataOK /\ Few /\ ~overlap => PendingIsCounted
      BY DEF BlameInv
    <3>2. phase' # "cli" \/ phase = "cli"
      OBVIOUS
    <3>3. phase' # "off" => phase # "off"
      OBVIOUS
    <3> QED BY <1>1, <1>2, <2>1, <3>1, <3>2, <3>3 DEF PendingIsCounted, Good, Counted, OnlyWrites
  <2>3. ~overlap => CountsAreRemoved'
    BY <1>1, <1>2 DEF CountsAreRemoved, BlameInv
  <2>4. Few' <=> Few
    BY DEF Few
  <2> QED BY <1>1, <1>2, <2>1, <2>2, <2>3, <2>4 DEF BlameInv
<1> QED BY <1>4, <1>5, <1>6, <1>7, <1>8, <1>9

(* The operator's switch is no business of the boot guard. *)
LEMMA SwitchKeepsHealInv ==
  ASSUME HealInv, SetAutoUpdate
  PROVE  HealInv'
<1> USE DEF world, HealInv, process
<1>1. /\ UNCHANGED <<product, windows, quality, dataOK, phase, run, script, watch, guarded,
                     overlap, mishaps>>
      /\ \A f \in File \ {"noupdate"} : files'[f] = files[f]
      /\ files' = [f \in File |-> files'[f]]
  BY DEF SetAutoUpdate, FilesInv
<1>2. \A t : Ops(t)' = Ops(t)
  BY <1>1 DEF Ops
<1>3. \A f \in {"exe", "new", "old", "bad", "pending", "bootn", "suspect", "confirmn", "badversion"} :
        files'[f] = files[f]
  BY <1>1 DEF File
<1>4. ProcessInv'
  <2>1. ( \A t \in Thread : script[t] \in Seq(Op) /\ InOrder(script[t]) )'
    BY <1>1 DEF ProcessInv, InOrder
  <2> QED BY <1>1, <2>1 DEF ProcessInv
<1>5. FilesInv'
  BY <1>1, <1>3 DEF FilesInv, Markers, Counts
<1>6. BootInv'
  BY <1>1, <1>2, <1>3 DEF BootInv, OnlyWrites
<1>7. UpdateInv'
  <2>1. \A m, k : Left(m, k) <=> Left(m, k)'
    BY <1>1, <1>3 DEF Left, LeftOf, UpdateOps, Few
  <2> QED BY <1>1, <1>3, <2>1 DEF UpdateInv
<1>8. BinaryInv'
  BY <1>1, <1>3 DEF BinaryInv
<1>9. BlameInv'
  <2>1. \A v : Good(v)' <=> Good(v)
    BY <1>1 DEF Good
  <2>2. dataOK /\ Few /\ ~overlap => PendingIsCounted'
    <3>1. dataOK /\ Few /\ ~overlap => PendingIsCounted
      BY DEF BlameInv
    <3> QED BY <1>1, <1>2, <1>3, <2>1, <3>1 DEF PendingIsCounted, Good, Counted, OnlyWrites
  <2>3. ~overlap => CountsAreRemoved'
    BY <1>1, <1>2, <1>3 DEF CountsAreRemoved, BlameInv
  <2>4. Few' <=> Few
    BY <1>1 DEF Few
  <2>5. files'["badversion"] = files["badversion"] /\ files'["suspect"] = files["suspect"]
    BY <1>3
  <2> QED BY <1>1, <1>2, <2>1, <2>2, <2>3, <2>4, <2>5 DEF BlameInv, Good
<1> QED BY <1>4, <1>5, <1>6, <1>7, <1>8, <1>9

-----------------------------------------------------------------------------
(* The scripts' operations. *)

(* The writes the guard, the confirmation and an update make.              *)
LEMMA WriteIsOp ==
  /\ \A f \in File \ {"exe"} : Remove(f) \in Op /\ Remove(f).kind = "write" /\ Remove(f).to = f
                               /\ Remove(f).val = Absent
  /\ \A f \in Markers : \A v \in Release : Write(f, v) \in Op
  /\ \A f \in Counts : \A n \in 0..3 : Write(f, n) \in Op
  /\ \A f \in Flags : Write(f, Present) \in Op
  /\ \A v \in Release : Write("new", v) \in Op
  /\ \A f, v : Write(f, v).kind = "write" /\ Write(f, v).to = f /\ Write(f, v).val = v
  /\ Absent \in Release /\ 0 \in 0..3
<1>1. \A f \in Markers : \A v \in Release : Write(f, v) \in Op
  BY DEF Op, WriteOps
<1>2. \A f \in Counts : \A n \in 0..3 : Write(f, n) \in Op
  BY DEF Op, WriteOps
<1>3. \A f \in Flags : Write(f, Present) \in Op /\ Write(f, Absent) \in Op
  BY DEF Op, WriteOps
<1>4. \A v \in Release : Write("new", v) \in Op
  BY DEF Op, WriteOps
<1>5. Absent \in Release /\ 0 \in 0..3 /\ Absent \in 0..3
  BY DEF Release, Absent
<1>6. Remove("old") \in Op /\ Remove("bad") \in Op
  BY DEF Op, WriteOps
<1>7. \A f \in File \ {"exe"} : Remove(f) \in Op
  <2>1. \A f \in Markers \cup Counts \cup Flags \cup {"new"} : Remove(f) \in Op
    BY <1>1, <1>2, <1>3, <1>4, <1>5 DEF Remove
  <2>2. File \ {"exe"} = Markers \cup Counts \cup Flags \cup {"new", "old", "bad"}
    BY DEF File, Markers, Counts, Flags
  <2> HIDE DEF Op, File
  <2> QED BY <1>6, <2>1, <2>2
<1>8. \A f, v : Write(f, v).kind = "write" /\ Write(f, v).to = f /\ Write(f, v).val = v
  BY DEF Write
<1>9. \A f : Remove(f).kind = "write" /\ Remove(f).to = f /\ Remove(f).val = Absent
  BY <1>8 DEF Remove
<1> HIDE DEF Op, File
<1> QED BY <1>1, <1>2, <1>3, <1>4, <1>5, <1>7, <1>8, <1>9

(* A script of writes only.                                                *)
LEMMA WritesInOrder ==
  ASSUME NEW s, \A i \in 1..Len(s) : s[i].kind = "write",
         \A i, j \in 1..Len(s) : i < j /\ s[i] = Remove("bootn") => s[j] # Remove("pending")
  PROVE  InOrder(s)
<1>1. Exit.kind # "write" /\ Move("old", "exe").kind # "write"
  BY DEF Exit, Move
<1> QED BY <1>1 DEF InOrder

(* What a confirmation leaves to do. *)
IsWatchScript(s) ==
  /\ s \in Seq(Op) /\ InOrder(s)
  /\ \A i \in 1..Len(s) :
       /\ s[i].kind = "write" /\ s[i].to # "new"
       /\ s[i].to \in {"pending", "suspect"} => s[i].val = Absent
       /\ s[i].to = "bootn" => s[i] = Remove("bootn")
       /\ s[i].to = "badversion" => s[i].val \in {Absent, files["suspect"]}
       /\ s[i] = Remove("pending") => \E j \in 1..Len(s) : s[j] = Remove("bootn")

(* Every outcome of the confirmation, of both programs.                    *)
LEMMA WatchScriptIs ==
  ASSUME FilesInv
  PROVE  /\ \A w \in {"watch", "confirm", "recover"} :
              /\ IsWatchScript(NodeConfirmedHealthy(w, files))
              /\ IsWatchScript(NodeNotHealthy(w, files))
              /\ \A i \in 1..Len(NodeNotHealthy(w, files)) :
                   NodeNotHealthy(w, files)[i].to \notin {"bootn", "badversion"}
         /\ IsWatchScript(BridgeConfirmedHealthy) /\ IsWatchScript(<<>>)
<1>1. ASSUME NEW s \in Seq(Op),
             \A i \in 1..Len(s) : \/ s[i] = Write("badversion", files["suspect"])
                                  \/ s[i] = Write("envhalt", Present)
                                  \/ \E f \in File \ {"exe", "new"} : s[i] = Remove(f),
             \A i, j \in 1..Len(s) : i < j /\ s[i] = Remove("bootn") => s[j] # Remove("pending"),
             (\E i \in 1..Len(s) : s[i] = Remove("pending")) =>
               \E i \in 1..Len(s) : s[i] = Remove("bootn")
      PROVE  IsWatchScript(s)
  <2>1. ASSUME NEW i \in 1..Len(s)
        PROVE  /\ s[i].kind = "write" /\ s[i].to # "new"
               /\ s[i].to \in {"pending", "suspect"} => s[i].val = Absent
               /\ s[i].to = "bootn" => s[i] = Remove("bootn")
               /\ s[i].to = "badversion" => s[i].val \in {Absent, files["suspect"]}
    <3>1. CASE s[i] = Write("badversion", files["suspect"])
      BY <3>1, WriteIsOp
    <3>2. CASE s[i] = Write("envhalt", Present)
      BY <3>2, WriteIsOp
    <3>3. ASSUME NEW f \in File \ {"exe", "new"}, s[i] = Remove(f)
          PROVE  s[i].kind = "write" /\ s[i].to = f /\ s[i].val = Absent /\ f # "new"
      <4>1. f \in File \ {"exe"}
        OBVIOUS
      <4> HIDE DEF File
      <4> QED BY <3>3, <4>1, WriteIsOp
    <3> HIDE DEF Op, File
    <3> QED BY <1>1, <3>1, <3>2, <3>3
  <2>2. InOrder(s)
    BY <1>1, <2>1, WritesInOrder
  <2> QED BY <1>1, <2>1, <2>2 DEF IsWatchScript
<1>2. files["suspect"] \in Release
  BY DEF FilesInv, Markers
<1>3. \A f \in {"pending", "bootn", "confirmn", "old", "bad", "badversion", "suspect", "envhalt"} :
        f \in File \ {"exe", "new"} /\ Remove(f) \in Op
  <2>1. \A f \in {"pending", "bootn", "confirmn", "old", "bad", "badversion", "suspect", "envhalt"} :
          f \in File \ {"exe", "new"}
    BY DEF File
  <2> HIDE DEF Op, File
  <2> QED BY <2>1, WriteIsOp
<1>4. Write("badversion", files["suspect"]) \in Op /\ Write("envhalt", Present) \in Op
  <2>1. "badversion" \in Markers /\ "envhalt" \in Flags
    BY DEF Markers, Flags
  <2> HIDE DEF Op, Flags, Markers
  <2> QED BY <1>2, <2>1, WriteIsOp
<1>5. \A f, g : Remove(f) = Remove(g) <=> f = g
  BY DEF Remove, Write
<1>6. \A f : Remove(f) # Write("envhalt", Present) /\ Write("envhalt", Present).to = "envhalt"
  BY DEF Remove, Write, Absent, Present
<1>7. Write("badversion", files["suspect"]).to = "badversion" /\ \A f : Remove(f).to = f
  BY WriteIsOp DEF Remove
<1> HIDE DEF Op, File, Remove, Write
<1>8. IsWatchScript(NodeConfirmedHealthy("watch", files))
  <2> DEFINE s == <<Remove("pending"), Remove("bootn"), Remove("confirmn"), Remove("old"), Remove("bad"),
                    Remove("badversion"), Remove("suspect"), Remove("envhalt")>>
  <2>1. NodeConfirmedHealthy("watch", files) = s
    BY RemoveAllIs DEF NodeConfirmedHealthy
  <2>2. s \in Seq(Op)
    BY <1>3
  <2>3. /\ \A i \in 1..Len(s) : \E f \in File \ {"exe", "new"} : s[i] = Remove(f)
        /\ \A i \in 1..Len(s) : s[i] = Remove("pending") => i = 1
        /\ s[2] = Remove("bootn") /\ 2 \in 1..Len(s)
    BY <1>3, <1>5
  <2>4. \A i, j \in 1..Len(s) : i < j => j # 1
    OBVIOUS
  <2> HIDE DEF s
  <2> QED BY <1>1, <2>1, <2>2, <2>3, <2>4
<1>9. IsWatchScript(NodeConfirmedHealthy("confirm", files))
  <2> DEFINE s == <<Write("badversion", files["suspect"]), Remove("suspect"), Remove("confirmn"),
                    Remove("old"), Remove("bad"), Remove("envhalt")>>
  <2>1. NodeConfirmedHealthy("confirm", files) = s
    BY RemoveAllIs, Join15 DEF NodeConfirmedHealthy
  <2>2. s \in Seq(Op)
    BY <1>3, <1>4
  <2>3. /\ \A i \in 1..Len(s) : \/ s[i] = Write("badversion", files["suspect"])
                                \/ \E f \in File \ {"exe", "new"} : s[i] = Remove(f)
        /\ \A i \in 1..Len(s) : s[i] # Remove("pending")
    BY <1>3, <1>5, <1>7
  <2> HIDE DEF s
  <2> QED BY <1>1, <2>1, <2>2, <2>3
<1>10. IsWatchScript(NodeConfirmedHealthy("recover", files))
  <2> DEFINE s == <<Remove("envhalt")>>
  <2>1. NodeConfirmedHealthy("recover", files) = s
    BY DEF NodeConfirmedHealthy
  <2>2. s \in Seq(Op)
    BY <1>3
  <2>3. /\ \A i \in 1..Len(s) : \E f \in File \ {"exe", "new"} : s[i] = Remove(f)
        /\ \A i \in 1..Len(s) : s[i] # Remove("pending")
    BY <1>3, <1>5
  <2> HIDE DEF s
  <2> QED BY <1>1, <2>1, <2>2, <2>3
<1>11. IsWatchScript(BridgeConfirmedHealthy)
  <2> DEFINE s == <<Remove("pending"), Remove("bootn"), Remove("old"), Remove("badversion")>>
  <2>1. BridgeConfirmedHealthy = s
    BY RemoveAllIs DEF BridgeConfirmedHealthy
  <2>2. s \in Seq(Op)
    BY <1>3
  <2>3. /\ \A i \in 1..Len(s) : \E f \in File \ {"exe", "new"} : s[i] = Remove(f)
        /\ \A i \in 1..Len(s) : s[i] = Remove("pending") => i = 1
        /\ s[2] = Remove("bootn") /\ 2 \in 1..Len(s)
    BY <1>3, <1>5
  <2>4. \A i, j \in 1..Len(s) : i < j => j # 1
    OBVIOUS
  <2> HIDE DEF s
  <2> QED BY <1>1, <2>1, <2>2, <2>3, <2>4
<1>12. /\ IsWatchScript(ClearSuspect)
       /\ \A i \in 1..Len(ClearSuspect) : ClearSuspect[i].to \notin {"bootn", "badversion"}
  <2> DEFINE s == <<Remove("suspect"), Remove("confirmn"), Write("envhalt", Present)>>
  <2>1. ClearSuspect = s
    BY DEF ClearSuspect
  <2>2. s \in Seq(Op)
    BY <1>3, <1>4
  <2>3. /\ \A i \in 1..Len(s) : \/ s[i] = Write("envhalt", Present)
                                \/ \E f \in File \ {"exe", "new"} : s[i] = Remove(f)
        /\ \A i \in 1..Len(s) : s[i] # Remove("pending")
        /\ \A i \in 1..Len(s) : s[i].to \notin {"bootn", "badversion"}
    BY <1>3, <1>5, <1>6, <1>7
  <2> HIDE DEF s
  <2> QED BY <1>1, <2>1, <2>2, <2>3
<1>13. IsWatchScript(<<>>)
  <2>1. Len(<<>>) = 0 /\ <<>> \in Seq(Op)
    OBVIOUS
  <2> QED BY <2>1, EmptyOps DEF IsWatchScript
<1> QED BY <1>8, <1>9, <1>10, <1>11, <1>12, <1>13 DEF NodeNotHealthy

(* A confirmation ends its wait: its script begins. *)
LEMMA WatchScriptKeepsHealInv ==
  ASSUME HealInv, Watching, watch' = "none", NEW s, IsWatchScript(s),
         script' = [script EXCEPT !["watch"] = s],
         phase = "up" \/ \A i \in 1..Len(s) : s[i].to \notin {"bootn", "badversion"},
         overlap' \in BOOLEAN, overlap => overlap',
         UNCHANGED <<world, files, phase, run, guarded, mishaps>>
  PROVE  HealInv'
<1> USE DEF world, HealInv
<1>1. /\ UNCHANGED <<product, windows, quality, dataOK, files, phase, run, guarded, mishaps>>
      /\ watch \in {"watch", "confirm", "recover"} /\ phase \in {"load", "running", "up"}
      /\ script["watch"] = <<>> /\ script["boot"] = <<>>
  BY DEF Watching, ProcessInv
<1>2. /\ script' = [u \in Thread |-> script'[u]]
      /\ \A u \in Thread : script'[u] \in Seq(Op) /\ InOrder(script[u])'
      /\ script'["watch"] = s
      /\ \A u \in Thread : u # "watch" => script'[u] = script[u] /\ Ops(u)' = Ops(u)
      /\ Ops("watch")' = {s[i] : i \in 1..Len(s)}
  <2>1. "watch" \in Thread /\ s \in Seq(Op) /\ InOrder(s)
    BY DEF Thread, IsWatchScript
  <2> HIDE DEF Op, Thread
  <2> QED BY <1>1, <2>1, NewScript
<1>3. /\ script'["boot"] = <<>> /\ script'["update"] = script["update"]
      /\ Ops("update")' = Ops("update") /\ Ops("boot")' = {} /\ Ops("boot") = {}
      /\ Ops("watch") = {}
  <2>1. "boot" \in Thread /\ "update" \in Thread /\ "boot" # "watch" /\ "update" # "watch"
        /\ "watch" \in Thread
    BY DEF Thread
  <2> HIDE DEF Thread
  <2> QED BY <1>1, <1>2, <2>1, EmptyOps
<1>4. script["update"] = <<>> \/ overlap
  BY <1>1 DEF UpdateInv
<1>5. \A op \in Ops("watch")' :
        /\ op.kind = "write" /\ op.to # "new"
        /\ op.to \in {"pending", "suspect"} => op.val = Absent
        /\ op.to = "bootn" => op = Remove("bootn") /\ phase = "up"
        /\ op.to = "badversion" => op.val \in {Absent, files["suspect"]} /\ phase = "up"
        /\ op = Remove("pending") => Remove("bootn") \in Ops("watch")'
  <2>1. ASSUME NEW i \in 1..Len(s)
        PROVE  /\ s[i].kind = "write" /\ s[i].to # "new"
               /\ s[i].to \in {"pending", "suspect"} => s[i].val = Absent
               /\ s[i].to = "bootn" => s[i] = Remove("bootn") /\ phase = "up"
               /\ s[i].to = "badversion" => s[i].val \in {Absent, files["suspect"]} /\ phase = "up"
               /\ s[i] = Remove("pending") => \E j \in 1..Len(s) : s[j] = Remove("bootn")
    BY DEF IsWatchScript
  <2> HIDE DEF Remove
  <2> QED BY <1>2, <2>1
<1>6. Remove("bootn").to = "bootn"
  BY DEF Remove, Write
<1>7. ProcessInv'
  <2> HIDE DEF Op, Thread
  <2> QED BY <1>1, <1>2, <1>3 DEF ProcessInv
<1>8. FilesInv'
  BY <1>1 DEF FilesInv
<1>9. BootInv'
  <2>1. Remove("bootn") \in Ops("watch")' => phase = "up"
    BY <1>5, <1>6
  <2>2. ( \A op \in Ops("watch") :
            /\ op.kind = "write" => op.to # "new" /\ (op.to = "pending" => op.val = Absent)
            /\ op.kind = "move" => op \in RollbackMoves
            /\ op.kind # "copy"
            /\ op = Remove("pending") => Remove("bootn") \in Ops("watch") )'
    BY <1>5
  <2> HIDE DEF Remove
  <2> QED BY <1>1, <1>3, <1>5, <2>1, <2>2 DEF BootInv, OnlyWrites
<1>10. UpdateInv'
  BY <1>3, <1>4 DEF UpdateInv
<1>11. BinaryInv'
  BY <1>1 DEF BinaryInv
<1>12. BlameInv'
  <2>1. \A v : Good(v)' <=> Good(v)
    BY <1>1 DEF Good
  <2>2. dataOK /\ Few /\ ~overlap => PendingIsCounted'
    <3>1. dataOK /\ Few /\ ~overlap => PendingIsCounted
      BY DEF BlameInv
    <3> QED BY <1>1, <1>3, <2>1, <3>1 DEF PendingIsCounted, Good, Counted, OnlyWrites
  <2>3. ~overlap => CountsAreRemoved'
    BY <1>1, <1>3 DEF CountsAreRemoved, BlameInv
  <2>4. Few' <=> Few
    BY <1>1 DEF Few
  <2>5. Thread = {"boot", "watch", "update"} /\ ~Good(Absent)
    BY DEF Thread, Good
  <2>6. dataOK /\ Few /\ ~overlap =>
          \A t \in Thread : \A op \in Ops(t)' :
            op.kind = "write" /\ op.to \in {"badversion", "suspect"} => ~Good(op.val)
    BY <1>3, <1>5, <2>5 DEF BlameInv
  <2>7. phase = "up" => dataOK
    BY DEF ProcessInv
  <2>8. ~dataOK => \A t \in Thread : \A op \in Ops(t)' : op.to = "badversion" => op.val = Absent
    BY <1>3, <1>5, <2>5, <2>7 DEF BlameInv
  <2> QED BY <1>1, <2>1, <2>2, <2>3, <2>4, <2>6, <2>8 DEF BlameInv, Good
<1> QED BY <1>7, <1>8, <1>9, <1>10, <1>11, <1>12

(* The confirmation comes to its verdict.                                  *)
LEMMA ConfirmKeepsHealInv ==
  ASSUME HealInv, ConfirmHealthy \/ ConfirmTimesOut
  PROVE  HealInv'
<1>1. /\ Watching /\ watch' = "none" /\ watch \in {"watch", "confirm", "recover"}
      /\ overlap' \in BOOLEAN /\ (overlap => overlap')
      /\ UNCHANGED <<world, files, phase, run, guarded, mishaps>>
  BY DEF ConfirmHealthy, ConfirmTimesOut, Watching, HealInv, ProcessInv, counters
<1>2. FilesInv
  BY DEF HealInv
<1>3. CASE ConfirmHealthy
  <2> DEFINE s == IF product = "node" THEN NodeConfirmedHealthy(watch, files)
                  ELSE BridgeConfirmedHealthy
  <2>1. IsWatchScript(s)
    BY <1>1, <1>2, WatchScriptIs
  <2>2. script' = [script EXCEPT !["watch"] = s] /\ phase = "up"
    BY <1>3 DEF ConfirmHealthy
  <2> HIDE DEF s
  <2> QED BY <1>1, <2>1, <2>2, WatchScriptKeepsHealInv
<1>4. CASE ConfirmTimesOut
  <2> DEFINE s == IF product = "node" THEN NodeNotHealthy(watch, files) ELSE <<>>
  <2>1. IsWatchScript(s) /\ \A i \in 1..Len(s) : s[i].to \notin {"bootn", "badversion"}
    <3>1. Len(<<>>) = 0
      OBVIOUS
    <3> QED BY <1>1, <1>2, <3>1, WatchScriptIs
  <2>2. script' = [script EXCEPT !["watch"] = s]
    BY <1>4 DEF ConfirmTimesOut
  <2> HIDE DEF s
  <2> QED BY <1>1, <2>1, <2>2, WatchScriptKeepsHealInv
<1> QED BY <1>3, <1>4

(* What an update has to do. *)
LEMMA UpdateOpsAre ==
  ASSUME NEW m \in Version
  PROVE  LET s == UpdateOps(m)
         IN  /\ s \in Seq(Op) /\ InOrder(s) /\ Len(s) = 8
             /\ \A i \in 1..8 : s[i].kind = "write" => s[i].to \in {"new", "old", "pending", "bootn"}
             /\ \A i \in 1..8 : s[i].to # "badversion"
             /\ LeftOf(s, s, 1)
<1> DEFINE o == IF windows THEN Move("exe", "old") ELSE Copy("exe", "old")
           s == <<Remove("new"), Write("new", m), Remove("old"), o,
                  Move("new", "exe"), Write("pending", m), Write("bootn", 0), Exit>>
<1>1. UpdateOps(m) = s
  BY DEF UpdateOps
<1>2. /\ Remove("new") \in Op /\ Write("new", m) \in Op /\ Remove("old") \in Op /\ o \in Op
      /\ Move("new", "exe") \in Op /\ Write("pending", m) \in Op /\ Write("bootn", 0) \in Op
      /\ Exit \in Op
  <2>1. m \in Release /\ "pending" \in Markers /\ "bootn" \in Counts
        /\ "new" \in File \ {"exe"} /\ "old" \in File \ {"exe"}
    BY DEF Release, Markers, Counts, File
  <2>2. Move("exe", "old") \in Op /\ Copy("exe", "old") \in Op /\ Move("new", "exe") \in Op
        /\ Exit \in Op
    BY DEF Op
  <2>3. o \in Op
    BY <2>2
  <2> HIDE DEF Op, Markers, Counts, File, Release, o
  <2> QED BY <2>1, <2>2, <2>3, WriteIsOp
<1>3. /\ o.kind \in {"move", "copy"} /\ o.to = "old" /\ o # Exit /\ o # Move("old", "exe")
      /\ o # Remove("bootn")
  BY DEF Move, Copy, Exit, Remove, Write
<1>4. s \in Seq(Op) /\ Len(s) = 8
  <2> HIDE DEF Op, o, Remove, Write, Move, Exit
  <2> QED BY <1>2
<1>5. \A i \in 1..8 : i < 8 => s[i] # Exit /\ s[i] # Move("old", "exe")
                              /\ (s[i] = Remove("bootn") => i = 7)
  <2>1. /\ Remove("new") # Exit /\ Remove("new") # Move("old", "exe") /\ Remove("new") # Remove("bootn")
        /\ Write("new", m) # Exit /\ Write("new", m) # Move("old", "exe") /\ Write("new", m) # Remove("bootn")
        /\ Remove("old") # Exit /\ Remove("old") # Move("old", "exe") /\ Remove("old") # Remove("bootn")
        /\ Move("new", "exe") # Exit /\ Move("new", "exe") # Move("old", "exe")
        /\ Move("new", "exe") # Remove("bootn")
        /\ Write("pending", m) # Exit /\ Write("pending", m) # Move("old", "exe")
        /\ Write("pending", m) # Remove("bootn")
        /\ Write("bootn", 0) # Exit /\ Write("bootn", 0) # Move("old", "exe")
    BY DEF Move, Exit, Remove, Write
  <2> HIDE DEF o
  <2> QED BY <1>3, <2>1
<1>6. s[8] # Remove("pending")
  BY DEF Exit, Remove, Write
<1>7. InOrder(s)
  <2>1. \A i, j \in 1..8 : i < j => i < 8 /\ (i = 7 => j = 8)
    OBVIOUS
  <2> HIDE DEF s
  <2> QED BY <1>4, <1>5, <1>6, <2>1 DEF InOrder
<1>8. \A i \in 1..8 : /\ s[i].kind = "write" => s[i].to \in {"new", "old", "pending", "bootn"}
                      /\ s[i].to # "badversion"
  <2>1. \A i \in 1..8 : s[i].to \in {"new", "old", "exe", "pending", "bootn"}
                        /\ (s[i].to = "exe" => s[i].kind # "write")
    <3> HIDE DEF o
    <3> QED BY <1>3 DEF Move, Exit, Remove, Write
  <2> HIDE DEF s
  <2> QED BY <2>1
<1>9. LeftOf(s, s, 1)
  <2>1. Len(s) = Len(s) - 1 + 1 /\ \A i \in 1..Len(s) : 1 + i - 1 = i
    BY <1>4
  <2> HIDE DEF s
  <2> QED BY <2>1 DEF LeftOf
<1> HIDE DEF s
<1> QED BY <1>1, <1>4, <1>7, <1>8, <1>9

(* An update begins: over a confirmed release it runs alone. *)
LEMMA UpdateScriptKeepsHealInv ==
  ASSUME HealInv, NEW m \in Version,
         script["boot"] = <<>>, script["update"] = <<>>,
         script' = [script EXCEPT !["update"] = UpdateOps(m)],
         overlap' = (overlap \/ Unconfirmed),
         UNCHANGED <<world, files, watch, guarded, mishaps>>,
         \/ phase' = phase /\ run' = run
            /\ (phase = "up" \/ (phase = "running" /\ quality[run] = "hanging"))
         \/ phase = "off" /\ phase' = "cli" /\ run' = files["exe"] /\ files["exe"] # Absent
  PROVE  HealInv'
<1> USE DEF world, HealInv
<1>1. UNCHANGED <<product, windows, quality, dataOK, files, watch, guarded, mishaps>>
  OBVIOUS
<1>2. "update" \in Thread /\ "boot" \in Thread /\ "watch" \in Thread
      /\ Thread = {"boot", "watch", "update"}
  BY DEF Thread
<1> DEFINE s == UpdateOps(m)
<1>3. /\ s \in Seq(Op) /\ InOrder(s) /\ Len(s) = 8
      /\ \A i \in 1..Len(s) : s[i].kind = "write" => s[i].to \in {"new", "old", "pending", "bootn"}
      /\ \A i \in 1..Len(s) : s[i].to # "badversion"
      /\ LeftOf(s, s, 1)
  BY UpdateOpsAre
<1> HIDE DEF s
<1>4. script' = [script EXCEPT !["update"] = s]
  BY DEF s
<1>5. /\ script' = [u \in Thread |-> script'[u]]
      /\ \A u \in Thread : script'[u] \in Seq(Op) /\ InOrder(script[u])'
      /\ script'["update"] = s
      /\ \A u \in Thread : u # "update" => script'[u] = script[u] /\ Ops(u)' = Ops(u)
      /\ Ops("update")' = {s[i] : i \in 1..Len(s)}
  <2> HIDE DEF Op, Thread
  <2> QED BY <1>1, <1>2, <1>3, <1>4, NewScript
<1>6. /\ script'["boot"] = <<>> /\ script'["watch"] = script["watch"]
      /\ Ops("boot")' = {} /\ Ops("boot") = {} /\ Ops("watch")' = Ops("watch")
  BY <1>2, <1>5, EmptyOps
<1>7. \A op \in Ops("update")' : /\ op.kind = "write" => op.to \notin {"suspect", "badversion"}
                                 /\ op.to # "badversion"
  BY <1>3, <1>5
<1>8. ~overlap' => /\ files["pending"] = Absent /\ watch = "none" /\ script["watch"] = <<>>
                   /\ files["exe"] # Absent
  BY DEF Unconfirmed
<1>9. files["exe"] \in Release
  BY DEF FilesInv
<1>10. overlap' \in BOOLEAN
  BY DEF ProcessInv, Unconfirmed
<1>11. ProcessInv'
  <2>1. phase = "off" => watch = "none" /\ ~guarded /\ script["watch"] = <<>>
    BY DEF ProcessInv
  <2>2. /\ phase' \in {"off", "cli", "boot", "load", "running", "up"}
        /\ (run' = Absent) = (phase' = "off") /\ run' \in Release
        /\ watch' # "none" => /\ phase' \in {"boot", "load", "running", "up"}
                              /\ script'["watch"] = <<>>
        /\ guarded' => phase' \in {"boot", "load", "running", "up"}
        /\ script'["watch"] # <<>> => phase' \in {"load", "running", "up"}
        /\ phase' \in {"up", "cli"} \/ (phase' = "running" /\ quality'[run'] = "hanging")
        /\ ~dataOK' => phase' \notin {"running", "up"}
    BY <1>1, <1>6, <1>9, <2>1 DEF ProcessInv
  <2> HIDE DEF Op, Thread, Release
  <2> QED BY <1>1, <1>5, <1>6, <1>10, <2>2 DEF ProcessInv
<1>12. FilesInv'
  BY <1>1 DEF FilesInv
<1>13. BootInv'
  <2>1. phase' # "up" => phase # "up"
    OBVIOUS
  <2> QED BY <1>1, <1>6, <2>1 DEF BootInv, OnlyWrites
<1>14. UpdateInv'
  <2>1. ~overlap' => Left(m, 1)'
    <3>1. UpdateOps(m)' = s
      BY <1>1 DEF UpdateOps, s
    <3>2. LeftOf(script["update"], UpdateOps(m), 1)'
      <4>1. LeftOf(script'["update"], s, 1)
        BY <1>3, <1>5
      <4> QED BY <3>1, <4>1 DEF LeftOf
    <3>3. ~overlap' => files'["exe"] # Absent /\ files'["pending"] = Absent
      BY <1>1, <1>8
    <3> QED BY <3>2, <3>3 DEF Left
  <2>2. 1 \in 1..8
    OBVIOUS
  <2> QED BY <1>1, <1>6, <1>8, <2>1, <2>2 DEF UpdateInv
<1>15. BinaryInv'
  BY <1>1, <1>6, <1>8 DEF BinaryInv
<1>16. BlameInv'
  <2>1. \A v : Good(v)' <=> Good(v)
    BY <1>1 DEF Good
  <2>2. ~overlap' => ~Good(files["pending"])' /\ ~overlap
    BY <1>1, <1>8 DEF Good
  <2>3. ~overlap => CountsAreRemoved'
    BY <1>1, <1>6 DEF CountsAreRemoved, BlameInv
  <2>4. Few' <=> Few
    BY <1>1 DEF Few
  <2>5. dataOK /\ Few /\ ~overlap =>
          \A t \in Thread : \A op \in Ops(t)' :
            op.kind = "write" /\ op.to \in {"badversion", "suspect"} => ~Good(op.val)
    BY <1>2, <1>5, <1>7 DEF BlameInv
  <2>6. ~dataOK => \A t \in Thread : \A op \in Ops(t)' : op.to = "badversion" => op.val = Absent
    BY <1>2, <1>5, <1>7 DEF BlameInv
  <2> QED BY <1>1, <2>1, <2>2, <2>3, <2>4, <2>5, <2>6 DEF BlameInv, Good, PendingIsCounted
<1> QED BY <1>11, <1>12, <1>13, <1>14, <1>15, <1>16

(* The update loop, or --update-once, starts an update.                    *)
LEMMA ApplyKeepsHealInv ==
  ASSUME HealInv, NEW m \in Version, ApplyManifest(m) \/ RunUpdateOnce(m)
  PROVE  HealInv'
<1>1. UNCHANGED <<world, files, watch, guarded, mishaps>> /\ overlap' = (overlap \/ Unconfirmed)
  BY DEF ApplyManifest, RunUpdateOnce, counters
<1>2. SwapBinary(windows, m) \o MarkPending(m) \o <<Exit>> = UpdateOps(m)
  BY UpdateScriptIs
<1>3. \A t \in Thread : phase = "off" => script[t] = <<>>
  BY DEF HealInv, ProcessInv, Thread
<1>4. CASE ApplyManifest(m)
  <2>1. /\ script["update"] = <<>> /\ phase' = phase /\ run' = run
        /\ phase = "up" \/ (phase = "running" /\ quality[run] = "hanging")
        /\ script' = [script EXCEPT !["update"] = UpdateOps(m)]
    BY <1>2, <1>4 DEF ApplyManifest
  <2>2. script["boot"] = <<>>
    BY <2>1 DEF HealInv, ProcessInv
  <2> QED BY <1>1, <2>1, <2>2, UpdateScriptKeepsHealInv
<1>5. CASE RunUpdateOnce(m)
  <2>1. /\ phase = "off" /\ phase' = "cli" /\ run' = files["exe"] /\ files["exe"] # Absent
        /\ script' = [NoScripts EXCEPT !["update"] = UpdateOps(m)]
    BY <1>2, <1>5 DEF RunUpdateOnce
  <2>2. script = NoScripts
    BY <1>3, <2>1 DEF HealInv, ProcessInv, NoScripts
  <2>3. script["boot"] = <<>> /\ script["update"] = <<>>
    BY <1>3, <2>1 DEF Thread
  <2> QED BY <1>1, <2>1, <2>2, <2>3, UpdateScriptKeepsHealInv
<1> QED BY <1>4, <1>5

(* What a boot does before the release starts. *)
IsBootScript(s) ==
  /\ s \in Seq(Op) /\ InOrder(s)
  /\ \A i \in 1..Len(s) :
       /\ s[i].kind = "write" => s[i].to # "new" /\ (s[i].to = "pending" => s[i].val = Absent)
       /\ s[i].kind = "move" => s[i] \in RollbackMoves /\ files["old"] # Absent
       /\ s[i].kind # "copy"
       /\ s[i] = Remove("pending") => \E j \in 1..Len(s) : s[j] = Remove("bootn")
       /\ s[i] = Remove("old") => \A j \in 1..Len(s) : s[j].kind = "write"
       /\ s[i].kind = "write" /\ s[i].to = "bootn" =>
            /\ Decision # "env"
            /\ \/ s[i].val = 0
               \/ s[i].val = files["bootn"] + 1 /\ Len(s) = 1 /\ files["pending"] # Absent
       /\ s[i].to = "badversion" => s[i].val = Absent \/ product = "bridge"
       /\ s[i].kind = "write" /\ s[i].to \in {"badversion", "suspect"} =>
            s[i].val = Absent \/ (s[i].val = files["pending"] /\ files["bootn"] >= 2)
       /\ s[i].kind # "write" =>
            /\ Watch(Decision) = "none"
            /\ files["pending"] # Absent /\ files["bootn"] >= 2

(* Scripts that count, pause or tidy up. *)
LEMMA BootWrites ==
  ASSUME NEW s \in Seq(Op),
         \A i \in 1..Len(s) :
           \/ s[i] = Write("envhalt", Present)
           \/ \E n \in 0..3 : s[i] = Write("confirmn", n)
           \/ \E f \in File \ {"exe", "new"} : s[i] = Remove(f),
         \A i, j \in 1..Len(s) : i < j /\ s[i] = Remove("bootn") => s[j] # Remove("pending"),
         (\E i \in 1..Len(s) : s[i] = Remove("pending")) =>
           \E i \in 1..Len(s) : s[i] = Remove("bootn"),
         (\E i \in 1..Len(s) : s[i] = Remove("bootn")) => Decision # "env"
  PROVE  IsBootScript(s)
<1>1. ASSUME NEW i \in 1..Len(s)
      PROVE  /\ s[i].kind = "write" /\ s[i].to # "new"
             /\ s[i].to \in {"pending", "badversion", "suspect", "bootn"} => s[i].val = Absent
             /\ s[i].to = "bootn" => s[i] = Remove("bootn")
  <2>1. CASE s[i] = Write("envhalt", Present)
    BY <2>1, WriteIsOp
  <2>2. ASSUME NEW n \in 0..3, s[i] = Write("confirmn", n)
        PROVE  s[i].kind = "write" /\ s[i].to = "confirmn"
    BY <2>2 DEF Write
  <2>3. ASSUME NEW f \in File \ {"exe", "new"}, s[i] = Remove(f)
        PROVE  s[i].kind = "write" /\ s[i].to = f /\ s[i].val = Absent /\ f # "new"
    <3>1. \A g : Remove(g).kind = "write" /\ Remove(g).to = g /\ Remove(g).val = Absent
      BY DEF Remove, Write
    <3> HIDE DEF File, Remove
    <3> QED BY <2>3, <3>1
  <2> HIDE DEF Op, File
  <2> QED BY <2>1, <2>2, <2>3
<1>2. InOrder(s)
  BY <1>1, WritesInOrder
<1>3. Absent = 0
  BY DEF Absent
<1> HIDE DEF Op, Remove, RollbackMoves, Watch, Decision
<1> QED BY <1>1, <1>2, <1>3 DEF IsBootScript

(* The boot's own count. *)
LEMMA BootCounts ==
  ASSUME FilesInv, files["bootn"] + 1 \in 0..3, files["pending"] # Absent, Decision # "env"
  PROVE  IsBootScript(<<Write("bootn", files["bootn"] + 1)>>)
<1> DEFINE s == <<Write("bootn", files["bootn"] + 1)>>
<1>1. s \in Seq(Op) /\ Len(s) = 1 /\ s[1] = Write("bootn", files["bootn"] + 1)
  <2>1. Write("bootn", files["bootn"] + 1) \in Op
    <3>1. "bootn" \in Counts
      BY DEF Counts
    <3> HIDE DEF Op
    <3> QED BY <3>1, WriteIsOp
  <2> HIDE DEF Op, Write
  <2> QED BY <2>1
<1>2. /\ s[1].kind = "write" /\ s[1].to = "bootn" /\ s[1].val = files["bootn"] + 1
      /\ s[1] # Remove("pending") /\ s[1] # Remove("old")
  BY <1>1 DEF Write, Remove
<1> HIDE DEF s
<1>3. InOrder(s)
  BY <1>1, <1>2, WritesInOrder
<1>4. \A i \in 1..Len(s) : i = 1
  BY <1>1
<1>5. IsBootScript(s)
  <2> HIDE DEF Op, Remove, RollbackMoves, Watch, Decision
  <2> QED BY <1>1, <1>2, <1>3, <1>4 DEF IsBootScript
<1> QED BY <1>5 DEF s

(* A rollback of the node. *)
LEMMA NodeRollsBack ==
  ASSUME FilesInv, files["old"] # Absent, files["pending"] # Absent, files["bootn"] >= 2,
         Decision # "env", Watch(Decision) = "none", product = "node"
  PROVE  IsBootScript(RollbackOps(files["pending"]))
<1> DEFINE p == files["pending"]
           s == <<Write("suspect", p), Write("confirmn", 0), Move("exe", "bad"), Move("old", "exe"),
                  Remove("pending"), Remove("bootn"), Exit>>
<1>1. RollbackOps(files["pending"]) = s
  BY DEF RollbackOps
<1>2. p \in Release /\ p # Absent
  BY DEF FilesInv, Markers
<1> HIDE DEF p
<1>3. /\ Write("suspect", p) \in Op /\ Write("confirmn", 0) \in Op /\ Move("exe", "bad") \in Op
      /\ Move("old", "exe") \in Op /\ Remove("pending") \in Op /\ Remove("bootn") \in Op /\ Exit \in Op
  <2>1. "suspect" \in Markers /\ "confirmn" \in Counts /\ "pending" \in File \ {"exe"}
        /\ "bootn" \in File \ {"exe"}
    BY DEF Markers, Counts, File
  <2>2. Move("exe", "bad") \in Op /\ Move("old", "exe") \in Op /\ Exit \in Op
    BY DEF Op, RollbackMoves
  <2> HIDE DEF Op, Markers, Counts, File
  <2> QED BY <1>2, <2>1, <2>2, WriteIsOp
<1>4. s \in Seq(Op) /\ Len(s) = 7
  <2> HIDE DEF Op, Write, Move, Remove, Exit
  <2> QED BY <1>3
<1>5. /\ Move("exe", "bad") \in RollbackMoves /\ Move("old", "exe") \in RollbackMoves
      /\ Exit \notin {Remove("pending"), Remove("old"), Move("old", "exe")} /\ Exit.kind = "exit"
      /\ Exit.to = "exe"
  BY DEF RollbackMoves, Exit, Remove, Write, Move
<1>6. \A f, v : /\ Write(f, v).kind = "write" /\ Write(f, v).to = f /\ Write(f, v).val = v
                /\ Write(f, v) # Exit
                /\ \A g, h : Write(f, v) # Move(g, h)
  BY DEF Write, Exit, Move
<1>7. \A f : Remove(f).kind = "write" /\ Remove(f).to = f /\ Remove(f).val = Absent
             /\ Remove(f) # Exit /\ \A g, h : Remove(f) # Move(g, h)
  BY <1>6 DEF Remove
<1>8. \A g, h : Move(g, h).kind = "move" /\ Move(g, h).to = h /\ Move(g, h) # Exit
  BY DEF Move, Exit
<1>9. Move("exe", "bad") # Move("old", "exe")
  BY DEF Move
<1> HIDE DEF Write, Move, Remove, Exit, Op, RollbackMoves
<1>10. /\ s[1] = Write("suspect", p) /\ s[2] = Write("confirmn", 0) /\ s[3] = Move("exe", "bad")
       /\ s[4] = Move("old", "exe") /\ s[5] = Remove("pending") /\ s[6] = Remove("bootn")
       /\ s[7] = Exit
  OBVIOUS
<1> HIDE DEF s
<1>11. \A i \in 1..7 : i \in {1, 2, 3, 4, 5, 6, 7}
  OBVIOUS
<1>12. InOrder(s)
  <2>1. \A i \in 1..7 : /\ s[i] = Exit => i = 7
                        /\ s[i] = Move("old", "exe") => i = 4
                        /\ i > 4 => s[i].kind \in {"write", "exit"}
                        /\ s[i] = Remove("bootn") => i = 6
    BY <1>5, <1>6, <1>7, <1>8, <1>9, <1>10, <1>11
  <2>2. \A i, j \in 1..7 : i < j => i # 7 /\ (i = 4 => j > 4) /\ (i = 6 => j = 7)
    OBVIOUS
  <2> QED BY <1>4, <1>5, <1>10, <2>1, <2>2 DEF InOrder
<1>13. ASSUME NEW i \in 1..7
       PROVE  /\ s[i].kind = "write" => s[i].to # "new" /\ (s[i].to = "pending" => s[i].val = Absent)
              /\ s[i].kind = "move" => s[i] \in RollbackMoves
              /\ s[i].kind # "copy"
              /\ s[i] # Remove("old")
              /\ s[i].kind = "write" /\ s[i].to = "bootn" => s[i].val = 0
              /\ s[i].to # "badversion"
              /\ s[i].kind = "write" /\ s[i].to = "suspect" => s[i].val = p
  <2>1. Absent = 0
    BY DEF Absent
  <2> QED BY <1>5, <1>6, <1>7, <1>8, <1>10, <1>11, <2>1
<1>14. 6 \in 1..7
  OBVIOUS
<1>15. IsBootScript(s)
  <2> HIDE DEF Watch, Decision
  <2> QED BY <1>4, <1>10, <1>12, <1>13, <1>14 DEF IsBootScript, p
<1> QED BY <1>1, <1>15

(* A rollback of the bridge. *)
LEMMA BridgeRollsBack ==
  ASSUME FilesInv, files["old"] # Absent, files["pending"] # Absent, files["bootn"] >= 2,
         Decision # "env", Watch(Decision) = "none", product = "bridge"
  PROVE  IsBootScript(<<Write("badversion", files["pending"]), Remove("pending"),
                        Remove("bootn"), Move("old", "exe"), Exit>>)
<1> DEFINE p == files["pending"]
           s == <<Write("badversion", p), Remove("pending"), Remove("bootn"), Move("old", "exe"), Exit>>
<1>1. <<Write("badversion", files["pending"]), Remove("pending"),
        Remove("bootn"), Move("old", "exe"), Exit>> = s
  OBVIOUS
<1>2. p \in Release /\ p # Absent
  BY DEF FilesInv, Markers
<1> HIDE DEF p
<1>3. /\ Write("badversion", p) \in Op /\ Move("old", "exe") \in Op /\ Remove("pending") \in Op
      /\ Remove("bootn") \in Op /\ Exit \in Op
  <2>1. "badversion" \in Markers /\ "pending" \in File \ {"exe"} /\ "bootn" \in File \ {"exe"}
    BY DEF Markers, File
  <2>2. Move("old", "exe") \in Op /\ Exit \in Op
    BY DEF Op, RollbackMoves
  <2> HIDE DEF Op, Markers, File
  <2> QED BY <1>2, <2>1, <2>2, WriteIsOp
<1>4. s \in Seq(Op) /\ Len(s) = 5
  <2> HIDE DEF Op, Write, Move, Remove, Exit
  <2> QED BY <1>3
<1>5. /\ Move("old", "exe") \in RollbackMoves /\ Move("old", "exe").kind = "move"
      /\ Exit \notin {Remove("pending"), Remove("old"), Move("old", "exe")} /\ Exit.kind = "exit"
      /\ Exit.to = "exe" /\ Move("old", "exe").to = "exe"
  BY DEF RollbackMoves, Exit, Remove, Write, Move
<1>6. \A f, v : /\ Write(f, v).kind = "write" /\ Write(f, v).to = f /\ Write(f, v).val = v
                /\ Write(f, v) # Exit /\ Write(f, v) # Move("old", "exe")
  BY DEF Write, Exit, Move
<1>7. \A f : Remove(f).kind = "write" /\ Remove(f).to = f /\ Remove(f).val = Absent
             /\ Remove(f) # Exit /\ Remove(f) # Move("old", "exe")
  BY <1>6 DEF Remove
<1> HIDE DEF Write, Move, Remove, Exit, Op, RollbackMoves
<1>10. /\ s[1] = Write("badversion", p) /\ s[2] = Remove("pending") /\ s[3] = Remove("bootn")
       /\ s[4] = Move("old", "exe") /\ s[5] = Exit
  OBVIOUS
<1> HIDE DEF s
<1>11. \A i \in 1..5 : i \in {1, 2, 3, 4, 5}
  OBVIOUS
<1>12. InOrder(s)
  <2>1. \A i \in 1..5 : /\ s[i] = Exit => i = 5
                        /\ s[i] = Move("old", "exe") => i = 4
                        /\ s[i] = Remove("bootn") => i = 3
                        /\ s[i] = Remove("pending") => i = 2
    BY <1>5, <1>6, <1>7, <1>10, <1>11
  <2>2. \A i, j \in 1..5 : i < j => i # 5 /\ (i = 4 => j = 5) /\ (i = 3 => j # 2)
    OBVIOUS
  <2> QED BY <1>4, <1>5, <1>10, <2>1, <2>2 DEF InOrder
<1>13. ASSUME NEW i \in 1..5
       PROVE  /\ s[i].kind = "write" => s[i].to # "new" /\ (s[i].to = "pending" => s[i].val = Absent)
              /\ s[i].kind = "move" => s[i] \in RollbackMoves
              /\ s[i].kind # "copy"
              /\ s[i] # Remove("old")
              /\ s[i].kind = "write" /\ s[i].to = "bootn" => s[i].val = 0
              /\ s[i].to # "suspect"
              /\ s[i].kind = "write" /\ s[i].to = "badversion" => s[i].val = p
  <2>1. Absent = 0
    BY DEF Absent
  <2> QED BY <1>5, <1>6, <1>7, <1>10, <1>11, <2>1
<1>14. 3 \in 1..5
  OBVIOUS
<1>15. IsBootScript(s)
  <2> HIDE DEF Watch, Decision
  <2> QED BY <1>4, <1>10, <1>12, <1>13, <1>14 DEF IsBootScript, p
<1> QED BY <1>1, <1>15

(* Whatever a boot decides. *)
LEMMA BootScriptIs ==
  ASSUME ProcessInv, FilesInv
  PROVE  /\ IsBootScript(BootScript(Decision))
         /\ Watch(Decision) \in {"none", "watch", "confirm", "recover"}
<1> DEFINE d == Decision
           n == files["bootn"]
           c == files["confirmn"]
<1>1. n \in 0..3 /\ c \in 0..3 /\ product \in {"node", "bridge"}
  BY DEF ProcessInv, FilesInv, Counts
<1>2. Watch(Decision) \in {"none", "watch", "confirm", "recover"}
  BY <1>1 DEF Watch, NodeWatch, BridgeWatch
<1>0. d = Decision
  OBVIOUS
<1> SUFFICES IsBootScript(BootScript(d))
  BY <1>2
<1> HIDE DEF d
<1>3. \A f \in {"pending", "bootn", "confirmn", "old", "bad", "suspect"} :
        f \in File \ {"exe", "new"} /\ Remove(f) \in Op
  <2>1. \A f \in {"pending", "bootn", "confirmn", "old", "bad", "suspect"} : f \in File \ {"exe", "new"}
    BY DEF File
  <2> HIDE DEF Op, File
  <2> QED BY <2>1, WriteIsOp
<1>4. Write("envhalt", Present) \in Op /\ \A k \in 0..3 : Write("confirmn", k) \in Op
  <2>1. "envhalt" \in Flags /\ "confirmn" \in Counts
    BY DEF Flags, Counts
  <2> HIDE DEF Op, Flags, Counts
  <2> QED BY <2>1, WriteIsOp
<1>5. \A f, g : Remove(f) = Remove(g) <=> f = g
  BY DEF Remove, Write
<1>6. \A f : Remove(f) # Write("envhalt", Present)
  BY DEF Remove, Write, Absent, Present
<1>7. \A k : Write("confirmn", k) # Remove("pending") /\ Write("confirmn", k) # Remove("bootn")
  BY DEF Remove, Write
<1>8. IsBootScript(<<>>)
  <2>1. Len(<<>>) = 0 /\ <<>> \in Seq(Op)
    OBVIOUS
  <2> DEFINE s == <<>>
  <2>2. /\ s \in Seq(Op) /\ \A i \in 1..Len(s) : s[i] = Write("envhalt", Present) /\ FALSE
    BY <2>1
  <2> HIDE DEF s
  <2>3. IsBootScript(s)
    BY <2>2, BootWrites
  <2> QED BY <2>3 DEF s
<1>9. IsBootScript(<<Write("envhalt", Present)>>)
  <2> DEFINE s == <<Write("envhalt", Present)>>
  <2>1. s \in Seq(Op) /\ \A i \in 1..Len(s) : s[i] = Write("envhalt", Present)
    <3> HIDE DEF Op, Write
    <3> QED BY <1>4
  <2> HIDE DEF s
  <2>2. IsBootScript(s)
    BY <1>6, <2>1, BootWrites
  <2> QED BY <2>2 DEF s
<1>10. ASSUME d # "env" PROVE IsBootScript(<<Remove("pending"), Remove("bootn")>>)
  <2> DEFINE s == <<Remove("pending"), Remove("bootn")>>
  <2>1. /\ s \in Seq(Op) /\ Len(s) = 2
        /\ \A i \in 1..Len(s) : \E f \in File \ {"exe", "new"} : s[i] = Remove(f)
        /\ \A i \in 1..Len(s) : s[i] = Remove("bootn") => i = 2
        /\ s[2] = Remove("bootn")
    <3> HIDE DEF Op, Remove, File
    <3> QED BY <1>3, <1>5
  <2>2. 2 \in 1..Len(s) /\ \A i, j \in 1..Len(s) : i < j => i # 2
    BY <2>1
  <2> HIDE DEF s
  <2>3. IsBootScript(s)
    BY <1>0, <1>10, <2>1, <2>2, BootWrites
  <2> QED BY <2>3 DEF s
<1>11. ASSUME c + 1 < 3 PROVE IsBootScript(<<Write("confirmn", c + 1)>>)
  <2> DEFINE s == <<Write("confirmn", c + 1)>>
  <2>1. c + 1 \in 0..3
    BY <1>1, <1>11
  <2>2. s \in Seq(Op) /\ \A i \in 1..Len(s) : s[i] = Write("confirmn", c + 1)
    <3> HIDE DEF Op, Write, c
    <3> QED BY <1>4, <2>1
  <2> HIDE DEF s, c
  <2>3. IsBootScript(s)
    BY <1>7, <2>1, <2>2, BootWrites
  <2> QED BY <2>3 DEF s
<1>12. IsBootScript(ClearSuspect)
  <2> DEFINE s == <<Remove("suspect"), Remove("confirmn"), Write("envhalt", Present)>>
  <2>1. /\ s \in Seq(Op)
        /\ \A i \in 1..Len(s) : \/ s[i] = Write("envhalt", Present)
                                \/ \E f \in File \ {"exe", "new"} : s[i] = Remove(f)
        /\ \A i \in 1..Len(s) : s[i] # Remove("bootn") /\ s[i] # Remove("pending")
    <3> HIDE DEF Op, Remove, File, Write
    <3> QED BY <1>3, <1>4, <1>5, <1>6
  <2> HIDE DEF s
  <2>2. IsBootScript(s)
    BY <2>1, BootWrites
  <2> QED BY <2>2 DEF s, ClearSuspect
<1>13. ASSUME d # "env" PROVE IsBootScript(<<Remove("old"), Remove("bad"), Remove("bootn")>>)
  <2> DEFINE s == <<Remove("old"), Remove("bad"), Remove("bootn")>>
  <2>1. /\ s \in Seq(Op)
        /\ \A i \in 1..Len(s) : \E f \in File \ {"exe", "new"} : s[i] = Remove(f)
        /\ \A i \in 1..Len(s) : s[i] # Remove("pending")
    <3> HIDE DEF Op, Remove, File
    <3> QED BY <1>3, <1>5
  <2> HIDE DEF s
  <2>2. IsBootScript(s)
    BY <1>0, <1>13, <2>1, BootWrites
  <2> QED BY <2>2 DEF s
<1>14. ASSUME d # "env" PROVE IsBootScript(<<Remove("old"), Remove("bootn")>>)
  <2> DEFINE s == <<Remove("old"), Remove("bootn")>>
  <2>1. /\ s \in Seq(Op)
        /\ \A i \in 1..Len(s) : \E f \in File \ {"exe", "new"} : s[i] = Remove(f)
        /\ \A i \in 1..Len(s) : s[i] # Remove("pending")
    <3> HIDE DEF Op, Remove, File
    <3> QED BY <1>3, <1>5
  <2> HIDE DEF s
  <2>2. IsBootScript(s)
    BY <1>0, <1>14, <2>1, BootWrites
  <2> QED BY <2>2 DEF s
<1>15. CASE product = "node"
  <2>1. /\ d = NodeDecide(files, envOK) /\ Watch(d) = NodeWatch(files, d)
        /\ BootScript(d) = NodeBootScript(files, d)
    BY <1>0, <1>15 DEF Decision, Watch, BootScript
  <2>2. \/ d = "env"
        \/ d = "watch" /\ files["pending"] # Absent /\ n + 1 < 3
        \/ d = "rollback" /\ files["pending"] # Absent /\ n >= 2 /\ files["old"] # Absent
        \/ d = "giveup"
        \/ d = "envfault"
        \/ d = "confirm" /\ c + 1 < 3
        \/ d = "normal"
    BY <1>1, <2>1 DEF NodeDecide, NodePendingDecision, NodeSuspectDecision, Attempts,
                      ConfirmAttempts, NodeMaxBadBoots
  <2>3. CASE d = "env"
    BY <1>8, <1>9, <2>1, <2>3 DEF NodeBootScript
  <2>4. CASE d = "watch" /\ files["pending"] # Absent /\ n + 1 < 3
    <3>1. BootScript(d) = <<Write("bootn", n + 1)>>
      BY <2>1, <2>4 DEF NodeBootScript, Attempts
    <3>2. n + 1 \in 0..3 /\ d # "env"
      BY <1>1, <2>4
    <3> QED BY <2>4, <3>1, <3>2, <1>0, BootCounts
  <2>5. CASE d = "rollback" /\ files["pending"] # Absent /\ n >= 2 /\ files["old"] # Absent
    <3>1. BootScript(d) = RollbackOps(files["pending"])
      BY <2>1, <2>5, RollbackIs
    <3>2. Watch(d) = "none" /\ d # "env"
      BY <2>1, <2>5 DEF NodeWatch
    <3> QED BY <1>15, <2>5, <3>1, <3>2, <1>0, NodeRollsBack
  <2>6. CASE d = "giveup"
    <3>1. BootScript(d) = <<Remove("pending"), Remove("bootn")>>
      BY <2>1, <2>6, RemoveAllIs DEF NodeBootScript, NodeRollbackTail
    <3> QED BY <1>10, <2>6, <3>1
  <2>7. CASE d = "envfault"
    BY <1>12, <2>1, <2>7 DEF NodeBootScript
  <2>8. CASE d = "confirm" /\ c + 1 < 3
    <3>1. BootScript(d) = <<Write("confirmn", c + 1)>>
      BY <2>1, <2>8 DEF NodeBootScript, ConfirmAttempts
    <3> QED BY <1>11, <2>8, <3>1
  <2>9. CASE d = "normal"
    <3>1. BootScript(d) = <<Remove("old"), Remove("bad"), Remove("bootn")>>
      BY <2>1, <2>9, RemoveAllIs DEF NodeBootScript
    <3> QED BY <1>13, <2>9, <3>1
  <2> QED BY <1>2, <2>2, <2>3, <2>4, <2>5, <2>6, <2>7, <2>8, <2>9
<1>16. CASE product = "bridge"
  <2>1. /\ d = BridgeDecide(files, envOK) /\ Watch(d) = BridgeWatch(d)
        /\ BootScript(d) = BridgeBootScript(files, d)
    BY <1>0, <1>16 DEF Decision, Watch, BootScript
  <2>2. \/ d = "env"
        \/ d = "watch" /\ files["pending"] # Absent /\ n + 1 <= 3
        \/ d = "rollback" /\ files["pending"] # Absent /\ n >= 2 /\ files["old"] # Absent
        \/ d = "giveup"
        \/ d = "normal"
    BY <1>1, <2>1 DEF BridgeDecide, BridgeTooManyBoots, BridgeAttempts, BridgeMaxBadBoots
  <2>3. CASE d = "env"
    BY <1>8, <2>1, <2>3 DEF BridgeBootScript
  <2>4. CASE d = "watch" /\ files["pending"] # Absent /\ n + 1 <= 3
    <3>1. BootScript(d) = <<Write("bootn", n + 1)>>
      BY <2>1, <2>4 DEF BridgeBootScript, BridgeAttempts
    <3>2. n + 1 \in 0..3 /\ d # "env"
      BY <1>1, <2>4
    <3> QED BY <2>4, <3>1, <3>2, <1>0, BootCounts
  <2>5. CASE d = "rollback" /\ files["pending"] # Absent /\ n >= 2 /\ files["old"] # Absent
    <3>1. BootScript(d) = <<Write("badversion", files["pending"]), Remove("pending"),
                            Remove("bootn"), Move("old", "exe"), Exit>>
      BY <2>1, <2>5 DEF BridgeBootScript
    <3>2. Watch(d) = "none" /\ d # "env"
      BY <2>1, <2>5 DEF BridgeWatch
    <3> QED BY <1>16, <2>5, <3>1, <3>2, <1>0, BridgeRollsBack
  <2>6. CASE d = "giveup"
    <3>1. BootScript(d) = <<Remove("pending"), Remove("bootn")>>
      BY <2>1, <2>6, RemoveAllIs DEF BridgeBootScript
    <3> QED BY <1>10, <2>6, <3>1
  <2>7. CASE d = "normal"
    <3>1. BootScript(d) = <<Remove("old"), Remove("bootn")>>
      BY <2>1, <2>7, RemoveAllIs DEF BridgeBootScript
    <3> QED BY <1>14, <2>7, <3>1
  <2> QED BY <1>2, <2>2, <2>3, <2>4, <2>5, <2>6, <2>7
<1> QED BY <1>1, <1>15, <1>16

(* A boot begins. *)
LEMMA StartKeepsHealInv ==
  ASSUME HealInv, Start
  PROVE  HealInv'
<1> USE DEF world, HealInv, counters
<1>1. /\ UNCHANGED <<product, windows, quality, dataOK, files, overlap, mishaps>>
      /\ phase = "off" /\ phase' = "boot" /\ files["exe"] # Absent /\ run' = files["exe"]
      /\ watch' = Watch(Decision) /\ guarded' = (Decision # "env")
      /\ script' = [NoScripts EXCEPT !["boot"] = BootScript(Decision)]
  BY DEF Start
<1>2. Thread = {"boot", "watch", "update"}
  BY DEF Thread
<1> DEFINE s == BootScript(Decision)
<1>3. IsBootScript(s) /\ Watch(Decision) \in {"none", "watch", "confirm", "recover"}
  BY BootScriptIs
<1>4. \A t \in Thread : script[t] = <<>> /\ Ops(t) = {}
  BY <1>1, EmptyOps DEF ProcessInv, Thread
<1>5. script = NoScripts /\ ~guarded /\ watch = "none"
  BY <1>1, <1>4 DEF ProcessInv, NoScripts
<1> HIDE DEF s
<1>6. script' = [script EXCEPT !["boot"] = s]
  BY <1>1, <1>5 DEF s
<1>7. s \in Seq(Op) /\ InOrder(s)
  BY <1>3 DEF IsBootScript
<1>8. /\ script' = [u \in Thread |-> script'[u]]
      /\ \A u \in Thread : script'[u] \in Seq(Op) /\ InOrder(script[u])'
      /\ script'["boot"] = s
      /\ \A u \in Thread : u # "boot" => script'[u] = script[u] /\ Ops(u)' = Ops(u)
      /\ Ops("boot")' = {s[i] : i \in 1..Len(s)}
  <2> HIDE DEF Op, Thread
  <2> QED BY <1>1, <1>2, <1>6, <1>7, NewScript
<1>9. /\ script'["watch"] = <<>> /\ script'["update"] = <<>>
      /\ Ops("watch")' = {} /\ Ops("update")' = {}
  BY <1>2, <1>4, <1>8
<1>10. \A op \in Ops("boot")' :
         /\ op.kind = "write" => op.to # "new" /\ (op.to = "pending" => op.val = Absent)
         /\ op.kind = "move" => op \in RollbackMoves /\ files["old"] # Absent
         /\ op.kind # "copy"
         /\ op = Remove("pending") => Remove("bootn") \in Ops("boot")'
         /\ op = Remove("old") => \A p \in Ops("boot")' : p.kind = "write"
         /\ op.kind = "write" /\ op.to = "bootn" =>
              /\ Decision # "env"
              /\ \/ op.val = 0
                 \/ op.val = files["bootn"] + 1 /\ Ops("boot")' = {op} /\ files["pending"] # Absent
         /\ op.to = "badversion" => op.val = Absent \/ product = "bridge"
         /\ op.kind = "write" /\ op.to \in {"badversion", "suspect"} =>
              op.val = Absent \/ (op.val = files["pending"] /\ files["bootn"] >= 2)
         /\ op.kind # "write" =>
              /\ Watch(Decision) = "none"
              /\ files["pending"] # Absent /\ files["bootn"] >= 2
  <2>1. SUFFICES ASSUME NEW i \in 1..Len(s)
        PROVE  LET op == s[i]
               IN  /\ op.kind = "write" => op.to # "new" /\ (op.to = "pending" => op.val = Absent)
                   /\ op.kind = "move" => op \in RollbackMoves /\ files["old"] # Absent
                   /\ op.kind # "copy"
                   /\ op = Remove("pending") => Remove("bootn") \in Ops("boot")'
                   /\ op = Remove("old") => \A p \in Ops("boot")' : p.kind = "write"
                   /\ op.kind = "write" /\ op.to = "bootn" =>
                        /\ Decision # "env"
                        /\ \/ op.val = 0
                           \/ op.val = files["bootn"] + 1 /\ Ops("boot")' = {op} /\ files["pending"] # Absent
                   /\ op.to = "badversion" => op.val = Absent \/ product = "bridge"
                   /\ op.kind = "write" /\ op.to \in {"badversion", "suspect"} =>
                        op.val = Absent \/ (op.val = files["pending"] /\ files["bootn"] >= 2)
                   /\ op.kind # "write" =>
                        /\ Watch(Decision) = "none"
                        /\ files["pending"] # Absent /\ files["bootn"] >= 2
    <3> HIDE DEF Remove, Decision, Watch, RollbackMoves
    <3> QED BY <1>8
  <2>2. s[i] = Remove("pending") => Remove("bootn") \in Ops("boot")'
    <3> HIDE DEF Remove, Decision, Watch, RollbackMoves
    <3> QED BY <1>3, <1>8 DEF IsBootScript
  <2>3. s[i] = Remove("old") => \A p \in Ops("boot")' : p.kind = "write"
    <3> HIDE DEF Remove, Decision, Watch, RollbackMoves
    <3> QED BY <1>3, <1>8 DEF IsBootScript
  <2>4. Len(s) = 1 => Ops("boot")' = {s[i]}
    <3>1. ASSUME Len(s) = 1 PROVE \A j \in 1..Len(s) : j = i
      BY <3>1
    <3> QED BY <1>8, <3>1
  <2> HIDE DEF Remove, Decision, Watch, RollbackMoves
  <2> QED BY <1>3, <2>2, <2>3, <2>4 DEF IsBootScript
<1> HIDE DEF Op, Thread, Decision, Watch, RollbackMoves
<1>11. ProcessInv'
  BY <1>1, <1>3, <1>8, <1>9 DEF ProcessInv, FilesInv
<1>12. FilesInv'
  BY <1>1 DEF FilesInv
<1>13. \A v : Good(v)' <=> Good(v)
  BY <1>1 DEF Good
<1>14. dataOK /\ Few /\ ~overlap /\ Good(files["pending"]) =>
         /\ files["exe"] = files["pending"]
         /\ files["bootn"] <= mishaps /\ files["bootn"] <= 1
  <2>1. files["bootn"] \in 0..3 /\ mishaps \in Nat
    BY DEF FilesInv, Counts, ProcessInv
  <2>2. script["update"] = <<>>
    BY <1>2, <1>4
  <2> QED BY <1>1, <1>5, <2>1, <2>2 DEF BlameInv, PendingIsCounted, Counted, Few
<1>15. BootInv'
  <2>1. /\ Move("exe", "bad").kind = "move" /\ Move("old", "exe").kind = "move"
        /\ Remove("old").kind = "write" /\ Remove("bootn").kind = "write"
    BY DEF Move, Remove, Write
  <2> HIDE DEF Remove
  <2>2. OnlyWrites("watch")' /\ (Watch(Decision) # "none" => OnlyWrites("boot")')
    BY <1>9, <1>10 DEF OnlyWrites
  <2>3. Remove("old") \in Ops("boot")' => OnlyWrites("boot")' /\ files'["exe"] # Absent
    BY <1>1, <1>10 DEF OnlyWrites
  <2>4. Move("exe", "bad") \in Ops("boot")' \/ Move("old", "exe") \in Ops("boot")' =>
          files'["old"] # Absent
    BY <1>1, <1>10, <2>1
  <2>5. \A op \in Ops("boot")' : op.kind = "write" /\ op.to = "bootn" /\ op.val # 0 =>
          Ops("boot")' = {op} /\ files'["pending"] # Absent
    BY <1>1, <1>10
  <2>6. ( \A t \in {"boot", "watch"} : \A op \in Ops(t) :
           /\ op.kind = "write" => op.to # "new" /\ (op.to = "pending" => op.val = Absent)
           /\ op.kind = "move" => op \in RollbackMoves
           /\ op.kind # "copy"
           /\ op = Remove("pending") => Remove("bootn") \in Ops(t) )'
    BY <1>9, <1>10
  <2> QED BY <1>1, <1>9, <2>2, <2>3, <2>4, <2>5, <2>6 DEF BootInv
<1>16. UpdateInv'
  BY <1>9 DEF UpdateInv
<1>17. BinaryInv'
  BY <1>1 DEF BinaryInv
<1>18. dataOK /\ Few /\ ~overlap => PendingIsCounted'
  <2>1. SUFFICES ASSUME dataOK, Few, ~overlap, Good(files["pending"])
        PROVE  /\ files["exe"] = files["pending"] /\ OnlyWrites("boot")'
               /\ Counted(files["bootn"])'
               /\ \A op \in Ops("boot")' : op.to = "bootn" => guarded' /\ Counted(op.val)'
    BY <1>1, <1>13 DEF PendingIsCounted, Good
  <2>2. files["bootn"] \in 0..3 /\ mishaps \in Nat
    BY DEF FilesInv, Counts, ProcessInv
  <2>3. files["bootn"] <= mishaps /\ files["bootn"] <= 1 /\ files["exe"] = files["pending"]
    BY <1>14, <2>1
  <2>4. \A op \in Ops("boot")' : op.kind = "write"
    BY <1>10, <2>2, <2>3
  <2>5. files["bootn"] <= mishaps + (IF guarded' THEN 1 ELSE 0)
    BY <2>2, <2>3
  <2>6. ASSUME NEW op \in Ops("boot")', op.to = "bootn"
        PROVE  guarded' /\ op.val <= mishaps + 1
    <3>1. Decision # "env" /\ (op.val = 0 \/ op.val = files["bootn"] + 1)
      BY <1>10, <2>4, <2>6
    <3>2. guarded'
      BY <1>1, <3>1
    <3> QED BY <2>2, <2>3, <3>1, <3>2
  <2>7. Counted(files["bootn"])'
    BY <1>1, <2>5 DEF Counted
  <2>8. \A op \in Ops("boot")' : op.to = "bootn" => guarded' /\ Counted(op.val)'
    BY <1>1, <2>6 DEF Counted
  <2> QED BY <2>3, <2>4, <2>7, <2>8 DEF OnlyWrites
<1>19. ~overlap => CountsAreRemoved'
  BY <1>1, <1>2, <1>4 DEF CountsAreRemoved, BlameInv
<1>20. dataOK /\ Few /\ ~overlap =>
         \A t \in Thread : \A op \in Ops(t)' :
           op.kind = "write" /\ op.to \in {"badversion", "suspect"} => ~Good(op.val)
  <2>1. files["bootn"] \in 0..3
    BY DEF FilesInv, Counts
  <2>2. ~Good(Absent)
    BY DEF Good
  <2> QED BY <1>2, <1>9, <1>10, <1>14, <2>1, <2>2
<1>21. ~dataOK =>
         \A t \in Thread : \A op \in Ops(t)' : op.to = "badversion" => op.val = Absent
  BY <1>2, <1>9, <1>10 DEF ProcessInv
<1>22. BlameInv'
  <2>1. Few' <=> Few
    BY <1>1 DEF Few
  <2> QED BY <1>1, <1>13, <1>18, <1>19, <1>20, <1>21, <2>1 DEF BlameInv, Good
<1> QED BY <1>11, <1>12, <1>15, <1>16, <1>17, <1>22

-----------------------------------------------------------------------------
(* One operation of a thread. *)

(* What becomes of the scripts, and of the files. *)
LEMMA StepIs ==
  ASSUME HealInv, NEW t \in Thread, Step(t), Head(script[t]) # Exit
  PROVE  LET op == Head(script[t])
         IN  /\ UNCHANGED <<product, windows, quality, dataOK, phase, run, watch, guarded,
                            overlap, mishaps>>
             /\ script[t] # <<>> /\ op \in Op /\ op \in Ops(t) /\ op.kind # "exit"
             /\ script'[t] = Tail(script[t])
             /\ \A u \in Thread : u # t => script'[u] = script[u] /\ Ops(u)' = Ops(u)
             /\ Ops(t) = {op} \cup Ops(t)'
             /\ \A p \in Ops(t)' :
                  /\ op = Move("old", "exe") => /\ p.kind \in {"write", "exit"}
                                                /\ product = "bridge" => p = Exit
                  /\ op = Remove("bootn") => p # Remove("pending")
             /\ op.kind = "write" => \A f \in File : files'[f] = IF f = op.to THEN op.val ELSE files[f]
             /\ op.kind = "move" =>
                  /\ files[op.from] # Absent
                  /\ \A f \in File : files'[f] = IF f = op.from THEN Absent
                                                 ELSE IF f = op.to THEN files[op.from] ELSE files[f]
             /\ op.kind = "copy" =>
                  /\ \A f \in File \ {"old"} : files'[f] = files[f]
                  /\ files["exe"] # Absent => files'["old"] = files["exe"]
             /\ ProcessInv' /\ FilesInv'
<1> USE DEF world, HealInv, counters
<1> DEFINE op == Head(script[t])
<1>1. /\ UNCHANGED <<product, windows, quality, dataOK, phase, run, watch, guarded,
                     overlap, mishaps>>
      /\ script[t] # <<>> /\ op # Exit
      /\ script' = [script EXCEPT ![t] = Tail(script[t])] /\ files' = After(op, files)
      /\ op.kind = "move" => files[op.from] # Absent
  <2>1. script' = [script EXCEPT ![t] = Tail(@)]
    BY DEF Step
  <2>2. ~Refused(op)
    BY DEF Step
  <2> QED BY <2>1, <2>2 DEF Step, Refused
<1>2. /\ op \in Op /\ op \in Ops(t)
      /\ script' = [u \in Thread |-> script'[u]]
      /\ \A u \in Thread : script'[u] \in Seq(Op) /\ InOrder(script[u])'
      /\ script'[t] = Tail(script[t])
      /\ \A u \in Thread : u # t => script'[u] = script[u] /\ Ops(u)' = Ops(u)
      /\ Ops(t) = {op} \cup Ops(t)'
      /\ \A p \in Ops(t)' :
           /\ op = Move("old", "exe") => /\ p.kind \in {"write", "exit"}
                                         /\ product = "bridge" => p = Exit
           /\ op = Remove("bootn") => p # Remove("pending")
  BY <1>1, TailScript
<1>3. op.kind # "exit"
  BY <1>1, <1>2, OpIs
<1> DEFINE fs == files'
<1>4. /\ op.kind = "write" => \A f \in File : fs[f] = IF f = op.to THEN op.val ELSE files[f]
      /\ op.kind = "move" =>
           \A f \in File : fs[f] = IF f = op.from THEN Absent
                                   ELSE IF f = op.to THEN files[op.from] ELSE files[f]
      /\ op.kind = "exit" => fs = files
      /\ op.kind = "copy" =>
           /\ \A f \in File \ {"old"} : fs[f] = files[f]
           /\ files["exe"] # Absent => fs["old"] = files["exe"]
           /\ files["exe"] = Absent => fs = files
      /\ fs = [f \in File |-> fs[f]]
      /\ \A f \in Markers \cup {"exe", "new", "old", "bad"} : fs[f] \in Release
      /\ \A f \in Counts : fs[f] \in 0..3
  <2>1. fs = After(op, files)
    BY <1>1
  <2> HIDE DEF op, fs, Op
  <2> QED BY <1>1, <1>2, <2>1, AfterIs
<1>5. FilesInv'
  BY <1>4 DEF FilesInv
<1> HIDE DEF op, Op
<1>6. \A u \in Thread : script'[u] # <<>> => script[u] # <<>>
  BY <1>1, <1>2
<1>7. ProcessInv'
  <2>1. "boot" \in Thread /\ "watch" \in Thread /\ "update" \in Thread
    BY DEF Thread
  <2> HIDE DEF Thread
  <2>2. /\ script'["boot"] # <<>> => script["boot"] # <<>>
        /\ script'["watch"] # <<>> => script["watch"] # <<>>
        /\ script'["update"] # <<>> => script["update"] # <<>>
    BY <1>6, <2>1
  <2> QED BY <1>1, <1>2, <2>2 DEF ProcessInv
<1> HIDE DEF Thread, File, Exit, Move, Remove
<1>8. /\ UNCHANGED <<product, windows, quality, dataOK, phase, run, watch, guarded,
                     overlap, mishaps>>
      /\ script[t] # <<>> /\ op \in Op /\ op \in Ops(t) /\ op.kind # "exit"
      /\ script'[t] = Tail(script[t])
  BY <1>1, <1>2, <1>3
<1>9. /\ op.kind = "write" => \A f \in File : files'[f] = IF f = op.to THEN op.val ELSE files[f]
      /\ op.kind = "move" =>
           /\ files[op.from] # Absent
           /\ \A f \in File : files'[f] = IF f = op.from THEN Absent
                                          ELSE IF f = op.to THEN files[op.from] ELSE files[f]
      /\ op.kind = "copy" =>
           /\ \A f \in File \ {"old"} : files'[f] = files[f]
           /\ files["exe"] # Absent => files'["old"] = files["exe"]
  BY <1>1, <1>4
<1> QED BY <1>2, <1>5, <1>7, <1>8, <1>9 DEF op

(* The process exits: after a rollback, or an update. *)
LEMMA ExitKeepsHealInv ==
  ASSUME HealInv, NEW t \in Thread, Step(t), Head(script[t]) = Exit
  PROVE  HealInv'
<1> USE DEF HealInv
<1>1. /\ Stopped /\ UNCHANGED <<world, overlap, mishaps>> /\ files' = After(Exit, files)
      /\ script[t] # <<>>
  BY DEF Step, counters
<1>2. files' = files
  BY <1>1 DEF After, Exit
<1>3. script[t] \in Seq(Op) /\ InOrder(script[t])
  BY DEF ProcessInv
<1>4. Tail(script[t]) = <<>> /\ Len(script[t]) = 1 /\ script[t][1] = Exit /\ Ops(t) = {Exit}
  <2> DEFINE s == script[t]
  <2>1. s \in Seq(Op) /\ s # <<>> /\ InOrder(s) /\ Head(s) = Exit
    BY <1>1, <1>3
  <2>2. Ops(t) = {s[i] : i \in 1..Len(s)}
    BY DEF Ops
  <2> HIDE DEF s
  <2>3. /\ Tail(s) = <<>> /\ Head(s) = s[1] /\ Len(Tail(s)) = Len(s) - 1 /\ Len(s) \in Nat
        /\ {s[i] : i \in 1..Len(s)} = {Exit} \cup {Tail(s)[i] : i \in 1..Len(Tail(s))}
    BY <2>1, TailOfScript
  <2>4. Len(s) = 1 /\ {Tail(s)[i] : i \in 1..Len(Tail(s))} = {}
    <3>0. Len(<<>>) = 0 /\ 1..0 = {}
      OBVIOUS
    <3>1. Len(Tail(s)) = 0
      BY <2>3, <3>0
    <3>2. 1..Len(Tail(s)) = {}
      BY <3>0, <3>1
    <3>3. Len(s) = 1
      BY <2>3, <3>1
    <3> QED BY <3>2, <3>3
  <2>5. Ops(t) = {Exit} /\ Tail(s) = <<>> /\ Len(s) = 1 /\ s[1] = Exit
    BY <2>1, <2>2, <2>3, <2>4
  <2> QED BY <2>5 DEF s
<1>5. Exit.kind = "exit" /\ Exit # Remove("bootn")
  BY DEF Exit, Remove, Write
<1>6. t # "watch"
  BY <1>4, <1>5 DEF BootInv, OnlyWrites
<1>7. mishaps' \in Nat /\ mishaps' >= mishaps
  BY <1>1 DEF ProcessInv
<1>8. CASE t = "boot"
  <2>1. script["watch"] = <<>> /\ script["update"] = <<>> /\ Ops("watch") = {}
    BY <1>1, <1>8, EmptyOps DEF ProcessInv, Thread
  <2>2. ~OnlyWrites("boot")
    BY <1>4, <1>5, <1>8 DEF OnlyWrites
  <2>3. mishaps' <= 1 /\ ~overlap /\ dataOK => ~Good(files["pending"])
    BY <1>1, <2>2 DEF BlameInv, PendingIsCounted, Few
  <2>4. ~overlap /\ mishaps' = 0 /\ files["pending"] = Absent => files["bootn"] = 0
    BY <1>1, <1>4, <1>5, <1>8, <2>1 DEF BlameInv, CountsAreRemoved
  <2> QED BY <1>1, <1>2, <1>7, <2>3, <2>4, StoppedKeepsHealInv
<1>9. CASE t = "update"
  <2>1. script["boot"] = <<>> /\ Ops("boot") = {}
    BY <1>1, <1>9, EmptyOps DEF ProcessInv, Thread
  <2>2. ~overlap => script["watch"] = <<>> /\ Ops("watch") = {}
    BY <1>1, <1>9, EmptyOps DEF UpdateInv, Thread
  <2>3. ~overlap /\ mishaps' <= 1 => files["bootn"] = 0
    <3>1. SUFFICES ASSUME ~overlap, Few PROVE files["bootn"] = 0
      BY <1>1 DEF Few
    <3>2. script["update"] # <<Move("old", "exe")>>
      <4>1. Head(<<Move("old", "exe")>>) = Move("old", "exe") /\ Move("old", "exe") # Exit
        BY DEF Move, Exit
      <4> QED BY <1>9, <4>1
    <3>3. PICK m \in Version, k \in 1..8 : Left(m, k)
      BY <1>1, <1>9, <3>1, <3>2 DEF UpdateInv
    <3>4. k = 8
      <4>1. LeftOf(script["update"], UpdateOps(m), k)
        BY <3>3 DEF Left
      <4>2. Len(UpdateOps(m)) = 8
        BY UpdateOpsAre
      <4>3. Len(script["update"]) = 8 - k + 1
        BY <4>1, <4>2 DEF LeftOf
      <4>4. Len(script["update"]) = 1
        BY <1>4, <1>9
      <4>5. \A j \in 1..8 : 1 = 8 - j + 1 => j = 8
        OBVIOUS
      <4> QED BY <4>3, <4>4, <4>5
    <3> QED BY <3>1, <3>3, <3>4 DEF Left
  <2>4. files["bootn"] = 0 => files["bootn"] <= mishaps'
    BY <1>7
  <2>5. ~overlap /\ mishaps' = 0 => files["bootn"] = 0
    BY <2>3
  <2> QED BY <1>1, <1>2, <1>7, <2>3, <2>4, <2>5, StoppedKeepsHealInv
<1> QED BY <1>6, <1>8, <1>9 DEF Thread

(* The guard's operations. *)
LEMMA BootStepKeepsHealInv ==
  ASSUME HealInv, Step("boot"), Head(script["boot"]) # Exit
  PROVE  HealInv'
<1> USE DEF HealInv
<1> DEFINE op == Head(script["boot"])
<1>1. "boot" \in Thread /\ Thread = {"boot", "watch", "update"}
  BY DEF Thread
<1>2. /\ UNCHANGED <<product, windows, quality, dataOK, phase, run, watch, guarded,
                     overlap, mishaps>>
      /\ script["boot"] # <<>> /\ op \in Op /\ op \in Ops("boot") /\ op.kind # "exit"
      /\ \A u \in Thread : u # "boot" => script'[u] = script[u] /\ Ops(u)' = Ops(u)
      /\ Ops("boot") = {op} \cup Ops("boot")'
      /\ \A p \in Ops("boot")' :
           /\ op = Move("old", "exe") => /\ p.kind \in {"write", "exit"}
                                         /\ product = "bridge" => p = Exit
           /\ op = Remove("bootn") => p # Remove("pending")
      /\ op.kind = "write" => \A f \in File : files'[f] = IF f = op.to THEN op.val ELSE files[f]
      /\ op.kind = "move" =>
           /\ files[op.from] # Absent
           /\ \A f \in File : files'[f] = IF f = op.from THEN Absent
                                          ELSE IF f = op.to THEN files[op.from] ELSE files[f]
      /\ ProcessInv' /\ FilesInv'
  BY <1>1, StepIs
<1>3. /\ phase = "boot" /\ script["watch"] = <<>> /\ script["update"] = <<>>
      /\ script'["watch"] = <<>> /\ script'["update"] = <<>>
      /\ Ops("watch") = {} /\ Ops("watch")' = {} /\ Ops("update") = {} /\ Ops("update")' = {}
  BY <1>1, <1>2, EmptyOps DEF ProcessInv
<1>4. /\ op.kind \in {"write", "move"}
      /\ op.kind = "write" => /\ op = Write(op.to, op.val) /\ op.to \in File \ {"exe", "new"}
                              /\ op.to \in {"old", "bad", "pending"} => op.val = Absent
      /\ op.kind = "move" => /\ op \in {Move("exe", "bad"), Move("old", "exe"), Move("bad", "exe")}
                             /\ ~OnlyWrites("boot")
  <2>1. /\ op.kind # "copy" /\ (op.kind = "move" => op \in RollbackMoves)
        /\ op.kind = "write" => op.to # "new" /\ (op.to = "pending" => op.val = Absent)
    BY <1>2 DEF BootInv
  <2>2. /\ op.kind \in {"write", "copy", "move", "exit"}
        /\ op.kind = "write" => /\ op = Write(op.to, op.val) /\ op.to \in File \ {"exe"}
                                /\ op.to \in {"old", "bad"} => op.val = Absent
    BY <1>2, OpIs
  <2>3. op.kind = "move" => ~OnlyWrites("boot")
    BY <1>2 DEF OnlyWrites
  <2> HIDE DEF op, Op
  <2> QED BY <1>2, <2>1, <2>2, <2>3 DEF RollbackMoves
<1> HIDE DEF op, Op
<1>5. /\ Move("exe", "bad").from = "exe" /\ Move("exe", "bad").to = "bad"
      /\ Move("old", "exe").from = "old" /\ Move("old", "exe").to = "exe"
      /\ Move("bad", "exe").from = "bad" /\ Move("bad", "exe").to = "exe"
      /\ Move("exe", "bad").kind = "move" /\ Move("old", "exe").kind = "move"
      /\ Move("bad", "exe").kind = "move"
      /\ Exit.kind = "exit" /\ \A f : Remove(f) = Write(f, Absent)
      /\ \A f, v : Write(f, v).kind = "write" /\ Write(f, v).to = f /\ Write(f, v).val = v
  BY DEF Move, Exit, Remove, Write
<1> HIDE DEF Move, Exit, Remove, Write
<1>6. {"exe", "new", "old", "bad", "pending", "bootn", "suspect", "badversion"} \subseteq File
  BY DEF File
<1>7. OnlyWrites("boot") => OnlyWrites("boot")' /\ files'["exe"] = files["exe"] /\ op.kind = "write"
  <2>1. OnlyWrites("boot") => OnlyWrites("boot")' /\ op.kind = "write"
    BY <1>2 DEF OnlyWrites
  <2>2. op.kind = "write" => files'["exe"] = files["exe"]
    BY <1>2, <1>4, <1>6
  <2> QED BY <2>1, <2>2
<1>8. /\ op.kind = "move" => \A f \in {"pending", "bootn", "suspect", "badversion"} : files'[f] = files[f]
      /\ op.kind = "write" => \A f \in {"pending", "bootn", "suspect", "badversion"} :
                                files'[f] = IF f = op.to THEN op.val ELSE files[f]
  BY <1>2, <1>4, <1>5, <1>6
<1>9. BootInv'
  <2>1. ( \A t \in {"boot", "watch"} : \A p \in Ops(t) :
            /\ p.kind = "write" => p.to # "new" /\ (p.to = "pending" => p.val = Absent)
            /\ p.kind = "move" => p \in RollbackMoves
            /\ p.kind # "copy"
            /\ p = Remove("pending") => Remove("bootn") \in Ops(t) )'
    BY <1>2, <1>3 DEF BootInv
  <2>2. Remove("old") \in Ops("boot")' => OnlyWrites("boot")' /\ files'["exe"] # Absent
    BY <1>2, <1>7 DEF BootInv
  <2>3. ASSUME Move("exe", "bad") \in Ops("boot")' \/ Move("old", "exe") \in Ops("boot")'
        PROVE  files'["old"] # Absent
    <3>1. files["old"] # Absent /\ ~OnlyWrites("boot")
      BY <1>2, <1>5, <2>3 DEF BootInv, OnlyWrites
    <3>2. op # Move("old", "exe")
      BY <1>2, <1>5, <2>3
    <3>3. op.kind = "write" => op.to # "old"
      <4>1. op.kind = "write" /\ op.to = "old" => op = Remove("old")
        BY <1>4, <1>5
      <4> QED BY <1>2, <3>1, <4>1 DEF BootInv
    <3>4. CASE op.kind = "write"
      BY <1>2, <1>6, <3>1, <3>3, <3>4
    <3>5. CASE op.kind = "move"
      BY <1>2, <1>4, <1>5, <1>6, <3>1, <3>2, <3>5
    <3> QED BY <1>4, <3>4, <3>5
  <2>4. ASSUME NEW p \in Ops("boot")', p.kind = "write", p.to = "bootn", p.val # 0
        PROVE  Ops("boot")' = {p} /\ files'["pending"] # Absent
    <3>1. Ops("boot") = {p} /\ files["pending"] # Absent
      BY <1>2, <2>4 DEF BootInv
    <3>2. op = p
      BY <1>2, <3>1
    <3> QED BY <1>2, <1>8, <2>4, <3>1, <3>2
  <2>5. OnlyWrites("watch")'
    BY <1>3 DEF OnlyWrites
  <2>6. watch' # "none" => OnlyWrites("boot")'
    BY <1>2, <1>7 DEF BootInv
  <2> QED BY <1>3, <2>1, <2>2, <2>3, <2>4, <2>5, <2>6 DEF BootInv
<1>10. UpdateInv'
  BY <1>3 DEF UpdateInv
<1>11. BinaryInv'
  <2>1. SUFFICES ASSUME ~overlap
                 PROVE  /\ files'["exe"] # Absent \/ files'["old"] # Absent \/ files'["new"] # Absent
                        /\ watch # "none" => files'["exe"] # Absent
    BY <1>2, <1>3 DEF BinaryInv
  <2>2. watch # "none" => files'["exe"] # Absent
    BY <1>7, <2>1 DEF BinaryInv, BootInv
  <2>3. CASE op.kind = "write"
    <3>1. op.to = "old" => files["exe"] # Absent
      <4>1. op.to = "old" => op = Remove("old")
        BY <1>4, <1>5, <2>3
      <4> QED BY <1>2, <4>1 DEF BootInv
    <3>2. /\ files'["exe"] = files["exe"] /\ files'["new"] = files["new"]
          /\ op.to # "old" => files'["old"] = files["old"]
      BY <1>2, <1>4, <1>6, <2>3
    <3>3. files["exe"] # Absent \/ files["old"] # Absent \/ files["new"] # Absent
      BY <2>1 DEF BinaryInv
    <3> QED BY <2>2, <3>1, <3>2, <3>3
  <2>4. CASE op = Move("exe", "bad")
    <3>1. files["old"] # Absent
      BY <1>2, <2>4 DEF BootInv
    <3>2. files'["old"] = files["old"]
      BY <1>2, <1>5, <1>6, <2>4
    <3> QED BY <2>2, <3>1, <3>2
  <2>5. CASE op \in {Move("old", "exe"), Move("bad", "exe")}
    BY <1>2, <1>5, <1>6, <2>2, <2>5
  <2> QED BY <1>4, <2>3, <2>4, <2>5
<1>12. \A v : Good(v)' <=> Good(v)
  BY <1>2 DEF Good
<1>13. ~Good(Absent)
  BY DEF Good
<1>14. dataOK /\ Few /\ ~overlap => PendingIsCounted'
  <2>1. SUFFICES ASSUME dataOK, Few, ~overlap, Good(files'["pending"])
        PROVE  /\ files'["exe"] = files'["pending"] /\ OnlyWrites("boot")'
               /\ run = files'["pending"]
               /\ Counted(files["bootn"])'
               /\ \A p \in Ops("boot")' : p.to = "bootn" => guarded' /\ Counted(p.val)'
    BY <1>2, <1>3, <1>12 DEF PendingIsCounted, Good
  <2>2. files'["pending"] = files["pending"]
    BY <1>4, <1>8, <1>13, <2>1
  <2>3. /\ files["exe"] = files["pending"] /\ OnlyWrites("boot") /\ run = files["pending"]
        /\ Counted(files["bootn"])
        /\ \A p \in Ops("boot") : p.to = "bootn" => guarded /\ Counted(p.val)
    BY <1>3, <2>1, <2>2 DEF BlameInv, PendingIsCounted
  <2>4. \A n : Counted(n)' <=> Counted(n)
    BY <1>2 DEF Counted
  <2>5. Counted(files'["bootn"])
    BY <1>2, <1>7, <1>8, <2>3
  <2>6. Counted(files["bootn"])'
    BY <1>2, <2>5 DEF Counted
  <2> QED BY <1>2, <1>7, <2>2, <2>3, <2>4, <2>6
<1>15. ~overlap => CountsAreRemoved'
  <2>1. SUFFICES ASSUME ~overlap, mishaps = 0, files'["pending"] = Absent, files'["bootn"] # 0
                 PROVE  Remove("bootn") \in Ops("boot")'
    BY <1>2 DEF CountsAreRemoved
  <2>2. Absent = 0
    BY DEF Absent
  <2>3. op # Remove("bootn")
    BY <1>5, <1>8, <2>1, <2>2
  <2>4. CASE files["pending"] = Absent
    <3>1. files["bootn"] = 0 \/ Remove("bootn") \in Ops("boot")
      BY <1>3, <2>1, <2>4 DEF BlameInv, CountsAreRemoved
    <3>2. files["bootn"] # 0
      <4>1. SUFFICES ASSUME files["bootn"] = 0 PROVE FALSE
        OBVIOUS
      <4>2. op.kind = "write" /\ op.to = "bootn" /\ op.val # 0
        BY <1>4, <1>8, <2>1, <4>1
      <4> QED BY <1>2, <2>4, <4>2 DEF BootInv
    <3> QED BY <1>2, <2>3, <3>1, <3>2
  <2>5. CASE files["pending"] # Absent
    <3>1. op.kind = "write" /\ op.to = "pending" /\ op = Remove("pending")
      BY <1>4, <1>5, <1>8, <2>1, <2>5
    <3>2. Remove("bootn") \in Ops("boot")
      BY <1>2, <3>1 DEF BootInv
    <3> QED BY <1>2, <2>3, <3>2
  <2> QED BY <2>4, <2>5
<1>16. dataOK /\ Few /\ ~overlap =>
         /\ ~Good(files'["badversion"]) /\ ~Good(files'["suspect"])
         /\ \A t \in Thread : \A p \in Ops(t)' :
              p.kind = "write" /\ p.to \in {"badversion", "suspect"} => ~Good(p.val)
  <2>1. SUFFICES ASSUME dataOK, Few, ~overlap
                 PROVE  /\ ~Good(files'["badversion"]) /\ ~Good(files'["suspect"])
                        /\ \A t \in Thread : \A p \in Ops(t)' :
                             p.kind = "write" /\ p.to \in {"badversion", "suspect"} => ~Good(p.val)
    OBVIOUS
  <2>2. /\ ~Good(files["badversion"]) /\ ~Good(files["suspect"])
        /\ \A p \in Ops("boot") :
             p.kind = "write" /\ p.to \in {"badversion", "suspect"} => ~Good(p.val)
    BY <1>1, <2>1 DEF BlameInv
  <2> QED BY <1>1, <1>2, <1>3, <1>4, <1>8, <2>2
<1>17. ~dataOK =>
         /\ files'["badversion"] = Absent
         /\ \A t \in Thread : \A p \in Ops(t)' : p.to = "badversion" => p.val = Absent
  <2>1. SUFFICES ASSUME ~dataOK
                 PROVE  /\ files'["badversion"] = Absent
                        /\ \A t \in Thread : \A p \in Ops(t)' : p.to = "badversion" => p.val = Absent
    OBVIOUS
  <2>2. files["badversion"] = Absent /\ \A p \in Ops("boot") : p.to = "badversion" => p.val = Absent
    BY <1>1, <2>1 DEF BlameInv
  <2> QED BY <1>1, <1>2, <1>3, <1>4, <1>8, <2>2
<1>18. BlameInv'
  <2>1. Few' <=> Few
    BY <1>2 DEF Few
  <2> QED BY <1>2, <1>12, <1>14, <1>15, <1>16, <1>17, <2>1 DEF BlameInv, Good
<1> QED BY <1>2, <1>9, <1>10, <1>11, <1>18

(* The confirmation's operations. *)
LEMMA WatchStepKeepsHealInv ==
  ASSUME HealInv, Step("watch"), Head(script["watch"]) # Exit
  PROVE  HealInv'
<1> USE DEF HealInv
<1> DEFINE op == Head(script["watch"])
<1>1. "watch" \in Thread /\ Thread = {"boot", "watch", "update"}
  BY DEF Thread
<1>2. /\ UNCHANGED <<product, windows, quality, dataOK, phase, run, watch, guarded,
                     overlap, mishaps>>
      /\ script["watch"] # <<>> /\ op \in Op /\ op \in Ops("watch")
      /\ \A u \in Thread : u # "watch" => script'[u] = script[u] /\ Ops(u)' = Ops(u)
      /\ Ops("watch") = {op} \cup Ops("watch")'
      /\ \A p \in Ops("watch")' : op = Remove("bootn") => p # Remove("pending")
      /\ op.kind = "write" => \A f \in File : files'[f] = IF f = op.to THEN op.val ELSE files[f]
      /\ ProcessInv' /\ FilesInv'
  BY <1>1, StepIs
<1>3. /\ phase # "boot" /\ phase # "off" /\ phase # "cli" /\ watch = "none"
      /\ script["boot"] = <<>> /\ script'["boot"] = <<>> /\ script'["update"] = script["update"]
      /\ Ops("boot") = {} /\ Ops("boot")' = {} /\ Ops("update")' = Ops("update")
  BY <1>1, <1>2, EmptyOps DEF ProcessInv
<1>4. /\ op.kind = "write" /\ op = Write(op.to, op.val) /\ op.to \in File \ {"exe", "new"}
      /\ op.to \in {"old", "bad", "pending"} => op.val = Absent
      /\ op.to = "bootn" => op = Remove("bootn")
  <2>1. /\ op.kind = "write" /\ op.to # "new" /\ (op.to = "pending" => op.val = Absent)
        /\ op.to = "bootn" => op = Remove("bootn")
    BY <1>2 DEF BootInv, OnlyWrites
  <2>2. /\ op.kind \in {"write", "copy", "move", "exit"}
        /\ op.kind = "write" => /\ op = Write(op.to, op.val) /\ op.to \in File \ {"exe"}
                                /\ op.to \in {"old", "bad"} => op.val = Absent
    BY <1>2, OpIs
  <2> HIDE DEF op, Op, File, Write, Remove
  <2> QED BY <2>1, <2>2
<1> HIDE DEF op, Op
<1>5. /\ \A f : Remove(f) = Write(f, Absent)
      /\ \A f, v : Write(f, v).kind = "write" /\ Write(f, v).to = f /\ Write(f, v).val = v
  BY DEF Remove, Write
<1> HIDE DEF Move, Exit, Remove, Write
<1>6. {"exe", "new", "old", "bad", "pending", "bootn", "suspect", "badversion"} \subseteq File
  BY DEF File
<1>7. /\ files'["exe"] = files["exe"]
      /\ \A f \in {"pending", "bootn", "suspect", "badversion"} :
           files'[f] = IF f = op.to THEN op.val ELSE files[f]
  BY <1>2, <1>4, <1>6
<1>8. script["update"] # <<>> => overlap
  BY <1>2 DEF UpdateInv
<1>9. BootInv'
  <2>1. ( \A t \in {"boot", "watch"} : \A p \in Ops(t) :
            /\ p.kind = "write" => p.to # "new" /\ (p.to = "pending" => p.val = Absent)
            /\ p.kind = "move" => p \in RollbackMoves
            /\ p.kind # "copy"
            /\ p = Remove("pending") => Remove("bootn") \in Ops(t) )'
    BY <1>2, <1>3 DEF BootInv
  <2>2. OnlyWrites("watch")'
    BY <1>2 DEF BootInv, OnlyWrites
  <2>3. phase' # "up" => Remove("bootn") \notin Ops("watch")'
    BY <1>2 DEF BootInv
  <2>4. \A p \in Ops("watch")' : p.to = "bootn" => p = Remove("bootn")
    BY <1>2 DEF BootInv
  <2> QED BY <1>2, <1>3, <2>1, <2>2, <2>3, <2>4 DEF BootInv
<1>10. UpdateInv'
  BY <1>2, <1>3, <1>8 DEF UpdateInv
<1>11. BinaryInv'
  BY <1>2, <1>3, <1>7 DEF BinaryInv
<1>12. \A v : Good(v)' <=> Good(v)
  BY <1>2 DEF Good
<1>13. ~Good(Absent) /\ Absent = 0
  BY DEF Good, Absent
<1>14. dataOK /\ Few /\ ~overlap => PendingIsCounted'
  <2>1. SUFFICES ASSUME dataOK, Few, ~overlap, Good(files'["pending"])
        PROVE  /\ files'["exe"] = files'["pending"]
               /\ run = files'["pending"]
               /\ Counted(files["bootn"])'
    BY <1>2, <1>3, <1>8, <1>12 DEF PendingIsCounted, Good, OnlyWrites
  <2>2. files'["pending"] = files["pending"]
    BY <1>4, <1>7, <1>13, <2>1
  <2>3. /\ files["exe"] = files["pending"] /\ run = files["pending"] /\ Counted(files["bootn"])
    BY <1>3, <1>8, <2>1, <2>2 DEF BlameInv, PendingIsCounted
  <2>4. Counted(0)
    <3>1. mishaps \in Nat
      BY DEF ProcessInv
    <3> QED BY <3>1 DEF Counted
  <2>5. Counted(files'["bootn"])
    BY <1>4, <1>5, <1>7, <1>13, <2>3, <2>4
  <2>6. Counted(files["bootn"])'
    BY <1>2, <2>5 DEF Counted
  <2> QED BY <1>7, <2>2, <2>3, <2>6
<1>15. ~overlap => CountsAreRemoved'
  <2>1. SUFFICES ASSUME ~overlap, mishaps = 0, files'["pending"] = Absent, files'["bootn"] # 0
                 PROVE  Remove("bootn") \in Ops("watch")'
    BY <1>2 DEF CountsAreRemoved
  <2>2. op # Remove("bootn") /\ op.to # "bootn"
    BY <1>4, <1>5, <1>7, <1>13, <2>1
  <2>3. files["bootn"] # 0
    BY <1>7, <2>1, <2>2
  <2>4. CASE files["pending"] = Absent
    BY <1>2, <1>3, <2>1, <2>2, <2>3, <2>4 DEF BlameInv, CountsAreRemoved
  <2>5. CASE files["pending"] # Absent
    <3>1. op.to = "pending" /\ op = Remove("pending")
      BY <1>4, <1>5, <1>7, <2>1, <2>5
    <3>2. Remove("bootn") \in Ops("watch")
      BY <1>2, <3>1 DEF BootInv
    <3> QED BY <1>2, <2>2, <3>2
  <2> QED BY <2>4, <2>5
<1>16. dataOK /\ Few /\ ~overlap =>
         /\ ~Good(files'["badversion"]) /\ ~Good(files'["suspect"])
         /\ \A t \in Thread : \A p \in Ops(t)' :
              p.kind = "write" /\ p.to \in {"badversion", "suspect"} => ~Good(p.val)
  <2>1. SUFFICES ASSUME dataOK, Few, ~overlap
                 PROVE  /\ ~Good(files'["badversion"]) /\ ~Good(files'["suspect"])
                        /\ \A t \in Thread : \A p \in Ops(t)' :
                             p.kind = "write" /\ p.to \in {"badversion", "suspect"} => ~Good(p.val)
    OBVIOUS
  <2>2. /\ ~Good(files["badversion"]) /\ ~Good(files["suspect"])
        /\ \A t \in Thread : \A p \in Ops(t) :
             p.kind = "write" /\ p.to \in {"badversion", "suspect"} => ~Good(p.val)
    BY <2>1 DEF BlameInv
  <2> QED BY <1>1, <1>2, <1>3, <1>4, <1>7, <2>2
<1>17. ~dataOK =>
         /\ files'["badversion"] = Absent
         /\ \A t \in Thread : \A p \in Ops(t)' : p.to = "badversion" => p.val = Absent
  <2>1. SUFFICES ASSUME ~dataOK
                 PROVE  /\ files'["badversion"] = Absent
                        /\ \A t \in Thread : \A p \in Ops(t)' : p.to = "badversion" => p.val = Absent
    OBVIOUS
  <2>2. /\ files["badversion"] = Absent
        /\ \A t \in Thread : \A p \in Ops(t) : p.to = "badversion" => p.val = Absent
    BY <2>1 DEF BlameInv
  <2> QED BY <1>1, <1>2, <1>3, <1>4, <1>7, <2>2
<1>18. BlameInv'
  <2>1. Few' <=> Few
    BY <1>2 DEF Few
  <2> QED BY <1>2, <1>12, <1>14, <1>15, <1>16, <1>17, <2>1 DEF BlameInv, Good
<1> QED BY <1>2, <1>9, <1>10, <1>11, <1>18

(* An update advances by an operation. *)
LEMMA LeftAdvances ==
  ASSUME NEW m \in Version, NEW k \in 1..8, NEW s \in Seq(Op), s # <<>>, InOrder(s),
         LeftOf(s, UpdateOps(m), k)
  PROVE  /\ Head(s) = UpdateOps(m)[k]
         /\ LeftOf(Tail(s), UpdateOps(m), k + 1)
         /\ Tail(s) = <<>> <=> k = 8
<1> DEFINE full == UpdateOps(m)
<1>1. Len(full) = 8
  BY UpdateOpsAre
<1>2. /\ Head(s) = s[1] /\ Len(Tail(s)) = Len(s) - 1 /\ Len(s) \in Nat /\ Len(s) > 0
      /\ \A i \in 1..Len(Tail(s)) : i + 1 \in 1..Len(s) /\ Tail(s)[i] = s[i + 1]
      /\ Tail(s) \in Seq(Op)
  BY TailOfScript
<1> HIDE DEF full, Op
<1>3. Len(s) = 8 - k + 1 /\ \A i \in 1..Len(s) : s[i] = full[k + i - 1]
  BY <1>1 DEF LeftOf, full
<1>4. 1 \in 1..Len(s) /\ k + 1 - 1 = k
  BY <1>2
<1>5. Head(s) = full[k]
  BY <1>2, <1>3, <1>4
<1>6. ASSUME NEW i \in 1..Len(Tail(s))
      PROVE  Tail(s)[i] = full[(k + 1) + i - 1]
  <2>1. i + 1 \in 1..Len(s) /\ k + (i + 1) - 1 = (k + 1) + i - 1
    BY <1>2
  <2> QED BY <1>2, <1>3, <2>1
<1>7. Len(Tail(s)) = 8 - (k + 1) + 1
  BY <1>2, <1>3
<1>8. LeftOf(Tail(s), full, k + 1)
  BY <1>1, <1>6, <1>7 DEF LeftOf
<1>9. Tail(s) = <<>> <=> Len(Tail(s)) = 0
  BY <1>2, EmptySeq
<1>10. Len(Tail(s)) = 0 <=> k = 8
  BY <1>7
<1> QED BY <1>5, <1>8, <1>9, <1>10 DEF full

(* An update's operations, one by one.                                     *)
LEMMA UpdateOpsTable ==
  ASSUME NEW m
  PROVE  /\ UpdateOps(m)[1] = Remove("new") /\ UpdateOps(m)[2] = Write("new", m)
         /\ UpdateOps(m)[3] = Remove("old")
         /\ UpdateOps(m)[4] = IF windows THEN Move("exe", "old") ELSE Copy("exe", "old")
         /\ UpdateOps(m)[5] = Move("new", "exe") /\ UpdateOps(m)[6] = Write("pending", m)
         /\ UpdateOps(m)[7] = Write("bootn", 0) /\ UpdateOps(m)[8] = Exit
<1> HIDE DEF Remove, Write, Move, Copy, Exit
<1> QED BY DEF UpdateOps

(* What an update must not disturb. *)
LEMMA UpdateFrame ==
  ASSUME HealInv, UNCHANGED <<product, windows, quality, dataOK, phase, run, watch, guarded>>,
         script["update"] # <<>>, overlap' = overlap, mishaps' \in Nat, mishaps' >= mishaps,
         script'["boot"] = script["boot"], script'["watch"] = script["watch"],
         Ops("boot")' = Ops("boot"), Ops("watch")' = Ops("watch"),
         \A op \in Ops("update")' : op \in Ops("update") \/ (op.kind = "move" /\ op.to # "badversion"),
         ~overlap => files'["badversion"] = files["badversion"] /\ files'["suspect"] = files["suspect"],
         ~dataOK => files'["badversion"] = Absent,
         ProcessInv', FilesInv', UpdateInv', BinaryInv',
         Few' /\ ~overlap => PendingIsCounted', ~overlap => CountsAreRemoved'
  PROVE  HealInv'
<1> USE DEF HealInv
<1>1. script["boot"] = <<>> /\ Ops("boot") = {}
  BY EmptyOps DEF ProcessInv, Thread
<1>2. BootInv'
  BY <1>1 DEF BootInv, OnlyWrites
<1>3. Thread = {"boot", "watch", "update"}
  BY DEF Thread
<1>4. \A v : Good(v)' <=> Good(v)
  BY DEF Good
<1>5. Few' => Few
  BY DEF Few, ProcessInv
<1>6. dataOK /\ Few' /\ ~overlap =>
        /\ ~Good(files'["badversion"]) /\ ~Good(files'["suspect"])
        /\ \A t \in Thread : \A p \in Ops(t)' :
             p.kind = "write" /\ p.to \in {"badversion", "suspect"} => ~Good(p.val)
  BY <1>3, <1>5 DEF BlameInv
<1>7. ~dataOK =>
        /\ files'["badversion"] = Absent
        /\ \A t \in Thread : \A p \in Ops(t)' : p.to = "badversion" => p.val = Absent
  BY <1>3 DEF BlameInv
<1>8. BlameInv'
  BY <1>4, <1>6, <1>7 DEF BlameInv, Good
<1> QED BY <1>2, <1>8

(* An update that runs alone, operation by operation. *)
LEMMA UpdateStepAlone ==
  ASSUME HealInv, Step("update"), Head(script["update"]) # Exit, ~overlap
  PROVE  /\ UpdateInv' /\ BinaryInv' /\ PendingIsCounted' /\ CountsAreRemoved'
         /\ files'["badversion"] = files["badversion"] /\ files'["suspect"] = files["suspect"]
<1> USE DEF HealInv
<1> DEFINE op == Head(script["update"])
<1>1. "update" \in Thread /\ "boot" \in Thread /\ "watch" \in Thread
  BY DEF Thread
<1>2. /\ UNCHANGED <<product, windows, quality, dataOK, phase, run, watch, guarded,
                     overlap, mishaps>>
      /\ script["update"] # <<>> /\ script'["update"] = Tail(script["update"])
      /\ \A u \in Thread : u # "update" => script'[u] = script[u] /\ Ops(u)' = Ops(u)
      /\ op.kind = "write" => \A f \in File : files'[f] = IF f = op.to THEN op.val ELSE files[f]
      /\ op.kind = "move" =>
           /\ files[op.from] # Absent
           /\ \A f \in File : files'[f] = IF f = op.from THEN Absent
                                          ELSE IF f = op.to THEN files[op.from] ELSE files[f]
      /\ op.kind = "copy" =>
           /\ \A f \in File \ {"old"} : files'[f] = files[f]
           /\ files["exe"] # Absent => files'["old"] = files["exe"]
  BY <1>1, StepIs
<1>3. /\ script["boot"] = <<>> /\ Ops("boot") = {} /\ watch = "none"
      /\ script["watch"] = <<>> /\ Ops("watch") = {}
  BY <1>1, <1>2, EmptyOps DEF ProcessInv, UpdateInv
<1>4. /\ script'["boot"] = <<>> /\ Ops("boot")' = {} /\ watch' = "none"
      /\ script'["watch"] = <<>> /\ Ops("watch")' = {} /\ ~overlap'
  BY <1>1, <1>2, <1>3
<1>5. {"exe", "new", "old", "bad", "pending", "bootn", "suspect", "badversion"} \subseteq File
  BY DEF File
<1>6. /\ Move("exe", "old").from = "exe" /\ Move("exe", "old").to = "old"
      /\ Move("old", "exe").from = "old" /\ Move("old", "exe").to = "exe"
      /\ Move("new", "exe").from = "new" /\ Move("new", "exe").to = "exe"
      /\ Move("exe", "old").kind = "move" /\ Move("old", "exe").kind = "move"
      /\ Move("new", "exe").kind = "move" /\ Copy("exe", "old").kind = "copy"
      /\ \A f : Remove(f) = Write(f, Absent)
      /\ \A f, v : Write(f, v).kind = "write" /\ Write(f, v).to = f /\ Write(f, v).val = v
  BY DEF Move, Copy, Remove, Write
<1>7. files["pending"] = Absent /\ mishaps = 0 => files["bootn"] = 0
  BY <1>3 DEF BlameInv, CountsAreRemoved
<1>8. script["update"] \in Seq(Op) /\ InOrder(script["update"])
  BY <1>1 DEF ProcessInv
<1>9. CASE script["update"] = <<Move("old", "exe")>> /\ files["pending"] = Absent
  <2>1. op = Move("old", "exe") /\ script'["update"] = <<>>
    <3>1. Head(<<Move("old", "exe")>>) = Move("old", "exe") /\ Tail(<<Move("old", "exe")>>) = <<>>
      OBVIOUS
    <3> QED BY <1>2, <1>9, <3>1
  <2> HIDE DEF op, Op, Move, Remove, Write, Copy, Exit
  <2>2. /\ files'["exe"] # Absent /\ files'["pending"] = Absent /\ files'["bootn"] = files["bootn"]
        /\ files'["badversion"] = files["badversion"] /\ files'["suspect"] = files["suspect"]
    BY <1>2, <1>5, <1>6, <1>9, <2>1
  <2>3. UpdateInv'
    BY <2>1 DEF UpdateInv
  <2>4. BinaryInv'
    BY <1>4, <2>2 DEF BinaryInv
  <2>5. PendingIsCounted'
    BY <2>2 DEF PendingIsCounted, Good
  <2>6. CountsAreRemoved'
    BY <1>2, <1>7, <1>9, <2>2 DEF CountsAreRemoved
  <2> QED BY <2>2, <2>3, <2>4, <2>5, <2>6
<1>10. ASSUME NEW m \in Version, NEW k \in 1..8, Left(m, k)
       PROVE  /\ UpdateInv' /\ BinaryInv' /\ PendingIsCounted' /\ CountsAreRemoved'
              /\ files'["badversion"] = files["badversion"] /\ files'["suspect"] = files["suspect"]
  <2>1. LeftOf(script["update"], UpdateOps(m), k)
    BY <1>10 DEF Left
  <2>2. /\ op = UpdateOps(m)[k] /\ LeftOf(script'["update"], UpdateOps(m), k + 1)
        /\ script'["update"] = <<>> <=> k = 8
    BY <1>2, <1>8, <2>1, LeftAdvances
  <2>3. m # Absent
    BY AutoUpdateAssumption DEF Absent
  <2>4. op # Exit
    OBVIOUS
  <2> HIDE DEF op, Op, Move, Remove, Write, Copy, Exit
  <2>5. k # 8
    BY <2>2, <2>4, UpdateOpsTable
  <2>6. LeftOf(script["update"], UpdateOps(m), k + 1)'
    <3>1. UpdateOps(m)' = UpdateOps(m)
      BY <1>2 DEF UpdateOps
    <3> QED BY <2>2, <3>1 DEF LeftOf
  <2>7. /\ k = 1 => op = Write("new", Absent)
        /\ k = 2 => op = Write("new", m)
        /\ k = 3 => op = Write("old", Absent)
        /\ k = 4 => op = Move("exe", "old") \/ op = Copy("exe", "old")
        /\ k = 5 => op = Move("new", "exe")
        /\ k = 6 => op = Write("pending", m)
        /\ k = 7 => op = Write("bootn", 0)
    BY <1>6, <2>2, UpdateOpsTable
  <2>8. k \in {1, 2, 3, 4, 5, 6, 7}
    BY <2>5
  <2>9. /\ k <= 4 => files["exe"] # Absent
        /\ k \in 3..5 => files["new"] = m
        /\ k >= 6 => files["exe"] = m
        /\ k <= 6 => files["pending"] = Absent
        /\ k >= 7 => files["pending"] \in {m, Absent}
    BY <1>10 DEF Left
  <2>10. files'["badversion"] = files["badversion"] /\ files'["suspect"] = files["suspect"]
    BY <1>2, <1>5, <1>6, <2>7, <2>8
  <2>11. /\ k + 1 <= 4 => files'["exe"] # Absent
         /\ k + 1 \in 3..5 => files'["new"] = m
         /\ k + 1 >= 6 => files'["exe"] = m
         /\ k + 1 <= 6 => files'["pending"] = Absent
         /\ k + 1 >= 7 => files'["pending"] \in {m, Absent}
         /\ k # 7 => files'["bootn"] = files["bootn"]
         /\ k = 7 => files'["bootn"] = 0 /\ files'["pending"] = files["pending"]
         /\ files'["exe"] # Absent \/ files'["old"] # Absent \/ files'["new"] # Absent
    <3>1. CASE k = 1
      BY <1>2, <1>5, <1>6, <2>7, <2>9, <3>1
    <3>2. CASE k = 2
      BY <1>2, <1>5, <1>6, <2>7, <2>9, <3>2
    <3>3. CASE k = 3
      BY <1>2, <1>5, <1>6, <2>7, <2>9, <3>3
    <3>4. CASE k = 4
      <4>1. CASE op = Move("exe", "old")
        BY <1>2, <1>5, <1>6, <2>3, <2>9, <3>4, <4>1
      <4>2. CASE op = Copy("exe", "old")
        <5>1. \A f \in {"exe", "new", "bootn", "pending"} : files'[f] = files[f]
          BY <1>2, <1>5, <1>6, <4>2
        <5> QED BY <2>3, <2>9, <3>4, <5>1
      <4> QED BY <2>7, <3>4, <4>1, <4>2
    <3>5. CASE k = 5
      BY <1>2, <1>5, <1>6, <2>3, <2>7, <2>9, <3>5
    <3>6. CASE k = 6
      BY <1>2, <1>5, <1>6, <2>3, <2>7, <2>9, <3>6
    <3>7. CASE k = 7
      BY <1>2, <1>5, <1>6, <2>3, <2>7, <2>9, <3>7
    <3> QED BY <2>8, <3>1, <3>2, <3>3, <3>4, <3>5, <3>6, <3>7
  <2>12. /\ k + 1 = 7 => (mishaps' = 0 => files'["bootn"] = 0)
         /\ k + 1 = 8 => files'["bootn"] = 0
    <3>1. k = 6 => (mishaps = 0 => files["bootn"] = 0)
      BY <1>7, <2>9
    <3> QED BY <1>2, <2>8, <2>11, <3>1
  <2>13. Left(m, k + 1)'
    BY <2>6, <2>8, <2>11, <2>12 DEF Left
  <2>14. k + 1 \in 1..8
    BY <2>8
  <2>15. UpdateInv'
    BY <1>4, <2>13, <2>14 DEF UpdateInv
  <2>16. BinaryInv'
    BY <1>4, <2>11 DEF BinaryInv
  <2>17. PendingIsCounted'
    <3>1. files'["pending"] # Absent => files'["exe"] = files'["pending"]
      BY <2>8, <2>11
    <3>2. script'["update"] # <<>>
      BY <2>2, <2>5
    <3> QED BY <1>4, <3>1, <3>2 DEF PendingIsCounted, Good, OnlyWrites
  <2>18. CountsAreRemoved'
    <3>1. SUFFICES ASSUME mishaps = 0, files'["pending"] = Absent PROVE files'["bootn"] = 0
      BY <1>2 DEF CountsAreRemoved
    <3>2. CASE k = 7
      BY <2>11, <3>2
    <3>3. CASE k # 7
      <4>1. files["pending"] = Absent
        BY <2>8, <2>9, <3>3
      <4> QED BY <1>7, <2>11, <3>1, <3>3, <4>1
    <3> QED BY <3>2, <3>3
  <2> QED BY <2>10, <2>15, <2>16, <2>17, <2>18
<1> QED BY <1>2, <1>9, <1>10 DEF UpdateInv

(* The next operation of an update is made.                                *)
LEMMA UpdateStepKeepsHealInv ==
  ASSUME HealInv, Step("update"), Head(script["update"]) # Exit
  PROVE  HealInv'
<1> USE DEF HealInv
<1> DEFINE op == Head(script["update"])
<1>1. "update" \in Thread /\ "boot" \in Thread /\ "watch" \in Thread
  BY DEF Thread
<1>2. /\ UNCHANGED <<product, windows, quality, dataOK, phase, run, watch, guarded,
                     overlap, mishaps>>
      /\ script["update"] # <<>> /\ op \in Op /\ op \in Ops("update") /\ op.kind # "exit"
      /\ \A u \in Thread : u # "update" => script'[u] = script[u] /\ Ops(u)' = Ops(u)
      /\ Ops("update") = {op} \cup Ops("update")'
      /\ op.kind = "write" => \A f \in File : files'[f] = IF f = op.to THEN op.val ELSE files[f]
      /\ op.kind = "move" =>
           /\ files[op.from] # Absent
           /\ \A f \in File : files'[f] = IF f = op.from THEN Absent
                                          ELSE IF f = op.to THEN files[op.from] ELSE files[f]
      /\ op.kind = "copy" => \A f \in File \ {"old"} : files'[f] = files[f]
      /\ ProcessInv' /\ FilesInv'
  BY <1>1, StepIs
<1>3. /\ op.kind \in {"write", "copy", "move", "exit"}
      /\ op.kind = "move" => /\ op \in RollbackMoves \cup {Move("exe", "old"), Move("new", "exe")}
                             /\ op = Move(op.from, op.to) /\ op.from # op.to
                             /\ {op.from, op.to} \subseteq {"exe", "new", "old", "bad"}
  BY <1>2, OpIs
<1> HIDE DEF op, Op
<1>4. ~dataOK => files'["badversion"] = Absent
  <2>1. SUFFICES ASSUME ~dataOK PROVE files'["badversion"] = Absent
    OBVIOUS
  <2>2. files["badversion"] = Absent /\ (op.to = "badversion" => op.val = Absent)
    BY <1>1, <1>2, <2>1 DEF BlameInv
  <2>3. "badversion" \in File
    BY DEF File
  <2>4. op.kind = "move" => op.from # "badversion" /\ op.to # "badversion"
    BY <1>3
  <2> QED BY <1>2, <1>3, <2>2, <2>3, <2>4
<1>5. ~overlap => /\ UpdateInv' /\ BinaryInv' /\ PendingIsCounted' /\ CountsAreRemoved'
                  /\ files'["badversion"] = files["badversion"]
                  /\ files'["suspect"] = files["suspect"]
  BY UpdateStepAlone
<1>6. overlap => UpdateInv' /\ BinaryInv'
  BY <1>2 DEF UpdateInv, BinaryInv
<1>7. mishaps' \in Nat /\ mishaps' >= mishaps
  BY <1>2 DEF ProcessInv
<1>8. /\ script'["boot"] = script["boot"] /\ script'["watch"] = script["watch"]
      /\ Ops("boot")' = Ops("boot") /\ Ops("watch")' = Ops("watch")
      /\ \A p \in Ops("update")' : p \in Ops("update")
  BY <1>1, <1>2
<1>9. ProcessInv' /\ FilesInv' /\ UpdateInv' /\ BinaryInv'
  BY <1>2, <1>5, <1>6
<1>10. UNCHANGED <<product, windows, quality, dataOK, phase, run, watch, guarded>>
       /\ overlap' = overlap /\ script["update"] # <<>>
  BY <1>2
<1>11. /\ ~overlap => files'["badversion"] = files["badversion"] /\ files'["suspect"] = files["suspect"]
       /\ Few' /\ ~overlap => PendingIsCounted'
       /\ ~overlap => CountsAreRemoved'
  BY <1>5
<1>12. \A p \in Ops("update")' : p \in Ops("update") \/ (p.kind = "move" /\ p.to # "badversion")
  BY <1>8
<1>13. HealInv
  OBVIOUS
<1> HIDE DEF HealInv
<1> QED BY <1>4, <1>7, <1>8, <1>9, <1>10, <1>11, <1>12, <1>13, UpdateFrame

-----------------------------------------------------------------------------
(* An operation that returns an error. *)

(* What a failing operation leaves: the thread's error path.               *)
LEMMA FailIs ==
  ASSUME HealInv, NEW t \in Thread, OpFails(t)
  PROVE  /\ UNCHANGED <<product, windows, quality, dataOK, files, phase, run, watch, guarded, overlap>>
         /\ script[t] # <<>> /\ Head(script[t]) # Exit
         /\ mishaps' \in Nat /\ mishaps' >= mishaps
         /\ mishaps' = 0 => mishaps = 0 /\ Head(script[t]).kind = "move"
         /\ script' = [script EXCEPT ![t] = ErrorIn(t)]
<1> USE DEF world, HealInv
<1>1. mishaps \in Nat
  BY DEF ProcessInv
<1>2. /\ UNCHANGED <<product, windows, quality, dataOK, files, phase, run, watch, guarded, overlap>>
      /\ script[t] # <<>> /\ Head(script[t]) # Exit
      /\ mishaps' = IF Refused(Head(script[t])) THEN mishaps ELSE mishaps + 1
      /\ script' = [script EXCEPT ![t] = ErrorIn(t)]
  BY DEF OpFails
<1>3. Refused(Head(script[t])) => Head(script[t]).kind = "move"
  BY DEF Refused
<1>4. CASE Refused(Head(script[t]))
  BY <1>1, <1>2, <1>3, <1>4
<1>5. CASE ~Refused(Head(script[t]))
  <2>1. mishaps' = mishaps + 1
    BY <1>2, <1>5
  <2>2. mishaps' \in Nat /\ mishaps' >= mishaps /\ mishaps' # 0
    BY <1>1, <2>1
  <2> QED BY <1>2, <2>2
<1> QED BY <1>4, <1>5

(* The guard or the confirmation goes on without what failed. *)
LEMMA GuardGoesOn ==
  ASSUME HealInv, NEW t \in {"boot", "watch"}, NEW s \in Seq(Op), InOrder(s),
         UNCHANGED <<product, windows, quality, dataOK, files, phase, run, watch, guarded, overlap>>,
         script[t] # <<>>, mishaps' \in Nat, mishaps' >= mishaps,
         script' = [script EXCEPT ![t] = s],
         \A p \in Ops(t)' :
           \/ p \in Ops(t)
           \/ /\ t = "boot" /\ ~OnlyWrites("boot")
              /\ p \in {Move("bad", "exe"), Remove("pending"), Remove("bootn")},
         Remove("pending") \in Ops(t)' => Remove("bootn") \in Ops(t)',
         mishaps' = 0 /\ files["pending"] = Absent /\ Remove("bootn") \in Ops(t) =>
           Remove("bootn") \in Ops(t)'
  PROVE  HealInv'
<1> USE DEF HealInv
<1>1. t \in Thread /\ Thread = {"boot", "watch", "update"}
  BY DEF Thread
<1>2. /\ script' = [u \in Thread |-> script'[u]]
      /\ \A u \in Thread : script'[u] \in Seq(Op) /\ InOrder(script[u])'
      /\ \A u \in Thread : u # t => script'[u] = script[u] /\ Ops(u)' = Ops(u)
  BY <1>1, NewScript
<1>3. /\ script'["boot"] # <<>> => script["boot"] # <<>>
      /\ script'["watch"] # <<>> => script["watch"] # <<>>
      /\ script'["update"] = script["update"] /\ Ops("update")' = Ops("update")
      /\ script["update"] # <<>> => overlap
      /\ \A u \in {"boot", "watch"} : u # t => Ops(u)' = Ops(u)
  BY <1>1, <1>2 DEF ProcessInv, UpdateInv
<1>4. /\ Move("bad", "exe").kind = "move" /\ Move("bad", "exe").to = "exe"
      /\ Move("bad", "exe").val = Absent /\ Move("bad", "exe") \in RollbackMoves
      /\ Move("exe", "bad").kind = "move" /\ Move("old", "exe").kind = "move"
      /\ Move("exe", "bad") # Move("bad", "exe") /\ Move("old", "exe") # Move("bad", "exe")
      /\ \A f : Remove(f).kind = "write" /\ Remove(f).to = f /\ Remove(f).val = Absent
      /\ Absent = 0
  BY DEF Move, Remove, Write, RollbackMoves, Absent
<1> HIDE DEF Op, Move, Remove, Write, Exit, RollbackMoves, Thread
<1>5. /\ \A p \in Ops("boot")' :
           \/ p \in Ops("boot")
           \/ ~OnlyWrites("boot") /\ p \in {Move("bad", "exe"), Remove("pending"), Remove("bootn")}
      /\ \A p \in Ops("watch")' : p \in Ops("watch")
  BY <1>3
<1>6. \A u \in {"boot", "watch"} : Remove("pending") \in Ops(u)' => Remove("bootn") \in Ops(u)'
  BY <1>3 DEF BootInv
<1>7. ProcessInv'
  BY <1>2, <1>3 DEF ProcessInv
<1>8. FilesInv'
  BY DEF FilesInv
<1>9. OnlyWrites("boot") => OnlyWrites("boot")' /\ \A p \in Ops("boot")' : p \in Ops("boot")
  BY <1>5 DEF OnlyWrites
<1>10. BootInv'
  <2>1. ASSUME NEW u \in {"boot", "watch"}, NEW p \in Ops(u)'
        PROVE  /\ p.kind = "write" => p.to # "new" /\ (p.to = "pending" => p.val = Absent)
               /\ p.kind = "move" => p \in RollbackMoves
               /\ p.kind # "copy"
               /\ p = Remove("pending") => Remove("bootn") \in Ops(u)'
    <3>1. \/ p \in Ops(u)
          \/ p \in {Move("bad", "exe"), Remove("pending"), Remove("bootn")}
      BY <1>5
    <3> QED BY <1>4, <1>6, <3>1 DEF BootInv
  <2>2. Remove("old") \in Ops("boot")' => OnlyWrites("boot")' /\ files'["exe"] # Absent
    <3>1. Remove("old") \notin {Move("bad", "exe"), Remove("pending"), Remove("bootn")}
      <4>1. Remove("old").to # "exe" /\ Remove("old").to # "pending" /\ Remove("old").to # "bootn"
        BY <1>4
      <4> QED BY <1>4, <4>1
    <3> QED BY <1>5, <1>9, <3>1 DEF BootInv
  <2>3. Move("exe", "bad") \in Ops("boot")' \/ Move("old", "exe") \in Ops("boot")' =>
          files'["old"] # Absent
    BY <1>4, <1>5 DEF BootInv
  <2>4. ASSUME NEW p \in Ops("boot")', p.kind = "write", p.to = "bootn", p.val # 0
        PROVE  Ops("boot")' = {p} /\ files'["pending"] # Absent
    <3>1. p \in Ops("boot")
      BY <1>4, <1>5, <2>4
    <3>2. Ops("boot") = {p} /\ files["pending"] # Absent
      BY <2>4, <3>1 DEF BootInv
    <3>3. OnlyWrites("boot")
      BY <2>4, <3>2 DEF OnlyWrites
    <3> QED BY <1>9, <2>4, <3>2, <3>3
  <2>5. OnlyWrites("watch")'
    BY <1>5 DEF BootInv, OnlyWrites
  <2>6. watch' # "none" => OnlyWrites("boot")'
    BY <1>9 DEF BootInv
  <2>7. phase' # "up" => Remove("bootn") \notin Ops("watch")'
    BY <1>5 DEF BootInv
  <2>8. \A op \in Ops("watch")' : op.to = "bootn" => op = Remove("bootn")
    BY <1>5 DEF BootInv
  <2> QED BY <2>1, <2>2, <2>3, <2>4, <2>5, <2>6, <2>7, <2>8 DEF BootInv
<1>11. UpdateInv'
  BY <1>3 DEF UpdateInv
<1>12. BinaryInv'
  BY <1>3 DEF BinaryInv
<1>13. \A v : Good(v)' <=> Good(v)
  BY DEF Good
<1>14. Few' => Few
  BY DEF Few, ProcessInv
<1>15. dataOK /\ Few' /\ ~overlap => PendingIsCounted'
  <2>1. SUFFICES ASSUME dataOK, Few, ~overlap, Good(files["pending"])
        PROVE  /\ files["exe"] = files["pending"] /\ OnlyWrites("boot")'
               /\ phase # "cli" /\ (phase # "off" => run = files["pending"])
               /\ Counted(files["bootn"])'
               /\ \A p \in Ops("boot")' : p.to = "bootn" => guarded /\ Counted(p.val)'
    BY <1>13, <1>14 DEF PendingIsCounted, Good
  <2>2. /\ files["exe"] = files["pending"] /\ OnlyWrites("boot")
        /\ phase # "cli" /\ (phase # "off" => run = files["pending"])
        /\ Counted(files["bootn"])
        /\ \A p \in Ops("boot") : p.to = "bootn" => guarded /\ Counted(p.val)
    BY <1>3, <2>1 DEF BlameInv, PendingIsCounted
  <2>3. mishaps \in Nat
    BY DEF ProcessInv
  <2>5. files["bootn"] \in 0..3
    BY DEF FilesInv, Counts
  <2>6. Counted(files["bootn"])'
    <3>1. files["bootn"] <= mishaps' + (IF guarded' THEN 1 ELSE 0)
      BY <2>2, <2>3, <2>5 DEF Counted
    <3> QED BY <3>1 DEF Counted
  <2>7. ASSUME NEW p \in Ops("boot")', p.to = "bootn"
        PROVE  guarded /\ p.val <= mishaps' + (IF guarded' THEN 1 ELSE 0)
    <3>1. p \in Ops("boot") /\ p.kind = "write"
      BY <1>9, <2>2 DEF OnlyWrites
    <3>2. p \in Op
      <4>1. \A u \in Thread : Ops(u) \subseteq Op
        <5>1. ASSUME NEW u \in Thread, NEW i \in 1..Len(script[u])
              PROVE  script[u][i] \in Op
          <6>1. script[u] \in Seq(Op)
            BY DEF ProcessInv
          <6> QED BY <6>1, ElementOfSeq
        <5> QED BY <5>1 DEF Ops
      <4> QED BY <1>1, <3>1, <4>1
    <3>3. p.val \in 0..3
      <4>1. "bootn" \in Counts
        BY DEF Counts
      <4> QED BY <2>7, <3>1, <3>2, <4>1, OpIs
    <3> QED BY <2>2, <2>3, <2>7, <3>1, <3>3 DEF Counted
  <2>8. \A p \in Ops("boot")' : p.to = "bootn" => guarded /\ Counted(p.val)'
    BY <2>7 DEF Counted
  <2> QED BY <1>9, <2>2, <2>6, <2>8
<1>16. ~overlap => CountsAreRemoved'
  <2>1. mishaps' = 0 => mishaps = 0
    BY DEF ProcessInv
  <2>2. mishaps' = 0 /\ files["pending"] = Absent =>
          (Remove("bootn") \in Ops("boot") \cup Ops("watch") =>
             Remove("bootn") \in Ops("boot")' \cup Ops("watch")')
    BY <1>3
  <2> QED BY <2>1, <2>2 DEF CountsAreRemoved, BlameInv
<1>17. \A u \in Thread : \A p \in Ops(u)' :
         p \in Ops(u) \/ p \in {Move("bad", "exe"), Remove("pending"), Remove("bootn")}
  BY <1>1, <1>3, <1>5
<1>18. \A p \in {Move("bad", "exe"), Remove("pending"), Remove("bootn")} :
         p.to # "badversion" /\ (p.kind = "write" => p.to # "suspect")
  BY <1>4
<1>19. dataOK /\ Few' /\ ~overlap =>
         /\ ~Good(files["badversion"]) /\ ~Good(files["suspect"])
         /\ \A u \in Thread : \A p \in Ops(u)' :
              p.kind = "write" /\ p.to \in {"badversion", "suspect"} => ~Good(p.val)
  BY <1>14, <1>17, <1>18 DEF BlameInv
<1>20. ~dataOK =>
         /\ files["badversion"] = Absent
         /\ \A u \in Thread : \A p \in Ops(u)' : p.to = "badversion" => p.val = Absent
  BY <1>17, <1>18 DEF BlameInv
<1>21. BlameInv'
  BY <1>13, <1>15, <1>16, <1>19, <1>20 DEF BlameInv, Good
<1> QED BY <1>7, <1>8, <1>10, <1>11, <1>12, <1>21

(* An operation of the boot guard fails.                                   *)
LEMMA BootFailsKeepsHealInv ==
  ASSUME HealInv, OpFails("boot")
  PROVE  HealInv'
<1> DEFINE op == Head(script["boot"])
           old == script["boot"]
<1>1. "boot" \in Thread /\ "boot" \in {"boot", "watch"}
  BY DEF Thread
<1>2. /\ UNCHANGED <<product, windows, quality, dataOK, files, phase, run, watch, guarded, overlap>>
      /\ script["boot"] # <<>> /\ op # Exit
      /\ mishaps' \in Nat /\ mishaps' >= mishaps
      /\ mishaps' = 0 => mishaps = 0 /\ op.kind = "move"
      /\ script' = [script EXCEPT !["boot"] = BootError]
  BY <1>1, FailIs DEF ErrorIn
<1>3. ProcessInv /\ BootInv /\ product \in {"node", "bridge"}
  BY DEF HealInv, ProcessInv
<1>4. old \in Seq(Op) /\ old # <<>> /\ InOrder(old) /\ Ops("boot") = {old[i] : i \in 1..Len(old)}
  BY <1>1, <1>2, <1>3 DEF ProcessInv, Ops
<1> HIDE DEF old
<1>5. /\ Tail(old) \in Seq(Op) /\ InOrder(Tail(old))
      /\ Ops("boot") = {Head(old)} \cup {Tail(old)[i] : i \in 1..Len(Tail(old))}
      /\ \A p \in {Tail(old)[i] : i \in 1..Len(Tail(old))} :
           /\ Head(old) = Move("old", "exe") => /\ p.kind \in {"write", "exit"}
                                                /\ product = "bridge" => p = Exit
           /\ Head(old) = Remove("bootn") => p # Remove("pending")
  BY <1>4, TailOfScript
<1>6. Head(old) = op
  BY DEF old
<1> HIDE DEF op, Op
<1>7. /\ Move("old", "exe").kind = "move" /\ Exit # Remove("bootn")
      /\ Remove("bootn").kind = "write" /\ Remove("pending").kind = "write"
      /\ Move("old", "exe") # Remove("bootn")
  BY DEF Move, Remove, Write, Exit
<1>8. CASE op # Move("old", "exe")
  <2>1. BootError = Tail(old)
    BY <1>8 DEF BootError, op, old
  <2> DEFINE s == Tail(old)
  <2>2. script' = [script EXCEPT !["boot"] = s] /\ s \in Seq(Op) /\ InOrder(s)
    BY <1>2, <1>5, <2>1
  <2> HIDE DEF s
  <2>3. Ops("boot")' = {s[i] : i \in 1..Len(s)}
    BY <1>1, <1>2, <1>3, <2>2, NewScript
  <2>4. Ops("boot") = {op} \cup Ops("boot")'
        /\ \A p \in Ops("boot")' : op = Remove("bootn") => p # Remove("pending")
    BY <1>5, <1>6, <2>3 DEF s
  <2> HIDE DEF Remove, Move, Exit, Write
  <2>5. Remove("pending") \in Ops("boot")' => Remove("bootn") \in Ops("boot")'
    BY <1>3, <2>4 DEF BootInv
  <2>6. mishaps' = 0 /\ files["pending"] = Absent /\ Remove("bootn") \in Ops("boot") =>
          Remove("bootn") \in Ops("boot")'
    BY <1>2, <1>7, <2>4
  <2>7. \A p \in Ops("boot")' : p \in Ops("boot")
    BY <2>4
  <2> QED BY <1>1, <1>2, <2>2, <2>5, <2>6, <2>7, GuardGoesOn
<1>9. CASE op = Move("old", "exe") /\ product = "node"
  <2> DEFINE s == <<Move("bad", "exe"), Remove("pending"), Remove("bootn")>>
  <2>1. BootError = s
    BY <1>9, RollbackIs DEF BootError, op, old
  <2>2. s \in Seq(Op) /\ InOrder(s)
    <3>1. "pending" \in File \ {"exe"} /\ "bootn" \in File \ {"exe"}
      BY DEF File
    <3>2. Move("bad", "exe") \in Op
      BY DEF Op, RollbackMoves
    <3>3. Remove("pending") \in Op /\ Remove("bootn") \in Op
      <4> HIDE DEF Remove, File
      <4> QED BY <3>1, WriteIsOp
    <3>4. s \in Seq(Op)
      <4> HIDE DEF Remove, Move
      <4> QED BY <3>2, <3>3
    <3>5. /\ Move("bad", "exe") # Exit /\ Move("bad", "exe") # Move("old", "exe")
          /\ Move("bad", "exe") # Remove("bootn") /\ Remove("pending") # Remove("bootn")
          /\ \A f : Remove(f) # Exit /\ Remove(f) # Move("old", "exe")
      BY DEF Move, Exit, Remove, Write
    <3>6. \A i \in 1..3 : i \in {1, 2, 3} /\ s[i] # Exit /\ s[i] # Move("old", "exe")
                          /\ (s[i] = Remove("bootn") => i = 3)
      <4> HIDE DEF Remove, Move, Exit
      <4> QED BY <3>5
    <3>7. Len(s) = 3 /\ \A i, j \in 1..3 : i < j => i # 3
      OBVIOUS
    <3> HIDE DEF s
    <3> QED BY <3>4, <3>6, <3>7 DEF InOrder
  <2>3. s[3] = Remove("bootn") /\ 3 \in 1..Len(s)
        /\ \A i \in 1..Len(s) : s[i] \in {Move("bad", "exe"), Remove("pending"), Remove("bootn")}
    <3> HIDE DEF Remove, Move
    <3> QED OBVIOUS
  <2>4. script' = [script EXCEPT !["boot"] = s]
    BY <1>2, <2>1
  <2> HIDE DEF s, Remove, Move, Exit, Write
  <2>5. Ops("boot")' = {s[i] : i \in 1..Len(s)}
    BY <1>1, <1>2, <1>3, <2>2, <2>4, NewScript
  <2>6. Remove("bootn") \in Ops("boot")'
        /\ \A p \in Ops("boot")' : p \in {Move("bad", "exe"), Remove("pending"), Remove("bootn")}
    BY <2>3, <2>5
  <2>7. ~OnlyWrites("boot")
    BY <1>5, <1>6, <1>7, <1>9 DEF OnlyWrites
  <2> QED BY <1>1, <1>2, <2>2, <2>4, <2>6, <2>7, GuardGoesOn
<1>10. CASE op = Move("old", "exe") /\ product = "bridge"
  <2> DEFINE s == <<>>
  <2>1. BootError = s
    BY <1>10 DEF BootError, op, old
  <2>2. s \in Seq(Op) /\ InOrder(s)
    BY EmptyOps
  <2>3. script' = [script EXCEPT !["boot"] = s] /\ Len(s) = 0
    BY <1>2, <2>1
  <2> HIDE DEF s, Remove, Move, Exit, Write
  <2>4. Ops("boot")' = {s[i] : i \in 1..Len(s)}
    BY <1>1, <1>2, <1>3, <2>2, <2>3, NewScript
  <2>5. Ops("boot")' = {}
    BY <2>3, <2>4
  <2>6. Remove("bootn") \notin Ops("boot")
    BY <1>5, <1>6, <1>7, <1>10
  <2> QED BY <1>1, <1>2, <2>2, <2>3, <2>5, <2>6, GuardGoesOn
<1> QED BY <1>3, <1>8, <1>9, <1>10

(* An operation of the confirmation fails.                                 *)
LEMMA WatchFailsKeepsHealInv ==
  ASSUME HealInv, OpFails("watch")
  PROVE  HealInv'
<1> DEFINE op == Head(script["watch"])
           s == Tail(script["watch"])
<1>1. "watch" \in Thread /\ "watch" \in {"boot", "watch"}
  BY DEF Thread
<1>2. /\ UNCHANGED <<product, windows, quality, dataOK, files, phase, run, watch, guarded, overlap>>
      /\ script["watch"] # <<>>
      /\ mishaps' \in Nat /\ mishaps' >= mishaps
      /\ mishaps' = 0 => mishaps = 0 /\ op.kind = "move"
      /\ script' = [script EXCEPT !["watch"] = s]
  BY <1>1, FailIs DEF ErrorIn
<1>3. ProcessInv /\ BootInv
  BY DEF HealInv
<1>4. /\ op \in Ops("watch")
      /\ Ops("watch") = {op} \cup Ops("watch")'
      /\ \A p \in Ops("watch")' : op = Remove("bootn") => p # Remove("pending")
  BY <1>1, <1>2, <1>3, TailScript
<1>5. s \in Seq(Op) /\ InOrder(s)
  BY <1>1, <1>2, <1>3, TailOfScript DEF ProcessInv
<1>6. op.kind = "write"
  BY <1>3, <1>4 DEF BootInv, OnlyWrites
<1> HIDE DEF op, s, Op, Remove
<1>7. Remove("pending") \in Ops("watch")' => Remove("bootn") \in Ops("watch")'
  BY <1>3, <1>4 DEF BootInv
<1>8. mishaps' # 0
  BY <1>2, <1>6
<1>9. \A p \in Ops("watch")' : p \in Ops("watch")
  BY <1>4
<1> QED BY <1>1, <1>2, <1>5, <1>7, <1>8, <1>9, GuardGoesOn

(* What is left of an update after an error. *)
LEMMA UpdateErrorIs ==
  ASSUME HealInv, OpFails("update")
  PROVE  LET op == Head(script["update"])
         IN  /\ ProcessInv' /\ script'["boot"] = script["boot"] /\ script'["watch"] = script["watch"]
             /\ Ops("boot")' = Ops("boot") /\ Ops("watch")' = Ops("watch")
             /\ \A p \in Ops("update")' : p \in Ops("update") \/ p = Move("old", "exe")
             /\ \/ op = Move("new", "exe") /\ script'["update"] = <<Move("old", "exe")>>
                \/ (op.kind \in {"copy", "move"} \/ op.to = "new") /\ script'["update"] = <<>>
                \/ /\ op.kind \notin {"copy", "move"} /\ op.to # "new"
                   /\ script'["update"] = Tail(script["update"])
<1> DEFINE op == Head(script["update"])
           s == ErrorIn("update")
<1>1. "update" \in Thread /\ "boot" \in Thread /\ "watch" \in Thread
  BY DEF Thread
<1>2. /\ UNCHANGED <<product, windows, quality, dataOK, files, phase, run, watch, guarded, overlap>>
      /\ script["update"] # <<>> /\ mishaps' \in Nat
      /\ script' = [script EXCEPT !["update"] = s]
  BY <1>1, FailIs
<1>3. \/ s = <<Move("old", "exe")>> /\ op = Move("new", "exe")
      \/ s = <<>> /\ (op.kind \in {"copy", "move"} \/ op.to = "new")
      \/ s = Tail(script["update"]) /\ op.kind \notin {"copy", "move"} /\ op.to # "new"
  BY DEF ErrorIn, AfterError
<1>4. ProcessInv
  BY DEF HealInv
<1>5. /\ Tail(script["update"]) \in Seq(Op) /\ InOrder(Tail(script["update"]))
      /\ Ops("update") = {op} \cup {Tail(script["update"])[i] : i \in 1..Len(Tail(script["update"]))}
  <2> DEFINE r == script["update"]
  <2>1. r \in Seq(Op) /\ r # <<>> /\ InOrder(r) /\ Ops("update") = {r[i] : i \in 1..Len(r)}
    BY <1>1, <1>2, <1>4 DEF ProcessInv, Ops
  <2> HIDE DEF r
  <2>2. /\ Tail(r) \in Seq(Op) /\ InOrder(Tail(r))
        /\ Ops("update") = {Head(r)} \cup {Tail(r)[i] : i \in 1..Len(Tail(r))}
    BY <2>1, TailOfScript
  <2> QED BY <2>2 DEF r
<1>6. <<Move("old", "exe")>> \in Seq(Op) /\ InOrder(<<Move("old", "exe")>>)
  <2>1. Move("old", "exe") \in Op
    BY DEF Op, RollbackMoves
  <2> HIDE DEF Op, Move
  <2>2. Len(<<Move("old", "exe")>>) = 1 /\ \A i, j \in 1..1 : ~(i < j)
    OBVIOUS
  <2> QED BY <2>1, <2>2 DEF InOrder
<1>7. \A i \in 1..Len(<<Move("old", "exe")>>) : <<Move("old", "exe")>>[i] = Move("old", "exe")
  OBVIOUS
<1> HIDE DEF op, s, Op, Move
<1>8. s \in Seq(Op) /\ InOrder(s)
  BY <1>3, <1>5, <1>6, EmptyOps
<1>9. /\ script' = [u \in Thread |-> script'[u]]
      /\ \A u \in Thread : script'[u] \in Seq(Op) /\ InOrder(script[u])'
      /\ script'["update"] = s
      /\ \A u \in Thread : u # "update" => script'[u] = script[u] /\ Ops(u)' = Ops(u)
      /\ Ops("update")' = {s[i] : i \in 1..Len(s)}
  BY <1>1, <1>2, <1>4, <1>8, NewScript
<1>10. /\ script'["boot"] = script["boot"] /\ script'["watch"] = script["watch"]
       /\ Ops("boot")' = Ops("boot") /\ Ops("watch")' = Ops("watch")
  BY <1>1, <1>9
<1>11. ProcessInv'
  <2> HIDE DEF Thread
  <2> QED BY <1>1, <1>2, <1>4, <1>9, <1>10 DEF ProcessInv
<1>12. \A p \in Ops("update")' : p \in Ops("update") \/ p = Move("old", "exe")
  <2>1. CASE s = <<Move("old", "exe")>>
    BY <1>7, <1>9, <2>1
  <2>2. CASE s = <<>>
    <3>1. Len(<<>>) = 0 /\ 1..0 = {}
      OBVIOUS
    <3> QED BY <1>9, <2>2, <3>1
  <2>3. CASE s = Tail(script["update"])
    BY <1>5, <1>9, <2>3
  <2> QED BY <1>3, <2>1, <2>2, <2>3
<1>13. \/ op = Move("new", "exe") /\ script'["update"] = <<Move("old", "exe")>>
       \/ (op.kind \in {"copy", "move"} \/ op.to = "new") /\ script'["update"] = <<>>
       \/ /\ op.kind \notin {"copy", "move"} /\ op.to # "new"
          /\ script'["update"] = Tail(script["update"])
  BY <1>3, <1>9
<1> QED BY <1>10, <1>11, <1>12, <1>13 DEF op

(* An operation of an update fails.                                        *)
LEMMA UpdateFailsKeepsHealInv ==
  ASSUME HealInv, OpFails("update")
  PROVE  HealInv'
<1> DEFINE op == Head(script["update"])
<1>1. "update" \in Thread /\ "boot" \in Thread /\ "watch" \in Thread
  BY DEF Thread
<1>2. /\ UNCHANGED <<product, windows, quality, dataOK, files, phase, run, watch, guarded, overlap>>
      /\ script["update"] # <<>> /\ mishaps' \in Nat /\ mishaps' >= mishaps
      /\ mishaps' = 0 => mishaps = 0 /\ op.kind = "move"
  BY <1>1, FailIs
<1>3. /\ ProcessInv' /\ script'["boot"] = script["boot"] /\ script'["watch"] = script["watch"]
      /\ Ops("boot")' = Ops("boot") /\ Ops("watch")' = Ops("watch")
      /\ \A p \in Ops("update")' : p \in Ops("update") \/ p = Move("old", "exe")
      /\ \/ op = Move("new", "exe") /\ script'["update"] = <<Move("old", "exe")>>
         \/ (op.kind \in {"copy", "move"} \/ op.to = "new") /\ script'["update"] = <<>>
         \/ /\ op.kind \notin {"copy", "move"} /\ op.to # "new"
            /\ script'["update"] = Tail(script["update"])
  BY UpdateErrorIs
<1>4. ProcessInv /\ FilesInv /\ UpdateInv /\ BinaryInv /\ BlameInv
  BY DEF HealInv
<1> HIDE DEF op
<1>5. /\ Move("old", "exe").kind = "move" /\ Move("old", "exe").to = "exe"
      /\ Move("new", "exe").kind = "move" /\ Move("new", "exe") # Move("old", "exe")
      /\ Copy("exe", "old").kind = "copy" /\ Move("exe", "old").kind = "move"
      /\ \A f : Remove(f) = Write(f, Absent)
      /\ \A f, v : /\ Write(f, v).kind = "write" /\ Write(f, v).to = f
                   /\ \A g, h : Write(f, v) # Move(g, h)
      /\ Exit.kind = "exit" /\ Exit.to = "exe" /\ Move("exe", "old") # Move("new", "exe")
      /\ Copy("exe", "old") # Move("new", "exe") /\ Exit # Move("new", "exe")
  BY DEF Move, Remove, Write, Copy, Exit
<1> HIDE DEF Move, Remove, Write, Copy, Exit, Op
<1>6. BinaryInv'
  BY <1>2, <1>3, <1>4 DEF BinaryInv
<1>7. ~overlap => CountsAreRemoved'
  <2>1. mishaps' = 0 => mishaps = 0
    BY <1>2
  <2> QED BY <1>2, <1>3, <1>4, <2>1 DEF BlameInv, CountsAreRemoved
<1>8. ASSUME ~overlap
      PROVE  UpdateInv' /\ (script'["update"] = <<>> => files["pending"] = Absent)
  <2>1. script["watch"] = <<>> /\ watch = "none"
    BY <1>2, <1>4, <1>8 DEF UpdateInv
  <2>2. CASE script["update"] = <<Move("old", "exe")>> /\ files["pending"] = Absent
    <3>1. op = Move("old", "exe")
      <4>1. Head(<<Move("old", "exe")>>) = Move("old", "exe")
        OBVIOUS
      <4> QED BY <2>2, <4>1 DEF op
    <3>2. script'["update"] = <<>>
      BY <1>3, <1>5, <3>1
    <3> QED BY <2>2, <3>2 DEF UpdateInv
  <2>3. ASSUME NEW m \in Version, NEW k \in 1..8, Left(m, k)
        PROVE  UpdateInv' /\ (script'["update"] = <<>> => files["pending"] = Absent)
    <3>1. LeftOf(script["update"], UpdateOps(m), k) /\ script["update"] \in Seq(Op)
          /\ InOrder(script["update"])
      BY <1>1, <1>4, <2>3 DEF Left, ProcessInv
    <3>2. /\ op = UpdateOps(m)[k] /\ LeftOf(Tail(script["update"]), UpdateOps(m), k + 1)
          /\ Tail(script["update"]) = <<>> <=> k = 8
      BY <1>2, <3>1, LeftAdvances DEF op
    <3>3. /\ k = 1 => op = Remove("new")
          /\ k = 2 => op = Write("new", m)
          /\ k = 3 => op = Remove("old")
          /\ k = 4 => op = Move("exe", "old") \/ op = Copy("exe", "old")
          /\ k = 5 => op = Move("new", "exe")
          /\ k = 6 => op = Write("pending", m)
          /\ k = 7 => op = Write("bootn", 0)
          /\ k = 8 => op = Exit
      BY <3>2, UpdateOpsTable
    <3>4. k # 8
      <4>1. op # Exit
        BY <1>1, FailIs DEF op
      <4> QED BY <3>3, <4>1
    <3>5. k \in {1, 2, 3, 4, 5, 6, 7}
      BY <3>4
    <3>6. CASE k \in {1, 2, 4, 5}
      <4>1. files["pending"] = Absent
        BY <2>3, <3>6 DEF Left
      <4>2. script'["update"] = <<>> \/ script'["update"] = <<Move("old", "exe")>>
        BY <1>3, <1>5, <3>3, <3>6
      <4> QED BY <1>2, <1>3, <2>1, <4>1, <4>2 DEF UpdateInv
    <3>7. CASE k \in {3, 6, 7}
      <4>1. op.kind = "write" /\ op.to # "new" /\ op # Move("new", "exe")
        BY <1>5, <3>3, <3>7
      <4>2. script'["update"] = Tail(script["update"]) /\ script'["update"] # <<>>
        BY <1>3, <3>2, <3>4, <4>1
      <4>3. mishaps' # 0 /\ (mishaps' <= 1 => mishaps = 0)
        <5>1. mishaps' # 0
          BY <1>2, <4>1
        <5>2. mishaps' = mishaps + 1
          <6>1. ~Refused(op)
            BY <4>1 DEF Refused
          <6> QED BY <6>1 DEF OpFails, op
        <5>3. mishaps \in Nat
          BY <1>4 DEF ProcessInv
        <5> QED BY <5>1, <5>2, <5>3
      <4>4. LeftOf(script["update"], UpdateOps(m), k + 1)'
        <5>1. UpdateOps(m)' = UpdateOps(m)
          BY <1>2 DEF UpdateOps
        <5> QED BY <3>2, <4>2, <5>1 DEF LeftOf
      <4>5. /\ k <= 4 => files["exe"] # Absent
            /\ k \in 3..5 => files["new"] = m
            /\ k >= 6 => files["exe"] = m
            /\ k <= 6 => files["pending"] = Absent
            /\ k >= 7 => files["pending"] \in {m, Absent}
            /\ k = 7 => (mishaps = 0 => files["bootn"] = 0)
        BY <2>3 DEF Left
      <4>6. Left(m, k + 1)'
        <5>1. /\ k + 1 <= 4 => files'["exe"] # Absent
              /\ k + 1 \in 3..5 => files'["new"] = m
              /\ k + 1 >= 6 => files'["exe"] = m
              /\ k + 1 <= 6 => files'["pending"] = Absent
              /\ k + 1 >= 7 => files'["pending"] \in {m, Absent}
              /\ k + 1 = 7 => (mishaps' = 0 => files'["bootn"] = 0)
              /\ k + 1 = 8 => (mishaps' <= 1 => files'["bootn"] = 0)
          BY <1>2, <3>7, <4>3, <4>5
        <5> QED BY <4>4, <5>1 DEF Left, Few
      <4>7. k + 1 \in 1..8
        BY <3>7
      <4> QED BY <1>2, <1>3, <2>1, <4>2, <4>6, <4>7 DEF UpdateInv
    <3> QED BY <3>5, <3>6, <3>7
  <2> QED BY <1>2, <1>4, <1>8, <2>2, <2>3 DEF UpdateInv
<1>9. UpdateInv'
  BY <1>2, <1>8 DEF UpdateInv
<1>10. Few' /\ ~overlap => PendingIsCounted'
  <2>1. SUFFICES ASSUME ~overlap, Good(files["pending"])' PROVE PendingIsCounted'
    BY DEF PendingIsCounted
  <2>2. files["pending"] # Absent
    BY <1>2, <2>1 DEF Good
  <2>3. script'["update"] # <<>>
    BY <1>8, <2>1, <2>2
  <2>4. files["exe"] = files["pending"]
    <3>1. PICK m \in Version, k \in 1..8 : Left(m, k)
      BY <1>2, <1>4, <2>1, <2>2 DEF UpdateInv
    <3>2. k >= 7
      BY <2>2, <3>1 DEF Left
    <3> QED BY <2>2, <3>1, <3>2 DEF Left
  <2>5. Ops("boot")' = {}
    BY <1>1, <1>2, <1>3, <1>4, EmptyOps DEF ProcessInv
  <2> QED BY <1>2, <2>3, <2>4, <2>5 DEF PendingIsCounted, OnlyWrites
<1>11. ~dataOK => files'["badversion"] = Absent
  BY <1>2, <1>4 DEF BlameInv
<1>12. \A p \in Ops("update")' : p \in Ops("update") \/ (p.kind = "move" /\ p.to # "badversion")
  BY <1>3, <1>5
<1>13. FilesInv'
  BY <1>2, <1>4 DEF FilesInv
<1>14. ~overlap => files'["badversion"] = files["badversion"] /\ files'["suspect"] = files["suspect"]
  BY <1>2
<1>15. HealInv
  OBVIOUS
<1> QED BY <1>2, <1>3, <1>6, <1>7, <1>9, <1>10, <1>11, <1>12, <1>13, <1>14, <1>15, UpdateFrame

-----------------------------------------------------------------------------
(* Processes that die, and the theorems. *)

(* The process ends, however it does.                                      *)
LEMMA DeathKeepsHealInv ==
  ASSUME HealInv, FailToLoad \/ FailToServe \/ Kill \/ UpdateOnceEnds
  PROVE  HealInv'
<1> USE DEF HealInv
<1>1. /\ Stopped /\ UNCHANGED <<world, files, overlap>> /\ mishaps \in Nat
      /\ mishaps' \in {mishaps, mishaps + 1}
  BY DEF FailToLoad, FailToServe, Kill, UpdateOnceEnds, counters, ProcessInv
<1>2. mishaps' \in Nat /\ mishaps' >= mishaps
  BY <1>1
<1>3. mishaps' = mishaps => phase \in {"load", "running", "cli"} /\ (script["update"] = <<>> \/ phase = "running")
  <2>1. CASE FailToLoad
    BY <2>1 DEF FailToLoad, ProcessInv
  <2>2. CASE FailToServe
    BY <2>2 DEF FailToServe
  <2>3. CASE Kill
    BY <1>1, <2>3 DEF Kill
  <2>4. CASE UpdateOnceEnds
    BY <2>4 DEF UpdateOnceEnds
  <2> QED BY <2>1, <2>2, <2>3, <2>4
<1>4. ~overlap /\ mishaps' = 0 /\ files["pending"] = Absent => files["bootn"] = 0
  <2>1. SUFFICES ASSUME ~overlap, mishaps' = 0, files["pending"] = Absent
                 PROVE  files["bootn"] = 0
    OBVIOUS
  <2>2. mishaps' = mishaps /\ mishaps = 0
    BY <1>1, <2>1
  <2>3. phase \in {"load", "running", "cli"}
    BY <1>3, <2>2
  <2>4. Ops("boot") = {}
    BY <2>3, EmptyOps DEF ProcessInv, Thread
  <2>5. Remove("bootn") \notin Ops("watch")
    BY <2>3 DEF BootInv
  <2> QED BY <2>1, <2>2, <2>4, <2>5 DEF BlameInv, CountsAreRemoved
<1>5. ASSUME mishaps' <= 1, ~overlap, dataOK, Good(files["pending"])
      PROVE  files["bootn"] <= mishaps'
  <2>1. Few /\ PendingIsCounted /\ files["pending"] # Absent /\ files["bootn"] \in 0..3
    BY <1>1, <1>5 DEF Few, BlameInv, Good, FilesInv, Counts
  <2>2. script["update"] = <<>> =>
          /\ phase # "cli" /\ (phase # "off" => run = files["pending"])
          /\ files["bootn"] <= mishaps + (IF guarded THEN 1 ELSE 0)
    BY <1>5, <2>1 DEF PendingIsCounted, Counted
  <2>3. CASE FailToLoad
    <3>1. script["update"] = <<>> /\ phase = "load" /\ quality[run] = "crashing"
      BY <1>5, <2>3 DEF FailToLoad, CanLoad, ProcessInv
    <3> QED BY <1>5, <2>2, <3>1 DEF Good
  <2>4. CASE FailToServe
    <3>1. /\ phase = "running" /\ quality[run] = "good"
          /\ mishaps' = IF guarded THEN mishaps + 1 ELSE mishaps
      BY <2>4 DEF FailToServe
    <3>2. script["update"] = <<>>
      BY <3>1 DEF ProcessInv
    <3> QED BY <1>1, <2>1, <2>2, <3>1, <3>2
  <2>5. CASE Kill
    <3>1. mishaps' = mishaps + 1 /\ mishaps = 0
      BY <1>1, <1>5, <2>5 DEF Kill
    <3>2. CASE script["update"] = <<>>
      BY <2>1, <2>2, <3>1, <3>2
    <3>3. CASE script["update"] # <<>>
      <4>1. PICK m \in Version, k \in 1..8 : Left(m, k)
        BY <1>5, <2>1, <3>3 DEF UpdateInv
      <4>2. k \in {7, 8}
        BY <2>1, <4>1 DEF Left
      <4>3. files["bootn"] = 0
        BY <2>1, <3>1, <4>1, <4>2 DEF Left
      <4> QED BY <3>1, <4>3
    <3> QED BY <3>2, <3>3
  <2>6. CASE UpdateOnceEnds
    BY <2>2, <2>6 DEF UpdateOnceEnds
  <2> QED BY <2>3, <2>4, <2>5, <2>6
<1> HIDE DEF HealInv
<1>6. HealInv
  OBVIOUS
<1> QED BY <1>1, <1>2, <1>4, <1>5, <1>6, StoppedKeepsHealInv

(* Every step keeps the invariant.                                         *)
LEMMA HealInvStep == HealInv /\ [UpdateNext]_updateVars => HealInv'
<1> SUFFICES ASSUME HealInv, [UpdateNext]_updateVars PROVE HealInv'
  OBVIOUS
<1> USE DEF world, process, counters
<1>1. CASE Start
  BY <1>1, StartKeepsHealInv
<1>2. CASE GuardReturns
  <2>1. /\ UNCHANGED <<world, files, run, script, watch, guarded, overlap, mishaps>>
        /\ phase = "boot" /\ script["boot"] = <<>> /\ phase' = "load"
    BY <1>2 DEF GuardReturns
  <2> QED BY <2>1, PhaseKeepsHealInv
<1>3. CASE Load
  <2>1. /\ UNCHANGED <<world, files, run, script, watch, guarded, overlap, mishaps>>
        /\ phase = "load" /\ dataOK /\ phase' = "running"
    BY <1>3 DEF Load, CanLoad
  <2> QED BY <2>1, PhaseKeepsHealInv
<1>4. CASE Serve
  <2>1. /\ UNCHANGED <<world, files, run, script, watch, guarded, overlap, mishaps>>
        /\ phase = "running" /\ phase' = "up"
    BY <1>4 DEF Serve
  <2> QED BY <2>1, PhaseKeepsHealInv
<1>5. CASE FailToLoad \/ FailToServe \/ Kill \/ UpdateOnceEnds
  BY <1>5, DeathKeepsHealInv
<1>6. ASSUME NEW t \in Thread, Step(t) PROVE HealInv'
  <2>1. CASE Head(script[t]) = Exit
    BY <1>6, <2>1, ExitKeepsHealInv
  <2>2. CASE Head(script[t]) # Exit
    BY <1>6, <2>2, BootStepKeepsHealInv, WatchStepKeepsHealInv, UpdateStepKeepsHealInv DEF Thread
  <2> QED BY <2>1, <2>2
<1>7. ASSUME NEW t \in Thread, OpFails(t) PROVE HealInv'
  BY <1>7, BootFailsKeepsHealInv, WatchFailsKeepsHealInv, UpdateFailsKeepsHealInv DEF Thread
<1>8. CASE ConfirmHealthy \/ ConfirmTimesOut
  BY <1>8, ConfirmKeepsHealInv
<1>9. ASSUME NEW m \in Version, ApplyManifest(m) \/ RunUpdateOnce(m) PROVE HealInv'
  BY <1>9, ApplyKeepsHealInv
<1>10. CASE SetAutoUpdate
  BY <1>10, SwitchKeepsHealInv
<1>11. CASE EnvBreaks \/ EnvHeals \/ UNCHANGED updateVars
  <2>1. UNCHANGED <<world, files, run, script, watch, guarded, overlap, mishaps, phase>>
    BY <1>11 DEF EnvBreaks, EnvHeals, updateVars
  <2> QED BY <2>1, PhaseKeepsHealInv
<1> QED
  BY <1>1, <1>2, <1>3, <1>4, <1>5, <1>6, <1>7, <1>8, <1>9, <1>10, <1>11 DEF UpdateNext, Main

(* It holds of every behaviour.                                            *)
LEMMA HealInvAlways == UpdateSpec => []HealInv
<1>1. UpdateInit => HealInv
  BY HealInvInit
<1>2. HealInv /\ [UpdateNext]_updateVars => HealInv'
  BY HealInvStep
<1> QED BY <1>1, <1>2, PTL DEF UpdateSpec

(* Whatever is interrupted, killed or refused, and in whatever order the   *)
(* guard, the confirmation and an update work on the files: the marker     *)
(* files are well formed and a release that can be put back is on disk,    *)
(* unless an update ran over a release not yet confirmed, or none.         *)
THEOREM BinaryAlwaysSound == UpdateSpec => []BinarySound
<1>1. HealInv => BinarySound
  <2>1. SUFFICES ASSUME HealInv PROVE BinarySound
    OBVIOUS
  <2>2. UpdateTypeOK
    <3>1. /\ DOMAIN files = File
          /\ \A f \in {"exe", "old", "pending"} : files[f] \in Version \cup {Absent}
          /\ \A f \in {"bootn", "confirmn"} : files[f] \in 0..3
      BY <2>1 DEF HealInv, FilesInv, Markers, Counts, Release
    <3>2. (run = Absent) = (phase = "off") /\ watch \in {"none", "watch", "confirm", "recover"}
      BY <2>1 DEF HealInv, ProcessInv
    <3> QED BY <3>1, <3>2 DEF UpdateTypeOK, NodeMaxBadBoots
  <2>3. BinaryNeverLost
    BY <2>1 DEF HealInv, BinaryInv, BinaryNeverLost
  <2> QED BY <2>2, <2>3 DEF BinarySound
<1> QED BY <1>1, HealInvAlways, PTL

(* A good release is not blacklisted by the loss of one boot, nor by one   *)
(* file operation that fails, nor by bad data, however long.               *)
THEOREM GoodReleaseAlwaysKept == UpdateSpec => []GoodReleaseKept
<1>1. HealInv => GoodReleaseKept
  <2>1. SUFFICES ASSUME HealInv, files["badversion"] # Absent, quality[files["badversion"]] = "good"
                 PROVE  overlap \/ mishaps > 1
    BY DEF GoodReleaseKept
  <2>2. mishaps \in Nat
    BY <2>1 DEF HealInv, ProcessInv
  <2>3. dataOK
    BY <2>1 DEF HealInv, BlameInv
  <2>4. Good(files["badversion"])
    BY <2>1 DEF Good
  <2>5. ~(Few /\ ~overlap)
    BY <2>1, <2>3, <2>4 DEF HealInv, BlameInv
  <2> QED BY <2>2, <2>5 DEF Few
<1> QED BY <1>1, HealInvAlways, PTL

=============================================================================
