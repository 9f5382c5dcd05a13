------------------------------- MODULE Stratum -------------------------------
(***************************************************************************)
(* The Stratum bridge (cmd/cereblix-stratum/main.go): one miner connection *)
(* with its two threads, the request handler and the poller, the template  *)
(* fetcher that all pool connections share, and the backend behind HTTP: a *)
(* node (solo) or a pool.  Other connections appear through what they do   *)
(* to the shared template.                                                 *)
(*                                                                         *)
(* A template is a number; built[n] is the tip it builds on.  A job pins   *)
(* the connection id and the extranonce of an address into the nonce.      *)
(***************************************************************************)
EXTENDS Naturals, Sequences, FiniteSets

CONSTANTS
  Addr,         \* payout addresses the miner logs in with
  Others,       \* payout addresses of other connections
  NoAddr,
  Target,       \* share targets vardiff moves between
  Easiest,      \* the one a connection starts with
  MaxJobs,      \* job ids a connection remembers (33)
  MaxAttempts,  \* submitMaxAttempts
  WireCap,      \* capacity of the socket buffer, in messages
  MaxTemplates, MaxTips, MaxLogins, MaxFinds, MaxFaults, MaxConns,  \* bounds
  MaxTunes      \* bound: vardiff changes

ASSUME StratumAssumption ==
  /\ NoAddr \notin Addr \cup Others
  /\ Easiest \in Target
  /\ {MaxJobs, MaxAttempts, WireCap, MaxTips} \subseteq Nat \ {0}

VARIABLES
  solo,       \* -solo: the backend is a node
  built,      \* templates of the backend, oldest first: their tips
  shared,     \* sharedWork and lastAddr of the pool mode
  conn,       \* what the bridge keeps of the connection
  handler,    \* the request being handled
  poller,     \* the poll under way
  wire,       \* messages to the miner in the socket buffer
  alive,      \* the link still carries packets
  inbox,      \* requests of the miner not read yet
  mining,     \* the job the miner works on
  count,      \* bounded counters
  replaced,   \* history: templates whose id this connection no longer has
  lost        \* history: templates of its found blocks that were not taken

bridge == <<shared, conn, handler, poller>>
network == <<wire, alive, inbox, mining>>
history == <<replaced, lost>>
vars == <<solo, built, bridge, network, count, history>>

Latest == Len(built)
Tip == built[Latest]
NoWork == [n |-> 0, addr |-> NoAddr]   \* poolWork: template, extranonce's address
NoJob == [n |-> 0, ex |-> NoAddr, cid |-> 0, tgt |-> Easiest]

Fresh(cid) ==
  [cid |-> cid, names |-> {}, open |-> TRUE, addr |-> NoAddr, ex |-> NoAddr, cur |-> 0,
   jobs |-> <<>>, tgt |-> Easiest, header |-> 0, diff |-> Easiest]

IdleHandler == [pc |-> "read"]
IdlePoller == [pc |-> "tick"]

Init ==
  /\ solo \in BOOLEAN
  /\ built = <<1>>
  /\ shared = [work |-> NoWork, addr |-> NoAddr]
  /\ conn = Fresh(1)
  /\ handler = IdleHandler /\ poller = IdlePoller
  /\ wire = <<>> /\ alive = TRUE /\ inbox = <<>> /\ mining = NoJob
  /\ count = [logins |-> 0, finds |-> 0, faults |-> 0, tunes |-> 0]
  /\ replaced = {} /\ lost = {}

Fault == count.faults < MaxFaults /\ count' = [count EXCEPT !.faults = @ + 1]

-----------------------------------------------------------------------------
(* The backend. *)

NewTemplate ==
  /\ Latest < MaxTemplates
  /\ \E t \in {Tip, Tip + 1} : t <= MaxTips /\ built' = Append(built, t)
  /\ UNCHANGED <<solo, bridge, network, count, history>>

(* getwork for an address: a node binds the work to it, a pool only the    *)
(* extranonce.                                                             *)
Work(a) == [n |-> Latest, addr |-> a]

-----------------------------------------------------------------------------
(* The shared template of the pool mode. *)

FetchShared ==
  /\ ~solo /\ shared.addr # NoAddr
  /\ shared.work # Work(shared.addr)
  /\ shared' = [shared EXCEPT !.work = Work(shared.addr)]
  /\ UNCHANGED <<solo, built, conn, handler, poller, network, count, history>>

(* A login fetches for its own address, which the fetcher uses from then   *)
(* on, and seeds the shared template only if there is none.                *)
SeedShared(w, a) ==
  IF solo THEN shared
  ELSE [addr |-> a, work |-> IF shared.work = NoWork THEN w ELSE shared.work]

OtherLogin(a) ==
  /\ ~solo
  /\ shared' = SeedShared(Work(a), a)
  /\ UNCHANGED <<solo, built, conn, handler, poller, network, count, history>>

-----------------------------------------------------------------------------
(* Jobs. *)

(* jobFromWork: a pool's job carries the extranonce of the connection, for *)
(* the shared work may be another address's.                               *)
ExtranonceOfWork(w, ex) == w.addr                      \* faulty variant
Extranonce(w, ex) == IF solo THEN w.addr ELSE ex

(* The backend's id: the node's verbatim, the pool's for this miner.       *)
IdFor(w, a) == [n |-> w.n, addr |-> IF solo THEN w.addr ELSE a]

Job(w, ex) ==
  [n |-> w.n, ex |-> Extranonce(w, ex), cid |-> conn.cid, tgt |-> conn.diff]

(* setJob: one backend id per job id, and the job id is the tip's hash.    *)
Remember(jobs, t, id) ==
  LET kept == IF Cardinality(DOMAIN jobs) >= MaxJobs THEN <<>> ELSE jobs
  IN  [k \in DOMAIN kept \cup {t} |-> IF k = t THEN id ELSE kept[k]]

SetJob(c, w, ex, a) ==
  [c EXCEPT !.jobs = Remember(@, built[w.n], IdFor(w, a)),
            !.cur = built[w.n], !.ex = ex, !.tgt = c.diff, !.header = w.n]

(* Templates whose id a setJob overwrites or drops. *)
OnFile(c) == {c.jobs[t].n : t \in DOMAIN c.jobs}

CanSend == Len(wire) < WireCap

-----------------------------------------------------------------------------
(* The handler: handleConn reads a request and answers it before the next. *)

ReadLogin ==
  /\ conn.open /\ handler.pc = "read"
  /\ inbox # <<>> /\ Head(inbox).kind = "login"
  /\ inbox' = Tail(inbox)
  /\ conn' = [conn EXCEPT !.addr = Head(inbox).addr,
                        !.names = @ \cup {Head(inbox).addr}]  \* names: history
  /\ handler' = [pc |-> "fetch"]
  /\ UNCHANGED <<solo, built, shared, poller, wire, alive, mining, count, history>>

LoginFetches ==
  /\ handler.pc = "fetch"
  /\ handler' = [pc |-> "install", w |-> Work(conn.addr)]
  /\ UNCHANGED <<solo, built, shared, conn, poller, network, count, history>>

(* "pool backend unavailable": the connection stays. *)
LoginFetchFails ==
  /\ handler.pc = "fetch" /\ CanSend
  /\ Fault
  /\ wire' = Append(wire, [kind |-> "refused"])
  /\ handler' = IdleHandler
  /\ UNCHANGED <<solo, built, shared, conn, poller, alive, inbox, mining, history>>

LoginInstalls ==
  /\ handler.pc = "install" /\ CanSend
  /\ LET w == handler.w
     IN  /\ shared' = SeedShared(w, conn.addr)
         /\ conn' = SetJob(conn, w, w.addr, conn.addr)
         /\ replaced' = replaced \cup (OnFile(conn) \ OnFile(conn'))
         /\ wire' = Append(wire, [kind |-> "job", job |-> Job(w, w.addr)])
  /\ handler' = IdleHandler
  /\ UNCHANGED <<solo, built, poller, alive, inbox, mining, count, lost>>

(* The full nonce: the miner's bits, the connection id, the extranonce.    *)
NonceWithoutConnection(find) ==                        \* faulty variant
  [find EXCEPT !.cid = 0, !.ex = conn.ex]
Nonce(find) == [find EXCEPT !.cid = conn.cid, !.ex = conn.ex]

(* The id on file for the miner's job id, else that of the current job.    *)
IdOf(t) == IF t \in DOMAIN conn.jobs THEN conn.jobs[t] ELSE conn.jobs[conn.cur]

ReadSubmit ==
  /\ conn.open /\ handler.pc = "read"
  /\ inbox # <<>> /\ Head(inbox).kind = "submit"
  /\ inbox' = Tail(inbox)
  /\ LET find == Head(inbox).find
     IN  handler' = [pc |-> "post", id |-> IdOf(built[find.n]), found |-> find,
                     nonce |-> Nonce(find), tgt |-> conn.tgt, tries |-> 0]
  /\ UNCHANGED <<solo, built, shared, conn, poller, wire, alive, mining, count, history>>

(* What the backend makes of it: it knows the templates of its tip, and    *)
(* hashes the template of the id with the nonce.                           *)
Known(id) == built[id.n] = Tip
Solves == /\ handler.id.n = handler.found.n
          /\ handler.nonce = handler.found
Block == handler.found.block

(* A found block whose template is still good and that is not taken.       *)
Loses == Block /\ built[handler.found.n] = Tip

Answered(msg) == handler' = [pc |-> "answer", msg |-> msg]

BackendTakesBlock ==
  /\ handler.pc = "post"
  /\ Known(handler.id) /\ Solves /\ Block
  /\ built' = IF Tip < MaxTips /\ Latest < MaxTemplates
              THEN Append(built, Tip + 1) ELSE built
  /\ Answered("ok")
  /\ UNCHANGED <<solo, shared, conn, poller, network, count, history>>

(* Stale, duplicate, low difficulty, insufficient work: acknowledged too.  *)
BackendRefuses ==
  /\ handler.pc = "post"
  /\ ~(Known(handler.id) /\ Solves /\ Block)
  /\ lost' = IF Loses THEN lost \cup {handler.found.n} ELSE lost
  /\ Answered("ok")
  /\ UNCHANGED <<solo, built, shared, conn, poller, network, count, replaced>>

(* submitOnce fails in a transient way: a pool submit is repeated.         *)
PostFails ==
  /\ handler.pc = "post"
  /\ Fault
  /\ IF ~solo /\ handler.tries + 1 < MaxAttempts
     THEN handler' = [handler EXCEPT !.tries = @ + 1]
     ELSE Answered("error")
  /\ UNCHANGED <<solo, built, shared, conn, poller, network, history>>

(* onSoloShare, then the answer. *)
Answer ==
  /\ handler.pc = "answer" /\ CanSend
  /\ \E d \in Target :
       /\ d # conn.diff => count.tunes < MaxTunes
       /\ conn' = [conn EXCEPT !.diff = d]
       /\ count' = [count EXCEPT !.tunes = IF d # conn.diff THEN @ + 1 ELSE @]
  /\ wire' = Append(wire, [kind |-> handler.msg])
  /\ handler' = IdleHandler
  /\ UNCHANGED <<solo, built, shared, poller, alive, inbox, mining, history>>

-----------------------------------------------------------------------------
(* The poller. *)

PollSnapshot ==
  /\ conn.open /\ poller.pc = "tick"
  /\ conn.cur # 0
  /\ poller' = [pc |-> "fetch", addr |-> conn.addr, ex |-> conn.ex]
  /\ UNCHANGED <<solo, built, shared, conn, handler, network, count, history>>

PollFetches ==
  /\ poller.pc = "fetch"
  /\ LET w == IF solo THEN Work(poller.addr) ELSE shared.work
     IN  poller' = IF w = NoWork THEN IdlePoller
                   ELSE [pc |-> "push", addr |-> poller.addr, ex |-> poller.ex, w |-> w]
  /\ UNCHANGED <<solo, built, shared, conn, handler, network, count, history>>

PollFails ==
  /\ solo /\ poller.pc = "fetch"
  /\ Fault
  /\ poller' = IdlePoller
  /\ UNCHANGED <<solo, built, shared, conn, handler, network, history>>

(* Why a job is pushed: a new tip, a new share target, a new header.       *)
ReasonByTip(w) == built[w.n] # conn.cur \/ conn.diff # conn.tgt   \* faulty variant
Reason(w) == \/ built[w.n] # conn.cur
             \/ conn.diff # conn.tgt
             \/ w.n # conn.header

PollPushes ==
  /\ poller.pc = "push"
  /\ LET w == poller.w
     IN  /\ conn' = SetJob(conn, w, poller.ex, poller.addr)
         /\ replaced' = replaced \cup (OnFile(conn) \ OnFile(conn'))
         /\ IF Reason(w)
            THEN /\ CanSend
                 /\ wire' = Append(wire, [kind |-> "job", job |-> Job(w, poller.ex)])
            ELSE UNCHANGED wire
  /\ poller' = IdlePoller
  /\ UNCHANGED <<solo, built, shared, handler, alive, inbox, mining, count, lost>>

-----------------------------------------------------------------------------
(* The miner and the link. *)

Deliver ==
  /\ conn.open /\ alive /\ wire # <<>>
  /\ mining' = IF Head(wire).kind = "job" THEN Head(wire).job ELSE mining
  /\ wire' = Tail(wire)
  /\ UNCHANGED <<solo, built, bridge, alive, inbox, count, history>>

Quiet == conn.open /\ alive /\ inbox = <<>>

(* The first login, a repeated one after a refusal, or one more. *)
Login(a) ==
  /\ Quiet
  /\ conn.cur # 0 => count.logins < MaxLogins
  /\ count' = [count EXCEPT !.logins = IF conn.cur = 0 THEN @ ELSE @ + 1]
  /\ inbox' = Append(inbox, [kind |-> "login", addr |-> a])
  /\ UNCHANGED <<solo, built, bridge, wire, alive, mining, history>>

Find(block) ==
  /\ Quiet /\ mining # NoJob
  /\ count.finds < MaxFinds
  /\ count' = [count EXCEPT !.finds = @ + 1]
  /\ inbox' = Append(inbox, [kind |-> "submit", find |->
       [n |-> mining.n, ex |-> mining.ex, cid |-> mining.cid,
        tgt |-> mining.tgt, block |-> block]])
  /\ UNCHANGED <<solo, built, bridge, wire, alive, mining, history>>

(* A silent drop: nothing arrives any more, in either direction. *)
LinkDies ==
  /\ conn.open /\ alive
  /\ Fault
  /\ alive' = FALSE
  /\ UNCHANGED <<solo, built, bridge, wire, inbox, mining, history>>

(* The read deadline ends an idle connection, the write timeout one whose  *)
(* buffer is full.                                                         *)
ReadDeadline == handler.pc = "read" /\ inbox = <<>>
WriteTimeout == ~CanSend

Close ==
  /\ conn.open /\ ~alive
  /\ ReadDeadline \/ WriteTimeout
  /\ conn' = [conn EXCEPT !.open = FALSE]
  /\ handler' = IdleHandler /\ poller' = IdlePoller
  /\ wire' = <<>> /\ inbox' = <<>> /\ mining' = NoJob
  /\ UNCHANGED <<solo, built, shared, alive, count, history>>

(* A rig whose link died connects again and logs in. *)
Reconnect(a) ==
  /\ ~conn.open /\ conn.cid < MaxConns
  /\ conn' = Fresh(conn.cid + 1)
  /\ alive' = TRUE
  /\ inbox' = <<[kind |-> "login", addr |-> a]>>
  /\ replaced' = {} /\ lost' = {}
  /\ UNCHANGED <<solo, built, shared, handler, poller, wire, mining, count>>

HandlerStep == \/ ReadLogin \/ LoginFetches \/ LoginInstalls
               \/ ReadSubmit \/ BackendTakesBlock \/ BackendRefuses \/ Answer

PollerStep == PollSnapshot \/ PollFetches \/ PollPushes

Next ==
  \/ NewTemplate \/ FetchShared \/ HandlerStep \/ PollerStep
  \/ LoginFetchFails \/ PostFails \/ PollFails
  \/ Deliver \/ LinkDies \/ Close
  \/ \E a \in Addr : Login(a) \/ Reconnect(a)
  \/ \E a \in Others : OtherLogin(a)
  \/ \E block \in BOOLEAN : Find(block)

(* Goroutines run, tickers tick, packets arrive on a live link, deadlines  *)
(* expire.                                                                 *)
Spec ==
  /\ Init /\ [][Next]_vars
  /\ WF_vars(FetchShared) /\ WF_vars(HandlerStep) /\ WF_vars(PollerStep)
  /\ WF_vars(Deliver) /\ WF_vars(Close)

-----------------------------------------------------------------------------
(* Properties. *)

StratumTypeOK ==
  /\ \A n \in 1..Latest : built[n] \in 1..MaxTips
  /\ Len(wire) <= WireCap
  /\ Cardinality(DOMAIN conn.jobs) <= MaxJobs
  /\ conn.cur # 0 => conn.cur \in DOMAIN conn.jobs /\ conn.addr \in Addr
  /\ \A t \in DOMAIN conn.jobs : built[conn.jobs[t].n] = t
  /\ conn.tgt \in Target /\ conn.diff \in Target
  /\ mining = NoJob \/ mining.n \in 1..Latest

(* A share is submitted under the address whose extranonce it was mined    *)
(* with (else the pool refuses it as "notbound"), as long as the miner     *)
(* logs in under one address per connection.                               *)
SharesBound ==
  handler.pc = "post" /\ Cardinality(conn.names) = 1 =>
    handler.found.ex = handler.id.addr

(* Both: the connection is well formed and binds its shares.                *)
ConnectionSound == StratumTypeOK /\ SharesBound

(* A block found for a template of the current tip reaches the backend as  *)
(* found, unless its id was overwritten by a refreshed template of the     *)
(* same tip or dropped with 32 others (or the miner logged in under        *)
(* another address, or every attempt to post it failed).                   *)
BlockLostOnlyByRefresh == Cardinality(conn.names) = 1 => lost \subseteq replaced

(* "a found block can never be lost here".  Violated: the job id is the    *)
(* tip's hash, so a refreshed template takes the place of the one the      *)
(* miner works on, and its solution is submitted under the newer id.       *)
FoundBlockReachesNode == lost = {}

(* A connected miner ends up on the latest work, through vardiff changes,  *)
(* refreshed templates, failed fetches and silent link drops: "stops       *)
(* solving shares" at full speed cannot last.                              *)
LoggedIn == conn.open /\ conn.cur # 0
MinesLatest == <>[](LoggedIn /\ inbox = <<>> => mining.n = Latest)
=============================================================================
