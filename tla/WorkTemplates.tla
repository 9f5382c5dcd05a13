---------------------------- MODULE WorkTemplates ----------------------------
(***************************************************************************)
(* The mining jobs a node hands to external miners (node/node.go):         *)
(* getTemplate behind /api/getwork and the look-up behind /api/submitwork. *)
(* A call reads the tip before it takes the lock of the job tables, so the *)
(* chain, the mempool and other calls move between its two halves.         *)
(***************************************************************************)
EXTENDS Integers, SequencesExt

CONSTANTS
  Block,         \* blocks that may become the tip
  Genesis,       \* the first tip
  Parent,        \* [Block -> Block]
  Height,        \* [Block -> Nat]
  Caller,        \* concurrent HTTP calls
  AddrOf,        \* [Caller -> payout address it asks for]
  NoBlock,       \* no call under way
  MaxTemplates,  \* capacity of the job table (512)
  MaxMoves,      \* bound: tip changes
  MaxBodies,     \* bound: mempool changes
  MaxErrors      \* bound: template builds that fail

ASSUME TemplateAssumption ==
  /\ Genesis \in Block /\ NoBlock \notin Block
  /\ Parent \in [Block -> Block] /\ Height \in [Block -> Nat]
  /\ MaxTemplates \in Nat \ {0}
  /\ MaxMoves \in Nat /\ MaxBodies \in Nat /\ MaxErrors \in Nat

VARIABLES
  tip,        \* best block of the chain
  body,       \* what the mempool offers to a block, as a counter
  templates,  \* jobs, the one longest without a refresh first
  latest,     \* tmplLatest: <<tip, address>> -> id
  tmplSeq,
  call,       \* Caller -> the tip getTemplate read, NoBlock when idle
  given,      \* history: jobs handed out for the tip since it is the tip, by n
  late,       \* history: a call with an older tip wrote the tables since
  moves, errors

tables == <<templates, latest, tmplSeq>>
chain == <<tip, body>>
history == <<given, late>>
bounds == <<moves, errors>>
workVars == <<chain, tables, call, history, bounds>>


WorkInit ==
  /\ tip = Genesis /\ body = 0
  /\ templates = <<>> /\ latest = <<>> /\ tmplSeq = 0
  /\ call = [c \in Caller |-> NoBlock]
  /\ given = {} /\ late = FALSE
  /\ moves = 0 /\ errors = 0

-----------------------------------------------------------------------------
(* The chain and the mempool. *)

MoveTo(b) ==
  /\ moves < MaxMoves
  /\ moves' = moves + 1
  /\ tip' = b
  /\ given' = {} /\ late' = FALSE

(* A block of the network, or a reorg to a branch as good. *)
TipMoves ==
  /\ \E b \in Block \ {tip} : Height[b] >= Height[tip] /\ MoveTo(b)
  /\ UNCHANGED <<body, tables, call, errors>>

MempoolChanges ==
  /\ body < MaxBodies
  /\ body' = body + 1
  /\ UNCHANGED <<tip, tables, call, history, bounds>>

-----------------------------------------------------------------------------
(* getTemplate. *)

Key(c) == <<call[c], AddrOf[c]>>
Jobs == ToSet(templates)

(* The job on file for a key, if the table still has it. *)
OnFile(ts, k) == {j \in ToSet(ts) : k \in DOMAIN latest /\ j.n = latest[k]}

(* templateRefresh passes for the job an address would be served now. *)
JobAges(c) ==
  /\ \E i \in DOMAIN templates :
       /\ templates[i] \in OnFile(templates, <<tip, AddrOf[c]>>)
       /\ templates[i].fresh
       /\ templates' = [templates EXCEPT ![i].fresh = FALSE]
  /\ UNCHANGED <<chain, latest, tmplSeq, call, history, bounds>>

ReadTip(c) ==
  /\ call[c] = NoBlock
  /\ call' = [call EXCEPT ![c] = tip]
  /\ UNCHANGED <<chain, tables, history, bounds>>

Hand(c, j) ==
  /\ call' = [call EXCEPT ![c] = NoBlock]
  /\ given' = IF j.prev = tip THEN given \cup {j.n} ELSE given

ServeFresh(c) ==
  /\ call[c] # NoBlock
  /\ \E j \in OnFile(templates, Key(c)) : j.fresh /\ Hand(c, j)
  /\ UNCHANGED <<chain, tables, late, bounds>>

(* BuildTemplate failed: the last good job if there is one. *)
BuildFails(c) ==
  /\ call[c] # NoBlock
  /\ \A j \in OnFile(templates, Key(c)) : ~j.fresh
  /\ errors < MaxErrors
  /\ errors' = errors + 1
  /\ IF OnFile(templates, Key(c)) = {}
     THEN call' = [call EXCEPT ![c] = NoBlock] /\ UNCHANGED given
     ELSE \E j \in OnFile(templates, Key(c)) : Hand(c, j)
  /\ UNCHANGED <<chain, tables, late, moves>>

(* The root commits to the coinbase, hence to the height, and to the body. *)
FreshRoot == <<Height[tip] + 1, body>>

EvictAll(ts, t) == <<>>                              \* faulty variant
Evict(ts, t) ==
  LET kept[i \in 0..Len(ts)] ==
        IF i = 0 THEN <<>>
        ELSE IF ts[i].prev = t THEN Append(kept[i - 1], ts[i]) ELSE kept[i - 1]
  IN  kept[Len(ts)]

Cap(ts) ==
  IF Len(ts) > MaxTemplates
  THEN SubSeq(ts, Len(ts) - MaxTemplates + 1, Len(ts)) ELSE ts

SameBodyByKey(j, root) == TRUE                       \* faulty variant
SameBody(j, root) == j.root = root

Refresh(ts, i) == Append(RemoveAt(ts, i), [ts[i] EXCEPT !.fresh = TRUE])

NewJob(c) == [prev |-> tip, key |-> Key(c), root |-> FreshRoot,
              n |-> tmplSeq + 1, fresh |-> TRUE]

Rebuild(c) ==
  LET t == call[c]
      kept == Evict(templates, t)
      same == {i \in DOMAIN kept : /\ kept[i] \in OnFile(kept, Key(c))
                                   /\ SameBody(kept[i], FreshRoot)}
      keys == {k \in DOMAIN latest : k[1] = t}
  IN  /\ call[c] # NoBlock
      /\ \A j \in OnFile(templates, Key(c)) : ~j.fresh
      /\ late' = (late \/ t # tip)
      /\ IF same # {}
         THEN \E i \in same :
                /\ templates' = Refresh(kept, i)
                /\ latest' = [k \in keys |-> latest[k]]
                /\ UNCHANGED tmplSeq
                /\ Hand(c, kept[i])
         ELSE /\ templates' = Cap(Append(kept, NewJob(c)))
              /\ latest' = [k \in keys \cup {Key(c)} |->
                              IF k = Key(c) THEN tmplSeq + 1 ELSE latest[k]]
              /\ tmplSeq' = tmplSeq + 1
              /\ Hand(c, NewJob(c))
      /\ UNCHANGED <<chain, bounds>>

-----------------------------------------------------------------------------
(* submitwork: a miner solved a job that it was handed. *)

(* The block of a job on file, which AddBlock takes only on the tip it was *)
(* built on; between the look-up and AddBlock nothing of the tables counts. *)
SubmitWork ==
  /\ \E j \in Jobs, b \in Block \ {tip} : j.prev = tip /\ Parent[b] = tip /\ MoveTo(b)
  /\ UNCHANGED <<body, tables, call, errors>>

GetTemplate(c) == ReadTip(c) \/ ServeFresh(c) \/ Rebuild(c)

WorkNext ==
  \/ TipMoves \/ MempoolChanges \/ SubmitWork
  \/ \E c \in Caller : JobAges(c) \/ GetTemplate(c) \/ BuildFails(c)

(* Miners keep asking for work, and time passes. *)
WorkSpec ==
  /\ WorkInit /\ [][WorkNext]_workVars
  /\ \A c \in Caller : WF_workVars(JobAges(c)) /\ WF_workVars(GetTemplate(c))

-----------------------------------------------------------------------------
(* Properties. *)

TemplatesTypeOK ==
  /\ tip \in Block
  /\ Len(templates) <= MaxTemplates
  /\ \A j \in Jobs : j.prev \in Block /\ j.n \in 1..tmplSeq
  /\ \A i, k \in DOMAIN templates : templates[i].n = templates[k].n => i = k
  /\ \A k \in DOMAIN latest : latest[k] \in 1..tmplSeq
  /\ call \in [Caller -> Block \cup {NoBlock}]

(* "older same-tip jobs stay in the map so a miner that already solved one *)
(* is still accepted on submit (no thrown-away work)": a job handed out    *)
(* for the tip can be submitted for as long as the tip stands, unless the  *)
(* table overflowed or a call that read an older tip swept it.             *)
TipWorkKept ==
  \A n \in given :
    \/ \E j \in Jobs : j.n = n
    \/ late
    \/ Len(templates) = MaxTemplates

(* Both: the table is well formed and keeps the work handed out.           *)
JobsSound == TemplatesTypeOK /\ TipWorkKept

(* The same without the exception for late calls.  Violated: a call that   *)
(* read the tip, then waited for the lock while the tip moved and others   *)
(* were served, evicts their jobs as "built on an older tip".              *)
NoThrownAwayWork ==
  \A n \in given :
    \/ \E j \in Jobs : j.n = n
    \/ Len(templates) = MaxTemplates

(* When tip and mempool settle, every address ends up with a job built on  *)
(* that tip from that mempool: the per-tip freeze that starved late        *)
(* transactions is gone.                                                   *)
CurrentJob(c) ==
  \E j \in OnFile(templates, <<tip, AddrOf[c]>>) :
    j.prev = tip /\ j.root = FreshRoot

WorkCatchesUp == \A c \in Caller : <>[]CurrentJob(c)
=============================================================================
