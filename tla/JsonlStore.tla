----------------------------- MODULE JsonlStore -----------------------------
(***************************************************************************)
(* The default store under ChainCore: blocks.jsonl, one block per line     *)
(* (load, saveAll, appendToDisk and the jsonl side of commitExtend and     *)
(* commitReorg in core/chain.go).  An extension is appended block by       *)
(* block; a reorg, or an append that fails, rewrites the whole file into   *)
(* a temporary one and renames it.  As in ChainStore the writes run under  *)
(* diskMu after c.mu is released, and the process may die between two.     *)
(* The checkpoint files are ChainStore's; no checkpoint is signed here.    *)
(***************************************************************************)
EXTENDS ChainCore, Functions

CONSTANTS
  Torn,         \* a line that is not one whole JSON block
  MaxDeaths,    \* bound: process deaths
  MaxWriteErrors \* bound: writes that return an error

ASSUME JsonlAssumption ==
  Torn \notin Block /\ MaxDeaths \in Nat /\ MaxWriteErrors \in Nat

VARIABLES
  lines,        \* blocks.jsonl; empty before the first start
  unterminated, \* its last line has no newline yet
  up,           \* the process serves
  toWrite,      \* what diskMu's holder still has to do: [append, rewrite, fork]
  unsaved,      \* history: a commit of this process failed
  deaths, writeErrors

fileVars == <<lines, unterminated>>
jsonlVars == <<fileVars, up, toWrite, unsaved, deaths, writeErrors>>
jVars == <<vars, jsonlVars>>

NothingToWrite == [append |-> <<>>, rewrite |-> FALSE, fork |-> 0]
DiskIdle == up /\ toWrite = NothingToWrite

JInit ==
  /\ Init
  /\ lines = <<>> /\ unterminated = FALSE
  /\ up = FALSE /\ toWrite = NothingToWrite /\ unsaved = FALSE
  /\ deaths = 0 /\ writeErrors = 0

(* What load keeps of a file that parses: the lines up to the first break. *)
LoadableLinesUnlinked(f) == f                           \* faulty variant
LoadableLines(f) ==
  SubSeq(f, 1, CHOOSE n \in 1..Len(f) :
                 /\ \A i \in 2..n : LinkedAt(f, i)
                 /\ n < Len(f) => ~LinkedAt(f, n + 1))

(* load: a line that does not parse is an error and the process exits; a   *)
(* truncation happens in memory only, the file is left as it is.           *)
JStart ==
  LET chain == IF lines = <<>> THEN <<Genesis>> ELSE LoadableLines(lines)
  IN  /\ ~up
      /\ Torn \notin Range(lines)
      /\ up' = TRUE
      /\ lines' = IF lines = <<>> THEN chain ELSE lines      \* saveAll
      /\ blocks' = chain
      /\ cumWork' = SumWork(chain)
      /\ unsaved' = FALSE
      /\ UNCHANGED <<checkpoints, authAnchor, drAct, now, unterminated, toWrite,
                     deaths, writeErrors>>

JAddBlock(b) ==
  /\ DiskIdle
  /\ AddBlock(b)
  /\ toWrite' = [NothingToWrite EXCEPT !.append = <<b>>]
  /\ UNCHANGED <<fileVars, up, unsaved, deaths, writeErrors>>

JTryAdoptChain(start, new) ==
  /\ DiskIdle
  /\ TryAdoptChain(start, new)
  /\ toWrite' = IF ~Adoptable(start, new) THEN toWrite
                ELSE IF Depth(start) = 0 THEN [NothingToWrite EXCEPT !.append = new]
                ELSE [NothingToWrite EXCEPT !.rewrite = TRUE, !.fork = start]
  /\ UNCHANGED <<fileVars, up, unsaved, deaths, writeErrors>>

(* appendToDisk: a whole line, glued to an unterminated one if there is. *)
AppendLine ==
  /\ toWrite.append # <<>>
  /\ lines' = IF unterminated THEN lines ELSE Append(lines, Head(toWrite.append))
  /\ unterminated' = FALSE
  /\ toWrite' = IF Len(toWrite.append) = 1 THEN NothingToWrite
                ELSE [toWrite EXCEPT !.append = Tail(@)]
  /\ UNCHANGED <<vars, up, unsaved, deaths, writeErrors>>

WriteError == writeErrors < MaxWriteErrors /\ writeErrors' = writeErrors + 1

(* The write fails, whole or after part of the line; commitExtend turns to *)
(* saveAll and does not come back to the blocks it had left.               *)
AfterFailedAppendSkips == [toWrite EXCEPT !.append = Tail(@)]    \* faulty variant
AfterFailedAppend == [toWrite EXCEPT !.append = <<>>, !.rewrite = TRUE]

AppendFails ==
  /\ toWrite.append # <<>>
  /\ WriteError
  /\ \/ UNCHANGED fileVars
     \/ /\ lines' = IF unterminated THEN lines ELSE Append(lines, Torn)
        /\ unterminated' = TRUE
  /\ toWrite' = AfterFailedAppend
  /\ UNCHANGED <<vars, up, unsaved, deaths>>

(* saveAll up to its rename; an error leaves the old file. *)
SaveAllInPlace ==                                       \* faulty variant: no rename
  /\ toWrite.rewrite
  /\ IF lines = <<Genesis>> THEN lines' = blocks /\ toWrite' = NothingToWrite
     ELSE lines' = <<Genesis>> /\ UNCHANGED toWrite
  /\ unterminated' = FALSE
  /\ UNCHANGED <<vars, up, unsaved, deaths, writeErrors>>

SaveAll ==
  /\ toWrite.rewrite
  /\ lines' = blocks /\ unterminated' = FALSE
  /\ toWrite' = NothingToWrite
  /\ UNCHANGED <<vars, up, unsaved, deaths, writeErrors>>

SaveAllFails ==
  /\ toWrite.rewrite
  /\ WriteError
  /\ toWrite' = NothingToWrite
  /\ unsaved' = TRUE
  /\ UNCHANGED <<vars, fileVars, up, deaths>>

JCrash ==
  /\ up
  /\ deaths < MaxDeaths /\ deaths' = deaths + 1
  /\ up' = FALSE
  /\ blocks' = <<Genesis>> /\ cumWork' = Work[Genesis]
  /\ drAct' = 0
  /\ toWrite' = NothingToWrite /\ unsaved' = FALSE
  /\ UNCHANGED <<checkpoints, authAnchor, now, fileVars, writeErrors>>

JNext ==
  \/ JStart
  \/ \E b \in Block : JAddBlock(b)
  \/ \E start \in 1..Len(blocks), new \in Candidates : JTryAdoptChain(start, new)
  \/ AppendLine
  \/ AppendFails
  \/ SaveAll
  \/ SaveAllFails
  \/ JCrash

JSpec == JInit /\ [][JNext]_jVars

-----------------------------------------------------------------------------
(* Properties. *)

(* Shape of the file and of the running commit. *)
JsonlTypeOK ==
  /\ TypeOK
  /\ lines \in Seq(Block \cup {Torn})
  /\ unterminated => lines # <<>> /\ lines[Len(lines)] = Torn
  /\ toWrite.rewrite => toWrite.append = <<>>
  /\ ~up => toWrite = NothingToWrite

(* Whatever a process that parses the file finds after crashes and failed  *)
(* writes, it starts on a linked chain of validated blocks.                *)
JsonlLoadsValidChain ==
  lines # <<>> /\ Torn \notin Range(lines) =>
    IsChain(LoadableLines(lines)) /\ BlocksOf(LoadableLines(lines)) \subseteq Sound

(* Both: the file is well formed and loads a valid chain.                  *)
JsonlSound == JsonlTypeOK /\ JsonlLoadsValidChain

(* With diskMu free the file is the chain in memory, line for line: always *)
(* while no write fails, whatever crashes; and through a failed append     *)
(* that the rewrite makes good.                                            *)
FileHoldsChain ==
  DiskIdle /\ (writeErrors = 0 \/ (deaths = 0 /\ ~unsaved)) => lines = blocks

(* A crash inside a commit loses nothing the two chains share: an         *)
(* extension leaves a prefix that only lacks blocks still to append, a     *)
(* reorg leaves the old chain until the new one is whole.                  *)
CrashKeepsSharedBlocks ==
  up /\ writeErrors = 0 =>
    CommonLen(LoadableLines(lines), blocks) >=
      (IF toWrite.rewrite THEN toWrite.fork ELSE Len(blocks) - Len(toWrite.append))

(* "Keeping the valid prefix lets the node self-heal by re-syncing         *)
(* forward" (load): a process all of whose writes succeed has its chain in *)
(* the file, even when the file it found was broken.                       *)
TruncationSelfHeals == DiskIdle /\ ~unsaved => LoadableLines(lines) = blocks
=============================================================================
