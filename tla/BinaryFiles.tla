----------------------------- MODULE BinaryFiles -----------------------------
(***************************************************************************)
(* The files next to the executable that self-update and self-heal of      *)
(* cereblixd and cereblix-stratum work on: the executable, its backups and *)
(* the markers.  A file's content is a version, a counter or a flag;       *)
(* Absent stands for no file, which every reader takes for 0 or "".        *)
(*                                                                         *)
(* A program that works on them is a script: a sequence of operations,     *)
(* each atomic on disk, between any two of which the process may die.      *)
(***************************************************************************)
EXTENDS Naturals, Sequences

Absent == 0
Present == 1
File == {"exe", "new", "old", "bad", "pending", "bootn", "suspect",
         "confirmn", "badversion", "envhalt", "noupdate"}

Write(f, v) == [kind |-> "write", from |-> f, to |-> f, val |-> v]
Remove(f) == Write(f, Absent)
Copy(f, g) == [kind |-> "copy", from |-> f, to |-> g, val |-> Absent]
Move(f, g) == [kind |-> "move", from |-> f, to |-> g, val |-> Absent]
Exit == [kind |-> "exit", from |-> "exe", to |-> "exe", val |-> Absent]

(* The files after one operation; a copy of a missing file leaves them     *)
(* alone, and so does a rename.                                            *)
After(op, fs) ==
  IF op.kind = "write" THEN [fs EXCEPT ![op.to] = op.val]
  ELSE IF op.kind = "exit" \/ fs[op.from] = Absent THEN fs
  ELSE IF op.kind = "copy" THEN [fs EXCEPT ![op.to] = fs[op.from]]
  ELSE [fs EXCEPT ![op.to] = fs[op.from], ![op.from] = Absent]

RemoveAll(fseq) == [i \in 1..Len(fseq) |-> Remove(fseq[i])]

(* swapBinary: the new bytes over the running executable, a .old kept. *)
SwapBinaryInPlace(windows, v) ==            \* faulty variant: no rename
  <<Remove("new"), Remove("old"), Remove("exe"), Write("exe", v)>>

SwapBinary(windows, v) ==
  <<Remove("new"), Write("new", v), Remove("old")>>
  \o IF windows THEN <<Move("exe", "old"), Move("new", "exe")>>
     ELSE <<Copy("exe", "old"), Move("new", "exe")>>

MarkPending(v) == <<Write("pending", v), Write("bootn", 0)>>

(* What is left to do when the first operation of a script returned an     *)
(* error: a swap is given up, on Windows after it put the executable back; *)
(* the errors of markers are not looked at.                                *)
AfterError(windows, script) ==
  LET op == Head(script)
  IN  IF op = Move("new", "exe") /\ windows THEN <<Move("old", "exe")>>
      ELSE IF op.kind \in {"copy", "move"} \/ op.to = "new" THEN <<>>
      ELSE Tail(script)

(* shouldInstall: strictly newer than what runs and than what is blocked. *)
ShouldInstall(m, cur, blocked) ==
  /\ m > cur
  /\ blocked # Absent => m > blocked
=============================================================================
