----------------------------- MODULE ForkChoice -----------------------------
(***************************************************************************)
(* What the consensus engine promises, without chains, caches or guards: a *)
(* register that holds the tip of a valid chain, moves only to a better    *)
(* one, and never leaves a block that was declared final.                  *)
(***************************************************************************)
EXTENDS BlockTree

VARIABLES tip, finalized

TotalWork(b) == SumWork(PathTo(b))
Ancestors(b) == BlocksOf(PathTo(b))
Eligible(b) == IsChain(PathTo(b)) /\ Ancestors(b) \subseteq Sound

Better(b, c) ==
  \/ TotalWork(b) > TotalWork(c)
  \/ /\ TotalWork(b) = TotalWork(c)
     /\ Height[b] = Height[c]
     /\ HashRank[b] < HashRank[c]

Init == tip = Genesis /\ finalized = {}

Move(b) ==
  /\ Eligible(b)
  /\ Better(b, tip)
  /\ finalized \subseteq Ancestors(b)
  /\ tip' = b
  /\ UNCHANGED finalized

Finalize(b) ==
  /\ b \in Ancestors(tip)
  /\ finalized' = finalized \cup {b}
  /\ UNCHANGED tip

Next == \E b \in Block : Move(b) \/ Finalize(b)

Spec == Init /\ [][Next]_<<tip, finalized>>
=============================================================================
