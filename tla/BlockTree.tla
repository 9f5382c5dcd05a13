------------------------------ MODULE BlockTree ------------------------------
(***************************************************************************)
(* The blocks anyone could ever mine, as constants.  A block is identified *)
(* by its hash; the hash covers PrevHash, so a block determines its whole  *)
(* ancestry and every rule of validateBlock that reads only the prefix     *)
(* (target, median time, proof of work, transactions) is a fixed property  *)
(* of the block: membership in Sound.                                      *)
(***************************************************************************)
EXTENDS Naturals, Integers, Sequences

CONSTANTS
  Block,      \* block hashes
  Genesis,    \* GenesisBlock()
  Parent,     \* Parent[b] is the block whose hash is b.PrevHash
  Height,     \* Height[b] is the height the header of b claims
  Work,       \* Work[b] is WorkOf(target of b)
  HashRank,   \* position of the hash in the order of hash strings
  NotBefore,  \* first local time at which b is not "too far in future"
  Sound,      \* blocks that pass every rule fixed by their ancestry
  Signals     \* blocks whose coinbase advertises consensus version >= 4

ASSUME BlockTreeAssumption ==
  /\ Genesis \in Block
  /\ Parent \in [Block -> Block]
  /\ Height \in [Block -> Nat]
  /\ Height[Genesis] = 0
  /\ Work \in [Block -> Nat]
  /\ \A b \in Block : Work[b] > 0
  /\ HashRank \in [Block -> Nat]
  /\ \A b, c \in Block : HashRank[b] = HashRank[c] => b = c
  /\ NotBefore \in [Block -> Nat]
  /\ NotBefore[Genesis] = 0
  /\ Sound \subseteq Block
  /\ Genesis \in Sound
  /\ Signals \subseteq Block

(***************************************************************************)
(* The sum of WorkOf over a sequence of blocks: the loops of               *)
(* rebuildDerived and of the header-only pass of TryAdoptChain.  A         *)
(* recursive function, not a fold, so that the proofs can unfold it.       *)
(***************************************************************************)
SumWork(s) ==
  LET sum[i \in 0..Len(s)] ==
        IF i = 0 THEN 0 ELSE sum[i - 1] + Work[s[i]]
  IN  sum[Len(s)]

(***************************************************************************)
(* A chain as the node holds it in memory: a sequence from the genesis     *)
(* block in which position i holds height i - 1 (c.blocks[i - 1]).         *)
(***************************************************************************)
LinkedAt(chain, i) ==
  /\ Height[chain[i]] = i - 1
  /\ Parent[chain[i]] = chain[i - 1]

IsChain(chain) ==
  /\ chain \in Seq(Block)
  /\ Len(chain) > 0
  /\ chain[1] = Genesis
  /\ \A i \in 2..Len(chain) : LinkedAt(chain, i)

TipOf(chain) == chain[Len(chain)]

(* The blocks of a chain. *)
BlocksOf(chain) == {chain[i] : i \in 1..Len(chain)}

(* The path from the genesis block to b, for a block of the tree whose     *)
(* ancestors all claim their true height.                                  *)
PathTo(b) ==
  LET up[n \in 0..Height[b]] == IF n = 0 THEN b ELSE Parent[up[n - 1]]
  IN  [i \in 1..Height[b] + 1 |-> up[Height[b] + 1 - i]]

(* Length of the longest common prefix of two chains. *)
CommonLen(s, t) ==
  CHOOSE n \in 0..Len(s) :
    /\ n <= Len(t)
    /\ \A i \in 1..n : s[i] = t[i]
    /\ n < Len(s) /\ n < Len(t) => s[n + 1] # t[n + 1]
=============================================================================
