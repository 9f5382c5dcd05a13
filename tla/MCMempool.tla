----------------------------- MODULE MCMempool -----------------------------
(* Two people and a burn address; alice mines our own templates.  Heights  *)
(* 0..4: rewards can be spent from height 3, signatures change at height   *)
(* 4, the subsidy halves at height 3.                                      *)
EXTENDS Mempool

CONSTANTS alice, bob, burn

tx(from, to, amount, fee, nonce, chainID) ==
  [from |-> from, to |-> to, amount |-> amount, fee |-> fee, nonce |-> nonce,
   chainID |-> chainID]

a0 == tx(alice, bob, 1, 1, 0, FALSE)
a0self == tx(alice, alice, 1, 2, 0, FALSE)      \* a fee bump that cancels a0
a0dear == tx(alice, bob, 17, 3, 0, FALSE)       \* a fee bump nobody can pay
a1 == tx(alice, bob, 1, 1, 1, FALSE)
a1signed == tx(alice, bob, 1, 2, 1, TRUE)
a2 == tx(alice, bob, 1, 1, 2, FALSE)
a3 == tx(alice, bob, 1, 1, 3, FALSE)
b0wrap == tx(bob, alice, 30, 35, 0, FALSE)       \* amount + fee = 1 modulo 64
b0signed == tx(bob, alice, 1, 1, 0, TRUE)
a1huge == tx(alice, bob, 60, 3, 1, FALSE)       \* 2 + amount + fee = 1 modulo 64

MCTxs == {a0, a0self, a0dear, a1, a1signed, a2, a3, b0wrap, b0signed}
WrapTxs == {a0, a1, a1huge}

block(miner, txs) == [miner |-> miner, txs |-> txs]

MCBranches ==
  {<<block(alice, <<>>)>>,
   <<block(bob, <<>>)>>,
   <<block(bob, <<a0, a1>>)>>,
   <<block(bob, <<a1>>)>>,
   <<block(bob, <<b0wrap>>)>>,
   <<block(bob, <<>>), block(alice, <<a0self>>)>>}

WrapBranches == {<<block(alice, <<>>)>>}

MCGenesis == block(burn, <<>>)
MCSubsidyAt == [h \in 0..MaxHeight |-> IF h = 0 THEN 0 ELSE IF h < 3 THEN 6 ELSE 3]
=============================================================================
