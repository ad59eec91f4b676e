---------------------------- MODULE MCChainWalk ----------------------------
(* Instances of ChainWalk for TLC: two forks of two blocks, one of them    *)
(* also seen at its first block; one role, two addresses.                  *)
EXTENDS ChainWalk

CONSTANTS l1, l2, l3, pay, pool, old, new

MCHistories == {<<l1>>, <<l1, l2>>, <<l2, l3>>}
MCCarried == {<<<<l1, l2>>, pay>>, <<<<l2, l3>>, pay>>}
MCParties == [t \in Txs |-> {old}]
MCIdOrder == <<<<pool, old>>, <<pool, new>>>>
=============================================================================
