---------------------------- MODULE MCTxPipeline ----------------------------
(* Instances of TxPipeline for TLC: every transaction names the genesis block. *)
EXTENDS TxPipeline, TLC

MCRefSlot == [t \in Txs |-> 0]

Symmetry == Permutations(Callers) \cup Permutations(Txs)
=============================================================================
