------------------------------ MODULE MCTxPool ------------------------------
(***************************************************************************)
(* Instances of TxPool.  Adders are interchangeable, and so are            *)
(* transactions.                                                           *)
(***************************************************************************)
EXTENDS TxPool, TLC

Exchangeable == Permutations(Txs) \cup Permutations(Adders)
=============================================================================
