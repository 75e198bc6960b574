-------------------------- MODULE MCContractState --------------------------
(***************************************************************************)
(* A small instance of ContractState: two transactions a block, so that    *)
(* one can delete, rewrite or read what the other wrote.                    *)
(***************************************************************************)
EXTENDS ContractState, TLC

ValueSymmetry == Permutations(Values)

=============================================================================
