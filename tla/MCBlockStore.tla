---------------------------- MODULE MCBlockStore ----------------------------
(***************************************************************************)
(* A small instance of BlockStore: files that take two to three blocks, so *)
(* that the chain runs over three files, and torn writes of every length.  *)
(***************************************************************************)
EXTENDS BlockStore, TLC

MCLengths == {1, 2}

HashSymmetry == Permutations(Hashes)

=============================================================================
