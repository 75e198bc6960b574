------------------------------- MODULE MCCfrd -------------------------------
(***************************************************************************)
(* Instances of Cfrd with four nodes, the fewest that candidates are drawn *)
(* from: four, in the same order for every hash.                           *)
(***************************************************************************)
EXTENDS Cfrd, TLC

CONSTANTS n1, n2, n3, n4

MCCandidators(h) == <<n1, n2, n3, n4>>

Schedule(h, i, k, r, f) == [height |-> h, index |-> i, asks |-> k, restart |-> r, failures |-> f]

\* The vote index that n1 reaches, and the one that all others reach.
Index(first, others) == [n \in Nodes |-> IF n = n1 THEN first ELSE others]

\* Two blocks in a row, nobody times out; the others time out once; only n1 times
\* out, until the drawing has come back to it; n1 times out once and may restart.
Chain == Schedule(2, Index(0, 0), 9, {}, 1)
Equivocation == Schedule(1, Index(0, 1), 3, {}, 0)
RoundTrip == Schedule(1, Index(4, 0), 3, {}, 0)
Restarting == Schedule(1, Index(1, 0), 3, {n1}, 0)

MCSchedules == {Chain, Equivocation, RoundTrip, Restarting}
ForkSchedules == {Schedule(1, Index(0, 1), 9, {}, 0)}

\* Sound where no index above 1 is reached.
Symmetry4 == Permutations({n3, n4})
=============================================================================
