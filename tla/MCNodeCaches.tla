---------------------------- MODULE MCNodeCaches ----------------------------
(***************************************************************************)
(* A small instance of NodeCaches: two threads that check authorizations,  *)
(* and three vote lists, one of them too short.                            *)
(***************************************************************************)
EXTENDS NodeCaches, TLC

Schedule(k, b, r, c, p, f) ==
    [kinds |-> k, blocks |-> b, rollbacks |-> r, checks |-> c, preloads |-> p, faults |-> f]

\* Two checks around two blocks, one of which is executed first; around a rollback;
\* around a failed commit or a crash; changes of the vote list.
Overlays == Schedule({"grant", "flip"}, 2, 0, 2, 1, 0)
Rollbacks == Schedule({"grant", "flip"}, 2, 1, 2, 0, 0)
Failures == Schedule({"grant", "flip"}, 1, 0, 2, 1, 1)
VoteLists == Schedule({"votes"}, 3, 1, 0, 0, 1)

MCSchedules == {Overlays, Rollbacks, Failures, VoteLists}

Exchangeable == Permutations(Readers)

=============================================================================
