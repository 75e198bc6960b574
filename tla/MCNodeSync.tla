----------------------------- MODULE MCNodeSync -----------------------------
(***************************************************************************)
(* Instances of NodeSync with three nodes.  Me starts without a block, level *)
(* with the network, or with a block at the next height that the network   *)
(* does not have.                                                          *)
(***************************************************************************)
EXTENDS NodeSync

CONSTANTS me, p1, p2

MCMaker(h) == p1

Start(n, r, c) == [net |-> n, rest |-> r, disk |-> c]

Fresh == Start(0, 2, <<>>)
Forked == Start(1, 3, <<"main", "fork">>)

MCStarts == {Fresh, Forked}
OnlyForked == {Forked}

=============================================================================
