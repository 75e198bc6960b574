------------------------------- MODULE MCPbft -------------------------------
(***************************************************************************)
(* Instances of Pbft with the four nodes its numbers are written for.      *)
(***************************************************************************)
EXTENDS Pbft, TLC

CONSTANTS n1, n2, n3, n4, q1, q2, q3

MCOrder == <<n1, n2, n3, n4>>

\* The requester that serves n1 and n2, n3, and n4: three, or only one.
Spread == (n1 :> q1) @@ (n2 :> q1) @@ (n3 :> q2) @@ (n4 :> q3)
Same == [n \in Nodes |-> q1]

Schedule(h, i, d, s, r, l, f) ==
    [height |-> h, index |-> i, down |-> d, restart |-> s, route |-> r,
     losses |-> l, failures |-> f]

Index(i) == [n \in Nodes |-> i]

\* One block, with all four nodes up; two blocks in a row, with a node down, messages
\* passed over and blocks given up or refused; the same with a node that restarts; two
\* rounds, with a node down.
OneBlock == Schedule(1, Index(0), {}, {}, Spread, 0, 0)
Chain == Schedule(2, Index(0), {n2}, {}, Spread, 2, 2)
Restarting == Schedule(2, Index(0), {n2}, {n3, n4}, Spread, 0, 0)
Rounds == Schedule(1, Index(1), {n4}, {}, Same, 0, 0)

MCSchedules == {OneBlock, Chain, Restarting, Rounds}

\* n3 and n4 are exchangeable, with the requesters that serve them.
Exchangeable ==
    {p \in Permutations({n3, n4, q2, q3}) :
        p[n3] \in {n3, n4} /\ p[q2] \in {q2, q3} /\ (p[n3] = n4 <=> p[q2] = q3)}
=============================================================================
