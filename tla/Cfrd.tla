-------------------------------- MODULE Cfrd --------------------------------
(***************************************************************************)
(* The CFRD consensus of RepChain (network/consensus/cfrd): every node     *)
(* draws the candidates from the hash of its last block, the one at the    *)
(* vote index builds a block, collects endorsements for it, publishes it,  *)
(* and each node stores what a quorum has endorsed.  A voter that waits    *)
(* too long for a block moves to the next index.                           *)
(*                                                                         *)
(* Each node runs a voter, a blocker, an endorsement collector with its    *)
(* requesters, endorsers, and the block confirmer with the storager.  They *)
(* are actors: each handler is one action, the messages between them wait  *)
(* in between.  What they share through PeerExtension is the last voting   *)
(* result and the last block, and each handler reads it when it runs.      *)
(*                                                                         *)
(* A block hash is the number of the block in the order of creation.       *)
(***************************************************************************)
EXTENDS Integers, Sequences, FiniteSets

CONSTANTS Nodes,        \* the nodes of the vote list
          NoNode,       \* no blocker
          Candidators(_), \* the nodes drawn from a block hash, in order
          Mode,         \* number_of_endorsement: 1, 2 or 3
          ResendTimes,  \* endorse_resend_times
          MaxBlocks,    \* bound: blocks built
          Schedules     \* bound: what may happen in a behaviour, one of these

\* A schedule bounds the height below which nodes vote, the vote index each node
\* reaches, the requests under way, the nodes that may restart (once each), and
\* the requests that time out or blocks that are given up.
ScheduleRecords ==
    [height : Nat, index : [Nodes -> Nat], asks : Nat, restart : SUBSET Nodes,
     failures : Nat]

ASSUME CfrdAssumption ==
    /\ IsFiniteSet(Nodes) /\ Nodes # {}
    /\ NoNode \notin Nodes
    /\ \A h \in 0 .. MaxBlocks : Candidators(h) \in Seq(Nodes) /\ Candidators(h) # <<>>
    /\ Mode \in 1 .. 3
    /\ ResendTimes \in Nat /\ MaxBlocks \in Nat
    /\ Schedules \subseteq ScheduleRecords

VARIABLES blocks,     \* the blocks built so far: [prev, height, maker]
          chain,      \* stored blocks of each node above the genesis block
          vote,       \* pe.getBlocker: the result of the last drawing
          reset,      \* a VoteOfReset waits in the voter's mailbox
          blocker,    \* the blocker: what it is doing, its block and its index
          collect,    \* CollectEndorsement messages waiting for the collector
          collector,  \* the collector: block, index, endorsers, resends
          asks,       \* endorsement requests and their answers under way
          published,  \* the ConfirmedBlock messages: [block, from]
          signed,     \* history: the blocks each node has endorsed
          failures,   \* requests timed out and blocks given up so far
          restarted,  \* the nodes that have restarted
          schedule    \* what may happen in this behaviour

noise == <<failures, restarted>>

vars == <<blocks, chain, vote, reset, blocker, collect, collector, asks, published,
          signed, failures, restarted, schedule>>

-----------------------------------------------------------------------------
(* Data.                                                                    *)

Genesis == 0
NoHash == -1

NoVote == [blocker |-> NoNode, index |-> -1, hash |-> NoHash, height |-> -1]
IdleBlocker == [pc |-> "idle", block |-> NoHash, pre |-> NoHash, index |-> -1]
IdleCollector == [block |-> NoHash, index |-> -1, from |-> {}, resends |-> 0, late |-> {}]

\* pe.getCurrentBlockHash and pe.getCurrentHeight
Height(n) == Len(chain[n])
Tip(n) == IF chain[n] = <<>> THEN Genesis ELSE chain[n][Height(n)]

\* Is the parent of block b the last block of node n?
OnTip(b, n) == blocks[b].prev = Tip(n)

\* A quorum of half the nodes.
MutHalf(k) == k >= Cardinality(Nodes) \div 2

\* byzantineExamination: mode 1 is treated as mode 2.
EnoughNodes(k) ==
    LET n == Cardinality(Nodes)
    IN  IF Mode = 3 THEN k >= (2 * n) \div 3 + 1 ELSE k >= n \div 2 + 1

\* One more failure, if the bound allows it.
OneFailure ==
    /\ failures < schedule.failures
    /\ failures' = failures + 1
    /\ UNCHANGED restarted

-----------------------------------------------------------------------------
(* The voter.  Its timer never stops, so VoteOfForce adds nothing to it: a   *)
(* drawing forced by an endorser is one the timer could have started.        *)

\* algorithmInVoted.blocker: the candidate at an index, round robin.
CandidateAt(h, i) == Candidators(h)[(i % Len(Candidators(h))) + 1]

\* resetBlocker: the new voting result.
Elect(n, i) ==
    vote' = [vote EXCEPT ![n] = [blocker |-> CandidateAt(Tip(n), i), index |-> i,
                                 hash |-> Tip(n), height |-> Height(n)]]

\* The last block changed since the drawing, or there was none: index 0.
DrawBlocker(n) ==
    /\ vote[n].hash # Tip(n)
    /\ Height(n) < schedule.height
    /\ Elect(n, 0)
    /\ UNCHANGED <<blocks, chain, reset, blocker, collect, collector, asks, published,
                   signed, noise>>

\* No block within the time allowed: the next index.
BlockTimeout(n) ==
    /\ vote[n].hash = Tip(n)
    /\ vote[n].index < schedule.index[n]
    /\ Elect(n, vote[n].index + 1)
    /\ UNCHANGED <<blocks, chain, reset, blocker, collect, collector, asks, published,
                   signed, noise>>

\* VoteOfReset: the result is forgotten, and the drawing starts over.
ResetVote(n) ==
    /\ reset[n]
    /\ reset' = [reset EXCEPT ![n] = FALSE]
    /\ Elect(n, 0)
    /\ UNCHANGED <<blocks, chain, blocker, collect, collector, asks, published, signed,
                   noise>>

-----------------------------------------------------------------------------
(* The blocker.                                                             *)

\* A blocker that forgets it has built a block on this parent.
MutAlwaysNew(n) == TRUE

\* preblock is missing or has another parent.
NeedsBlock(n) ==
    blocker[n].pre # NoHash => blocks[blocker[n].pre].prev # vote[n].hash

\* CreateBlock, which the voter sends at every drawing and at every tick of its
\* timer as long as this node is the blocker, and which the blocker drops if it
\* is not any more: a new block is packed.
CreateBlock(n) ==
    /\ blocker[n].pc = "idle"
    /\ vote[n].blocker = n /\ vote[n].hash = Tip(n)
    /\ NeedsBlock(n)
    /\ blocker' = [blocker EXCEPT ![n].pc = "packing"]
    /\ UNCHANGED <<blocks, chain, vote, reset, collect, collector, asks, published,
                   signed, noise>>

\* CreateBlock when the drawing has come back to this node at a higher index:
\* the block built before is to be endorsed again.
CollectAgain(n) ==
    /\ blocker[n].pc = "idle"
    /\ vote[n].blocker = n /\ vote[n].hash = Tip(n)
    /\ ~NeedsBlock(n) /\ blocker[n].index < vote[n].index
    /\ blocker' = [blocker EXCEPT ![n].index = vote[n].index]
    /\ collect' = [collect EXCEPT ![n] =
          Append(@, [block |-> blocker[n].pre, index |-> vote[n].index])]
    /\ UNCHANGED <<blocks, chain, vote, reset, collector, asks, published, signed,
                   noise>>

\* buildBlock: parent and height come from the voting result of this moment,
\* which may have changed while the transactions were packed.
BuildBlock(n) ==
    /\ blocker[n].pc = "packing"
    /\ Len(blocks) < MaxBlocks
    /\ blocks' = Append(blocks, [prev |-> vote[n].hash, height |-> vote[n].height + 1,
                                 maker |-> n])
    /\ blocker' = [blocker EXCEPT ![n].pc = "preloading", ![n].block = Len(blocks) + 1]
    /\ UNCHANGED <<chain, vote, reset, collect, collector, asks, published,
                   signed, noise>>

\* The block has been executed; the index is again that of this moment.
FinishBlock(n) ==
    /\ blocker[n].pc = "preloading"
    /\ blocker' = [blocker EXCEPT ![n] =
          [IdleBlocker EXCEPT !.pre = blocker[n].block, !.index = vote[n].index]]
    /\ collect' = [collect EXCEPT ![n] =
          Append(@, [block |-> blocker[n].block, index |-> vote[n].index])]
    /\ UNCHANGED <<blocks, chain, vote, reset, collector, asks, published,
                   signed, noise>>

\* A block that failed to execute is handed to the collector all the same.
MutNullBlock(n) ==
    /\ blocker[n].pc # "idle"
    /\ OneFailure
    /\ blocker' = [blocker EXCEPT ![n].pc = "idle", ![n].block = NoHash]
    /\ collect' = [collect EXCEPT ![n] = Append(@, [block |-> NoHash, index |-> 0])]
    /\ UNCHANGED <<blocks, chain, vote, reset, collector, asks, published, signed>>

\* Too few transactions, or the execution fails: no block, preblock stays.
GiveUpBlock(n) ==
    /\ blocker[n].pc # "idle"
    /\ OneFailure
    /\ blocker' = [blocker EXCEPT ![n].pc = "idle", ![n].block = NoHash]
    /\ UNCHANGED <<blocks, chain, vote, reset, collect, collector, asks,
                   published, signed>>

-----------------------------------------------------------------------------
(* The collector and its requesters.                                        *)

\* One request for each of the nodes es; the node's own endorser declines.
Requests(n, b, i, es) ==
    {[by |-> n, to |-> e, block |-> b, index |-> i, stage |-> "routed"] : e \in es \ {n}}

\* A new block, or the same block at a higher index, restarts the collection.
Restarts(n, m) ==
    /\ OnTip(m.block, n)
    /\ m.block = collector[n].block => collector[n].index < m.index

CollectEndorsement(n) ==
    /\ collect[n] # <<>>
    /\ collect' = [collect EXCEPT ![n] = Tail(@)]
    /\ LET m == Head(collect[n])
       IN  IF Restarts(n, m)
           THEN /\ collector' = [collector EXCEPT ![n] =
                       [IdleCollector EXCEPT !.block = m.block, !.index = m.index]]
                /\ asks' = asks \cup Requests(n, m.block, m.index, Nodes)
           ELSE UNCHANGED <<collector, asks>>
    /\ Cardinality(asks') <= schedule.asks
    /\ UNCHANGED <<blocks, chain, vote, reset, blocker, published, signed, noise>>

\* A requester asks only while this node is the blocker and its last block is
\* the parent; otherwise the request is dropped.
SendRequest(a) ==
    /\ a.stage = "routed"
    /\ asks' = (asks \ {a}) \cup
               IF vote[a.by].blocker = a.by /\ OnTip(a.block, a.by)
               THEN {[a EXCEPT !.stage = "sent"]} ELSE {}
    /\ UNCHANGED <<blocks, chain, vote, reset, blocker, collect, collector,
                   published, signed, noise>>

\* ResendEndorseInfo: the collector notes whom to ask again for its block.
NotedLate(n, e) ==
    IF /\ collector[n].block # NoHash /\ OnTip(collector[n].block, n)
       /\ collector[n].resends <= ResendTimes
    THEN [collector EXCEPT ![n].late = @ \cup {e}] ELSE collector

\* An endorsement counted whatever block it is for.
MutAnyBlock(a) ==
    /\ collector[a.by].block # NoHash
    /\ OnTip(collector[a.by].block, a.by)

\* Is endorsement a for the block being collected, and that block still next?
Counts(a) ==
    /\ collector[a.by].block = a.block
    /\ OnTip(a.block, a.by)

\* CheckAndFinishHandler: with the blocker's own signature enough nodes have
\* signed; the block is published and the collector cleared.
Endorsed(a) ==
    LET c == collector[a.by]
        from == c.from \cup {a.to}
    IN  IF EnoughNodes(Cardinality(from) + 1)
        THEN /\ published' = published \cup
                               {[block |-> c.block, from |-> from \cup {a.by}]}
             /\ collector' = [collector EXCEPT ![a.by] = IdleCollector]
        ELSE /\ collector' = [collector EXCEPT ![a.by].from = from]
             /\ UNCHANGED published

\* The answer reaches the requester.
Answer(a) ==
    /\ a.stage \notin {"routed", "sent"}
    /\ asks' = asks \ {a}
    /\ CASE a.stage = "success" /\ Counts(a) -> Endorsed(a) /\ UNCHANGED reset
         [] a.stage = "success" /\ ~Counts(a) -> UNCHANGED <<published, collector, reset>>
         [] a.stage = "indexError" ->
               /\ reset' = [reset EXCEPT ![a.by] = TRUE]
               /\ UNCHANGED <<published, collector>>
         [] OTHER -> collector' = NotedLate(a.by, a.to) /\ UNCHANGED <<published, reset>>
    /\ UNCHANGED <<blocks, chain, vote, blocker, collect, signed, noise>>

\* No answer in time: request or answer is lost, or comes too late to count.
RequestTimeout(a) ==
    /\ a.stage # "routed"
    /\ OneFailure
    /\ asks' = asks \ {a}
    /\ collector' = NotedLate(a.by, a.to)
    /\ UNCHANGED <<blocks, chain, vote, reset, blocker, collect, published,
                   signed>>

\* DelayResendEndorseInfo: ask those noted again, a limited number of times.
DelayResend(n) ==
    LET c == collector[n]
        again == OnTip(c.block, n) /\ c.resends <= ResendTimes
    IN  /\ c.late # {}
        /\ collector' = [collector EXCEPT ![n].late = {},
                                          ![n].resends = IF again THEN @ + 1 ELSE @]
        /\ asks' = asks \cup IF again THEN Requests(n, c.block, c.index, c.late) ELSE {}
        /\ Cardinality(asks') <= schedule.asks
        /\ UNCHANGED <<blocks, chain, vote, reset, blocker, collect, published,
                       signed, failures, restarted>>

-----------------------------------------------------------------------------
(* The endorser.                                                            *)

\* isAllowEndorse: the parent is the block this node drew from, and the drawing
\* named the asking node.
MayEndorse(a) ==
    /\ blocks[a.block].prev = vote[a.to].hash
    /\ vote[a.to].blocker = a.by

\* The answer of the endorser.  A block too high also makes it synchronise,
\* which FetchBlock may do at any time.
EndorseResult(a) ==
    LET e == a.to
    IN  IF MayEndorse(a) THEN "success"
        ELSE IF blocks[a.block].height > Height(e) + 1 THEN "heightError"
        ELSE IF a.block = Tip(e) /\ vote[e].blocker # NoNode /\ a.index # vote[e].index
             THEN "indexError"
        ELSE "unknown"

\* An endorser that has the block and another index has its voter start over.
Endorse(a) ==
    LET r == EndorseResult(a)
    IN  /\ a.stage = "sent"
        /\ asks' = (asks \ {a}) \cup {[a EXCEPT !.stage = r]}
        /\ signed' = IF r = "success" THEN [signed EXCEPT ![a.to] = @ \cup {a.block}]
                                      ELSE signed
        /\ reset' = IF r = "indexError" THEN [reset EXCEPT ![a.to] = TRUE] ELSE reset
        /\ UNCHANGED <<blocks, chain, vote, blocker, collect, collector,
                       published, noise>>

-----------------------------------------------------------------------------
(* The confirmer and the storager.                                          *)

\* checkedOfConfirmBlock and handler: enough signatures, all of them valid.
Valid(m) ==
    /\ EnoughNodes(Cardinality(m.from))
    /\ \A e \in m.from : e = blocks[m.block].maker \/ m.block \in signed[e]

\* A storager that compares the height only.
MutHigher(n, b) == blocks[b].height > Height(n)

\* RestoreBlock: only the next height, on top of the last block.
Fits(n, b) == blocks[b].height = Height(n) + 1 /\ OnTip(b, n)

\* A message that fails these checks has no effect.  The copies of a published
\* block arrive at any time, or never.
ConfirmBlock(n, m) ==
    /\ Valid(m) /\ Fits(n, m.block)
    /\ chain' = [chain EXCEPT ![n] = Append(@, m.block)]
    /\ UNCHANGED <<blocks, vote, reset, blocker, collect, collector, asks, published,
                   signed, noise>>

\* A node that is behind fetches the next block of a chain that extends its own.
FetchBlock(n) ==
    /\ \E m \in Nodes :
          /\ Height(m) > Height(n)
          /\ Fits(n, chain[m][Height(n) + 1])
          /\ chain' = [chain EXCEPT ![n] = Append(@, chain[m][Height(n) + 1])]
    /\ UNCHANGED <<blocks, vote, reset, blocker, collect, collector, asks,
                   published, signed, noise>>

\* The process dies and starts again: what is stored stays, all else is gone.
Restart(n) ==
    /\ n \in schedule.restart \ restarted
    /\ restarted' = restarted \cup {n}
    /\ vote' = [vote EXCEPT ![n] = NoVote]
    /\ reset' = [reset EXCEPT ![n] = FALSE]
    /\ blocker' = [blocker EXCEPT ![n] = IdleBlocker]
    /\ collect' = [collect EXCEPT ![n] = <<>>]
    /\ collector' = [collector EXCEPT ![n] = IdleCollector]
    /\ asks' = {a \in asks : a.by # n}
    /\ UNCHANGED <<blocks, chain, published, signed, failures>>

-----------------------------------------------------------------------------
Init ==
    /\ blocks = <<>>
    /\ chain = [n \in Nodes |-> <<>>]
    /\ vote = [n \in Nodes |-> NoVote]
    /\ reset = [n \in Nodes |-> FALSE]
    /\ blocker = [n \in Nodes |-> IdleBlocker]
    /\ collect = [n \in Nodes |-> <<>>]
    /\ collector = [n \in Nodes |-> IdleCollector]
    /\ asks = {}
    /\ published = {}
    /\ signed = [n \in Nodes |-> {}]
    /\ failures = 0
    /\ restarted = {}
    /\ schedule \in Schedules

Voter(n) == DrawBlocker(n) \/ BlockTimeout(n) \/ ResetVote(n)
Blocker(n) ==
    CreateBlock(n) \/ CollectAgain(n) \/ BuildBlock(n) \/ FinishBlock(n) \/ GiveUpBlock(n)
Collector(n) == CollectEndorsement(n) \/ DelayResend(n)
Request(a) == SendRequest(a) \/ Endorse(a) \/ Answer(a) \/ RequestTimeout(a)
Storager(n) == FetchBlock(n) \/ \E m \in published : ConfirmBlock(n, m)

Step ==
    \/ \E n \in Nodes : Voter(n) \/ Blocker(n) \/ Collector(n) \/ Storager(n) \/ Restart(n)
    \/ \E a \in asks : Request(a)

Next == Step /\ UNCHANGED schedule

Spec == Init /\ [][Next]_vars

-----------------------------------------------------------------------------
(* Properties.                                                              *)

Hashes == 1 .. Len(blocks)

\* Types of the variables; block numbers name built blocks.
TypeOK ==
    /\ blocks \in Seq([prev : 0 .. MaxBlocks, height : Nat, maker : Nodes])
    /\ Len(blocks) <= MaxBlocks
    /\ chain \in [Nodes -> Seq(Hashes)]
    /\ vote \in [Nodes -> [blocker : Nodes \cup {NoNode}, index : Nat \cup {-1},
                           hash : Hashes \cup {Genesis, NoHash}, height : Nat \cup {-1}]]
    /\ reset \in [Nodes -> BOOLEAN]
    /\ blocker \in [Nodes -> [pc : {"idle", "packing", "preloading"},
                              block : Hashes \cup {NoHash}, pre : Hashes \cup {NoHash},
                              index : Nat \cup {-1}]]
    /\ collect \in [Nodes -> Seq([block : Hashes, index : Nat \cup {-1}])]
    /\ collector \in [Nodes -> [block : Hashes \cup {NoHash}, index : Nat \cup {-1},
                                from : SUBSET Nodes, resends : Nat, late : SUBSET Nodes]]
    /\ asks \subseteq [by : Nodes, to : Nodes, block : Hashes, index : Nat \cup {-1},
                       stage : {"routed", "sent", "success", "heightError",
                                "indexError", "unknown"}]
    /\ published \subseteq [block : Hashes, from : SUBSET Nodes]
    /\ signed \in [Nodes -> SUBSET Hashes]
    /\ failures \in 0 .. schedule.failures
    /\ restarted \subseteq schedule.restart
    /\ schedule \in Schedules

\* Two nodes never store different blocks at the same height ("agreement on the
\* order of the transactions and on the results of executing them", README).
Agreement ==
    \A m, n \in Nodes : \A h \in 1 .. Height(m) :
        h <= Height(n) => chain[m][h] = chain[n][h]

\* Lost, late and repeated requests and blocks given up never make two nodes store
\* different blocks at a height: only a voter that times out or a blocker that
\* restarts can.
AgreementUnlessTimedOut ==
    (\A n \in Nodes : schedule.index[n] = 0) /\ restarted = {} => Agreement

\* What a collector publishes, whatever was restarted, resent, answered late or
\* for an earlier block, is accepted by every confirmer.
PublishedIsValid == \A m \in published : Valid(m)

\* A blocker has one block endorsed on a parent, however often the drawing comes
\* back to it and whatever becomes of the collection, unless it restarts.
OneBlockPerParent ==
    \A b, c \in UNION {signed[n] : n \in Nodes} :
        /\ blocks[b].maker = blocks[c].maker /\ blocks[b].prev = blocks[c].prev
        /\ blocks[b].maker \notin restarted
        => b = c

\* The blocks a node has put its signature to.
Vouched(n) == signed[n] \cup {b \in Hashes : blocks[b].maker = n}

\* Any two quorums share a node, so whenever two nodes store different blocks
\* at a height some node has signed both of them.
ForksAreEquivocation ==
    \A m, n \in Nodes : \A h \in 1 .. Height(m) :
        h <= Height(n) => \E e \in Nodes : {chain[m][h], chain[n][h]} \subseteq Vouched(e)

=============================================================================
