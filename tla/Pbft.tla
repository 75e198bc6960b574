-------------------------------- MODULE Pbft --------------------------------
(***************************************************************************)
(* The PBFT consensus of RepChain (network/consensus/pbft).  The nodes of  *)
(* the vote list take turns in a fixed order: the first of them builds the *)
(* block, and whoever waits too long for it turns to the next.  A block is *)
(* pre-prepared by requesters, one for each node; a node that accepts it   *)
(* sends a prepare to all, one that has counted two prepares sends a       *)
(* commit to all, one that has counted three commits replies to a          *)
(* requester, and a requester that has counted two replies has the block   *)
(* published.  The three numbers are written for four nodes, one of which  *)
(* may fail.                                                               *)
(*                                                                         *)
(* What is counted are messages about the block at hand, whoever sent      *)
(* them: a message about another block starts the count anew.  So a buffer *)
(* is modelled as a block and a number, and messages under way by the      *)
(* number that have not reached a node yet.  An actor that passes what it  *)
(* has checked to a local one is modelled as doing both.                   *)
(*                                                                         *)
(* A block hash is the number of the block in the order of creation.       *)
(***************************************************************************)
EXTENDS Integers, Sequences, FiniteSets

CONSTANTS Order,        \* the nodes of the vote list, sorted
          Requesters,   \* the actors that pre-prepare blocks, of each node
          MaxBlocks,    \* bound: blocks built
          Schedules     \* bound: what may happen in a behaviour, one of these

Nodes == {Order[i] : i \in DOMAIN Order}

\* A schedule bounds the height below which nodes vote and the vote index each node
\* reaches; it tells the nodes that are down and those that may restart (once each),
\* which requester serves which node, and how many messages are passed over and
\* blocks given up or refused.
ScheduleRecords ==
    [height : Nat, index : [Nodes -> Nat], down : SUBSET Nodes, restart : SUBSET Nodes,
     route : [Nodes -> Requesters], losses : Nat, failures : Nat]

ASSUME PbftAssumption ==
    /\ Order \in Seq(Nodes) /\ Order # <<>>
    /\ \A i, j \in DOMAIN Order : Order[i] = Order[j] => i = j
    /\ MaxBlocks \in Nat
    /\ Schedules \subseteq ScheduleRecords

VARIABLES blocks,     \* the blocks built so far: [prev, height, maker]
          chain,      \* stored blocks of each node above the genesis block
          vote,       \* pe.getBlocker: index and parent of the last drawing
          packing,    \* the nodes whose blocker is building a block
          preblock,   \* the block each blocker has built last
          collect,    \* the CollectEndorsement message waiting for the collector
          collector,  \* the block each collector works for
          waiting,    \* pre-prepares under way, and those to be sent again: <<block, node>>
          verifying,  \* blocks accepted that are being verified: <<block, node>>
          prepared,   \* prepares sent: <<block, node>>
          committed,  \* commits sent: <<block, node>>
          replies,    \* number of replies under way to each requester, for each block
          heard,      \* number of prepares and commits that have reached a node
          buffer,     \* recvedHash and size of recvedPrepares and recvedCommits
          counter,    \* recvedHash and size of recvedReplies, of each requester
          published,  \* the blocks published
          mishaps,    \* messages passed over, blocks given up or refused, counts wiped
          restarted,  \* the nodes that have restarted
          schedule    \* what may happen in this behaviour

building == <<blocks, packing, preblock, collect>>
messages == <<waiting, verifying, prepared, committed, replies>>
counting == <<heard, buffer, counter>>
noise == <<mishaps, restarted>>
vars == <<building, chain, vote, collector, messages, counting, published, noise, schedule>>

-----------------------------------------------------------------------------
(* Data.                                                                    *)

Genesis == 0
NoHash == -1
Hashes == 1 .. Len(blocks)
AllHashes == 1 .. MaxBlocks

Up == Nodes \ schedule.down

NoVote == [index |-> -1, hash |-> NoHash]
Empty == [block |-> NoHash, count |-> 0]

Height(n) == Len(chain[n])
Tip(n) == IF chain[n] = <<>> THEN Genesis ELSE chain[n][Height(n)]
OnTip(b, n) == blocks[b].prev = Tip(n)
HeightOf(h) == IF h = Genesis THEN 0 ELSE blocks[h].height

\* ISequencialAlgorithmOfVote.blocker
BlockerAt(i) == Order[(i % Len(Order)) + 1]

\* Who has sent a prepare or commit for block b.
SendersOf(kind, b) ==
    {n \in Nodes : <<b, n>> \in IF kind = "prepare" THEN prepared ELSE committed}

\* A prepare or commit for block b that is still on its way to node n.
Underway(kind, b, n) == heard[n][kind][b] < Cardinality(SendersOf(kind, b))
Hears(kind, b, n) == heard' = [heard EXCEPT ![n][kind][b] = @ + 1]

-----------------------------------------------------------------------------
(* The voter.                                                               *)

CanDraw(n) == vote[n].hash # Tip(n) /\ Height(n) < schedule.height

\* The block at the tip is not the one of the last drawing: the first node's turn.
DrawBlocker(n) ==
    /\ CanDraw(n)
    /\ vote' = [vote EXCEPT ![n] = [index |-> 0, hash |-> Tip(n)]]
    /\ UNCHANGED <<building, chain, collector, messages, counting, published, noise>>

\* The blocker takes too long, or is no stable node: the next one's turn.
BlockTimeout(n) ==
    /\ vote[n].hash = Tip(n) /\ Height(n) < schedule.height
    /\ vote[n].index < schedule.index[n]
    /\ vote' = [vote EXCEPT ![n].index = @ + 1]
    /\ UNCHANGED <<building, chain, collector, messages, counting, published, noise>>

-----------------------------------------------------------------------------
(* The blocker and the collector.                                           *)

\* One that does not remember what it built.
MutNeedsBlock(n) == TRUE

\* One block for each parent: it is never built, nor sent, again.
NeedsBlock(n) ==
    preblock[n] # NoHash => blocks[preblock[n]].prev # vote[n].hash

CanCreate(n) ==
    /\ n \notin packing
    /\ vote[n].hash = Tip(n) /\ BlockerAt(vote[n].index) = n
    /\ NeedsBlock(n)

\* It is this node's turn.  The voter repeats CreateBlock while it is.
CreateBlock(n) ==
    /\ CanCreate(n)
    /\ packing' = packing \cup {n}
    /\ UNCHANGED <<blocks, preblock, collect, chain, vote, collector, messages, counting,
                   published, noise>>

CanBuild(n) == n \in packing /\ Len(blocks) < MaxBlocks /\ vote[n].hash # NoHash

\* PackedBlock: the voting result is read again after the transactions are collected.
BuildBlock(n) ==
    LET b == Len(blocks) + 1
    IN  /\ CanBuild(n)
        /\ blocks' = Append(blocks, [prev |-> vote[n].hash, maker |-> n,
                                     height |-> HeightOf(vote[n].hash) + 1])
        /\ packing' = packing \ {n}
        /\ preblock' = [preblock EXCEPT ![n] = b]
        /\ collect' = [collect EXCEPT ![n] = b]
        /\ UNCHANGED <<chain, vote, collector, messages, counting, published, noise>>

\* Too few transactions, or their execution fails.
GiveUpBlock(n) ==
    /\ n \in packing /\ mishaps < schedule.failures
    /\ packing' = packing \ {n}
    /\ mishaps' = mishaps + 1
    /\ UNCHANGED <<blocks, preblock, collect, chain, vote, collector, messages, counting,
                   published, restarted>>

\* A block on the tip is pre-prepared by all stable nodes.  The blocker's own request
\* has no effect and is left out.
CollectEndorsement(n) ==
    LET b == collect[n]
        takes == b # collector[n] /\ OnTip(b, n)
    IN  /\ b # NoHash
        /\ collect' = [collect EXCEPT ![n] = NoHash]
        /\ collector' = IF takes THEN [collector EXCEPT ![n] = b] ELSE collector
        /\ waiting' = waiting \cup IF takes THEN {b} \X (Nodes \ {n}) ELSE {}
        /\ UNCHANGED <<blocks, packing, preblock, chain, vote, verifying, prepared,
                       committed, replies, counting, published, noise>>

-----------------------------------------------------------------------------
(* The endorsers: pre-prepare, prepare and commit.                          *)

\* CheckMessage and CheckMessage2 ask the voter's last result.
Agrees(n, b) ==
    vote[n].hash = blocks[b].prev /\ BlockerAt(vote[n].index) = blocks[b].maker

CanAccept(n, b) ==
    /\ <<b, n>> \in waiting
    /\ blocks[b].height <= Height(n) + 1 /\ Agrees(n, b)

\* A pre-prepare that is refused is sent again, until the node agrees.
AcceptPrePrepare(n, b) ==
    /\ CanAccept(n, b)
    /\ waiting' = waiting \ {<<b, n>>}
    /\ verifying' = verifying \cup {<<b, n>>}
    /\ UNCHANGED <<building, chain, vote, collector, prepared, committed, replies, counting,
                   published, noise>>

\* The transactions have been verified, whatever the voter says by now.
Prepare(n, b) ==
    /\ <<b, n>> \in verifying
    /\ verifying' = verifying \ {<<b, n>>}
    /\ prepared' = prepared \cup {<<b, n>>}
    /\ UNCHANGED <<building, chain, vote, collector, waiting, committed, replies, counting,
                   published, noise>>

\* They have not, and the pre-prepare is sent again; or the wait for the result ends
\* in an exception, and it is lost.
RefuseBlock(n, b) ==
    /\ <<b, n>> \in verifying /\ mishaps < schedule.failures
    /\ verifying' = verifying \ {<<b, n>>}
    /\ waiting' \in {waiting, waiting \cup {<<b, n>>}}
    /\ mishaps' = mishaps + 1
    /\ UNCHANGED <<building, chain, vote, collector, prepared, committed, replies, counting,
                   published, restarted>>

\* A prepare or commit is at hand, and the voter agrees with it.
CanCount(kind, n, b) == Underway(kind, b, n) /\ Agrees(n, b)

\* A count that does not start anew.
MutCounted(buf, b) == [block |-> b, count |-> buf.count + 1]

\* A message about block b is counted.
Counted(buf, b) == [block |-> b, count |-> IF buf.block = b THEN buf.count + 1 ELSE 1]

\* The buffer is not cleared.
MutReceivePrepare(n, b) ==
    LET buf == Counted(buffer[n].prepare, b)
        enough == buf.count >= 2
    IN  /\ CanCount("prepare", n, b)
        /\ Hears("prepare", b, n)
        /\ buffer' = [buffer EXCEPT ![n].prepare = buf]
        /\ committed' = IF enough THEN committed \cup {<<b, n>>} ELSE committed
        /\ UNCHANGED <<building, chain, vote, collector, waiting, verifying, prepared, replies,
                       counter, published, mishaps, restarted>>

\* Two prepares make a commit.
ReceivePrepare(n, b) ==
    LET buf == Counted(buffer[n].prepare, b)
        enough == buf.count >= 2
    IN  /\ CanCount("prepare", n, b)
        /\ Hears("prepare", b, n)
        /\ buffer' = [buffer EXCEPT ![n].prepare = IF enough THEN Empty ELSE buf]
        /\ committed' = IF enough THEN committed \cup {<<b, n>>} ELSE committed
        /\ UNCHANGED <<building, chain, vote, collector, waiting, verifying, prepared, replies,
                       counter, published, noise>>

\* One commit is enough, and the reply goes to the node's own requester.
MutReceiveCommit(n, b) ==
    LET buf == Counted(buffer[n].commit, b)
        enough == buf.count >= 1
    IN  /\ CanCount("commit", n, b)
        /\ Hears("commit", b, n)
        /\ buffer' = [buffer EXCEPT ![n].commit = IF enough THEN Empty ELSE buf]
        /\ replies' = IF enough THEN [replies EXCEPT ![b][schedule.route[n]] = @ + 1]
                      ELSE replies
        /\ UNCHANGED <<building, chain, vote, collector, waiting, verifying, prepared, committed,
                       counter, published, noise>>

\* Three commits make a reply.  It goes to the requester that served the sender of a
\* prepare, the one that the last of the commits has from the last of its prepares.
ReceiveCommit(n, b) ==
    LET buf == Counted(buffer[n].commit, b)
        enough == buf.count >= 3
    IN  /\ CanCount("commit", n, b)
        /\ Hears("commit", b, n)
        /\ buffer' = [buffer EXCEPT ![n].commit = IF enough THEN Empty ELSE buf]
        /\ IF enough
           THEN \E p \in SendersOf("prepare", b) :
                   replies' = [replies EXCEPT ![b][schedule.route[p]] = @ + 1]
           ELSE UNCHANGED replies
        /\ UNCHANGED <<building, chain, vote, collector, waiting, verifying, prepared, committed,
                       counter, published, noise>>

\* A prepare or commit that comes while the voter says otherwise is gone.
PassOver(n, b, kind) ==
    /\ Underway(kind, b, n) /\ ~Agrees(n, b) /\ mishaps < schedule.losses
    /\ Hears(kind, b, n)
    /\ mishaps' = mishaps + 1
    /\ UNCHANGED <<building, chain, vote, collector, messages, buffer, counter, published,
                   restarted>>

-----------------------------------------------------------------------------
(* The requesters, the confirmer and the storager.                          *)

CanTakeReply(n, b, r) == blocks[b].maker = n /\ replies[b][r] > 0

\* Requesters that wait for three replies.
MutReceiveReply(n, b, r) ==
    LET c == Counted(counter[n][r], b)
        enough == c.count >= 3
        wipes == counter[n][r].block > b
        publishes == enough /\ collector[n] = b /\ OnTip(b, n)
    IN  /\ CanTakeReply(n, b, r)
        /\ replies' = [replies EXCEPT ![b][r] = @ - 1]
        /\ counter' = [counter EXCEPT ![n][r] = IF enough THEN Empty ELSE c]
        /\ published' = IF publishes THEN published \cup {b} ELSE published
        /\ collector' = IF publishes THEN [collector EXCEPT ![n] = NoHash] ELSE collector
        /\ mishaps' = IF wipes THEN mishaps + 1 ELSE mishaps
        /\ UNCHANGED <<building, chain, vote, waiting, verifying, prepared, committed, heard,
                       buffer, restarted>>

\* Two replies to the same requester, and the collector publishes the block if it still
\* works for it.  A late reply about an older block wipes the count for a newer one.
ReceiveReply(n, b, r) ==
    LET c == Counted(counter[n][r], b)
        enough == c.count >= 2
        wipes == counter[n][r].block > b
        publishes == enough /\ collector[n] = b /\ OnTip(b, n)
    IN  /\ CanTakeReply(n, b, r)
        /\ replies' = [replies EXCEPT ![b][r] = @ - 1]
        /\ counter' = [counter EXCEPT ![n][r] = IF enough THEN Empty ELSE c]
        /\ published' = IF publishes THEN published \cup {b} ELSE published
        /\ collector' = IF publishes THEN [collector EXCEPT ![n] = NoHash] ELSE collector
        /\ mishaps' = IF wipes THEN mishaps + 1 ELSE mishaps
        /\ UNCHANGED <<building, chain, vote, waiting, verifying, prepared, committed, heard,
                       buffer, restarted>>

CanStore(n, b) == b \in published /\ OnTip(b, n)

\* The confirmer asks for two replies, which every published block has; the storager
\* for the next block on the tip.
ConfirmBlock(n, b) ==
    /\ CanStore(n, b)
    /\ chain' = [chain EXCEPT ![n] = Append(@, b)]
    /\ UNCHANGED <<building, vote, collector, messages, counting, published, noise>>

-----------------------------------------------------------------------------

\* The process dies and starts again: what is stored stays, all else is gone, and so
\* are the prepares and commits that were on their way.
Restart(n) ==
    /\ n \in schedule.restart \ restarted
    /\ restarted' = restarted \cup {n}
    /\ vote' = [vote EXCEPT ![n] = NoVote]
    /\ packing' = packing \ {n}
    /\ preblock' = [preblock EXCEPT ![n] = NoHash]
    /\ collect' = [collect EXCEPT ![n] = NoHash]
    /\ collector' = [collector EXCEPT ![n] = NoHash]
    /\ verifying' = {v \in verifying : v[2] # n}
    /\ heard' = [heard EXCEPT ![n] =
                    [kind \in {"prepare", "commit"} |->
                        [b \in AllHashes |-> Cardinality(SendersOf(kind, b))]]]
    /\ buffer' = [buffer EXCEPT ![n] = [prepare |-> Empty, commit |-> Empty]]
    /\ counter' = [counter EXCEPT ![n] = [r \in Requesters |-> Empty]]
    /\ UNCHANGED <<blocks, chain, waiting, prepared, committed, replies, published, mishaps>>

Init ==
    /\ blocks = <<>> /\ packing = {}
    /\ chain = [n \in Nodes |-> <<>>]
    /\ vote = [n \in Nodes |-> NoVote]
    /\ preblock = [n \in Nodes |-> NoHash]
    /\ collect = [n \in Nodes |-> NoHash]
    /\ collector = [n \in Nodes |-> NoHash]
    /\ waiting = {} /\ verifying = {} /\ prepared = {} /\ committed = {} /\ published = {}
    /\ replies = [b \in AllHashes |-> [r \in Requesters |-> 0]]
    /\ heard = [n \in Nodes |-> [kind \in {"prepare", "commit"} |-> [b \in AllHashes |-> 0]]]
    /\ buffer = [n \in Nodes |-> [prepare |-> Empty, commit |-> Empty]]
    /\ counter = [n \in Nodes |-> [r \in Requesters |-> Empty]]
    /\ mishaps = 0 /\ restarted = {}
    /\ schedule \in Schedules

\* What a node does with what is there, and what may happen to it.
Works(n) ==
    \/ DrawBlocker(n) \/ CreateBlock(n) \/ BuildBlock(n) \/ CollectEndorsement(n)
    \/ \E b \in Hashes :
          \/ AcceptPrePrepare(n, b) \/ Prepare(n, b)
          \/ ReceivePrepare(n, b) \/ ReceiveCommit(n, b) \/ ConfirmBlock(n, b)
          \/ \E r \in Requesters : ReceiveReply(n, b, r)
Suffers(n) ==
    \/ BlockTimeout(n) \/ GiveUpBlock(n) \/ Restart(n)
    \/ \E b \in Hashes :
          RefuseBlock(n, b) \/ \E kind \in {"prepare", "commit"} : PassOver(n, b, kind)

Next == (\E n \in Up : Works(n) \/ Suffers(n)) /\ UNCHANGED schedule

Spec == Init /\ [][Next]_vars

-----------------------------------------------------------------------------
(* Properties.                                                              *)

Buffers(max) == [block : Hashes \cup {NoHash}, count : 0 .. max]

\* Types of the variables; no buffer keeps as many messages as it waits for, and no
\* message is counted that was not sent.
TypeOK ==
    /\ blocks \in Seq([prev : 0 .. MaxBlocks, height : Nat, maker : Nodes])
    /\ Len(blocks) <= MaxBlocks
    /\ chain \in [Nodes -> Seq(Hashes)]
    /\ vote \in [Nodes -> [index : Nat \cup {-1}, hash : Hashes \cup {Genesis, NoHash}]]
    /\ packing \subseteq Nodes
    /\ preblock \in [Nodes -> Hashes \cup {NoHash}]
    /\ collect \in [Nodes -> Hashes \cup {NoHash}]
    /\ collector \in [Nodes -> Hashes \cup {NoHash}]
    /\ waiting \cup verifying \cup prepared \cup committed \subseteq Hashes \X Nodes
    /\ published \subseteq Hashes
    /\ replies \in [AllHashes -> [Requesters -> Nat]]
    /\ buffer \in [Nodes -> [prepare : Buffers(1), commit : Buffers(2)]]
    /\ counter \in [Nodes -> [Requesters -> Buffers(1)]]
    /\ \A n \in Nodes, kind \in {"prepare", "commit"}, b \in AllHashes :
          heard[n][kind][b] \in 0 .. Cardinality(SendersOf(kind, b))
    /\ mishaps \in Nat /\ restarted \subseteq schedule.restart
    /\ schedule \in Schedules

Agreement ==
    \A m, n \in Nodes : \A h \in 1 .. Height(m) :
        h <= Height(n) => chain[m][h] = chain[n][h]

Rivals(b, c) == b # c /\ blocks[b].prev = blocks[c].prev

TimedOut == \E n \in Nodes : schedule.index[n] > 0

\* Delayed and lost messages, blocks refused or given up, nodes that are down and
\* endorsers that restart never make nodes prepare, let alone store, different blocks on
\* a parent: only a voter that times out or a blocker that restarts can.
AgreementUnlessTimedOut ==
    ~TimedOut => /\ \A v, w \in prepared :
                       Rivals(v[1], w[1]) => blocks[v[1]].maker \in restarted
                 /\ restarted = {} => Agreement

\* Whatever blocks were counted in turns, a block is published only if two nodes other
\* than its blocker have prepared it and three have committed to it, and so has every
\* block below it.
PublishedHasCertificate ==
    \A b \in published :
        /\ Cardinality(SendersOf("prepare", b) \ {blocks[b].maker}) >= 2
        /\ Cardinality(SendersOf("commit", b)) >= 3
        /\ blocks[b].prev \in published \cup {Genesis}

\* A node that replies has counted enough commits for it.
Certified(b) == b \in published \/ \E r \in Requesters : replies[b][r] > 0

\* When two blocks on the same parent get a certificate, voters having timed out, some
\* node has committed to both.
ForksAreDoubleCommits ==
    \A b, c \in Hashes :
        Rivals(b, c) /\ Certified(b) /\ Certified(c) =>
            SendersOf("commit", b) \cap SendersOf("commit", c) # {}

Quiet == ~TimedOut /\ restarted = {} /\ mishaps = 0

\* What there is to do for a node: the guards of Works.
HasWork(n) ==
    \/ CanDraw(n) \/ CanCreate(n) \/ CanBuild(n) \/ collect[n] # NoHash
    \/ \E b \in Hashes :
          \/ CanAccept(n, b) \/ <<b, n>> \in verifying
          \/ CanCount("prepare", n, b) \/ CanCount("commit", n, b) \/ CanStore(n, b)
          \/ \E r \in Requesters : CanTakeReply(n, b, r)

\* If nobody times out, nobody restarts, no message is passed over and no late reply
\* wipes a count, nodes do not come to rest before all that are up have stored the
\* blocks, although one other than the blocker may be down and the replies are spread
\* over the requesters.  Each step of Works uses up a message or a stage, so it
\* cannot go on for ever instead.
RestsWhenDone ==
    Quiet => (\E n \in Up : HasWork(n)) \/ \A n \in Up : Height(n) = schedule.height

=============================================================================
